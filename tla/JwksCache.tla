----------------------------- MODULE JwksCache ------------------------------
(* The provider's keys as CachingJwks serves them: a request that finds them stale fetches the document *)
(* under the lock of the cache, so refreshes come one after the other.                                    *)
EXTENDS Access

CONSTANTS
    Ttl,            \* lifetime of the cached keys
    MaxNow,         \* bound on the clock
    KeySets         \* what the provider may publish: sequences of keys

ASSUME JwksAssumption == Ttl \in Nat

VARIABLES
    now,
    published,      \* history: what the provider published at each time
    cached,         \* CacheInner.jwks
    fetched_at,     \* CacheInner.fetched_at
    answer          \* of the last refresh: the keys served, when, and what the fetch met

jwksVars == <<now, published, cached, fetched_at, answer>>

JwksInit ==
    /\ now = 0 /\ fetched_at = 0 - Ttl
    /\ \E keys \in KeySets : cached = UsableKeys(keys) /\ published = <<keys>>
    /\ answer = [met |-> "nothing", keys |-> <<>>, at |-> 0]

\* Time passes and the provider may publish other keys.
Passes ==
    /\ now < MaxNow /\ now' = now + 1
    /\ \E keys \in KeySets : published' = Append(published, keys)
    /\ UNCHANGED <<cached, fetched_at, answer>>

\* Slips a change of the code could make, for the mutation runs.
StaleNever == now - fetched_at > MaxNow + Ttl
StaleLate == now - fetched_at > Ttl + 1

Stale == now - fetched_at >= Ttl
Answer(met, keys) == answer' = [met |-> met, keys |-> keys, at |-> now]

\* refresh: a document replaces the set, a document without usable keys keeps it, a failed fetch fails the request.
RefreshFresh == ~Stale /\ Answer("cache", cached) /\ UNCHANGED <<now, published, cached, fetched_at>>
RefreshFetched ==
    /\ Stale /\ UsableKeys(published[now + 1]) # <<>>
    /\ cached' = UsableKeys(published[now + 1]) /\ fetched_at' = now
    /\ Answer("document", cached')
    /\ UNCHANGED <<now, published>>
RefreshMalformed == Stale /\ Answer("malformed", cached) /\ UNCHANGED <<now, published, cached, fetched_at>>
RefreshFailed == Stale /\ Answer("failure", <<>>) /\ UNCHANGED <<now, published, cached, fetched_at>>

JwksNext == Passes \/ RefreshFresh \/ RefreshFetched \/ RefreshMalformed \/ RefreshFailed
JwksSpec == JwksInit /\ [][JwksNext]_jwksVars

-----------------------------------------------------------------------------
(* properties *)

\* Keys served from the cache or a document are keys the provider published less than a lifetime ago; only a
\* broken document lets a request use older ones, and those were published once (CachingJwks::refresh).
KeysFresh ==
    LET since == IF answer.met = "malformed" THEN 0 ELSE answer.at - Ttl + 1
    IN  answer.met \in {"nothing", "failure"} \/
        \E t \in 0..answer.at : (t >= since \/ t = answer.at) /\ answer.keys = UsableKeys(published[t + 1])
=============================================================================
