----------------------------- MODULE TxnManager -----------------------------
(***************************************************************************)
(* The transaction manager of the ontolith-transaction crate               *)
(* (infrastructure/mod.rs, InMemoryTransactionManager).                    *)
(*                                                                         *)
(* Every operation of the manager runs under the write lock of its state,  *)
(* so an operation is one action; the clock is an atomic of its own that   *)
(* moves between them.  Transactions are never removed from the table, so  *)
(* DOMAIN txns is the set of every id begun so far.  The mode of a         *)
(* transaction (read-only, read-write) steers nothing and is left out.     *)
(***************************************************************************)
EXTENDS Integers, FiniteSets, Functions

CONSTANTS
    MaxActive,   \* begin refuses when this many transactions are active
    Timeouts,    \* the timeouts callers ask for, in milliseconds
    ClockMax,    \* greatest value of the unsigned clock: 2^64 - 1 in the code
    MaxTxns,     \* bound: transactions begun in a behaviour
    MaxRejected  \* bound: begins refused in a behaviour

ASSUME MaxActiveAssumption == MaxActive \in Nat
ASSUME ClockAssumption     == ClockMax \in Nat /\ Timeouts \subseteq 0..ClockMax
ASSUME BoundsAssumption    == MaxTxns \in Nat /\ MaxRejected \in Nat

VARIABLES
    txns,          \* [ids begun -> TxnState]
    deadlines_ms,  \* [some ids -> the time at which they expire]
    next_id,       \* the id the next begin allocates
    clock_ms,
    metrics        \* the five lifecycle counters

vars == <<txns, deadlines_ms, next_id, clock_ms, metrics>>

TxnState == {"Active", "Committed", "Aborted"}
Counter  == {"begun", "begin_rejected", "committed", "aborted", "expired_cleaned"}
None     == -1   \* begin without a timeout

InState(s) == {id \in DOMAIN txns : txns[id] = s}
ActiveTxns == InState("Active")

\* Slips a change of the code could make, for the mutation runs: each takes
\* the place of the definition after it.
ExpiredWithoutDeadline(id, now) == id \notin DOMAIN deadlines_ms \/ deadlines_ms[id] <= now
UncheckedAdd(a, b)              == a + b
KeepDeadline(id)                == deadlines_ms' = deadlines_ms
MayAbortExpired(id)             == txns[id] = "Active" \/ txns[id] = "Committed"

Expired(id, now) == id \in DOMAIN deadlines_ms /\ deadlines_ms[id] <= now

SaturatingAdd(a, b) == IF a + b > ClockMax THEN ClockMax ELSE a + b

Full == Cardinality(ActiveTxns) >= MaxActive

Without(f, S) == Restrict(f, DOMAIN f \ S)
With(f, k, v) == [x \in DOMAIN f \cup {k} |-> IF x = k THEN v ELSE f[x]]

DropDeadline(id) == deadlines_ms' = Without(deadlines_ms, {id})
MayAbort(id)     == txns[id] = "Active"

-----------------------------------------------------------------------------
Init ==
    /\ txns = [id \in {} |-> "Active"]
    /\ deadlines_ms = [id \in {} |-> 0]
    /\ next_id = 1
    /\ clock_ms = 0
    /\ metrics = [c \in Counter |-> 0]

BeginRejected ==
    /\ metrics.begin_rejected < MaxRejected
    /\ Full
    /\ metrics' = [metrics EXCEPT !.begin_rejected = @ + 1]
    /\ UNCHANGED <<txns, deadlines_ms, next_id, clock_ms>>

BeginAccepted(timeout) ==
    /\ next_id <= MaxTxns
    /\ ~Full
    /\ txns' = With(txns, next_id, "Active")
    /\ deadlines_ms' = IF timeout = None THEN deadlines_ms
                       ELSE With(deadlines_ms, next_id, SaturatingAdd(clock_ms, timeout))
    /\ next_id' = next_id + 1
    /\ metrics' = [metrics EXCEPT !.begun = @ + 1]
    /\ UNCHANGED clock_ms

\* begin and begin_with_timeout.
Begin(timeout) == BeginRejected \/ BeginAccepted(timeout)

\* A commit that finds the deadline passed aborts the transaction and fails;
\* no counter moves.
CommitExpired(id) ==
    /\ Expired(id, clock_ms)
    /\ txns' = [txns EXCEPT ![id] = "Aborted"]
    /\ DropDeadline(id)
    /\ UNCHANGED <<next_id, clock_ms, metrics>>

CommitActive(id) ==
    /\ ~Expired(id, clock_ms)
    /\ txns[id] = "Active"
    /\ txns' = [txns EXCEPT ![id] = "Committed"]
    /\ DropDeadline(id)
    /\ metrics' = [metrics EXCEPT !.committed = @ + 1]
    /\ UNCHANGED <<next_id, clock_ms>>

\* Committing a transaction that is already finished changes nothing.
Commit(id) == CommitExpired(id) \/ CommitActive(id)

\* abort does not look at the deadline.
Abort(id) ==
    /\ MayAbort(id)
    /\ txns' = [txns EXCEPT ![id] = "Aborted"]
    /\ DropDeadline(id)
    /\ metrics' = [metrics EXCEPT !.aborted = @ + 1]
    /\ UNCHANGED <<next_id, clock_ms>>

\* The time is the caller's argument, not the manager's clock.
CleanupExpired(now) ==
    LET expired == {id \in DOMAIN deadlines_ms : Expired(id, now)} IN
    /\ expired # {}
    /\ txns' = [id \in DOMAIN txns |->
                   IF id \in expired /\ txns[id] = "Active" THEN "Aborted" ELSE txns[id]]
    /\ deadlines_ms' = Without(deadlines_ms, expired)
    /\ metrics' = [metrics EXCEPT !.expired_cleaned = @ + Cardinality(expired)]
    /\ UNCHANGED <<next_id, clock_ms>>

\* fetch_add on an unsigned word: it wraps.
AdvanceClock(delta) ==
    /\ clock_ms' = (clock_ms + delta) % (ClockMax + 1)
    /\ UNCHANGED <<txns, deadlines_ms, next_id, metrics>>

Next ==
    \/ \E timeout \in Timeouts \cup {None} : Begin(timeout)
    \/ \E id \in DOMAIN txns : Commit(id) \/ Abort(id)
    \/ \E now \in 0..ClockMax : CleanupExpired(now)
    \/ \E delta \in 1..ClockMax : AdvanceClock(delta)

Spec == Init /\ [][Next]_vars

-----------------------------------------------------------------------------
TypeOK ==
    /\ next_id \in Nat \ {0}
    /\ txns \in [1..(next_id - 1) -> TxnState]
    /\ DOMAIN deadlines_ms \subseteq DOMAIN txns
    /\ deadlines_ms \in [DOMAIN deadlines_ms -> 0..ClockMax]
    /\ clock_ms \in 0..ClockMax
    /\ metrics \in [Counter -> Nat]

\* A deadline is kept only while its transaction is active: every way out of
\* Active (commit, expired commit, abort, cleanup) also removes the deadline.
\* cleanup_expired relies on it, it counts every deadline it removes as a
\* transaction it aborted (infrastructure/mod.rs 225-251).
DeadlinesOnlyActive == DOMAIN deadlines_ms \subseteq ActiveTxns

\* The admission limit holds whatever the order of begins, commits, aborts
\* and cleanups (infrastructure/mod.rs 78-87).
ActiveBounded == Cardinality(ActiveTxns) <= MaxActive

\* The lifecycle counters never disagree with the table they summarise: what
\* was begun is in the table, every Committed transaction was counted once,
\* and no Aborted transaction was counted twice (a commit that meets its
\* deadline is counted nowhere, so this one is an inequality).
MetricsAgree ==
    /\ metrics.begun = Cardinality(DOMAIN txns)
    /\ metrics.committed = Cardinality(InState("Committed"))
    /\ metrics.aborted + metrics.expired_cleaned <= Cardinality(InState("Aborted"))

\* A finished transaction keeps its outcome: no later commit, abort, cleanup
\* or reused id turns Committed into Aborted or brings either back to Active.
OutcomeFinal ==
    [][\A id \in DOMAIN txns :
          txns[id] # "Active" => id \in DOMAIN txns' /\ txns'[id] = txns[id]]_vars

\* A transaction begun without a timeout is never aborted behind its owner's
\* back: neither the clock nor cleanup_expired ends it, only abort does.
NoDeadlineNoTimeout ==
    [][\A id \in ActiveTxns \ DOMAIN deadlines_ms :
          txns'[id] = "Aborted" => metrics'.aborted = metrics.aborted + 1]_vars
=============================================================================
