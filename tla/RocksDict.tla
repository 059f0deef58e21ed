----------------------------- MODULE RocksDict ------------------------------
(* The dictionary of the RocksDB engine: subjects get numbers when they are *)
(* read, statements keep the number, and garbage collection drops the       *)
(* numbers that nothing refers to.  encode_node takes no lock.              *)
EXTENDS Integers, FiniteSets

CONSTANTS
    Values,         \* what is encoded
    Encoders,       \* threads that encode a value and stage a statement about it
    MaxId,
    MaxReopens,     \* bound on restarts
    MaxMishaps      \* bound on failing dictionary writes, collections and clears

VARIABLES
    dict,           \* the families: [fwd, rev, next (META_NEXT_NODE), epoch]
    next_node,      \* next_node_id
    encoder,        \* of each thread <<>>, or its step, value and id
    staged, kept,   \* references <<id, value>> of pending writes; of data and retained versions
    sweep,          \* a collection or a clear under the commit lock
    reopens, mishaps,
    shaken,         \* history: values an encode, sweep, clear or restart interfered with
    behind          \* history: META_NEXT_NODE was written smaller than it was, or not at all

dictVars == <<dict, next_node, encoder, staged, kept, sweep, reopens, mishaps, shaken, behind>>

NoSweep == [step |-> "none"]
Held(step, v, id) == [step |-> step, value |-> v, id |-> id]
EmptyDict == [fwd |-> <<>>, rev |-> <<>>, next |-> 1, epoch |-> 0]
Put(f, x, y) == [z \in DOMAIN f \cup {x} |-> IF z = x THEN y ELSE f[z]]
Drop(f, xs) == [z \in DOMAIN f \ xs |-> f[z]]

At(step) == {t \in Encoders : encoder[t] # <<>> /\ encoder[t].step = step}
ValuesAt(step) == {encoder[t].value : t \in At(step)}
HeldRefs == {<<encoder[t].id, encoder[t].value>> : t \in At("has")}
References == staged \cup kept \cup HeldRefs

DictInit ==
    /\ dict = EmptyDict /\ next_node = 1
    /\ encoder = [t \in Encoders |-> <<>>]
    /\ staged = {} /\ kept = {} /\ sweep = NoSweep
    /\ reopens = 0 /\ mishaps = 0 /\ shaken = {} /\ behind = FALSE

\* Two threads that miss the same value each take a number for it.
LookUp(t, v) ==
    /\ encoder[t] = <<>>
    /\ encoder' = [encoder EXCEPT ![t] = IF v \in DOMAIN dict.fwd THEN Held("has", v, dict.fwd[v]) ELSE Held("missed", v, 0)]
    /\ shaken' = IF \/ v \notin DOMAIN dict.fwd /\ v \in ValuesAt("missed") \cup ValuesAt("numbered")
                    \/ v \in DOMAIN dict.fwd /\ sweep # NoSweep
                 THEN shaken \cup {v} ELSE shaken
    /\ UNCHANGED <<dict, next_node, staged, kept, sweep, reopens, mishaps, behind>>

TakeNumber(t) ==
    /\ t \in At("missed") /\ next_node <= MaxId
    /\ encoder' = [encoder EXCEPT ![t] = Held("numbered", @.value, next_node)]
    /\ next_node' = next_node + 1
    /\ UNCHANGED <<dict, staged, kept, sweep, reopens, mishaps, shaken, behind>>

\* Mutant: the next number is not written along.
EncodedOnly(v, id) == [dict EXCEPT !.fwd = Put(@, v, id), !.rev = Put(@, id, v)]
Encoded(v, id) == [dict EXCEPT !.fwd = Put(@, v, id), !.rev = Put(@, id, v), !.next = id + 1]

\* The result of the write is dropped; the number is returned either way.
WriteEntry(t, fails) ==
    /\ t \in At("numbered")
    /\ LET v == encoder[t].value
           id == encoder[t].id
       IN  /\ dict' = IF fails THEN dict ELSE Encoded(v, id)
           /\ behind' = IF fails THEN TRUE ELSE id + 1 < dict.next \/ (behind /\ id + 1 # next_node)
           /\ encoder' = [encoder EXCEPT ![t] = Held("has", v, id)]
           /\ shaken' = IF fails \/ sweep # NoSweep THEN shaken \cup {v} ELSE shaken
    /\ fails => mishaps < MaxMishaps
    /\ mishaps' = IF fails THEN mishaps + 1 ELSE mishaps
    /\ UNCHANGED <<next_node, staged, kept, sweep, reopens>>

\* A statement is staged under the state lock only, committed under the commit
\* lock, and withdrawn or deleted at any time.
Stage(t) ==
    /\ t \in At("has")
    /\ staged' = staged \cup {<<encoder[t].id, encoder[t].value>>}
    /\ encoder' = [encoder EXCEPT ![t] = <<>>]
    /\ UNCHANGED <<dict, next_node, kept, sweep, reopens, mishaps, shaken, behind>>
CommitStaged ==
    /\ staged # {} /\ sweep = NoSweep
    /\ kept' = kept \cup staged /\ staged' = {}
    /\ UNCHANGED <<dict, next_node, encoder, sweep, reopens, mishaps, shaken, behind>>
AbortStaged ==
    /\ staged # {} /\ staged' = {}
    /\ UNCHANGED <<dict, next_node, encoder, kept, sweep, reopens, mishaps, shaken, behind>>
DeleteKept(x) ==
    /\ x \in kept /\ sweep = NoSweep
    /\ kept' = kept \ {x}
    /\ UNCHANGED <<dict, next_node, encoder, staged, sweep, reopens, mishaps, shaken, behind>>

\* Mutant: what is staged is not asked.
CommittedIds == {x[1] : x \in kept}
ReferencedIds == {x[1] : x \in kept \cup staged}

\* A collection: the numbers in use, then the entries of all others, then one
\* write that drops them.  A number a thread holds is in no list yet.
GcCollect ==
    /\ sweep = NoSweep /\ mishaps < MaxMishaps
    /\ mishaps' = mishaps + 1
    /\ sweep' = [step |-> "collected", used |-> ReferencedIds]
    /\ shaken' = shaken \cup ValuesAt("has")
    /\ UNCHANGED <<dict, next_node, encoder, staged, kept, reopens, behind>>
GcScan ==
    /\ sweep.step = "collected"
    /\ sweep' = [step |-> "scanned", doomed |-> DOMAIN dict.rev \ sweep.used]
    /\ UNCHANGED <<dict, next_node, encoder, staged, kept, reopens, mishaps, shaken, behind>>
\* A doomed number takes the entry of its value along, whatever number that has.
GcWrite ==
    /\ sweep.step = "scanned"
    /\ dict' = [dict EXCEPT !.rev = Drop(@, sweep.doomed), !.fwd = Drop(@, {dict.rev[id] : id \in sweep.doomed})]
    /\ sweep' = NoSweep
    /\ UNCHANGED <<next_node, encoder, staged, kept, reopens, mishaps, shaken, behind>>

\* Data keeps the numbers that a clear forgets.
ClearPrepare ==
    /\ sweep = NoSweep /\ mishaps < MaxMishaps
    /\ mishaps' = mishaps + 1
    /\ sweep' = [step |-> "clearing", next |-> next_node]
    /\ shaken' = shaken \cup {x[2] : x \in References}
    /\ UNCHANGED <<dict, next_node, encoder, staged, kept, reopens, behind>>
ClearWrite ==
    /\ sweep.step = "clearing"
    /\ dict' = [fwd |-> <<>>, rev |-> <<>>, next |-> sweep.next, epoch |-> dict.epoch + 1]
    /\ behind' = (sweep.next < dict.next \/ (behind /\ sweep.next # next_node))
    /\ sweep' = NoSweep
    /\ UNCHANGED <<next_node, encoder, staged, kept, reopens, mishaps, shaken>>

Reopen ==
    /\ reopens < MaxReopens /\ reopens' = reopens + 1
    /\ next_node' = dict.next
    /\ encoder' = [t \in Encoders |-> <<>>]
    /\ staged' = {} /\ sweep' = NoSweep
    /\ shaken' = IF ~behind THEN shaken
                 ELSE shaken \cup {x[2] : x \in {y \in kept : y[1] >= dict.next}} \cup {v \in DOMAIN dict.fwd : dict.fwd[v] >= dict.next}
    /\ behind' = FALSE
    /\ UNCHANGED <<dict, kept, mishaps>>

DictNext ==
    \/ \E t \in Encoders, v \in Values : LookUp(t, v)
    \/ \E t \in Encoders : TakeNumber(t) \/ Stage(t)
    \/ \E t \in Encoders, fails \in BOOLEAN : WriteEntry(t, fails)
    \/ CommitStaged \/ AbortStaged \/ \E x \in kept : DeleteKept(x)
    \/ GcCollect \/ GcScan \/ GcWrite \/ ClearPrepare \/ ClearWrite \/ Reopen
DictSpec == DictInit /\ [][DictNext]_dictVars

-----------------------------------------------------------------------------
\* A value that statements refer to has one number, which decodes to it, over
\* collections, aborts and restarts; unless two threads took numbers for it at
\* once, its entry failed to be written or was written beside a collection, a
\* collection began while a thread held the number, the dictionary was cleared
\* under the statement, or a restart found a number written out of order
\* (encode_node, gc_dictionary, clear_dictionary, load_meta).
DictionarySound ==
    /\ \A x \in References : x[2] \notin shaken =>
            /\ x[1] \in DOMAIN dict.rev /\ dict.rev[x[1]] = x[2]
            /\ x[2] \in DOMAIN dict.fwd /\ dict.fwd[x[2]] = x[1]
    /\ \A v \in DOMAIN dict.fwd : v \notin shaken => dict.fwd[v] \in DOMAIN dict.rev /\ dict.rev[dict.fwd[v]] = v
=============================================================================
