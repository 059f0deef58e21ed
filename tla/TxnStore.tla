------------------------------ MODULE TxnStore ------------------------------
(***************************************************************************)
(* What the storage layer promises its callers, without versions, logs,    *)
(* indexes or pruning (ontolith-storage, application/mod.rs, StorageEngine *)
(* write lifecycle): staged operations touch nothing until their           *)
(* transaction commits, a commit applies all of them at once and in order, *)
(* an abort drops them, and a key delete applies by itself.                *)
(***************************************************************************)
EXTENDS Sequences

CONSTANTS Txns,                \* transaction ids callers use
          Batches,             \* write batches, sequences of operations
          Subjects,            \* subjects of key deletes
          EmptyGraph,
          ApplyAll(_, _),      \* graph and operations, applied in order
          RemoveSubject(_, _)  \* graph and subject, without its statements

VARIABLES graph,    \* the committed graph
          staged    \* [transactions with staged writes -> operations]

storeVars == <<graph, staged>>

StagedOf(t) == IF t \in DOMAIN staged THEN staged[t] ELSE <<>>

StoreInit ==
    /\ graph = EmptyGraph
    /\ staged = [t \in {} |-> <<>>]

StageOps(t, ops) ==
    /\ staged' = [x \in DOMAIN staged \cup {t} |->
                     IF x = t THEN StagedOf(t) \o ops ELSE staged[x]]
    /\ UNCHANGED graph

DropStaged(t) == staged' = [x \in DOMAIN staged \ {t} |-> staged[x]]

CommitStaged(t) ==
    /\ t \in DOMAIN staged
    /\ graph' = ApplyAll(graph, staged[t])
    /\ DropStaged(t)

AbortStaged(t) ==
    /\ t \in DOMAIN staged
    /\ DropStaged(t)
    /\ UNCHANGED graph

DeleteKeyNow(s) ==
    /\ graph' = RemoveSubject(graph, s)
    /\ UNCHANGED staged

StoreNext ==
    \/ \E t \in Txns : CommitStaged(t) \/ AbortStaged(t)
    \/ \E t \in Txns, ops \in Batches : StageOps(t, ops)
    \/ \E s \in Subjects : DeleteKeyNow(s)

StoreSpec == StoreInit /\ [][StoreNext]_storeVars
=============================================================================
