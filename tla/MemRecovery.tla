---------------------------- MODULE MemRecovery -----------------------------
(***************************************************************************)
(* The in-memory engine together with the recovery of a new engine from    *)
(* its log (ontolith-storage, infrastructure/mod.rs, recover_internal).    *)
(* The engines that are given a log all have the default retention, which  *)
(* Retention stands for here; recovery does not prune, the next commit     *)
(* does.                                                                   *)
(***************************************************************************)
EXTENDS MemEngine

\* What a replay has built so far; ok is FALSE once it has failed.
ReplayStart == [versions |-> [v \in {0} |-> EmptyGraph], next_version |-> 1,
                pending |-> [t \in {} |-> <<>>], ok |-> TRUE]

ReplayStaged(st, rec) ==
    [st EXCEPT !.pending = With(@, rec.txn,
        (IF rec.txn \in DOMAIN @ THEN @[rec.txn] ELSE <<>>) \o rec.ops)]

ReplayCommitted(st, rec) ==
    [st EXCEPT !.versions = With(@, st.next_version,
                                 ApplyAll(@[st.next_version - 1], st.pending[rec.txn])),
               !.next_version = @ + 1,
               !.pending = Without(@, {rec.txn})]

\* A slip: the staged operations of an aborted transaction stay.
ReplayAbortedKeeping(st, rec) == st

ReplayAborted(st, rec) == [st EXCEPT !.pending = Without(@, {rec.txn})]

\* An outcome without staged operations ends a strict replay and is skipped by
\* a tolerant one.
ReplayRecord(st, rec, tolerant) ==
    IF ~st.ok THEN st
    ELSE CASE rec.phase = "Staged" -> ReplayStaged(st, rec)
           [] rec.phase = "Committed" /\ rec.txn \in DOMAIN st.pending -> ReplayCommitted(st, rec)
           [] rec.phase = "Aborted" /\ rec.txn \in DOMAIN st.pending -> ReplayAborted(st, rec)
           [] OTHER -> [st EXCEPT !.ok = tolerant]

Replay(records, tolerant) ==
    LET after[i \in 0..Len(records)] ==
            IF i = 0 THEN ReplayStart ELSE ReplayRecord(after[i - 1], records[i], tolerant)
    IN after[Len(records)]

ReplayedGraph(st) == st.versions[st.next_version - 1]

\* recover_from_wal and recover_from_wal_tolerant on wal_entries(): a new
\* engine with the records in its own log; snapshots and running checkpoints
\* went with the old one.
Recover(tolerant) ==
    LET st == Replay(wal, tolerant) IN
    /\ wal # <<>>
    /\ st.ok
    /\ versions' = st.versions
    /\ next_version' = st.next_version
    /\ spo_index' = IndexOf(ReplayedGraph(st))
    /\ pending' = st.pending
    /\ captured' = [r \in {} |-> 0]
    /\ pins' = [r \in {} |-> 0]
    /\ truncating' = [c \in Checkpointers |-> 0]
    /\ UNCHANGED wal

RecoveryNext == Next \/ \E tolerant \in BOOLEAN : Recover(tolerant)

RecoverySpec == Init /\ [][RecoveryNext]_vars

-----------------------------------------------------------------------------
\* With a log that takes every record, no key deletes and no checkpoint, the
\* log is enough: a strict replay succeeds at any moment and rebuilds the
\* staged operations, the numbering and every retained version.
LogDescribesState ==
    LET st == Replay(wal, FALSE) IN
    /\ st.ok
    /\ st.pending = pending
    /\ st.next_version = next_version
    /\ \A v \in DOMAIN versions : st.versions[v] = versions[v]

\* A checkpoint that finds no transaction open at the end of the prefix it
\* cuts keeps every record that recovery needs for open transactions (lines
\* 234-266 and the test at 1716, "keeps pending tail").
PendingTailKept == Replay(wal, TRUE).pending = pending

\* After checkpoints that leave no extra tail, the log still replays strictly:
\* no outcome is left without the staged records before it.
CheckpointedLogReplays == Replay(wal, FALSE).ok

\* A checkpoint loses neither the open transactions nor the log's order: both
\* of the above, at every moment between and inside checkpoints (226-266).
CheckpointKeepsLog == PendingTailKept /\ CheckpointedLogReplays
=============================================================================
