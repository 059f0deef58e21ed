----------------------------- MODULE MemEngine ------------------------------
(***************************************************************************)
(* The in-memory storage engine (ontolith-storage, infrastructure/mod.rs,  *)
(* InMemoryStorageEngine): staged writes per transaction, an MVCC chain of *)
(* committed graphs with pinning and pruning, and its write-ahead log.     *)
(*                                                                         *)
(* A handler that holds the write lock of the state is one action.  Two    *)
(* are not: snapshot_with reads the version under the read lock and takes  *)
(* the pin under another lock afterwards, and checkpoint_wal reads the log *)
(* and truncates it in two steps without the state lock.  An outstanding   *)
(* snapshot is known by the reader that holds it (ids are distinct by the  *)
(* fetch_add that allocates them).  Counters of metrics_snapshot are left  *)
(* out, nothing reads them back.                                           *)
(***************************************************************************)
EXTENDS StoreOps, Functions

CONSTANTS
    Txns,           \* transaction ids callers use
    Batches,        \* write batches, sequences of WriteOperation
    Readers,        \* threads that take snapshots, one each at a time
    Checkpointers,  \* threads that checkpoint the log
    Retentions,     \* retention arguments of prune_versions
    Tails,          \* tail lengths asked of checkpoint_wal_with_retention
    Retention,      \* version_retention of the engine
    WalMayFail,     \* whether an append of the log may fail
    KeyDeletes,     \* whether callers use delete_by_key
    MaxVersion,     \* bound: versions created in a behaviour
    MaxWal,         \* bound: records in the log
    MaxStaged       \* bound: operations staged by one transaction

ASSUME RetentionAssumption == Retention \in Nat /\ Retentions \subseteq Nat /\ Tails \subseteq Nat
ASSUME BatchesAssumption   == Batches \subseteq Seq(WriteOperation)
ASSUME FlagsAssumption     == WalMayFail \in BOOLEAN /\ KeyDeletes \in BOOLEAN
ASSUME EngineBounds        == MaxVersion \in Nat /\ MaxWal \in Nat /\ MaxStaged \in Nat

VARIABLES
    versions,      \* [retained commit sequences -> Graph]
    next_version,
    spo_index,     \* [Subjects -> triples of the latest default graph]
    pending,       \* pending_writes: [transactions -> staged operations]
    wal,           \* sequence of WAL records
    captured,      \* [readers between version read and pin -> version]
    pins,          \* pinned_snapshots: [readers -> version]
    truncating     \* [checkpointers -> prefix computed but not yet cut, 0 if none]

vars == <<versions, next_version, spo_index, pending, wal, captured, pins, truncating>>
chain == <<versions, next_version, spo_index>>
snapshots == <<captured, pins>>

WalRecord == [txn : Txns, phase : {"Staged", "Committed", "Aborted"},
              ops : Seq(WriteOperation)]

Without(f, S) == Restrict(f, DOMAIN f \ S)
With(f, k, v) == [x \in DOMAIN f \cup {k} |-> IF x = k THEN v ELSE f[x]]
Greater(a, b) == IF a > b THEN a ELSE b

LatestVersion == next_version - 1
Latest == versions[LatestVersion]
StagedOf(t) == IF t \in DOMAIN pending THEN pending[t] ELSE <<>>
PinnedVersions == {pins[r] : r \in DOMAIN pins}

IndexOf(graph) == [s \in Subjects |-> {t \in graph.triples : t.s = s}]

-----------------------------------------------------------------------------
\* Slips a change of the code could make, for the mutation runs.
PrunableIgnoringPins(chosen, latest) == chosen \ {0, latest}
ExcessOffByOne(chosen, retention)    == Cardinality(chosen) - 2 - Greater(retention, 1)
KeepPending(t)                       == pending' = pending
SequenceReused                       == next_version
SafePrefixWholeLog(records)          == Len(records)
SafePrefixButLast(records)           == IF records = <<>> THEN 0 ELSE Len(records) - 1

\* prune_locked skips genesis, the newest version and pinned versions, and
\* goes from the oldest on until only max(retention, 1) committed versions
\* are left (len() - 1: genesis does not count).
Prunable(chosen, latest) == chosen \ ({0, latest} \cup PinnedVersions)
Excess(chosen, retention) == Cardinality(chosen) - 1 - Greater(retention, 1)

Pruned(chosen, latest, retention) ==
    {v \in Prunable(chosen, latest) :
        Cardinality({u \in Prunable(chosen, latest) : u < v}) < Excess(chosen, retention)}

\* The log may refuse a record; the state changed before stays as it is.
Logged(t, phase, ops) == wal' = Append(wal, [txn |-> t, phase |-> phase, ops |-> ops])

AppendWal(t, phase, ops) ==
    \/ Len(wal) < MaxWal /\ Logged(t, phase, ops)
    \/ WalMayFail /\ UNCHANGED wal

RemovePending(t) == pending' = Without(pending, {t})

NextSequence == next_version + 1

\* The tail of every write: a new version, the index, the pruning.
NewVersion(graph) ==
    LET grown == With(versions, next_version, graph) IN
    /\ next_version <= MaxVersion
    /\ next_version' = NextSequence
    /\ versions' = Without(grown, Pruned(DOMAIN grown, next_version, Retention))
    /\ spo_index' = IndexOf(graph)

Extended(t, ops) == StagedOf(t) \o ops

-----------------------------------------------------------------------------
Init ==
    /\ versions = [v \in {0} |-> EmptyGraph]
    /\ next_version = 1
    /\ spo_index = [s \in Subjects |-> {}]
    /\ pending = [t \in {} |-> <<>>]
    /\ wal = <<>>
    /\ captured = [r \in {} |-> 0]
    /\ pins = [r \in {} |-> 0]
    /\ truncating = [c \in Checkpointers |-> 0]

\* The operations are pending before the log is asked.
ApplyWriteBatch(t, ops) ==
    /\ Len(Extended(t, ops)) <= MaxStaged
    /\ pending' = With(pending, t, Extended(t, ops))
    /\ AppendWal(t, "Staged", ops)
    /\ UNCHANGED <<chain, snapshots, truncating>>

\* The new version is visible before the log is asked for the commit record.
CommitTransaction(t) ==
    /\ t \in DOMAIN pending
    /\ RemovePending(t)
    /\ NewVersion(ApplyAll(Latest, pending[t]))
    /\ AppendWal(t, "Committed", <<>>)
    /\ UNCHANGED <<snapshots, truncating>>

AbortTransaction(t) ==
    /\ t \in DOMAIN pending
    /\ RemovePending(t)
    /\ AppendWal(t, "Aborted", <<>>)
    /\ UNCHANGED <<chain, snapshots, truncating>>

\* Not logged.  A subject without statements makes no version.
DeleteByKey(s) ==
    /\ KeyDeletes
    /\ RemoveSubject(Latest, s) # Latest
    /\ NewVersion(RemoveSubject(Latest, s))
    /\ UNCHANGED <<pending, wal, snapshots, truncating>>

CaptureVersion(r) ==
    /\ r \notin DOMAIN captured \cup DOMAIN pins
    /\ captured' = With(captured, r, LatestVersion)
    /\ UNCHANGED <<chain, pending, wal, pins, truncating>>

PinVersion(r) ==
    /\ r \in DOMAIN captured
    /\ pins' = With(pins, r, captured[r])
    /\ captured' = Without(captured, {r})
    /\ UNCHANGED <<chain, pending, wal, truncating>>

ReleaseSnapshot(r) ==
    /\ r \in DOMAIN pins
    /\ pins' = Without(pins, {r})
    /\ UNCHANGED <<chain, pending, wal, captured, truncating>>

PruneVersions(retention) ==
    /\ Pruned(DOMAIN versions, LatestVersion, retention) # {}
    /\ versions' = Without(versions, Pruned(DOMAIN versions, LatestVersion, retention))
    /\ UNCHANGED <<next_version, spo_index, pending, wal, snapshots, truncating>>

\* A prefix is safe when no transaction is open at its end.
OpenAfter(records, i) ==
    {t \in Txns : \E j \in 1..i :
        /\ records[j].txn = t /\ records[j].phase = "Staged"
        /\ \A k \in (j + 1)..i : records[k].txn = t => records[k].phase = "Staged"}

SafePrefix(records) ==
    LET safe == {i \in 0..Len(records) : OpenAfter(records, i) = {}}
    IN CHOOSE i \in safe : \A j \in safe : j <= i

CheckpointScan(c, min_tail) ==
    /\ truncating[c] = 0
    /\ SafePrefix(wal) > min_tail
    /\ truncating' = [truncating EXCEPT ![c] = SafePrefix(wal) - min_tail]
    /\ UNCHANGED <<chain, pending, wal, snapshots>>

\* truncate_prefix clears the log when the prefix is at least as long as it.
CheckpointTruncate(c) ==
    /\ truncating[c] > 0
    /\ wal' = SubSeq(wal, truncating[c] + 1, Len(wal))
    /\ truncating' = [truncating EXCEPT ![c] = 0]
    /\ UNCHANGED <<chain, pending, snapshots>>

Next ==
    \/ \E t \in Txns, ops \in Batches : ApplyWriteBatch(t, ops)
    \/ \E t \in Txns : CommitTransaction(t) \/ AbortTransaction(t)
    \/ \E s \in Subjects : DeleteByKey(s)
    \/ \E r \in Readers : CaptureVersion(r) \/ PinVersion(r) \/ ReleaseSnapshot(r)
    \/ \E retention \in Retentions : PruneVersions(retention)
    \/ \E c \in Checkpointers, min_tail \in Tails : CheckpointScan(c, min_tail)
    \/ \E c \in Checkpointers : CheckpointTruncate(c)

Spec == Init /\ [][Next]_vars

-----------------------------------------------------------------------------
TypeOK ==
    /\ next_version \in 1..(MaxVersion + 1)
    /\ versions \in [DOMAIN versions -> Graph]
    /\ DOMAIN versions \subseteq 0..LatestVersion
    /\ spo_index \in [Subjects -> SUBSET Triple]
    /\ DOMAIN pending \subseteq Txns
    /\ pending \in [DOMAIN pending -> Seq(WriteOperation)]
    /\ wal \in Seq(WalRecord)
    /\ DOMAIN captured \subseteq Readers /\ DOMAIN pins \subseteq Readers
    /\ captured \in [DOMAIN captured -> 0..LatestVersion]
    /\ pins \in [DOMAIN pins -> 0..LatestVersion]
    /\ truncating \in [Checkpointers -> 0..MaxWal]

\* The chain always holds the genesis version and the newest one, whatever
\* commits, key deletes and prunings with whatever retention came before.
\* latest_committed and every read without a snapshot take the last entry of
\* the chain for the newest version (lines 384-390).
ChainEnds == {0, LatestVersion} \subseteq DOMAIN versions

\* A commit sequence names one graph for ever: while a version is retained no
\* step changes what it holds (snapshot reads of lines 945-965 rely on it).
VersionsImmutable ==
    [][\A v \in DOMAIN versions \cap DOMAIN versions' : versions'[v] = versions[v]]_vars

\* A version that is pinned and still in the chain is not removed by any step,
\* neither by the pruning of a commit nor by prune_versions (lines 545-572).
PinnedKept ==
    [][PinnedVersions \cap DOMAIN versions \subseteq DOMAIN versions']_vars

\* After every step that adds a version, at most max(retention, 1) committed
\* versions are retained, or all of them are pinned or the newest one.
RetentionBounded ==
    [][next_version' # next_version =>
          \/ Cardinality(DOMAIN versions' \ {0}) <= Greater(Retention, 1)
          \/ DOMAIN versions' \ {0} \subseteq PinnedVersions' \cup {LatestVersion'}]_vars

\* What a transaction reads of a subject, of a named graph or of all named
\* graphs, through the index and its staged operations, is what the graph
\* would hold if it committed now (lines 822-840, 967-979 and 981-1005 against
\* 516-540).  The listing of all named graphs keeps this only when nothing is
\* staged for the default graph: AllQuads says what it makes of that.
ReadYourWrites ==
    \A t \in DOMAIN pending :
        LET after == ApplyAll(Latest, pending[t]) IN
        /\ \A s \in Subjects :
              TriplesInTxn(spo_index[s], pending[t], {s}) = IndexOf(after)[s]
        /\ \A g \in GraphNames :
              QuadsOfGraph(Latest, pending[t], g) = {q \in after.quads : q.g = g}
        /\ (\A i \in DOMAIN pending[t] : pending[t][i].op \notin {"PutTriple", "DeleteTriple"})
           => AllQuads(Latest, pending[t]) = after.quads

\* The engine implements the transactional store: versions, log, index and
\* pruning are not observable through the committed graph and staged writes.
Store == INSTANCE TxnStore WITH graph <- Latest, staged <- pending
ImplementsStore == Store!StoreSpec

-----------------------------------------------------------------------------
(* Claims of the repository that the code does not keep.                   *)
=============================================================================
