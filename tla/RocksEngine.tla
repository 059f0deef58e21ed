---------------------------- MODULE RocksEngine ----------------------------
(***************************************************************************)
(* The durable storage engine (ontolith-storage, infrastructure/rocks.rs,  *)
(* RocksDbStorageEngine): column families written in atomic batches, the   *)
(* process state that a crash loses, versions with pins and pruning, and   *)
(* index maintenance either inside the commit (Sync) or from a durable     *)
(* backlog with a watermark (Async).                                       *)
(*                                                                         *)
(* commit_lock is held over three steps of a write: the operations leave   *)
(* the pending map and the sequence number is taken, then the durable      *)
(* batch is written (or fails), then the call returns.  Readers and        *)
(* snapshots take no lock and see every step.  Batches are synced          *)
(* (sync_writes, the default), so a crash loses nothing that was written.  *)
(* The engine's log is only counted by anyone, so of it only the failing   *)
(* append remains.                                                         *)
(***************************************************************************)
EXTENDS StoreOps, Functions
LOCAL INSTANCE FiniteSetsExt

CONSTANTS
    Txns,            \* transaction ids callers use
    Batches,         \* write batches, sequences of WriteOperation
    Readers,         \* threads that take snapshots, one each at a time
    Retentions,      \* retention arguments of prune_versions
    Retention,       \* version_retention
    Modes,           \* index_maintenance settings, a subset of {"Sync", "Async"}
    ModeMayChange,   \* whether a restart may choose another setting
    WriteMayFail,    \* whether a durable write may fail
    LegacyGraphs,    \* default graphs of databases older than the version chain
    NoWrite,         \* commit_lock is free
    MaxVersion,      \* bound: sequence numbers taken
    MaxStaged,       \* bound: operations staged by one transaction
    MaxCrashes       \* bound: crashes

ASSUME RetentionAssumption == Retention \in Nat /\ Retentions \subseteq Nat
ASSUME BatchesAssumption   == Batches \subseteq Seq(WriteOperation)
ASSUME LegacyAssumption    == LegacyGraphs \subseteq Graph
ASSUME NoWriteAssumption   == NoWrite \notin [txn : SUBSET Txns, ops : Seq(WriteOperation), seq : Nat]
ASSUME NamesAssumption     == DefaultGraph \notin GraphNames
ASSUME ModesAssumption     == Modes \subseteq {"Sync", "Async"} /\ Modes # {}
ASSUME FlagsAssumption     == ModeMayChange \in BOOLEAN /\ WriteMayFail \in BOOLEAN
ASSUME EngineBounds        == MaxVersion \in Nat /\ MaxStaged \in Nat /\ MaxCrashes \in Nat

VARIABLES
    db,            \* the column families, see EmptyDatabase
    up,            \* whether a process has the database open
    mode,          \* index_maintenance of that process
    pending,       \* pending_writes: [transactions -> staged operations]
    next_version,
    watermark,     \* index_watermark
    retained,      \* retained_versions
    writing,       \* holder of commit_lock: NoWrite or its operations
    captured,      \* [readers between version read and pin -> version]
    pins,          \* pinned_snapshots: [readers -> version]
    crashes

vars == <<db, up, mode, pending, next_version, watermark, retained, writing,
          captured, pins, crashes>>
process == <<up, mode, crashes>>
snapshots == <<captured, pins>>

\* A key delete reaches the column families as the statements it removes.
Removal == [op : {"Remove"}, triples : SUBSET Triple, quads : SUBSET Quad]
RemoveNothing == [op |-> "Remove", triples |-> {}, quads |-> {}]

BacklogEntry == [seq : Nat, op : WriteOperation \cup Removal]

\* The families: data is triples and quads, index the six index families,
\* backlog index_pending, stored versions and versions_quads; of meta, next is
\* next_version (0: not written yet) and mark index_watermark (-1: not yet).
EmptyDatabase == [data |-> EmptyGraph, index |-> EmptyGraph, backlog |-> <<>>,
                  stored |-> [v \in {} |-> EmptyGraph], next |-> 0, mark |-> -1]

With(f, k, v) == [x \in DOMAIN f \cup {k} |-> IF x = k THEN v ELSE f[x]]
Without(f, S) == Restrict(f, DOMAIN f \ S)
StagedOf(t) == IF t \in DOMAIN pending THEN pending[t] ELSE <<>>
PinnedVersions == {pins[r] : r \in DOMAIN pins}
CommittedVersion == next_version - 1
NamedOnly(quads) == {q \in quads : q.g # DefaultGraph}

-----------------------------------------------------------------------------
\* Slips a change of the code could make, for the mutation runs.
Keep(retention) == IF retention > 1 THEN retention ELSE 1
PrunableIgnoringPins          == retained \ {CommittedVersion}
ExcessOffByOne(retention)     == Cardinality(retained) - 1 - Keep(retention)
RetainedWithPruned(seq, gone) == retained \cup {seq}
IndexAlwaysCaughtUp           == TRUE
CaughtUpToFirst(entries)      == entries[1].seq
SequenceReused                == next_version
ExtendedReplacing(t, ops)     == ops
DoomedQuadsNone(s)            == {}

\* Reads may use the index families only when they cover the newest version.
IndexCaughtUp == mode = "Sync" \/ watermark >= CommittedVersion

TriplesOfSubject(s) ==
    {t \in (IF IndexCaughtUp THEN db.index.triples ELSE db.data.triples) : t.s = s}

QuadsInGraph(g) ==
    {q \in (IF IndexCaughtUp THEN db.index.quads ELSE db.data.quads) : q.g = g}

ReadAtVersion(v) ==
    CASE v = 0 -> EmptyGraph
      [] v # 0 /\ v \in retained -> db.stored[v]
      [] v # 0 /\ v \notin retained /\ (\A u \in retained : u > v) /\ retained # {}
            -> db.stored[Min(retained)]
      [] OTHER -> db.data

-----------------------------------------------------------------------------
(* What a write does to the column families.                               *)

DoomedQuads(s) == {q \in db.data.quads : q.t.s = s}

\* delete keys are resolved against the families as they are before the batch.
LiveOp(w) ==
    IF w.op # "DeleteKey" THEN w
    ELSE [op |-> "Remove", triples |-> TriplesOfSubject(w.s),
          quads |-> DoomedQuads(w.s)]

LiveOps(ops) == [i \in DOMAIN ops |-> LiveOp(ops[i])]

ApplyLive(graph, w) ==
    IF w.op = "Remove"
    THEN [triples |-> graph.triples \ w.triples, quads |-> graph.quads \ w.quads]
    ELSE ApplyCommittedOp(graph, w)

ApplyLiveOps(graph, live) ==
    LET after[i \in 0..Len(live)] == IF i = 0 THEN graph ELSE ApplyLive(after[i - 1], live[i])
    IN after[Len(live)]

\* The named-graph indexes know no quads of the default graph.
NamedOp(w) ==
    IF w.op \in {"PutQuad", "DeleteQuad"} /\ w.q.g = DefaultGraph THEN RemoveNothing ELSE w

\* The statement and index families after a batch, and the index after backlog entries.
LiveAfter(ops)    == ApplyLiveOps(db.data, LiveOps(ops))
IndexAfter(ops)   == ApplyLiveOps(db.index, [i \in DOMAIN ops |-> NamedOp(LiveOp(ops[i]))])
CaughtUp(entries) == ApplyLiveOps(db.index, [i \in DOMAIN entries |-> NamedOp(entries[i].op)])

\* One entry per operation; a key delete that removes nothing leaves none.
EntriesOf(live, seq) ==
    LET left[i \in 0..Len(live)] ==
            IF i = 0 THEN <<>>
            ELSE IF live[i] = RemoveNothing THEN left[i - 1]
            ELSE Append(left[i - 1], [seq |-> seq, op |-> live[i]])
    IN left[Len(live)]

BacklogOf(ops, seq) == EntriesOf(LiveOps(ops), seq)

Candidates == retained \ ({CommittedVersion} \cup PinnedVersions)
Excess(retention) == Cardinality(retained) - Keep(retention)

Pruned(retention) ==
    {v \in Candidates : Cardinality({u \in Candidates : u < v}) < Excess(retention)}

RetainedAfter(seq, gone) == (retained \cup {seq}) \ gone

-----------------------------------------------------------------------------
ProcessFresh ==
    /\ pending = [t \in {} |-> <<>>]
    /\ writing = NoWrite
    /\ captured = [r \in {} |-> 0] /\ pins = [r \in {} |-> 0]

Init ==
    /\ \E legacy \in LegacyGraphs \cup {EmptyGraph} : db = [EmptyDatabase EXCEPT !.data = legacy]
    /\ up = FALSE /\ mode \in Modes
    /\ next_version = 1 /\ watermark = 0 /\ retained = {}
    /\ ProcessFresh
    /\ crashes = 0

Backfill(graph, index) == IF index = {} THEN graph ELSE index

\* A database with statements and no version chain gets version 1.
OldDatabase == db.next = 0 /\ db.data # EmptyGraph

\* Versions are found by their rows of the versions family: one whose default
\* graph is empty has none.
FoundVersions(stored) == {v \in DOMAIN stored : stored[v].triples # {}}

\* open_with_options: index and version families of older databases are filled,
\* then the counters are read.
Open ==
    LET filled  == [triples |-> Backfill(db.data.triples, db.index.triples),
                    quads   |-> Backfill(NamedOnly(db.data.quads), db.index.quads)]
        stored  == IF OldDatabase THEN With(db.stored, 1, db.data) ELSE db.stored
        next    == IF OldDatabase THEN 2 ELSE db.next
        version == IF next = 0 THEN 1 ELSE next
        mark    == IF db.mark = -1 THEN version - 1 ELSE db.mark
    IN  /\ ~up /\ up' = TRUE
        /\ mode' \in Modes
        /\ (ModeMayChange \/ mode' = mode)
        /\ db' = [db EXCEPT !.index = filled, !.stored = stored, !.next = next,
                            !.mark = IF mode' = "Async" THEN mark ELSE @]
        /\ next_version' = version
        /\ watermark' = mark
        /\ retained' = FoundVersions(stored)
        /\ UNCHANGED <<pending, writing, snapshots, crashes>>

\* The process ends, by a crash or by being stopped: what it had in memory is gone.
Crash ==
    /\ up /\ up' = FALSE
    /\ crashes < MaxCrashes /\ crashes' = crashes + 1
    /\ pending' = <<>> /\ writing' = NoWrite /\ captured' = <<>> /\ pins' = <<>>
    /\ UNCHANGED <<db, mode, next_version, watermark, retained>>

Extended(t, ops) == StagedOf(t) \o ops

\* A transaction is used by one thread: nothing is staged while it commits.
InFlight == IF writing = NoWrite THEN {} ELSE writing.txn

\* The operations are pending before the log is asked, and stay so when it fails.
ApplyWriteBatch(t, ops) ==
    /\ up /\ t \notin InFlight
    /\ Len(Extended(t, ops)) <= MaxStaged
    /\ pending' = With(pending, t, Extended(t, ops))
    /\ UNCHANGED <<db, process, next_version, watermark, retained, writing, snapshots>>

AbortTransaction(t) ==
    /\ up
    /\ t \in DOMAIN pending
    /\ pending' = Without(pending, {t})
    /\ UNCHANGED <<db, process, next_version, watermark, retained, writing, snapshots>>

NextSequence == next_version + 1

StartWrite(txn, ops) ==
    /\ next_version <= MaxVersion
    /\ writing' = [txn |-> txn, ops |-> ops, seq |-> next_version]
    /\ next_version' = NextSequence

\* commit_transaction up to the durable write.
CommitBegin(t) ==
    /\ up /\ writing = NoWrite
    /\ t \in DOMAIN pending
    /\ StartWrite({t}, pending[t])
    /\ pending' = Without(pending, {t})
    /\ UNCHANGED <<db, process, watermark, retained, snapshots>>

\* A subject without statements makes no version.
DeleteByKeyBegin(s) ==
    /\ up /\ writing = NoWrite
    /\ TriplesOfSubject(s) # {} \/ DoomedQuads(s) # {}
    /\ StartWrite({}, <<[op |-> "DeleteKey", s |-> s]>>)
    /\ UNCHANGED <<db, process, pending, watermark, retained, snapshots>>

\* The full graph of the new version, computed apart from the families.
ApplyCommittedOps(graph, ops) == ApplyAll(graph, ops)

\* The durable batch: statements, index or backlog, the version, the counter
\* and the pruned versions; then the retained set.
WriteDone ==
    LET ops  == writing.ops
        seq  == writing.seq
        gone == Pruned(Retention)
    IN  /\ writing # NoWrite
        /\ db' = [db EXCEPT
               !.data    = LiveAfter(ops),
               !.index   = IF mode = "Sync" THEN IndexAfter(ops) ELSE @,
               !.backlog = IF mode = "Async" THEN @ \o BacklogOf(ops, seq) ELSE @,
               !.stored  = Without(With(@, seq, ApplyCommittedOps(db.data, ops)), gone),
               !.next    = seq + 1]
        /\ retained' = RetainedAfter(seq, gone)
        /\ writing' = NoWrite
        /\ UNCHANGED <<process, pending, next_version, watermark, snapshots>>

\* The sequence number stays taken and the operations are lost.
WriteFailed ==
    /\ WriteMayFail
    /\ writing # NoWrite
    /\ writing' = NoWrite
    /\ UNCHANGED <<db, process, pending, next_version, watermark, retained, snapshots>>

PruneVersions(retention) ==
    /\ up /\ writing = NoWrite
    /\ Pruned(retention) # {}
    /\ db' = [db EXCEPT !.stored = Without(@, Pruned(retention))]
    /\ retained' = retained \ Pruned(retention)
    /\ UNCHANGED <<process, pending, next_version, watermark, writing, snapshots>>

CaughtUpTo(entries) == entries[Len(entries)].seq

\* One round of the index maintainer, under commit_lock: the entries have the
\* order of their sequence numbers, those above the watermark are its last.
CatchUpIndex ==
    LET behind  == {i \in DOMAIN db.backlog : db.backlog[i].seq <= watermark}
        from    == Cardinality(behind)
        entries == SubSeq(db.backlog, from + 1, Len(db.backlog))
        upto    == CaughtUpTo(entries)
    IN  /\ up /\ writing = NoWrite
        /\ entries # <<>>
        /\ db' = [db EXCEPT !.index = CaughtUp(entries),
                            !.backlog = SubSeq(@, 1, from),
                            !.mark = upto]
        /\ watermark' = upto
        /\ UNCHANGED <<process, pending, next_version, retained, writing, snapshots>>

CaptureVersion(r) ==
    /\ up
    /\ r \notin DOMAIN captured \cup DOMAIN pins
    /\ captured' = With(captured, r, CommittedVersion)
    /\ UNCHANGED <<db, process, pending, next_version, watermark, retained, writing, pins>>

PinVersion(r) ==
    /\ r \in DOMAIN captured
    /\ pins' = With(pins, r, captured[r])
    /\ captured' = Without(captured, {r})
    /\ UNCHANGED <<db, process, pending, next_version, watermark, retained, writing>>

ReleaseSnapshot(r) ==
    /\ r \in DOMAIN pins
    /\ pins' = Without(pins, {r})
    /\ UNCHANGED <<db, process, pending, next_version, watermark, retained, writing, captured>>

Next ==
    \/ Open \/ Crash \/ WriteDone \/ WriteFailed \/ CatchUpIndex
    \/ \E t \in Txns, ops \in Batches : ApplyWriteBatch(t, ops)
    \/ \E t \in Txns : AbortTransaction(t) \/ CommitBegin(t)
    \/ \E s \in Subjects : DeleteByKeyBegin(s)
    \/ \E retention \in Retentions : PruneVersions(retention)
    \/ \E r \in Readers : CaptureVersion(r) \/ PinVersion(r) \/ ReleaseSnapshot(r)

\* A process that is down is started again, a write that has begun returns,
\* and the maintainer thread keeps polling (lines 979-992).
Fairness == WF_vars(Open) /\ WF_vars(WriteDone \/ WriteFailed) /\ WF_vars(CatchUpIndex)

Spec == Init /\ [][Next]_vars /\ Fairness

-----------------------------------------------------------------------------
TypeOK ==
    /\ db.data \in Graph /\ db.index \in Graph
    /\ db.backlog \in Seq(BacklogEntry)
    /\ DOMAIN db.stored \subseteq 1..(MaxVersion + 1)
    /\ \A v \in DOMAIN db.stored : db.stored[v] \in Graph
    /\ db.next \in 0..(MaxVersion + 2) /\ db.mark \in -1..(MaxVersion + 1)
    /\ up \in BOOLEAN /\ mode \in Modes
    /\ DOMAIN pending \subseteq Txns /\ \A t \in DOMAIN pending : pending[t] \in Seq(WriteOperation)
    /\ next_version \in 1..(MaxVersion + 2) /\ watermark \in 0..(MaxVersion + 1)
    /\ retained \subseteq DOMAIN db.stored
    /\ DOMAIN captured \subseteq Readers /\ DOMAIN pins \subseteq Readers

\* A read of a subject within a transaction: the committed triples, then its own.
ReadInTxn(s, ops) == TriplesInTxn(TriplesOfSubject(s), ops, {s})

\* What a transaction reads of a subject, and anyone of a named graph, through
\* the index families when they are said to cover the newest version and
\* through the statements otherwise, is what the commit will leave: in both
\* maintenance modes, at any point of the backlog, while a write is half done,
\* after crashes and for databases whose indexes were filled at open.
ReadsAgree ==
    up => /\ \A s \in Subjects :
                /\ TriplesOfSubject(s) = {x \in db.data.triples : x.s = s}
                /\ \A t \in DOMAIN pending :
                      ReadInTxn(s, pending[t])
                        = {x \in LiveAfter(pending[t]).triples : x.s = s}
          /\ \A g \in GraphNames : QuadsInGraph(g) = {q \in db.data.quads : q.g = g}

\* The newest version, while it is kept, holds what the statement families
\* hold, although the two are computed apart (lines 1704-1743).
LiveIsNewest ==
    db.next - 1 \in DOMAIN db.stored => db.stored[db.next - 1] = db.data

\* A sequence number names one graph for ever, across failed writes that leave
\* gaps and across crashes after which the gaps are filled.
VersionsImmutable ==
    [][\A v \in DOMAIN db.stored \cap DOMAIN db'.stored : db'.stored[v] = db.stored[v]]_vars

\* What a snapshot of a retained version reads stays the same for as long as it
\* is held, whatever is committed or pruned (lines 1237-1295, 2174-2204).
PinnedReadsStable ==
    [][\A r \in DOMAIN pins \cap DOMAIN pins' :
          pins[r] \in retained => ReadAtVersion(pins[r])' = ReadAtVersion(pins[r])]_vars

\* After a write at most one version more than the retention asks for is kept,
\* or all but the newest are pinned.
RetentionBounded ==
    [][up /\ retained' \ retained # {} =>
          \/ Cardinality(retained') - 1 <= Keep(Retention)
          \/ retained' \subseteq PinnedVersions' \cup {CommittedVersion'}]_vars

\* The durable engine implements the transactional store: a write is staged
\* until its batch is durable, a failed write drops it and a crash drops all.
Staged == [t \in DOMAIN pending \cup InFlight |-> IF t \in InFlight THEN writing.ops ELSE pending[t]]
Store == INSTANCE TxnStore WITH graph <- db.data, staged <- Staged
AllStagedLost == db'.data = db.data /\ Staged' = <<>>
ImplementsStore == [][Store!StoreNext \/ AllStagedLost]_(Store!storeVars)

\* Every index operation that a commit leaves in the backlog is applied in the
\* end, also when the process crashes in between.
BacklogDrains ==
    \A v \in 1..MaxVersion :
        (\E i \in DOMAIN db.backlog : db.backlog[i].seq = v) ~> (up /\ watermark >= v)

\* What is on disk has its shape and its newest version is the live state, and
\* no step disturbs a version somebody may read (lines 1704-1743, 2174-2204).
VersionsSound == TypeOK /\ LiveIsNewest
VersionsKept == VersionsImmutable /\ PinnedReadsStable /\ RetentionBounded
=============================================================================
