------------------------------ MODULE RocksProofs ------------------------------
(***************************************************************************)
(* Proofs about the durable engine and its dictionary, the third part.     *)
(* The first part: the versions of the engine are                          *)
(* immutable, a pinned version that is kept stays readable, and the chain  *)
(* is bounded, for any number of crashes and failed writes, in both index  *)
(* modes and for any retention.                                            *)
(*                                                                         *)
(* A sequence number is taken before its version is written, is lost when  *)
(* the write fails and is given out again only by a process that found the *)
(* counter of the last write that succeeded.  So every stored version is   *)
(* below META_NEXT_VERSION, the number of a write under way is not, and    *)
(* the number of the next write is not either.  What operations do to a    *)
(* graph is not expanded there.                                            *)
(*                                                                         *)
(* The second part: the index families with the backlog applied to them    *)
(* are the indexes of the statements (Covers).  Operations in a row remove *)
(* some statements and add some, whatever the graph (LivePatches), so the  *)
(* backlog may be applied again to families that have it already, which is *)
(* what opening does after it filled one of them.  Reads agree, the newest *)
(* version is the live state, and the engine implements the store, as long *)
(* as a database keeps its index_maintenance and batches hold no key       *)
(* deletes.                                                                *)
(***************************************************************************)
EXTENDS RocksEngine, RocksDict, StoreOpsTheorems, SequenceTheorems, TLAPS

Shape ==
    /\ db = [data |-> db.data, index |-> db.index, backlog |-> db.backlog,
             stored |-> db.stored, next |-> db.next, mark |-> db.mark]
    /\ db.next \in Nat /\ next_version \in Nat \ {0}

\* Stored versions are older than the durable counter; a version is retained only if it is stored.
ChainInv ==
    /\ \A v \in DOMAIN db.stored : v \in Nat \ {0} /\ v < db.next
    /\ retained \subseteq DOMAIN db.stored

\* The process is never behind the database, and a write under way has the newest number.
CounterInv ==
    /\ up => db.next <= next_version
    /\ writing # NoWrite =>
        /\ up /\ writing.seq \in Nat \ {0}
        /\ db.next <= writing.seq /\ next_version = writing.seq + 1

\* Only a running process has snapshots, and no reader has two.
SnapshotInv ==
    /\ ~up => DOMAIN captured = {} /\ DOMAIN pins = {}
    /\ DOMAIN captured \cap DOMAIN pins = {}

EngineInv == Shape /\ ChainInv /\ CounterInv /\ SnapshotInv
\* What a step may do to the chain and to what a snapshot reads.
KeptStep ==
    /\ \A v \in DOMAIN db.stored \cap DOMAIN db'.stored : db'.stored[v] = db.stored[v]
    /\ \A r \in DOMAIN pins \cap DOMAIN pins' :
          pins'[r] = pins[r] /\ (pins[r] \in retained => pins[r] \in retained')
    /\ up /\ retained' \ retained # {} =>
          \/ Cardinality(retained') - 1 <= Keep(Retention)
          \/ retained' \subseteq PinnedVersions' \cup {CommittedVersion'}

-----------------------------------------------------------------------------
LEMMA WithoutIs ==
    ASSUME NEW f, NEW S
    PROVE  /\ DOMAIN Without(f, S) = DOMAIN f \ S
           /\ \A x \in DOMAIN f \ S : Without(f, S)[x] = f[x]
  BY DEF Without, Restrict

LEMMA WithIs ==
    ASSUME NEW f, NEW k, NEW v
    PROVE  /\ DOMAIN With(f, k, v) = DOMAIN f \cup {k} /\ With(f, k, v)[k] = v
           /\ \A x \in DOMAIN f : x # k => With(f, k, v)[x] = f[x]
  BY DEF With

\* Pruning takes retained versions that are neither the newest nor pinned.
LEMMA PrunedSpares ==
    ASSUME NEW retention
    PROVE  Pruned(retention) \subseteq retained \ ({CommittedVersion} \cup PinnedVersions)
  BY DEF Pruned, Candidates

\* The retained versions are finitely many naturals.
LEMMA RetainedFinite ==
    ASSUME EngineInv
    PROVE  retained \in SUBSET Nat /\ IsFiniteSet(retained) /\ Cardinality(retained) \in Nat
  <1>1. retained \subseteq 0..db.next /\ db.next \in Nat
    BY DEF EngineInv, Shape, ChainInv
  <1>2. IsFiniteSet(0..db.next)
    BY <1>1, FS_Interval
  <1>3. IsFiniteSet(retained)
    BY <1>1, <1>2, FS_Subset
  <1>4. Cardinality(retained) \in Nat
    BY <1>3, FS_CardinalityType
  <1>5. retained \in SUBSET Nat
    BY <1>1
  <1> QED
    BY <1>3, <1>4, <1>5

-----------------------------------------------------------------------------
\* A step that leaves the stored versions, their counter and the pins alone.
LEMMA QuietKeeps ==
    ASSUME UNCHANGED <<db.stored, retained>>,
           \A r \in DOMAIN pins \cap DOMAIN pins' : pins'[r] = pins[r]
    PROVE  KeptStep
  BY DEF KeptStep

LEMMA InitHasInv == Init => EngineInv
  <1> SUFFICES ASSUME Init PROVE EngineInv
    OBVIOUS
  <1>1. PICK legacy \in LegacyGraphs \cup {EmptyGraph} : db = [EmptyDatabase EXCEPT !.data = legacy]
    BY DEF Init
  <1>2. /\ db = [data |-> db.data, index |-> db.index, backlog |-> db.backlog,
                 stored |-> db.stored, next |-> db.next, mark |-> db.mark]
        /\ db.next = 0 /\ DOMAIN db.stored = {}
    BY <1>1 DEF EmptyDatabase
  <1>3. up = FALSE /\ next_version = 1 /\ retained = {} /\ writing = NoWrite /\ DOMAIN captured = {} /\ DOMAIN pins = {}
    BY DEF Init, ProcessFresh
  <1> QED
    BY <1>2, <1>3 DEF EngineInv, Shape, ChainInv, CounterInv, SnapshotInv

\* Opening fills the version chain of an old database, which has none, and takes the counter over.
LEMMA OpenKeeps ==
    ASSUME EngineInv, Open
    PROVE  EngineInv' /\ KeptStep
  <1> DEFINE stored == IF OldDatabase THEN With(db.stored, 1, db.data) ELSE db.stored
             next == IF OldDatabase THEN 2 ELSE db.next
  <1>1. /\ ~up /\ up' = TRUE /\ db'.stored = stored /\ db'.next = next
        /\ db' = [data |-> db'.data, index |-> db'.index, backlog |-> db'.backlog,
                  stored |-> db'.stored, next |-> db'.next, mark |-> db'.mark]
        /\ next_version' = (IF next = 0 THEN 1 ELSE next)
        /\ retained' = FoundVersions(stored)
        /\ UNCHANGED <<writing, captured, pins>>
    BY DEF Open, EngineInv, Shape, snapshots
  <1>2. OldDatabase => db.next = 0 /\ DOMAIN db.stored = {}
    BY DEF OldDatabase, EngineInv, ChainInv, Shape
  <1>3. next \in Nat
    BY DEF EngineInv, Shape
  <1>4. \A v \in DOMAIN stored : v \in Nat \ {0} /\ v < next
    <2>1. CASE OldDatabase
      <3>1. DOMAIN stored = {1} /\ next = 2
        BY <1>2, <2>1 DEF With
      <3> QED
        BY <3>1
    <2>2. CASE ~OldDatabase
      BY <2>2 DEF EngineInv, ChainInv
    <2> QED
      BY <2>1, <2>2
  <1>5. \A v \in DOMAIN db.stored \cap DOMAIN stored : stored[v] = db.stored[v]
    BY <1>2
  <1>6. FoundVersions(stored) \subseteq DOMAIN stored
    BY DEF FoundVersions
  <1> HIDE DEF stored, next
  <1>7. Shape'
    BY <1>1, <1>3 DEF Shape
  <1>8. ChainInv'
    BY <1>1, <1>4, <1>6 DEF ChainInv
  <1>9. writing = NoWrite /\ DOMAIN captured = {} /\ DOMAIN pins = {}
    BY <1>1 DEF EngineInv, CounterInv, SnapshotInv
  <1>10. CounterInv' /\ SnapshotInv'
    BY <1>1, <1>3, <1>9 DEF CounterInv, SnapshotInv
  <1>11. KeptStep
    BY <1>1, <1>5, <1>9 DEF KeptStep
  <1> QED
    BY <1>7, <1>8, <1>10, <1>11 DEF EngineInv

LEMMA CrashKeeps ==
    ASSUME EngineInv, Crash
    PROVE  EngineInv' /\ KeptStep
  <1>1. /\ up' = FALSE /\ writing' = NoWrite /\ DOMAIN captured' = {} /\ DOMAIN pins' = {}
        /\ UNCHANGED <<db, next_version, retained>>
    BY DEF Crash
  <1>2. EngineInv'
    BY <1>1 DEF EngineInv, Shape, ChainInv, CounterInv, SnapshotInv
  <1>3. KeptStep
    BY <1>1, QuietKeeps
  <1> QED
    BY <1>2, <1>3

\* The number of a write is taken from the process, which is not behind the database.
LEMMA StartWriteKeeps ==
    ASSUME EngineInv, up, writing = NoWrite, NEW txn, NEW ops, StartWrite(txn, ops),
           UNCHANGED <<db, process, retained, snapshots>>
    PROVE  EngineInv' /\ KeptStep
  <1>1. /\ writing'.seq = next_version /\ next_version' = next_version + 1
        /\ UNCHANGED <<db, up, retained, captured, pins>>
    BY DEF StartWrite, NextSequence, process, snapshots
  <1>2. next_version \in Nat \ {0} /\ db.next \in Nat /\ db.next <= next_version
    BY DEF EngineInv, Shape, CounterInv
  <1>3. EngineInv'
    BY <1>1, <1>2 DEF EngineInv, Shape, ChainInv, CounterInv, SnapshotInv
  <1>4. KeptStep
    BY <1>1, QuietKeeps
  <1> QED
    BY <1>3, <1>4
\* The retained set after a write is within the retention, or pruning could take no more.
LEMMA WrittenBound ==
    ASSUME EngineInv, NEW seq, seq \notin retained, CommittedVersion = seq,
           retained' = (retained \cup {seq}) \ Pruned(Retention)
    PROVE  \/ Cardinality(retained') - 1 <= Keep(Retention)
           \/ retained' \subseteq PinnedVersions \cup {seq}
  <1> DEFINE P    == Candidates
             gone == Pruned(Retention)
             k    == Excess(Retention)
             keep == Keep(Retention)
             left == retained \ gone
  <1>1. retained \in SUBSET Nat /\ IsFiniteSet(retained) /\ Cardinality(retained) \in Nat
    BY RetainedFinite
  <1>2. P \subseteq retained /\ P = retained \ ({seq} \cup PinnedVersions)
    BY DEF Candidates
  <1>3. P \in SUBSET Nat /\ IsFiniteSet(P)
    <2> HIDE DEF P
    <2> QED
      BY <1>1, <1>2, FS_Subset
  <1>4. gone = {v \in P : Cardinality({u \in P : u < v}) < k} /\ gone \subseteq P
    BY DEF Pruned
  <1>5. k = Cardinality(retained) - keep /\ keep \in Nat
    BY RetentionAssumption DEF Excess, Keep
  <1> HIDE DEF P, gone, k, keep, left
  <1>6. retained' = left \cup {seq} /\ seq \notin left /\ left = retained \ gone
    BY <1>2, <1>4 DEF left, gone
  <1>7. /\ IsFiniteSet(left) /\ IsFiniteSet(gone)
        /\ Cardinality(left) \in Nat /\ Cardinality(gone) \in Nat
        /\ Cardinality(left) = Cardinality(retained) - Cardinality(gone)
    <2>1. IsFiniteSet(left) /\ IsFiniteSet(gone)
      BY <1>1, <1>2, <1>4, <1>6, FS_Subset
    <2>2. gone = retained \cap gone
      BY <1>2, <1>4
    <2> QED
      BY <1>1, <1>6, <2>1, <2>2, FS_Difference, FS_CardinalityType, ZenonT(20)
  <1>8. Cardinality(retained') = Cardinality(left) + 1
    BY <1>6, <1>7, FS_AddElement
  <1>9. CASE k <= 0
    BY <1>1, <1>5, <1>7, <1>8, <1>9 DEF keep
  <1>10. CASE k > 0
    <2>1. k \in Nat
      BY <1>1, <1>5, <1>10
    <2>2. gone = P \/ k <= Cardinality(gone)
      BY <1>3, <1>4, <2>1, FirstElements
    <2>3. CASE k <= Cardinality(gone)
      BY <1>1, <1>5, <1>7, <1>8, <2>3 DEF keep
    <2>4. CASE gone = P
      BY <1>2, <1>6, <2>4
    <2> QED
      BY <2>2, <2>3, <2>4
  <1> QED
    BY <1>1, <1>5, <1>9, <1>10

\* The written version is newer than every other; pruning in the same batch leaves it, the pinned ones
\* and no more than the retention and the pins ask for.
LEMMA WriteDoneKeeps ==
    ASSUME EngineInv, WriteDone
    PROVE  EngineInv' /\ KeptStep
  <1> DEFINE seq   == writing.seq
             gone  == Pruned(Retention)
             graph == ApplyCommittedOps(db.data, writing.ops)
             grown == With(db.stored, seq, graph)
  <1>1. /\ writing # NoWrite /\ writing' = NoWrite
        /\ db'.stored = Without(grown, gone) /\ db'.next = seq + 1
        /\ db' = [data |-> db'.data, index |-> db'.index, backlog |-> db'.backlog,
                  stored |-> db'.stored, next |-> db'.next, mark |-> db'.mark]
        /\ retained' = (retained \cup {seq}) \ gone
        /\ UNCHANGED <<up, next_version, captured, pins>>
    BY DEF WriteDone, EngineInv, Shape, process, snapshots, RetainedAfter
  <1>2. up /\ seq \in Nat \ {0} /\ db.next \in Nat /\ db.next <= seq /\ next_version = seq + 1
    BY <1>1 DEF EngineInv, Shape, CounterInv
  <1>3. seq \notin DOMAIN db.stored /\ seq \notin retained
    BY <1>2 DEF EngineInv, ChainInv
  <1>4. /\ DOMAIN grown = DOMAIN db.stored \cup {seq}
        /\ \A v \in DOMAIN db.stored : grown[v] = db.stored[v]
    BY <1>3 DEF With
  <1>5. gone \subseteq retained \ ({seq} \cup PinnedVersions) /\ CommittedVersion = seq
    BY <1>2, PrunedSpares DEF CommittedVersion
  <1> HIDE DEF grown
  <1>6. /\ DOMAIN db'.stored = (DOMAIN db.stored \cup {seq}) \ gone
        /\ \A v \in DOMAIN db.stored : v \in DOMAIN db'.stored => db'.stored[v] = db.stored[v]
    <2> DEFINE left == Without(grown, gone)
    <2>1. DOMAIN left = DOMAIN grown \ gone /\ \A v \in DOMAIN grown \ gone : left[v] = grown[v]
      BY WithoutIs
    <2> HIDE DEF left, gone
    <2>2. db'.stored = left
      BY <1>1 DEF left, gone
    <2> QED
      BY <1>4, <2>1, <2>2
  <1>7. Shape'
    BY <1>1, <1>2 DEF Shape
  <1>8. ChainInv'
    <2>1. \A v \in DOMAIN db.stored : v \in Nat \ {0} /\ v < seq + 1
      BY <1>2 DEF EngineInv, ChainInv
    <2>2. retained \subseteq DOMAIN db.stored
      BY DEF EngineInv, ChainInv
    <2> QED
      BY <1>1, <1>2, <1>6, <2>1, <2>2 DEF ChainInv
  <1>9. CounterInv' /\ SnapshotInv'
    BY <1>1, <1>2 DEF EngineInv, CounterInv, SnapshotInv
  <1>10. KeptStep
    <2>1. \A r \in DOMAIN pins : pins[r] \in retained => pins[r] \in retained'
      BY <1>1, <1>5 DEF PinnedVersions
    <2>2. \/ Cardinality(retained') - 1 <= Keep(Retention)
          \/ retained' \subseteq PinnedVersions' \cup {CommittedVersion'}
      <3>1. PinnedVersions' = PinnedVersions /\ CommittedVersion' = CommittedVersion
        BY <1>1 DEF PinnedVersions, CommittedVersion
      <3> HIDE DEF seq
      <3>2. \/ Cardinality(retained') - 1 <= Keep(Retention)
            \/ retained' \subseteq PinnedVersions \cup {seq}
        BY <1>1, <1>3, <1>5, WrittenBound
      <3> QED
        BY <1>5, <3>1, <3>2
    <2> QED
      BY <1>1, <1>6, <2>1, <2>2 DEF KeptStep
  <1> QED
    BY <1>7, <1>8, <1>9, <1>10 DEF EngineInv

LEMMA WriteFailedKeeps ==
    ASSUME EngineInv, WriteFailed
    PROVE  EngineInv' /\ KeptStep
  <1>1. writing # NoWrite /\ writing' = NoWrite /\ UNCHANGED <<db, up, next_version, retained, captured, pins>>
    BY DEF WriteFailed, process, snapshots
  <1>2. EngineInv'
    BY <1>1 DEF EngineInv, Shape, ChainInv, CounterInv, SnapshotInv
  <1> QED
    BY <1>1, <1>2, QuietKeeps

LEMMA PruneKeeps ==
    ASSUME EngineInv, NEW retention \in Retentions, PruneVersions(retention)
    PROVE  EngineInv' /\ KeptStep
  <1> DEFINE gone == Pruned(retention)
  <1>1. /\ writing = NoWrite /\ db'.stored = Without(db.stored, gone) /\ db'.next = db.next
        /\ db' = [data |-> db'.data, index |-> db'.index, backlog |-> db'.backlog,
                  stored |-> db'.stored, next |-> db'.next, mark |-> db'.mark]
        /\ retained' = retained \ gone
        /\ UNCHANGED <<up, next_version, writing, captured, pins>>
    BY DEF PruneVersions, EngineInv, Shape, process, snapshots
  <1>2. gone \cap PinnedVersions = {}
    BY PrunedSpares
  <1>3. /\ DOMAIN db'.stored = DOMAIN db.stored \ gone
        /\ \A v \in DOMAIN db'.stored : db'.stored[v] = db.stored[v]
    <2> DEFINE left == Without(db.stored, gone)
    <2>1. DOMAIN left = DOMAIN db.stored \ gone /\ \A v \in DOMAIN db.stored \ gone : left[v] = db.stored[v]
      BY WithoutIs
    <2> HIDE DEF left, gone
    <2>2. db'.stored = left
      BY <1>1 DEF left, gone
    <2> QED
      BY <2>1, <2>2
  <1> HIDE DEF gone
  <1>4. EngineInv'
    BY <1>1, <1>3 DEF EngineInv, Shape, ChainInv, CounterInv, SnapshotInv
  <1>5. KeptStep
    BY <1>1, <1>2, <1>3 DEF KeptStep, PinnedVersions
  <1> QED
    BY <1>4, <1>5

LEMMA CatchUpKeeps ==
    ASSUME EngineInv, CatchUpIndex
    PROVE  EngineInv' /\ KeptStep
  <1>1. /\ db'.stored = db.stored /\ db'.next = db.next
        /\ db' = [data |-> db'.data, index |-> db'.index, backlog |-> db'.backlog,
                  stored |-> db'.stored, next |-> db'.next, mark |-> db'.mark]
        /\ UNCHANGED <<up, next_version, retained, writing, captured, pins>>
    BY DEF CatchUpIndex, EngineInv, Shape, process, snapshots
  <1>2. EngineInv'
    BY <1>1 DEF EngineInv, Shape, ChainInv, CounterInv, SnapshotInv
  <1> QED
    BY <1>1, <1>2, QuietKeeps

LEMMA SnapshotsKeep ==
    ASSUME EngineInv, NEW r \in Readers, CaptureVersion(r) \/ PinVersion(r) \/ ReleaseSnapshot(r)
    PROVE  EngineInv' /\ KeptStep
  <1>1. UNCHANGED <<db, up, next_version, retained, writing>>
    BY DEF CaptureVersion, PinVersion, ReleaseSnapshot, process
  <1>2. SnapshotInv' /\ \A x \in DOMAIN pins \cap DOMAIN pins' : pins'[x] = pins[x]
    <2>1. CASE CaptureVersion(r)
      BY <2>1 DEF CaptureVersion, EngineInv, SnapshotInv, With, process
    <2>2. CASE PinVersion(r)
      <3>1. /\ DOMAIN pins' = DOMAIN pins \cup {r} /\ \A x \in DOMAIN pins : x # r => pins'[x] = pins[x]
        BY <2>2 DEF PinVersion, With
      <3>2. r \in DOMAIN captured /\ captured' = Without(captured, {r}) /\ DOMAIN captured' = DOMAIN captured \ {r}
        BY <2>2 DEF PinVersion, Without, Restrict
      <3> QED
        BY <1>1, <3>1, <3>2 DEF EngineInv, SnapshotInv
    <2>3. CASE ReleaseSnapshot(r)
      <3>1. /\ captured' = captured /\ DOMAIN pins' = DOMAIN pins \ {r}
            /\ \A x \in DOMAIN pins \ {r} : pins'[x] = pins[x]
        BY <2>3 DEF ReleaseSnapshot, Without, Restrict
      <3> QED
        BY <1>1, <3>1 DEF EngineInv, SnapshotInv
    <2> QED
      BY <2>1, <2>2, <2>3
  <1>3. EngineInv'
    BY <1>1, <1>2 DEF EngineInv, Shape, ChainInv, CounterInv
  <1> QED
    BY <1>1, <1>2, <1>3, QuietKeeps
-----------------------------------------------------------------------------
LEMMA StepKeeps == EngineInv /\ [Next]_vars => EngineInv' /\ KeptStep
  <1> SUFFICES ASSUME EngineInv, [Next]_vars PROVE EngineInv' /\ KeptStep
    OBVIOUS
  <1>1. CASE Open
    BY <1>1, OpenKeeps
  <1>2. CASE Crash
    BY <1>2, CrashKeeps
  <1>3. CASE WriteDone
    BY <1>3, WriteDoneKeeps
  <1>4. CASE WriteFailed
    BY <1>4, WriteFailedKeeps
  <1>5. CASE CatchUpIndex
    BY <1>5, CatchUpKeeps
  <1>6. CASE \/ \E t \in Txns, ops \in Batches : ApplyWriteBatch(t, ops)
             \/ \E t \in Txns : AbortTransaction(t)
             \/ UNCHANGED vars
    <2>1. UNCHANGED <<db, up, next_version, retained, writing, captured, pins>>
      BY <1>6 DEF ApplyWriteBatch, AbortTransaction, process, snapshots, vars
    <2>2. EngineInv'
      BY <2>1 DEF EngineInv, Shape, ChainInv, CounterInv, SnapshotInv
    <2> QED
      BY <2>1, <2>2, QuietKeeps
  <1>7. CASE \E t \in Txns : CommitBegin(t)
    BY <1>7, StartWriteKeeps DEF CommitBegin
  <1>8. CASE \E s \in Subjects : DeleteByKeyBegin(s)
    BY <1>8, StartWriteKeeps DEF DeleteByKeyBegin
  <1>9. CASE \E retention \in Retentions : PruneVersions(retention)
    BY <1>9, PruneKeeps
  <1>10. CASE \E r \in Readers : CaptureVersion(r) \/ PinVersion(r) \/ ReleaseSnapshot(r)
    BY <1>10, SnapshotsKeep
  <1> QED
    BY <1>1, <1>2, <1>3, <1>4, <1>5, <1>6, <1>7, <1>8, <1>9, <1>10 DEF Next

\* The invariant that everything said of the versions rests on.
THEOREM EngineInvHolds == Spec => []EngineInv
  BY InitHasInv, StepKeeps, PTL DEF Spec

\* A retained version is read as it is stored.
LEMMA RetainedRead ==
    ASSUME EngineInv, NEW v \in retained
    PROVE  v \in DOMAIN db.stored /\ ReadAtVersion(v) = db.stored[v]
  <1>1. v \in DOMAIN db.stored /\ v # 0
    BY DEF EngineInv, ChainInv
  <1> QED
    BY <1>1 DEF ReadAtVersion

\* No sequence number ever names a second graph, over failed writes, crashes, reopening and pruning; a
\* snapshot of a retained version reads the same for as long as it is held; and a write leaves at most
\* one version more than the retention asks for, or only the newest and pinned ones (commit_transaction,
\* prune_locked, load_meta, snapshot_with).
THEOREM VersionsKeptHolds == Spec => VersionsKept
  <1>1. EngineInv /\ EngineInv' /\ KeptStep =>
           \A r \in DOMAIN pins \cap DOMAIN pins' :
              pins[r] \in retained => ReadAtVersion(pins[r])' = ReadAtVersion(pins[r])
    <2> SUFFICES ASSUME EngineInv, EngineInv', KeptStep,
                        NEW r \in DOMAIN pins \cap DOMAIN pins', pins[r] \in retained
                 PROVE  ReadAtVersion(pins[r])' = ReadAtVersion(pins[r])
      OBVIOUS
    <2>1. pins'[r] = pins[r] /\ pins[r] \in retained'
      BY DEF KeptStep
    <2>2. pins[r] \in DOMAIN db.stored /\ ReadAtVersion(pins[r]) = db.stored[pins[r]]
      BY RetainedRead
    <2>3. pins[r] \in DOMAIN db'.stored /\ ReadAtVersion(pins[r])' = db'.stored[pins[r]]
      <3>1. pins[r] \in DOMAIN db'.stored /\ pins[r] # 0
        BY <2>1 DEF EngineInv, ChainInv
      <3> QED
        BY <2>1, <3>1 DEF ReadAtVersion
    <2> QED
      BY <2>2, <2>3 DEF KeptStep
  <1>2. EngineInv /\ [Next]_vars =>
           /\ [\A v \in DOMAIN db.stored \cap DOMAIN db'.stored : db'.stored[v] = db.stored[v]]_vars
           /\ [\A r \in DOMAIN pins \cap DOMAIN pins' :
                  pins[r] \in retained => ReadAtVersion(pins[r])' = ReadAtVersion(pins[r])]_vars
           /\ [up /\ retained' \ retained # {} =>
                  \/ Cardinality(retained') - 1 <= Keep(Retention)
                  \/ retained' \subseteq PinnedVersions' \cup {CommittedVersion'}]_vars
    BY <1>1, StepKeeps DEF KeptStep
  <1> QED
    BY <1>2, EngineInvHolds, PTL DEF Spec, VersionsKept, VersionsImmutable, PinnedReadsStable, RetentionBounded
-----------------------------------------------------------------------------
(* What a batch does to the families.  A fold of operations over a graph   *)
(* removes some statements and then adds some, which do not depend on the  *)
(* graph.                                                                  *)

LiveOperation == WriteOperation \cup Removal

LEMMA LiveOpTyped ==
    ASSUME NEW graph \in Graph, NEW w \in LiveOperation
    PROVE  ApplyLive(graph, w) \in Graph
  <1>1. CASE w \in Removal
    BY <1>1 DEF ApplyLive, Removal, Graph
  <1>2. CASE w \in WriteOperation
    <2>1. w.op # "Remove"
      BY <1>2 DEF WriteOperation
    <2> QED
      BY <1>2, <2>1, CommittedOpTyped DEF ApplyLive
  <1> QED
    BY <1>1, <1>2 DEF LiveOperation

LiveSteps(live) == [i \in 1..Len(live) |-> [graph \in Graph |-> ApplyLive(graph, live[i])]]

LiveStates(f, graph, live) ==
    /\ f[0] = graph
    /\ \A i \in 0..Len(live) : f[i] \in Graph
    /\ \A i \in 1..Len(live) : live[i] \in LiveOperation /\ f[i] = ApplyLive(f[i - 1], live[i])

LEMMA LivePrefixes ==
    ASSUME NEW graph \in Graph, NEW live \in Seq(LiveOperation)
    PROVE  \E f : LiveStates(f, graph, live) /\ ApplyLiveOps(graph, live) = f[Len(live)]
  <1> DEFINE n == Len(live)
             step == LiveSteps(live)
             Eq(f) == f = [i \in 0..n |-> IF i = 0 THEN graph ELSE ApplyLive(f[i - 1], live[i])]
             F == CHOOSE f : Eq(f)
  <1>1. n \in Nat /\ \A i \in 1..n : live[i] \in LiveOperation
    OBVIOUS
  <1>2. \A i \in 1..n : \A g \in Graph : step[i][g] = ApplyLive(g, live[i])
    BY DEF LiveSteps
  <1>3. ApplyLiveOps(graph, live) = F[n]
    BY DEF ApplyLiveOps
  <1> HIDE DEF n, step
  <1>4. Steps(step, n, Graph)
    BY <1>1, <1>2, LiveOpTyped DEF Steps
  <1>5. PICK f : Iterates(f, graph, step, n, Graph)
    BY <1>1, <1>4, PrefixRecursion
  <1> DEFINE h == [i \in 0..n |-> f[i]]
  <1>6. /\ \A i \in 0..n : f[i] \in Graph
        /\ \A i \in 1..n : i - 1 \in 0..n /\ f[i] = ApplyLive(f[i - 1], live[i])
        /\ f[0] = graph
    BY <1>1, <1>2, <1>5 DEF Iterates
  <1>7. Eq(h)
    BY <1>1, <1>6
  <1> HIDE DEF h
  <1>8. Eq(F)
    BY <1>7
  <1> HIDE DEF F
  <1>9. F[0] = graph /\ \A i \in 1..n : F[i - 1] \in Graph => F[i] = step[i][F[i - 1]]
    BY <1>1, <1>2, <1>8
  <1>10. Iterates(F, graph, step, n, Graph)
    BY <1>1, <1>4, <1>9, PrefixUnique
  <1>11. \A i \in 1..n : F[i] = ApplyLive(F[i - 1], live[i])
    BY <1>1, <1>2, <1>10 DEF Iterates
  <1>12. LiveStates(F, graph, live)
    BY <1>1, <1>10, <1>11 DEF n, LiveStates, Iterates
  <1> QED
    BY <1>3, <1>12 DEF n

LEMMA LiveTyped ==
    ASSUME NEW graph \in Graph, NEW live \in Seq(LiveOperation)
    PROVE  ApplyLiveOps(graph, live) \in Graph
  <1>1. PICK f : LiveStates(f, graph, live) /\ ApplyLiveOps(graph, live) = f[Len(live)]
    BY LivePrefixes
  <1>2. Len(live) \in 0..Len(live)
    OBVIOUS
  <1> QED
    BY <1>1, <1>2 DEF LiveStates

\* Whatever passes through the same operations ends the same.
LEMMA LiveAgrees ==
    ASSUME NEW graph \in Graph, NEW live \in Seq(LiveOperation), NEW h, h[0] = graph,
           \A i \in 1..Len(live) : h[i - 1] \in Graph => h[i] = ApplyLive(h[i - 1], live[i])
    PROVE  ApplyLiveOps(graph, live) = h[Len(live)]
  <1>1. PICK f : LiveStates(f, graph, live) /\ ApplyLiveOps(graph, live) = f[Len(live)]
    BY LivePrefixes
  <1>2. Len(live) \in Nat /\ f[0] = h[0]
    BY <1>1 DEF LiveStates
  <1>3. ASSUME NEW i \in 1..Len(live), f[i - 1] = h[i - 1] PROVE f[i] = h[i]
    <2>1. i - 1 \in 0..Len(live)
      OBVIOUS
    <2> QED
      BY <1>1, <1>3, <2>1 DEF LiveStates
  <1>4. f[Len(live)] = h[Len(live)]
    BY <1>2, <1>3, PrefixAgree
  <1> QED
    BY <1>1, <1>4

\* Operations in two parts.
LEMMA LiveConcat ==
    ASSUME NEW graph \in Graph, NEW a \in Seq(LiveOperation), NEW b \in Seq(LiveOperation)
    PROVE  ApplyLiveOps(graph, a \o b) = ApplyLiveOps(ApplyLiveOps(graph, a), b)
  <1> DEFINE both == a \o b
             m == Len(a)
             n == Len(b)
             mid == ApplyLiveOps(graph, a)
  <1>1. /\ both \in Seq(LiveOperation) /\ m \in Nat /\ n \in Nat /\ Len(both) = m + n
        /\ \A i \in 1..m : both[i] = a[i]
        /\ \A i \in 1..n : both[m + i] = b[i]
    OBVIOUS
  <1>2. PICK f : LiveStates(f, graph, a) /\ mid = f[m]
    BY LivePrefixes
  <1>3. mid \in Graph
    BY LiveTyped
  <1>4. PICK g : LiveStates(g, mid, b) /\ ApplyLiveOps(mid, b) = g[n]
    BY <1>3, LivePrefixes
  <1> DEFINE h == [i \in 0..(m + n) |-> IF i <= m THEN f[i] ELSE g[i - m]]
  <1>5. /\ f[0] = graph /\ \A i \in 1..m : f[i] = ApplyLive(f[i - 1], a[i])
        /\ g[0] = f[m] /\ \A i \in 1..n : g[i] = ApplyLive(g[i - 1], b[i])
    BY <1>2, <1>4 DEF LiveStates
  <1> HIDE DEF both, m, n, mid
  <1>6. \A i \in 0..(m + n) : h[i] = IF i <= m THEN f[i] ELSE g[i - m]
    OBVIOUS
  <1> HIDE DEF h
  <1>7. h[0] = graph
    BY <1>1, <1>5, <1>6
  <1>8. ASSUME NEW i \in 1..(m + n) PROVE h[i] = ApplyLive(h[i - 1], both[i])
    <2>1. i \in 0..(m + n) /\ i - 1 \in 0..(m + n)
      BY <1>1
    <2>2. CASE i <= m
      <3>1. i \in 1..m /\ h[i] = f[i] /\ h[i - 1] = f[i - 1] /\ both[i] = a[i]
        BY <1>1, <1>6, <2>1, <2>2
      <3> QED
        BY <1>5, <3>1
    <2>3. CASE i = m + 1
      <3>1. 1 \in 1..n /\ i - m = 1 /\ i - 1 = m /\ h[i] = g[1] /\ h[i - 1] = f[m] /\ both[i] = b[1] /\ 1 - 1 = 0
        BY <1>1, <1>6, <2>1, <2>3
      <3>2. g[1] = ApplyLive(g[1 - 1], b[1])
        BY <1>5, <3>1
      <3> QED
        BY <1>5, <3>1, <3>2
    <2>4. CASE i > m + 1
      <3>1. i - m \in 1..n /\ m + (i - m) = i /\ (i - 1) - m = (i - m) - 1 /\ ~(i <= m) /\ ~(i - 1 <= m)
        BY <1>1, <2>4
      <3>2. h[i] = g[i - m] /\ h[i - 1] = g[(i - m) - 1] /\ both[i] = b[i - m]
        BY <1>1, <1>6, <2>1, <3>1
      <3> QED
        BY <1>5, <3>1, <3>2
    <2> QED
      BY <1>1, <2>2, <2>3, <2>4
  <1>9. ApplyLiveOps(graph, both) = h[m + n]
    <2>1. \A i \in 1..Len(both) : h[i - 1] \in Graph => h[i] = ApplyLive(h[i - 1], both[i])
      BY <1>1, <1>8
    <2>2. ApplyLiveOps(graph, both) = h[Len(both)]
      BY <1>1, <1>7, <2>1, LiveAgrees
    <2> QED
      BY <1>1, <2>2
  <1>10. h[m + n] = g[n]
    <2>1. CASE n = 0
      BY <1>1, <1>5, <1>6, <2>1
    <2>2. CASE n # 0
      BY <1>1, <1>6, <2>2
    <2> QED
      BY <2>1, <2>2
  <1> QED
    BY <1>4, <1>9, <1>10 DEF both, mid

LEMMA LiveAppend ==
    ASSUME NEW graph \in Graph, NEW live \in Seq(LiveOperation), NEW w \in LiveOperation
    PROVE  ApplyLiveOps(graph, Append(live, w)) = ApplyLive(ApplyLiveOps(graph, live), w)
  <1> DEFINE longer == Append(live, w)
             n == Len(live)
  <1>1. /\ longer \in Seq(LiveOperation) /\ n \in Nat /\ Len(longer) = n + 1 /\ longer[n + 1] = w
        /\ \A i \in 1..n : longer[i] = live[i]
    OBVIOUS
  <1>2. PICK f : LiveStates(f, graph, live) /\ ApplyLiveOps(graph, live) = f[n]
    BY LivePrefixes
  <1>3. f[0] = graph /\ \A i \in 1..n : f[i] = ApplyLive(f[i - 1], live[i])
    BY <1>2 DEF LiveStates
  <1> DEFINE h == [i \in 0..(n + 1) |-> IF i = n + 1 THEN ApplyLive(f[n], w) ELSE f[i]]
  <1> HIDE DEF longer, n
  <1>4. \A i \in 0..(n + 1) : h[i] = IF i = n + 1 THEN ApplyLive(f[n], w) ELSE f[i]
    OBVIOUS
  <1> HIDE DEF h
  <1>5. h[0] = graph
    BY <1>1, <1>3, <1>4
  <1>6. ASSUME NEW i \in 1..(n + 1) PROVE h[i] = ApplyLive(h[i - 1], longer[i])
    <2>1. i \in 0..(n + 1) /\ i - 1 \in 0..(n + 1) /\ i - 1 # n + 1 /\ h[i - 1] = f[i - 1]
      BY <1>1, <1>4
    <2>2. CASE i = n + 1
      BY <1>1, <1>4, <2>1, <2>2
    <2>3. CASE i # n + 1
      <3>1. i \in 1..n
        BY <1>1, <2>3
      <3> QED
        BY <1>1, <1>3, <1>4, <2>1, <2>3, <3>1
    <2> QED
      BY <2>2, <2>3
  <1>7. ApplyLiveOps(graph, longer) = h[n + 1]
    BY <1>1, <1>5, <1>6, LiveAgrees
  <1>8. h[n + 1] = ApplyLive(f[n], w)
    BY <1>1, <1>4
  <1> QED
    BY <1>2, <1>7, <1>8 DEF longer
\* A graph with some statements removed and then some added.
Patched(graph, rt, at, rq, aq) ==
    [triples |-> (graph.triples \ rt) \cup at, quads |-> (graph.quads \ rq) \cup aq]

OpIs(w, rt, at, rq, aq) == \A graph \in Graph : ApplyLive(graph, w) = Patched(graph, rt, at, rq, aq)
OpsAre(live, rt, at, rq, aq) == \A graph \in Graph : ApplyLiveOps(graph, live) = Patched(graph, rt, at, rq, aq)

LEMMA OpPatches ==
    ASSUME NEW w \in LiveOperation
    PROVE  \E rt, at, rq, aq : OpIs(w, rt, at, rq, aq)
  <1>1. ASSUME w.op = "PutTriple" PROVE OpIs(w, {}, {w.t}, {}, {})
    BY <1>1 DEF OpIs, ApplyLive, ApplyCommittedOp, DeleteTripleCommitted, RemoveSubject, Patched, Graph
  <1>2. ASSUME w.op = "DeleteTriple" PROVE OpIs(w, {w.t}, {}, {}, {})
    BY <1>2 DEF OpIs, ApplyLive, ApplyCommittedOp, DeleteTripleCommitted, RemoveSubject, Patched, Graph
  <1>3. ASSUME w.op = "PutQuad" PROVE OpIs(w, {}, {}, {}, {w.q})
    BY <1>3 DEF OpIs, ApplyLive, ApplyCommittedOp, DeleteTripleCommitted, RemoveSubject, Patched, Graph
  <1>4. ASSUME w.op = "DeleteQuad" PROVE OpIs(w, {}, {}, {w.q}, {})
    BY <1>4 DEF OpIs, ApplyLive, ApplyCommittedOp, DeleteTripleCommitted, RemoveSubject, Patched, Graph
  <1>5. ASSUME w.op = "DeleteKey" PROVE OpIs(w, {t \in Triple : t.s = w.s}, {}, {q \in Quad : q.t.s = w.s}, {})
    BY <1>5 DEF OpIs, ApplyLive, ApplyCommittedOp, DeleteTripleCommitted, RemoveSubject, Patched, Graph
  <1>6. ASSUME w.op = "Remove" PROVE OpIs(w, w.triples, {}, w.quads, {})
    BY <1>6 DEF OpIs, ApplyLive, ApplyCommittedOp, DeleteTripleCommitted, RemoveSubject, Patched, Graph
  <1>7. w.op \in {"PutTriple", "DeleteTriple", "PutQuad", "DeleteQuad", "DeleteKey", "Remove"}
    BY DEF LiveOperation, WriteOperation, Removal
  <1> QED
    BY <1>1, <1>2, <1>3, <1>4, <1>5, <1>6, <1>7

LEMMA PatchedTwice ==
    ASSUME NEW graph, NEW rt, NEW at, NEW rq, NEW aq, NEW rt2, NEW at2, NEW rq2, NEW aq2
    PROVE  Patched(Patched(graph, rt, at, rq, aq), rt2, at2, rq2, aq2)
              = Patched(graph, rt \cup rt2, (at \ rt2) \cup at2, rq \cup rq2, (aq \ rq2) \cup aq2)
  <1>1. (((graph.triples \ rt) \cup at) \ rt2) \cup at2 = (graph.triples \ (rt \cup rt2)) \cup ((at \ rt2) \cup at2)
    OBVIOUS
  <1>2. (((graph.quads \ rq) \cup aq) \ rq2) \cup aq2 = (graph.quads \ (rq \cup rq2)) \cup ((aq \ rq2) \cup aq2)
    OBVIOUS
  <1> QED
    BY <1>1, <1>2 DEF Patched

LEMMA LivePatches ==
    ASSUME NEW live \in Seq(LiveOperation)
    PROVE  \E rt, at, rq, aq : OpsAre(live, rt, at, rq, aq)
  <1> DEFINE n == Len(live)
             After(i, rt, at, rq, aq) ==
                \A graph \in Graph : \A f : LiveStates(f, graph, live) => f[i] = Patched(graph, rt, at, rq, aq)
             S == {i \in 0..n : \E rt, at, rq, aq : After(i, rt, at, rq, aq)}
  <1>0. n \in Nat /\ n = Len(live)
    OBVIOUS
  <1>1. 0 \in S
    <2>1. \A graph \in Graph : graph = Patched(graph, {}, {}, {}, {})
      BY DEF Patched, Graph
    <2>2. After(0, {}, {}, {}, {})
      BY <2>1 DEF LiveStates
    <2> HIDE DEF After
    <2> QED
      BY <1>0, <2>2
  <1>2. ASSUME NEW i \in 0..(n - 1), i \in S PROVE i + 1 \in S
    <2>1. PICK rt, at, rq, aq : After(i, rt, at, rq, aq)
      BY <1>2
    <2>2. i + 1 \in 1..n /\ i + 1 \in 0..n /\ (i + 1) - 1 = i /\ i \in 0..n /\ live[i + 1] \in LiveOperation
      BY <1>0
    <2>3. PICK rt2, at2, rq2, aq2 : OpIs(live[i + 1], rt2, at2, rq2, aq2)
      BY <2>2, OpPatches
    <2>4. After(i + 1, rt \cup rt2, (at \ rt2) \cup at2, rq \cup rq2, (aq \ rq2) \cup aq2)
      <3> SUFFICES ASSUME NEW graph \in Graph, NEW f, LiveStates(f, graph, live)
                   PROVE  f[i + 1] = Patched(graph, rt \cup rt2, (at \ rt2) \cup at2, rq \cup rq2, (aq \ rq2) \cup aq2)
        OBVIOUS
      <3>1. f[i] \in Graph /\ f[i + 1] = ApplyLive(f[i], live[i + 1])
        BY <1>0, <2>2 DEF LiveStates
      <3>2. f[i] = Patched(graph, rt, at, rq, aq)
        BY <2>1
      <3>3. f[i + 1] = Patched(f[i], rt2, at2, rq2, aq2)
        BY <2>3, <3>1 DEF OpIs
      <3>4. f[i + 1] = Patched(Patched(graph, rt, at, rq, aq), rt2, at2, rq2, aq2)
        BY <3>2, <3>3
      <3> QED
        BY <3>4, PatchedTwice
    <2> HIDE DEF After
    <2> QED
      BY <2>2, <2>4
  <1>3. \A i \in 0..n : i \in S
    <2> HIDE DEF S, n
    <2> QED
      BY <1>0, <1>1, <1>2, IntervalInduction
  <1>4. PICK rt, at, rq, aq : After(n, rt, at, rq, aq)
    BY <1>0, <1>3
  <1>5. ASSUME NEW graph \in Graph PROVE ApplyLiveOps(graph, live) = Patched(graph, rt, at, rq, aq)
    <2>1. PICK f : LiveStates(f, graph, live) /\ ApplyLiveOps(graph, live) = f[n]
      BY LivePrefixes
    <2> QED
      BY <1>4, <2>1
  <1>6. OpsAre(live, rt, at, rq, aq)
    BY <1>5 DEF OpsAre
  <1> QED
    BY <1>6

-----------------------------------------------------------------------------
(* The same operations on the statements and on the indexes of them.       *)

\* What the index families of a graph hold.
IndexesOf(graph) == [triples |-> graph.triples, quads |-> NamedOnly(graph.quads)]
NamedOps(live) == [i \in 1..Len(live) |-> NamedOp(live[i])]

LEMMA NamedOpTyped ==
    ASSUME NEW live \in Seq(LiveOperation)
    PROVE  NamedOps(live) \in Seq(LiveOperation) /\ Len(NamedOps(live)) = Len(live)
  <1>1. RemoveNothing \in LiveOperation
    BY DEF RemoveNothing, LiveOperation, Removal
  <1>2. \A i \in 1..Len(live) : NamedOp(live[i]) \in LiveOperation
    BY <1>1 DEF NamedOp
  <1> QED
    BY <1>2 DEF NamedOps

LEMMA NamedOpIndexes ==
    ASSUME NEW graph \in Graph, NEW w \in LiveOperation
    PROVE  /\ IndexesOf(graph) \in Graph
           /\ ApplyLive(IndexesOf(graph), NamedOp(w)) = IndexesOf(ApplyLive(graph, w))
  <1> USE DEF ApplyLive, ApplyCommittedOp, DeleteTripleCommitted, RemoveSubject, Graph,
              NamedOp, IndexesOf, NamedOnly, RemoveNothing
  <1>0. IndexesOf(graph) \in Graph
    OBVIOUS
  <1>1. CASE w.op \in {"PutTriple", "DeleteTriple"}
    BY <1>1
  <1>2. CASE w.op \in {"PutQuad", "DeleteQuad"} /\ w.q.g = DefaultGraph
    BY <1>2
  <1>3. CASE w.op \in {"PutQuad", "DeleteQuad"} /\ w.q.g # DefaultGraph
    BY <1>3
  <1>4. CASE w.op = "DeleteKey"
    BY <1>4
  <1>5. CASE w.op = "Remove"
    BY <1>5
  <1>6. w.op \in {"PutTriple", "DeleteTriple", "PutQuad", "DeleteQuad", "DeleteKey", "Remove"}
    BY DEF LiveOperation, WriteOperation, Removal
  <1> QED
    BY <1>0, <1>1, <1>2, <1>3, <1>4, <1>5, <1>6

LEMMA LiveIndexes ==
    ASSUME NEW graph \in Graph, NEW live \in Seq(LiveOperation)
    PROVE  ApplyLiveOps(IndexesOf(graph), NamedOps(live)) = IndexesOf(ApplyLiveOps(graph, live))
  <1> DEFINE n == Len(live)
             named == NamedOps(live)
  <1>1. PICK f : LiveStates(f, graph, live) /\ ApplyLiveOps(graph, live) = f[n]
    BY LivePrefixes
  <1>2. n \in Nat /\ n = Len(live)
    OBVIOUS
  <1>3. named \in Seq(LiveOperation) /\ Len(named) = n /\ \A i \in 1..n : named[i] = NamedOp(live[i])
    BY NamedOpTyped DEF NamedOps
  <1> DEFINE h == [i \in 0..n |-> IndexesOf(f[i])]
  <1>4. f[0] = graph /\ \A i \in 1..n : f[i - 1] \in Graph /\ live[i] \in LiveOperation /\ f[i] = ApplyLive(f[i - 1], live[i])
    <2>1. \A i \in 1..n : i - 1 \in 0..n
      BY <1>2
    <2> QED
      BY <1>1, <1>2, <2>1 DEF LiveStates
  <1> HIDE DEF n, named
  <1>5. \A i \in 0..n : h[i] = IndexesOf(f[i])
    OBVIOUS
  <1> HIDE DEF h
  <1>6. h[0] = IndexesOf(graph)
    BY <1>2, <1>4, <1>5
  <1>7. ASSUME NEW i \in 1..n PROVE h[i] = ApplyLive(h[i - 1], named[i])
    <2>1. h[i] = IndexesOf(f[i]) /\ h[i - 1] = IndexesOf(f[i - 1])
      BY <1>2, <1>5
    <2>2. named[i] = NamedOp(live[i]) /\ f[i - 1] \in Graph /\ live[i] \in LiveOperation /\ f[i] = ApplyLive(f[i - 1], live[i])
      BY <1>3, <1>4
    <2> QED
      BY <2>1, <2>2, NamedOpIndexes
  <1>8. IndexesOf(graph) \in Graph
    BY DEF IndexesOf, NamedOnly, Graph
  <1>9. \A i \in 1..Len(named) : h[i - 1] \in Graph => h[i] = ApplyLive(h[i - 1], named[i])
    BY <1>3, <1>7
  <1>10. ApplyLiveOps(IndexesOf(graph), named) = h[Len(named)]
    BY <1>3, <1>6, <1>8, <1>9, LiveAgrees
  <1>11. h[n] = IndexesOf(f[n])
    BY <1>2, <1>5
  <1> QED
    BY <1>1, <1>3, <1>10, <1>11 DEF named

\* The entries of a backlog bring an index as far as the operations they were left for.
EntryOps(entries) == [i \in 1..Len(entries) |-> NamedOp(entries[i].op)]

LEMMA EntriesTyped ==
    ASSUME NEW entries \in Seq(BacklogEntry)
    PROVE  EntryOps(entries) \in Seq(LiveOperation) /\ Len(EntryOps(entries)) = Len(entries)
  <1>1. RemoveNothing \in LiveOperation
    BY DEF RemoveNothing, LiveOperation, Removal
  <1>2. ASSUME NEW i \in 1..Len(entries) PROVE entries[i].op \in LiveOperation
    <2>1. entries[i] \in BacklogEntry
      OBVIOUS
    <2> QED
      BY <2>1 DEF BacklogEntry, LiveOperation
  <1>3. \A i \in 1..Len(entries) : NamedOp(entries[i].op) \in LiveOperation
    BY <1>1, <1>2 DEF NamedOp
  <1> QED
    BY <1>3 DEF EntryOps
LEMMA EntryOpsAppend ==
    ASSUME NEW entries \in Seq(BacklogEntry), NEW e \in BacklogEntry
    PROVE  EntryOps(Append(entries, e)) = Append(EntryOps(entries), NamedOp(e.op))
  <1> DEFINE longer == Append(entries, e)
             n == Len(entries)
             a == EntryOps(longer)
             b == Append(EntryOps(entries), NamedOp(e.op))
  <1>1. /\ longer \in Seq(BacklogEntry) /\ n \in Nat /\ Len(longer) = n + 1 /\ longer[n + 1] = e
        /\ \A i \in 1..n : longer[i] = entries[i]
    OBVIOUS
  <1>2. /\ a \in Seq(LiveOperation) /\ Len(a) = n + 1 /\ EntryOps(entries) \in Seq(LiveOperation) /\ Len(EntryOps(entries)) = n
    BY <1>1, EntriesTyped
  <1>3. NamedOp(e.op) \in LiveOperation
    <2>1. a[n + 1] = NamedOp(e.op)
      BY <1>1 DEF EntryOps
    <2> QED
      BY <1>1, <1>2, <2>1
  <1>4. /\ b \in Seq(LiveOperation) /\ Len(b) = n + 1 /\ b[n + 1] = NamedOp(e.op)
        /\ \A i \in 1..n : b[i] = EntryOps(entries)[i]
    BY <1>2, <1>3
  <1>5. /\ \A i \in 1..(n + 1) : a[i] = NamedOp(longer[i].op)
        /\ \A i \in 1..n : EntryOps(entries)[i] = NamedOp(entries[i].op)
    BY <1>1 DEF EntryOps
  <1> HIDE DEF a, b, longer, n
  <1>6. \A i \in 1..(n + 1) : a[i] = b[i]
    <2> TAKE i \in 1..(n + 1)
    <2>1. CASE i = n + 1
      BY <1>1, <1>4, <1>5, <2>1
    <2>2. CASE i # n + 1
      <3>1. i \in 1..n
        BY <1>1, <2>2
      <3> QED
        BY <1>1, <1>4, <1>5, <3>1
    <2> QED
      BY <2>1, <2>2
  <1>7. a = b
    BY <1>2, <1>4, <1>6, SeqEqual
  <1> QED
    BY <1>7 DEF a, b, longer

LEMMA ConcatParts ==
    ASSUME NEW R, NEW p \in Seq(R), NEW q \in Seq(R)
    PROVE  /\ p \o q \in Seq(R) /\ Len(p \o q) = Len(p) + Len(q)
           /\ \A i \in 1..Len(p) : (p \o q)[i] = p[i]
           /\ \A i \in 1..Len(q) : (p \o q)[Len(p) + i] = q[i]
  OBVIOUS

LEMMA EntryOpsConcat ==
    ASSUME NEW a \in Seq(BacklogEntry), NEW b \in Seq(BacklogEntry)
    PROVE  EntryOps(a \o b) = EntryOps(a) \o EntryOps(b)
  <1> DEFINE m == Len(a)
             n == Len(b)
             both == a \o b
             p == EntryOps(a)
             q == EntryOps(b)
             x == EntryOps(both)
             y == p \o q
  <1>1. /\ both \in Seq(BacklogEntry) /\ m \in Nat /\ n \in Nat /\ Len(both) = m + n
        /\ \A i \in 1..m : both[i] = a[i]
        /\ \A i \in 1..n : both[m + i] = b[i]
    OBVIOUS
  <1>2. /\ x \in Seq(LiveOperation) /\ Len(x) = m + n
        /\ p \in Seq(LiveOperation) /\ Len(p) = m
        /\ q \in Seq(LiveOperation) /\ Len(q) = n
    BY <1>1, EntriesTyped
  <1>3. /\ \A i \in 1..(m + n) : x[i] = NamedOp(both[i].op)
        /\ \A i \in 1..m : p[i] = NamedOp(a[i].op)
        /\ \A i \in 1..n : q[i] = NamedOp(b[i].op)
    BY <1>1 DEF EntryOps
  <1> HIDE DEF p, q, both, m, n
  <1>4. /\ y \in Seq(LiveOperation) /\ Len(y) = m + n
        /\ \A i \in 1..m : y[i] = p[i]
        /\ \A i \in 1..n : y[m + i] = q[i]
    <2>1. /\ p \o q \in Seq(LiveOperation) /\ Len(p \o q) = Len(p) + Len(q)
          /\ \A i \in 1..Len(p) : (p \o q)[i] = p[i]
          /\ \A i \in 1..Len(q) : (p \o q)[Len(p) + i] = q[i]
      <3>1. p \in Seq(LiveOperation) /\ q \in Seq(LiveOperation)
        BY <1>2
      <3> QED
        BY <3>1, ConcatParts
    <2> HIDE DEF y
    <2>2. y = p \o q
      BY DEF y
    <2> QED
      BY <1>2, <2>1, <2>2
  <1> HIDE DEF x, y
  <1>5. \A i \in 1..(m + n) : x[i] = y[i]
    <2> TAKE i \in 1..(m + n)
    <2>1. CASE i \in 1..m
      BY <1>1, <1>3, <1>4, <2>1, SMTT(20)
    <2>2. CASE i \notin 1..m
      <3>1. i - m \in 1..n /\ m + (i - m) = i
        BY <1>1, <2>2
      <3>2. x[i] = NamedOp(both[i].op)
        BY <1>3
      <3>3. both[i] = b[i - m] /\ y[i] = q[i - m] /\ q[i - m] = NamedOp(b[i - m].op)
        BY <1>1, <1>3, <1>4, <3>1
      <3> QED
        BY <3>2, <3>3
    <2> QED
      BY <2>1, <2>2
  <1>6. x = y
    BY <1>2, <1>4, <1>5, SeqEqual
  <1> QED
    BY <1>6 DEF x, y, p, q, both

Left(es, w, seq) == IF w = RemoveNothing THEN es ELSE Append(es, [seq |-> seq, op |-> w])

LEMMA EntriesLeft ==
    ASSUME NEW live \in Seq(LiveOperation), NEW seq \in Nat
    PROVE  \E f : /\ f[0] = <<>> /\ EntriesOf(live, seq) = f[Len(live)]
                  /\ \A i \in 0..Len(live) : f[i] \in Seq(BacklogEntry)
                  /\ \A i \in 1..Len(live) : f[i] = Left(f[i - 1], live[i], seq)
  <1> DEFINE n == Len(live)
             R == Seq(BacklogEntry)
             step == [i \in 1..n |-> [es \in R |-> Left(es, live[i], seq)]]
             Eq(f) == f = [i \in 0..n |-> IF i = 0 THEN <<>>
                                          ELSE IF live[i] = RemoveNothing THEN f[i - 1]
                                          ELSE Append(f[i - 1], [seq |-> seq, op |-> live[i]])]
             F == CHOOSE f : Eq(f)
  <1>1. n \in Nat /\ \A i \in 1..n : live[i] \in LiveOperation
    OBVIOUS
  <1>2. \A i \in 1..n : \A es \in R : step[i][es] = Left(es, live[i], seq)
    OBVIOUS
  <1>3. EntriesOf(live, seq) = F[n]
    BY DEF EntriesOf
  <1>4. <<>> \in R
    OBVIOUS
  <1>5. \A i \in 1..n : \A es \in R : Left(es, live[i], seq) \in R
    <2> SUFFICES ASSUME NEW i \in 1..n, NEW es \in R PROVE Left(es, live[i], seq) \in R
      OBVIOUS
    <2>1. [seq |-> seq, op |-> live[i]] \in BacklogEntry
      BY <1>1 DEF BacklogEntry, LiveOperation
    <2> QED
      BY <2>1 DEF Left
  <1> HIDE DEF n, step, R
  <1>6. Steps(step, n, R)
    BY <1>2, <1>5 DEF Steps
  <1>7. PICK f : Iterates(f, <<>>, step, n, R)
    BY <1>1, <1>4, <1>6, PrefixRecursion
  <1> DEFINE h == [i \in 0..n |-> f[i]]
  <1>8. /\ f[0] = <<>> /\ \A i \in 0..n : f[i] \in R
        /\ \A i \in 1..n : i - 1 \in 0..n /\ f[i] = Left(f[i - 1], live[i], seq)
    BY <1>1, <1>2, <1>7 DEF Iterates
  <1>9. Eq(h)
    BY <1>1, <1>8 DEF Left
  <1> HIDE DEF h
  <1>10. Eq(F)
    BY <1>9
  <1> HIDE DEF F
  <1>11. F[0] = <<>> /\ \A i \in 1..n : F[i] = Left(F[i - 1], live[i], seq)
    <2>1. \A i \in 0..n : F[i] = IF i = 0 THEN <<>> ELSE Left(F[i - 1], live[i], seq)
      BY <1>10 DEF Left
    <2>2. 0 \in 0..n /\ \A i \in 1..n : i \in 0..n /\ i # 0
      BY <1>1
    <2> QED
      BY <2>1, <2>2
  <1>12. \A i \in 1..n : F[i - 1] \in R => F[i] = step[i][F[i - 1]]
    BY <1>2, <1>11
  <1>13. Iterates(F, <<>>, step, n, R)
    BY <1>1, <1>4, <1>6, <1>11, <1>12, PrefixUnique
  <1>14. \A i \in 0..n : F[i] \in R
    BY <1>13 DEF Iterates
  <1> QED
    BY <1>3, <1>11, <1>14 DEF n, R

LEMMA EntriesOfAre ==
    ASSUME NEW live \in Seq(LiveOperation), NEW seq \in Nat
    PROVE  /\ EntriesOf(live, seq) \in Seq(BacklogEntry)
           /\ \A i \in 1..Len(EntriesOf(live, seq)) : EntriesOf(live, seq)[i].seq = seq
           /\ \A graph \in Graph : ApplyLiveOps(graph, EntryOps(EntriesOf(live, seq))) = ApplyLiveOps(graph, NamedOps(live))
  <1> DEFINE n == Len(live)
             named == NamedOps(live)
  <1>1. PICK es : /\ es[0] = <<>> /\ EntriesOf(live, seq) = es[n]
                  /\ \A i \in 0..n : es[i] \in Seq(BacklogEntry)
                  /\ \A i \in 1..n : es[i] = Left(es[i - 1], live[i], seq)
    BY EntriesLeft
  <1>2. n \in Nat /\ n \in 0..n /\ \A i \in 1..n : live[i] \in LiveOperation
    OBVIOUS
  <1>3. named \in Seq(LiveOperation) /\ Len(named) = n /\ \A i \in 1..n : named[i] = NamedOp(live[i])
    BY NamedOpTyped DEF NamedOps
  <1> HIDE DEF n, named
  <1>4. \A i \in 0..n : \A j \in 1..Len(es[i]) : es[i][j].seq = seq
    <2> DEFINE S == {i \in 0..n : \A j \in 1..Len(es[i]) : es[i][j].seq = seq}
    <2>1. 0 \in S
      BY <1>1, <1>2
    <2>2. ASSUME NEW i \in 0..(n - 1), i \in S PROVE i + 1 \in S
      <3>1. i + 1 \in 1..n /\ i + 1 \in 0..n /\ i \in 0..n /\ (i + 1) - 1 = i
        BY <1>2
      <3>2. es[i] \in Seq(BacklogEntry) /\ es[i + 1] = Left(es[i], live[i + 1], seq)
        BY <1>1, <3>1
      <3>3. \A j \in 1..Len(es[i + 1]) : es[i + 1][j].seq = seq
        <4>1. CASE live[i + 1] = RemoveNothing
          BY <2>2, <3>2, <4>1 DEF Left
        <4>2. CASE live[i + 1] # RemoveNothing
          <5> DEFINE e == [seq |-> seq, op |-> live[i + 1]]
          <5>1. es[i + 1] = Append(es[i], e) /\ e.seq = seq
            BY <3>2, <4>2 DEF Left
          <5> HIDE DEF e
          <5>2. Len(es[i + 1]) = Len(es[i]) + 1 /\ es[i + 1][Len(es[i]) + 1] = e
                /\ \A j \in 1..Len(es[i]) : es[i + 1][j] = es[i][j]
            BY <3>2, <5>1
          <5>3. Len(es[i]) \in Nat
            BY <3>2
          <5> QED
            BY <2>2, <5>1, <5>2, <5>3
        <4> QED
          BY <4>1, <4>2
      <3> QED
        BY <3>1, <3>3
    <2> HIDE DEF S
    <2>3. \A i \in 0..n : i \in S
      BY <1>2, <2>1, <2>2, IntervalInduction
    <2> QED
      BY <2>3 DEF S
  <1>5. ASSUME NEW graph \in Graph
        PROVE  ApplyLiveOps(graph, EntryOps(es[n])) = ApplyLiveOps(graph, named)
    <2>1. PICK f : LiveStates(f, graph, named) /\ ApplyLiveOps(graph, named) = f[Len(named)]
      BY <1>3, LivePrefixes
    <2>2. /\ f[0] = graph /\ \A i \in 0..n : f[i] \in Graph
          /\ \A i \in 1..n : named[i] \in LiveOperation /\ f[i] = ApplyLive(f[i - 1], named[i])
      BY <1>3, <2>1 DEF LiveStates
    <2> DEFINE h == [i \in 0..n |-> ApplyLiveOps(graph, EntryOps(es[i]))]
    <2>3. \A i \in 0..n : h[i] = ApplyLiveOps(graph, EntryOps(es[i]))
      OBVIOUS
    <2> HIDE DEF h
    <2>4. h[0] = graph
      <3>1. EntryOps(<<>>) \in Seq(LiveOperation) /\ Len(EntryOps(<<>>)) = 0
        <4>1. <<>> \in Seq(BacklogEntry) /\ Len(<<>>) = 0
          OBVIOUS
        <4> QED
          BY <4>1, EntriesTyped
      <3>2. PICK x : LiveStates(x, graph, EntryOps(<<>>)) /\ ApplyLiveOps(graph, EntryOps(<<>>)) = x[Len(EntryOps(<<>>))]
        BY <3>1, LivePrefixes
      <3>3. ApplyLiveOps(graph, EntryOps(<<>>)) = graph
        BY <3>1, <3>2 DEF LiveStates
      <3> QED
        BY <1>1, <1>2, <2>3, <3>3
    <2>5. ASSUME NEW i \in 1..n, f[i - 1] = h[i - 1] PROVE f[i] = h[i]
      <3>1. i - 1 \in 0..n /\ i \in 0..n
        BY <1>2
      <3>2. es[i - 1] \in Seq(BacklogEntry) /\ es[i] = Left(es[i - 1], live[i], seq) /\ live[i] \in LiveOperation
        BY <1>1, <1>2, <3>1
      <3>3. f[i] = ApplyLive(h[i - 1], NamedOp(live[i])) /\ h[i - 1] \in Graph
        BY <1>3, <2>2, <2>5, <3>1
      <3>4. h[i - 1] = ApplyLiveOps(graph, EntryOps(es[i - 1])) /\ h[i] = ApplyLiveOps(graph, EntryOps(es[i]))
        BY <2>3, <3>1
      <3>5. CASE live[i] = RemoveNothing
        <4>1. h[i] = h[i - 1]
          BY <3>2, <3>4, <3>5 DEF Left
        <4>2. NamedOp(live[i]) = RemoveNothing
          BY <3>5 DEF NamedOp
        <4>3. ApplyLive(h[i - 1], RemoveNothing) = h[i - 1]
          BY <3>3 DEF ApplyLive, RemoveNothing, Graph
        <4> QED
          BY <3>3, <4>1, <4>2, <4>3
      <3>6. CASE live[i] # RemoveNothing
        <4> DEFINE e == [seq |-> seq, op |-> live[i]]
        <4>1. es[i] = Append(es[i - 1], e) /\ e.op = live[i] /\ e \in BacklogEntry
          BY <3>2, <3>6 DEF Left, BacklogEntry, LiveOperation
        <4> HIDE DEF e
        <4>2. EntryOps(es[i]) = Append(EntryOps(es[i - 1]), NamedOp(live[i]))
          BY <3>2, <4>1, EntryOpsAppend
        <4>3. EntryOps(es[i - 1]) \in Seq(LiveOperation) /\ NamedOp(live[i]) \in LiveOperation
          BY <1>3, <2>2, <3>2, EntriesTyped
        <4>4. h[i] = ApplyLive(h[i - 1], NamedOp(live[i]))
          BY <3>4, <4>2, <4>3, LiveAppend
        <4> QED
          BY <3>3, <4>4
      <3> QED
        BY <3>5, <3>6
    <2>6. f[n] = h[n]
      BY <1>2, <2>2, <2>4, <2>5, PrefixAgree
    <2> QED
      BY <1>2, <1>3, <2>1, <2>3, <2>6
  <1> QED
    BY <1>1, <1>2, <1>4, <1>5 DEF named
\* The entries that wait to be applied make up what an index lacks of a graph.
Covers(index, data, entries) == ApplyLiveOps(index, EntryOps(entries)) = IndexesOf(data)

LEMMA IndexesTyped ==
    ASSUME NEW graph \in Graph
    PROVE  IndexesOf(graph) \in Graph
  BY DEF IndexesOf, NamedOnly, Graph

LEMMA NoEntriesCover ==
    ASSUME NEW index \in Graph, NEW data
    PROVE  Covers(index, data, <<>>) <=> index = IndexesOf(data)
  <1>1. <<>> \in Seq(BacklogEntry) /\ Len(<<>>) = 0
    OBVIOUS
  <1> DEFINE live == EntryOps(<<>>)
  <1>2. live \in Seq(LiveOperation) /\ Len(live) = 0
    BY <1>1, EntriesTyped
  <1> HIDE DEF live
  <1>3. PICK f : LiveStates(f, index, live) /\ ApplyLiveOps(index, live) = f[Len(live)]
    BY <1>2, LivePrefixes
  <1>4. ApplyLiveOps(index, live) = index
    BY <1>2, <1>3 DEF LiveStates
  <1> QED
    BY <1>4 DEF Covers, live

\* Operations leave entries that bring an index as far as they bring the statements.
LEMMA CoversGrow ==
    ASSUME NEW index \in Graph, NEW data \in Graph, NEW entries \in Seq(BacklogEntry),
           NEW live \in Seq(LiveOperation), NEW seq \in Nat, Covers(index, data, entries)
    PROVE  Covers(index, ApplyLiveOps(data, live), entries \o EntriesOf(live, seq))
  <1> DEFINE more == EntriesOf(live, seq)
             a    == EntryOps(entries)
             b    == EntryOps(more)
  <1>1. /\ more \in Seq(BacklogEntry)
        /\ \A graph \in Graph : ApplyLiveOps(graph, b) = ApplyLiveOps(graph, NamedOps(live))
    BY EntriesOfAre
  <1> HIDE DEF more
  <1>2. a \in Seq(LiveOperation) /\ b \in Seq(LiveOperation)
    BY <1>1, EntriesTyped
  <1>3. EntryOps(entries \o more) = a \o b
    BY <1>1, EntryOpsConcat
  <1>4. IndexesOf(data) \in Graph
    BY IndexesTyped
  <1> HIDE DEF a, b
  <1>5. ApplyLiveOps(index, a) = IndexesOf(data)
    BY DEF Covers, a
  <1>6. ApplyLiveOps(index, a \o b) = ApplyLiveOps(ApplyLiveOps(index, a), b)
    BY <1>2, LiveConcat
  <1>7. ApplyLiveOps(index, a \o b) = ApplyLiveOps(IndexesOf(data), NamedOps(live))
    BY <1>1, <1>4, <1>5, <1>6
  <1>8. ApplyLiveOps(index, a \o b) = IndexesOf(ApplyLiveOps(data, live))
    BY <1>7, LiveIndexes
  <1> QED
    BY <1>3, <1>8 DEF Covers, more

\* Entries can be applied again, and to an index of which one family has them and another has not.
LEMMA CoversMix ==
    ASSUME NEW index \in Graph, NEW data \in Graph, NEW entries \in Seq(BacklogEntry), Covers(index, data, entries),
           NEW triples \in {index.triples, data.triples}, NEW quads \in {index.quads, NamedOnly(data.quads)}
    PROVE  Covers([triples |-> triples, quads |-> quads], data, entries)
  <1> DEFINE live == EntryOps(entries)
             mixed == [triples |-> triples, quads |-> quads]
  <1>1. live \in Seq(LiveOperation)
    BY EntriesTyped
  <1>2. mixed \in Graph
    BY DEF Graph, NamedOnly
  <1> HIDE DEF live
  <1>3. PICK rt, at, rq, aq : OpsAre(live, rt, at, rq, aq)
    BY <1>1, LivePatches
  <1>4. Patched(index, rt, at, rq, aq) = IndexesOf(data)
    BY <1>3 DEF OpsAre, Covers, live
  <1>5. (index.triples \ rt) \cup at = data.triples /\ (index.quads \ rq) \cup aq = NamedOnly(data.quads)
    BY <1>4 DEF Patched, IndexesOf
  <1>6. (triples \ rt) \cup at = data.triples
    BY <1>5
  <1>7. (quads \ rq) \cup aq = NamedOnly(data.quads)
    BY <1>5
  <1>8. Patched(mixed, rt, at, rq, aq) = IndexesOf(data)
    BY <1>6, <1>7 DEF Patched, IndexesOf
  <1> HIDE DEF mixed
  <1>9. ApplyLiveOps(mixed, live) = IndexesOf(data)
    BY <1>2, <1>3, <1>8 DEF OpsAre
  <1> QED
    BY <1>9 DEF Covers, live, mixed

-----------------------------------------------------------------------------
(* The two ways a commit computes what its operations do: on the families, *)
(* with a key delete resolved to statements, and on the version's graph.   *)

KeyFree(ops) == \A i \in 1..Len(ops) : ops[i].op # "DeleteKey"
KeyDelete(s) == <<[op |-> "DeleteKey", s |-> s]>>

LEMMA KeyFreeLive ==
    ASSUME NEW ops \in Seq(WriteOperation), KeyFree(ops)
    PROVE  LiveOps(ops) = ops
  <1>1. DOMAIN ops = 1..Len(ops) /\ ops = [i \in DOMAIN ops |-> ops[i]]
    OBVIOUS
  <1>2. \A i \in DOMAIN ops : LiveOp(ops[i]) = ops[i]
    BY <1>1 DEF LiveOp, KeyFree
  <1>3. LiveOps(ops) = [i \in DOMAIN ops |-> ops[i]]
    BY <1>2 DEF LiveOps
  <1> QED
    BY <1>1, <1>3

LEMMA KeyFreeApplies ==
    ASSUME NEW ops \in Seq(WriteOperation), NEW graph \in Graph
    PROVE  ops \in Seq(LiveOperation) /\ ApplyLiveOps(graph, ops) = ApplyAll(graph, ops)
  <1>1. ops \in Seq(LiveOperation)
    BY DEF LiveOperation
  <1>2. PICK f : /\ f[0] = graph /\ ApplyAll(graph, ops) = f[Len(ops)]
                 /\ \A i \in 1..Len(ops) : /\ f[i - 1] \in Graph /\ ops[i] \in WriteOperation
                                           /\ f[i] = ApplyCommittedOp(f[i - 1], ops[i])
    BY Stepwise
  <1>3. \A i \in 1..Len(ops) : f[i - 1] \in Graph => f[i] = ApplyLive(f[i - 1], ops[i])
    <2>1. \A w \in WriteOperation : w.op # "Remove"
      BY DEF WriteOperation
    <2> QED
      BY <1>2, <2>1 DEF ApplyLive
  <1>4. ApplyLiveOps(graph, ops) = f[Len(ops)]
    BY <1>1, <1>2, <1>3, LiveAgrees
  <1> QED
    BY <1>1, <1>2, <1>4

LEMMA KeyDeleteApplies ==
    ASSUME NEW s \in Subjects, NEW graph \in Graph
    PROVE  KeyDelete(s) \in Seq(WriteOperation) /\ ApplyAll(graph, KeyDelete(s)) = RemoveSubject(graph, s)
  <1> DEFINE ops == KeyDelete(s)
  <1>1. ops \in Seq(WriteOperation) /\ Len(ops) = 1 /\ ops[1].op = "DeleteKey" /\ ops[1].s = s
    BY DEF KeyDelete, WriteOperation
  <1> HIDE DEF ops
  <1>2. PICK f : /\ f[0] = graph /\ ApplyAll(graph, ops) = f[Len(ops)]
                 /\ \A i \in 1..Len(ops) : /\ f[i - 1] \in Graph /\ ops[i] \in WriteOperation
                                           /\ f[i] = ApplyCommittedOp(f[i - 1], ops[i])
    BY <1>1, Stepwise
  <1>3. f[1] = ApplyCommittedOp(graph, ops[1])
    <2>1. 1 \in 1..Len(ops) /\ 1 - 1 = 0
      BY <1>1
    <2>2. f[1] = ApplyCommittedOp(f[1 - 1], ops[1])
      BY <1>2, <2>1
    <2> QED
      BY <1>2, <2>1, <2>2
  <1>4. ApplyCommittedOp(graph, ops[1]) = RemoveSubject(graph, s)
    BY <1>1 DEF ApplyCommittedOp
  <1> QED
    BY <1>1, <1>2, <1>3, <1>4 DEF ops

LEMMA KeyDeleteLive ==
    ASSUME NEW s \in Subjects, db.data \in Graph, TriplesOfSubject(s) = {t \in db.data.triples : t.s = s}
    PROVE  LET live == LiveOps(KeyDelete(s))
           IN  live \in Seq(LiveOperation) /\ ApplyLiveOps(db.data, live) = RemoveSubject(db.data, s)
  <1> DEFINE live == LiveOps(KeyDelete(s))
             w == [op |-> "Remove", triples |-> {t \in db.data.triples : t.s = s},
                   quads |-> {q \in db.data.quads : q.t.s = s}]
  <1>1. LiveOp([op |-> "DeleteKey", s |-> s]) = w
    BY DEF LiveOp, DoomedQuads
  <1>2. live = [i \in 1..1 |-> w]
    <2> DEFINE k == [op |-> "DeleteKey", s |-> s]
               ops == <<k>>
    <2>1. DOMAIN ops = 1..1 /\ ops[1] = k
      OBVIOUS
    <2>2. live = [i \in DOMAIN ops |-> LiveOp(ops[i])]
      BY DEF LiveOps, KeyDelete
    <2> HIDE DEF live, ops, k, w
    <2>3. live = [i \in 1..1 |-> LiveOp(ops[i])]
      BY <2>1, <2>2
    <2>4. \A i \in 1..1 : LiveOp(ops[i]) = w
      <3>1. LiveOp(k) = w
        BY <1>1 DEF k
      <3> QED
        BY <2>1, <3>1
    <2> QED
      BY <2>3, <2>4
  <1>3. w \in LiveOperation
    BY DEF LiveOperation, Removal, Graph
  <1>4. live \in Seq(LiveOperation) /\ Len(live) = 1 /\ live[1] = w
    BY <1>2, <1>3
  <1> HIDE DEF live
  <1>5. PICK f : LiveStates(f, db.data, live) /\ ApplyLiveOps(db.data, live) = f[Len(live)]
    BY <1>4, LivePrefixes
  <1>6. f[1] = ApplyLive(db.data, w)
    <2>1. 1 \in 1..Len(live) /\ 1 - 1 = 0
      BY <1>4
    <2>2. f[1] = ApplyLive(f[1 - 1], live[1]) /\ f[0] = db.data
      BY <1>5, <2>1 DEF LiveStates
    <2> QED
      BY <1>4, <2>1, <2>2
  <1>7. ApplyLive(db.data, w) = RemoveSubject(db.data, s)
    BY DEF ApplyLive, RemoveSubject, Graph
  <1> QED
    BY <1>4, <1>5, <1>6, <1>7 DEF live
-----------------------------------------------------------------------------
(* The indexes, the backlog and the writes.                                *)

\* An index_maintenance setting outlives restarts; key deletes come from delete_by_key, not in batches.
ModeFixed == ~ModeMayChange
KeysApart == \A ops \in Batches : KeyFree(ops)

\* What opening makes of the index families.
Filled == [triples |-> Backfill(db.data.triples, db.index.triples),
           quads   |-> Backfill(NamedOnly(db.data.quads), db.index.quads)]

\* The indexes, with the backlog applied, are those of the statements: of a closed database when it is opened.
IndexInv == Covers(IF up THEN db.index ELSE Filled, db.data, db.backlog)

\* What is in the backlog was committed after the watermark.
BacklogInv ==
    /\ mode = "Sync" => db.backlog = <<>>
    /\ \A i \in 1..Len(db.backlog) : db.mark < db.backlog[i].seq /\ db.backlog[i].seq < db.next
    /\ db.mark = -1 => db.backlog = <<>>
    /\ db.mark <= 0 \/ db.mark < db.next
    /\ up /\ mode = "Async" => db.mark = watermark

\* A write is of one transaction that has nothing else staged, or of one key delete.
WriteOf(write) ==
    /\ write \in [txn : SUBSET Txns, ops : Seq(WriteOperation), seq : 1..MaxVersion]
    /\ \/ \E t \in Txns : write.txn = {t} /\ KeyFree(write.ops)
       \/ \E s \in Subjects : write.txn = {} /\ write.ops = KeyDelete(s)

WriteInv ==
    /\ \A t \in DOMAIN pending : KeyFree(pending[t])
    /\ writing # NoWrite => WriteOf(writing)
    /\ InFlight \cap DOMAIN pending = {}

StoreInv == EngineInv /\ TypeOK /\ LiveIsNewest /\ IndexInv /\ BacklogInv /\ WriteInv

\* Where reads may use the indexes, these are complete.
LEMMA IndexRight ==
    ASSUME StoreInv, up, IndexCaughtUp
    PROVE  db.index = IndexesOf(db.data)
  <1>1. db.index \in Graph /\ db.backlog \in Seq(BacklogEntry) /\ mode \in {"Sync", "Async"}
    BY ModesAssumption DEF StoreInv, TypeOK
  <1>2. db.backlog = <<>>
    <2>1. CASE mode = "Sync"
      BY <2>1 DEF StoreInv, BacklogInv
    <2>2. CASE mode = "Async"
      <3>1. db.mark = watermark /\ watermark >= next_version - 1 /\ db.next <= next_version
        BY <2>2 DEF StoreInv, BacklogInv, IndexCaughtUp, CommittedVersion, EngineInv, CounterInv
      <3>2. db.next \in Nat /\ next_version \in Nat /\ watermark \in Nat
        BY EngineBounds DEF StoreInv, TypeOK
      <3>3. ASSUME NEW i \in 1..Len(db.backlog) PROVE FALSE
        <4>1. db.mark < db.backlog[i].seq /\ db.backlog[i].seq < db.next
          BY DEF StoreInv, BacklogInv
        <4>2. db.backlog[i].seq \in Nat
          <5>1. db.backlog[i] \in BacklogEntry
            BY <1>1
          <5> QED
            BY <5>1 DEF BacklogEntry
        <4> QED
          BY <3>1, <3>2, <4>1, <4>2
      <3>4. Len(db.backlog) = 0
        <4>1. Len(db.backlog) \in Nat
          BY <1>1
        <4>2. Len(db.backlog) \notin 1..Len(db.backlog)
          BY <3>3
        <4> QED
          BY <4>1, <4>2
      <3> QED
        BY <1>1, <3>4
    <2> QED
      BY <1>1, <2>1, <2>2
  <1>3. Covers(db.index, db.data, <<>>)
    BY <1>2 DEF StoreInv, IndexInv
  <1> QED
    BY <1>1, <1>3, NoEntriesCover

LEMMA SubjectRead ==
    ASSUME StoreInv, up, NEW s
    PROVE  TriplesOfSubject(s) = {t \in db.data.triples : t.s = s}
  <1>1. CASE IndexCaughtUp
    <2>1. db.index.triples = db.data.triples
      BY <1>1, IndexRight DEF IndexesOf
    <2> QED
      BY <2>1 DEF TriplesOfSubject
  <1>2. CASE ~IndexCaughtUp
    BY <1>2 DEF TriplesOfSubject
  <1> QED
    BY <1>1, <1>2

LEMMA GraphRead ==
    ASSUME StoreInv, up, NEW g \in GraphNames
    PROVE  QuadsInGraph(g) = {q \in db.data.quads : q.g = g}
  <1>1. CASE IndexCaughtUp
    <2>1. db.index.quads = NamedOnly(db.data.quads) /\ g # DefaultGraph
      BY <1>1, IndexRight, NamesAssumption DEF IndexesOf
    <2> QED
      BY <1>1, <2>1 DEF QuadsInGraph, NamedOnly
  <1>2. CASE ~IndexCaughtUp
    BY <1>2 DEF QuadsInGraph
  <1> QED
    BY <1>1, <1>2

LEMMA KeyFreeAfter ==
    ASSUME StoreInv, NEW ops \in Seq(WriteOperation), KeyFree(ops)
    PROVE  /\ LiveOps(ops) \in Seq(LiveOperation)
           /\ LiveAfter(ops) = ApplyAll(db.data, ops)
  <1>1. LiveOps(ops) = ops
    BY KeyFreeLive
  <1>2. db.data \in Graph
    BY DEF StoreInv, TypeOK
  <1>3. ops \in Seq(LiveOperation) /\ ApplyLiveOps(db.data, ops) = ApplyAll(db.data, ops)
    BY <1>2, KeyFreeApplies
  <1> QED
    BY <1>1, <1>3 DEF LiveAfter

\* A commit does to the families what it does to the graph of its version.
LEMMA WriteLive ==
    ASSUME StoreInv, writing # NoWrite
    PROVE  /\ LiveOps(writing.ops) \in Seq(LiveOperation)
           /\ LiveAfter(writing.ops) = ApplyAll(db.data, writing.ops)
           /\ LiveAfter(writing.ops) \in Graph
  <1>1. db.data \in Graph /\ WriteOf(writing) /\ writing.ops \in Seq(WriteOperation) /\ up
    BY DEF StoreInv, TypeOK, WriteInv, WriteOf, EngineInv, CounterInv
  <1>2. CASE KeyFree(writing.ops)
    BY <1>1, <1>2, KeyFreeAfter, ApplyAllTyped
  <1>3. ASSUME NEW s \in Subjects, writing.ops = KeyDelete(s)
        PROVE  /\ LiveOps(writing.ops) \in Seq(LiveOperation)
               /\ LiveAfter(writing.ops) = ApplyAll(db.data, writing.ops)
               /\ LiveAfter(writing.ops) \in Graph
    <2>1. TriplesOfSubject(s) = {t \in db.data.triples : t.s = s}
      BY <1>1, SubjectRead
    <2>2. /\ LiveOps(KeyDelete(s)) \in Seq(LiveOperation)
          /\ ApplyLiveOps(db.data, LiveOps(KeyDelete(s))) = RemoveSubject(db.data, s)
      BY <1>1, <2>1, KeyDeleteLive
    <2>3. ApplyAll(db.data, KeyDelete(s)) = RemoveSubject(db.data, s)
      BY <1>1, KeyDeleteApplies
    <2> QED
      BY <1>1, <1>3, <2>2, <2>3, ApplyAllTyped DEF LiveAfter
  <1> QED
    BY <1>1, <1>2, <1>3 DEF WriteOf

LEMMA IndexAfterIs ==
    ASSUME NEW ops, DOMAIN LiveOps(ops) = 1..Len(LiveOps(ops))
    PROVE  IndexAfter(ops) = ApplyLiveOps(db.index, NamedOps(LiveOps(ops)))
  <1> DEFINE live == LiveOps(ops)
  <1>1. DOMAIN live = DOMAIN ops /\ \A i \in DOMAIN ops : live[i] = LiveOp(ops[i])
    BY DEF LiveOps
  <1> HIDE DEF live
  <1>2. DOMAIN ops = 1..Len(live)
    BY <1>1 DEF live
  <1>3. [i \in DOMAIN ops |-> NamedOp(LiveOp(ops[i]))] = [i \in 1..Len(live) |-> NamedOp(live[i])]
    BY <1>1, <1>2
  <1> QED
    BY <1>3 DEF IndexAfter, NamedOps, live

LEMMA CaughtUpIs ==
    ASSUME NEW entries \in Seq(BacklogEntry)
    PROVE  CaughtUp(entries) = ApplyLiveOps(db.index, EntryOps(entries))
  <1>1. DOMAIN entries = 1..Len(entries)
    OBVIOUS
  <1>2. [i \in DOMAIN entries |-> NamedOp(entries[i].op)] = [i \in 1..Len(entries) |-> NamedOp(entries[i].op)]
    BY <1>1
  <1> QED
    BY <1>2 DEF CaughtUp, EntryOps
\* What the steps change one after the other.
Own == TypeOK /\ LiveIsNewest /\ IndexInv /\ BacklogInv /\ WriteInv

\* A step that leaves the database and the watermark alone.
LEMMA DatabaseKept ==
    ASSUME StoreInv, UNCHANGED <<db, up, mode, watermark>>
    PROVE  /\ LiveIsNewest' /\ IndexInv' /\ BacklogInv'
           /\ (next_version' \in 1..(MaxVersion + 2) /\ retained' \subseteq DOMAIN db.stored
               /\ DOMAIN pending' \subseteq Txns /\ (\A t \in DOMAIN pending' : pending'[t] \in Seq(WriteOperation))
               /\ DOMAIN captured' \subseteq Readers /\ DOMAIN pins' \subseteq Readers) => TypeOK'
  <1>1. LiveIsNewest'
    BY DEF StoreInv, LiveIsNewest
  <1>2. IndexInv'
    BY DEF StoreInv, IndexInv, Filled
  <1>3. BacklogInv'
    BY DEF StoreInv, BacklogInv
  <1> QED
    BY <1>1, <1>2, <1>3 DEF StoreInv, TypeOK

LEMMA KeyFreeConcat ==
    ASSUME NEW a \in Seq(WriteOperation), NEW b \in Seq(WriteOperation), KeyFree(a), KeyFree(b)
    PROVE  a \o b \in Seq(WriteOperation) /\ KeyFree(a \o b)
  <1> DEFINE both == a \o b
  <1>1. /\ both \in Seq(WriteOperation) /\ Len(both) = Len(a) + Len(b) /\ Len(a) \in Nat /\ Len(b) \in Nat
        /\ \A i \in 1..Len(a) : both[i] = a[i]
        /\ \A i \in 1..Len(b) : both[Len(a) + i] = b[i]
    BY ConcatParts
  <1> HIDE DEF both
  <1>2. ASSUME NEW i \in 1..Len(both) PROVE both[i].op # "DeleteKey"
    <2>1. CASE i <= Len(a)
      <3>1. i \in 1..Len(a)
        BY <1>1, <2>1
      <3> QED
        BY <1>1, <3>1 DEF KeyFree
    <2>2. CASE i > Len(a)
      <3>1. i - Len(a) \in 1..Len(b) /\ Len(a) + (i - Len(a)) = i
        BY <1>1, <2>2
      <3>2. both[i] = b[i - Len(a)]
        BY <1>1, <3>1
      <3> QED
        BY <3>1, <3>2 DEF KeyFree
    <2> QED
      BY <1>1, <2>1, <2>2
  <1> QED
    BY <1>1, <1>2 DEF KeyFree, both

LEMMA ApplyBatchOwn ==
    ASSUME KeysApart, StoreInv, NEW t \in Txns, NEW ops \in Batches, ApplyWriteBatch(t, ops)
    PROVE  Own'
  <1>1. /\ t \notin InFlight /\ pending' = With(pending, t, Extended(t, ops))
        /\ UNCHANGED <<db, up, mode, watermark, next_version, retained, writing, captured, pins>>
    BY DEF ApplyWriteBatch, process, snapshots
  <1>2. /\ DOMAIN pending \subseteq Txns
        /\ \A x \in DOMAIN pending : pending[x] \in Seq(WriteOperation) /\ KeyFree(pending[x])
    BY DEF StoreInv, TypeOK, WriteInv
  <1>3. StagedOf(t) \in Seq(WriteOperation) /\ KeyFree(StagedOf(t))
    <2>1. CASE t \in DOMAIN pending
      BY <1>2, <2>1 DEF StagedOf
    <2>2. CASE t \notin DOMAIN pending
      BY <2>2 DEF StagedOf, KeyFree
    <2> QED
      BY <2>1, <2>2
  <1>4. ops \in Seq(WriteOperation) /\ KeyFree(ops)
    BY BatchesAssumption DEF KeysApart
  <1>5. Extended(t, ops) \in Seq(WriteOperation) /\ KeyFree(Extended(t, ops))
    BY <1>3, <1>4, KeyFreeConcat DEF Extended
  <1>6. /\ DOMAIN pending' = DOMAIN pending \cup {t} /\ pending'[t] = Extended(t, ops)
        /\ \A x \in DOMAIN pending : x # t => pending'[x] = pending[x]
    BY <1>1 DEF With
  <1>7. \A x \in DOMAIN pending' : pending'[x] \in Seq(WriteOperation) /\ KeyFree(pending'[x])
    BY <1>2, <1>5, <1>6
  <1>8. InFlight' = InFlight
    BY <1>1 DEF InFlight
  <1>9. WriteInv'
    BY <1>1, <1>6, <1>7, <1>8 DEF StoreInv, WriteInv
  <1>10. TypeOK' /\ LiveIsNewest' /\ IndexInv' /\ BacklogInv'
    BY <1>1, <1>2, <1>6, <1>7, DatabaseKept DEF StoreInv, TypeOK
  <1> QED
    BY <1>9, <1>10 DEF Own

LEMMA FewerPendingOwn ==
    ASSUME StoreInv, NEW t, pending' = Without(pending, {t}),
           UNCHANGED <<db, up, mode, watermark, retained, captured, pins>>,
           next_version' \in 1..(MaxVersion + 2),
           writing' # NoWrite => WriteOf(writing'),
           InFlight' \subseteq InFlight \cup {t}
    PROVE  Own'
  <1>1. /\ DOMAIN pending' = DOMAIN pending \ {t}
        /\ \A x \in DOMAIN pending \ {t} : pending'[x] = pending[x]
    BY WithoutIs
  <1>2. /\ DOMAIN pending \subseteq Txns
        /\ \A x \in DOMAIN pending : pending[x] \in Seq(WriteOperation) /\ KeyFree(pending[x])
    BY DEF StoreInv, TypeOK, WriteInv
  <1>3. \A x \in DOMAIN pending' : pending'[x] \in Seq(WriteOperation) /\ KeyFree(pending'[x])
    BY <1>1, <1>2
  <1>4. InFlight' \cap DOMAIN pending' = {}
    BY <1>1 DEF StoreInv, WriteInv
  <1>5. WriteInv'
    BY <1>3, <1>4 DEF WriteInv
  <1>6. TypeOK' /\ LiveIsNewest' /\ IndexInv' /\ BacklogInv'
    BY <1>1, <1>2, <1>3, DatabaseKept DEF StoreInv, TypeOK
  <1> QED
    BY <1>5, <1>6 DEF Own

LEMMA AbortOwn ==
    ASSUME StoreInv, NEW t \in Txns, AbortTransaction(t)
    PROVE  Own'
  <1>1. /\ pending' = Without(pending, {t})
        /\ UNCHANGED <<db, up, mode, watermark, next_version, retained, writing, captured, pins>>
    BY DEF AbortTransaction, process, snapshots
  <1>2. /\ InFlight' = InFlight /\ (writing' # NoWrite => WriteOf(writing'))
        /\ next_version' \in 1..(MaxVersion + 2)
    BY <1>1 DEF InFlight, StoreInv, WriteInv, TypeOK
  <1> QED
    BY <1>1, <1>2, FewerPendingOwn

LEMMA StartedWrite ==
    ASSUME StoreInv, NEW txn \in SUBSET Txns, NEW ops \in Seq(WriteOperation), StartWrite(txn, ops)
    PROVE  /\ writing' # NoWrite /\ next_version' \in 1..(MaxVersion + 2)
           /\ writing' \in [txn : SUBSET Txns, ops : Seq(WriteOperation), seq : 1..MaxVersion]
           /\ writing'.txn = txn /\ writing'.ops = ops /\ InFlight' = txn
  <1>1. /\ next_version \in 1..MaxVersion /\ next_version' = next_version + 1
        /\ writing' = [txn |-> txn, ops |-> ops, seq |-> next_version] /\ MaxVersion \in Nat
    BY EngineBounds DEF StartWrite, NextSequence, StoreInv, TypeOK
  <1>2. writing' \in [txn : SUBSET Txns, ops : Seq(WriteOperation), seq : 1..MaxVersion]
    BY <1>1
  <1>3. writing' \in [txn : SUBSET Txns, ops : Seq(WriteOperation), seq : Nat]
    BY <1>1
  <1>4. writing' # NoWrite
    BY <1>3, NoWriteAssumption
  <1> QED
    BY <1>1, <1>2, <1>4 DEF InFlight

LEMMA CommitBeginOwn ==
    ASSUME StoreInv, NEW t \in Txns, CommitBegin(t)
    PROVE  Own'
  <1>1. /\ pending' = Without(pending, {t}) /\ t \in DOMAIN pending /\ StartWrite({t}, pending[t])
        /\ UNCHANGED <<db, up, mode, watermark, retained, captured, pins>>
    BY DEF CommitBegin, process, snapshots
  <1>2. pending[t] \in Seq(WriteOperation) /\ KeyFree(pending[t]) /\ {t} \in SUBSET Txns
    BY <1>1 DEF StoreInv, TypeOK, WriteInv
  <1>3. /\ next_version' \in 1..(MaxVersion + 2)
        /\ writing' \in [txn : SUBSET Txns, ops : Seq(WriteOperation), seq : 1..MaxVersion]
        /\ writing'.txn = {t} /\ writing'.ops = pending[t] /\ InFlight' = {t}
    BY <1>1, <1>2, StartedWrite
  <1>4. WriteOf(writing')
    BY <1>2, <1>3 DEF WriteOf
  <1> QED
    BY <1>1, <1>3, <1>4, FewerPendingOwn

LEMMA DeleteByKeyOwn ==
    ASSUME StoreInv, NEW s \in Subjects, DeleteByKeyBegin(s)
    PROVE  Own'
  <1>1. /\ StartWrite({}, KeyDelete(s))
        /\ UNCHANGED <<db, up, mode, watermark, retained, pending, captured, pins>>
    BY DEF DeleteByKeyBegin, process, snapshots, KeyDelete
  <1>2. KeyDelete(s) \in Seq(WriteOperation) /\ {} \in SUBSET Txns
    <2>1. db.data \in Graph
      BY DEF StoreInv, TypeOK
    <2> QED
      BY <2>1, KeyDeleteApplies
  <1>3. /\ next_version' \in 1..(MaxVersion + 2)
        /\ writing' \in [txn : SUBSET Txns, ops : Seq(WriteOperation), seq : 1..MaxVersion]
        /\ writing'.txn = {} /\ writing'.ops = KeyDelete(s) /\ InFlight' = {}
    BY <1>1, <1>2, StartedWrite
  <1>4. WriteOf(writing')
    BY <1>3 DEF WriteOf
  <1>5. WriteInv'
    BY <1>1, <1>3, <1>4 DEF StoreInv, WriteInv
  <1>6. TypeOK' /\ LiveIsNewest' /\ IndexInv' /\ BacklogInv'
    BY <1>1, <1>3, DatabaseKept DEF StoreInv, TypeOK
  <1> QED
    BY <1>5, <1>6 DEF Own
\* The durable batch brings the statements, the version and the index or the backlog forward alike.
LEMMA WriteDoneOwn ==
    ASSUME StoreInv, EngineInv', WriteDone
    PROVE  Own'
  <1> DEFINE ops   == writing.ops
             seq   == writing.seq
             live  == LiveOps(ops)
             data  == ApplyAll(db.data, ops)
             gone  == Pruned(Retention)
             grown == With(db.stored, seq, data)
             left  == BacklogOf(ops, seq)
  <1>1. /\ writing # NoWrite /\ writing' = NoWrite
        /\ db'.data = LiveAfter(ops)
        /\ db'.index = IF mode = "Sync" THEN IndexAfter(ops) ELSE db.index
        /\ db'.backlog = IF mode = "Async" THEN db.backlog \o left ELSE db.backlog
        /\ db'.stored = Without(grown, gone)
        /\ db'.next = seq + 1 /\ db'.mark = db.mark
        /\ retained' = (retained \cup {seq}) \ gone
        /\ UNCHANGED <<up, mode, pending, next_version, watermark, captured, pins>>
    BY DEF WriteDone, StoreInv, EngineInv, Shape, process, snapshots, RetainedAfter, ApplyCommittedOps
  <1>2. /\ up /\ next_version = seq + 1 /\ db.next <= seq /\ seq \in 1..MaxVersion
    BY <1>1 DEF StoreInv, EngineInv, CounterInv, WriteInv, WriteOf
  <1>3. live \in Seq(LiveOperation) /\ LiveAfter(ops) = data /\ data \in Graph /\ LiveAfter(ops) = ApplyLiveOps(db.data, live)
    BY <1>1, WriteLive DEF LiveAfter
  <1>4. /\ db.data \in Graph /\ db.index \in Graph /\ db.backlog \in Seq(BacklogEntry) /\ mode \in {"Sync", "Async"}
        /\ Covers(db.index, db.data, db.backlog) /\ (mode = "Sync" => db.backlog = <<>>)
    BY <1>2, ModesAssumption DEF StoreInv, TypeOK, IndexInv, BacklogInv
  <1>5. left = EntriesOf(live, seq) /\ left \in Seq(BacklogEntry) /\ \A i \in 1..Len(left) : left[i].seq = seq
    <2>1. left = EntriesOf(live, seq)
      BY DEF BacklogOf
    <2> HIDE DEF left, live
    <2>2. seq \in Nat
      BY <1>2
    <2> QED
      BY <1>3, <2>1, <2>2, EntriesOfAre
  <1>6. gone \subseteq retained \ {seq}
    <2>1. CommittedVersion = seq
      BY <1>2 DEF CommittedVersion
    <2> QED
      BY <2>1, PrunedSpares
  <1>7. /\ DOMAIN db'.stored = (DOMAIN db.stored \cup {seq}) \ gone
        /\ \A v \in DOMAIN db'.stored : db'.stored[v] = IF v = seq THEN data ELSE db.stored[v]
    <2> HIDE DEF data, seq, gone
    <2>1. /\ DOMAIN grown = DOMAIN db.stored \cup {seq} /\ grown[seq] = data
          /\ \A v \in DOMAIN db.stored : v # seq => grown[v] = db.stored[v]
      BY DEF With
    <2> HIDE DEF grown
    <2> DEFINE spared == Without(grown, gone)
    <2>2. DOMAIN spared = DOMAIN grown \ gone /\ \A v \in DOMAIN grown \ gone : spared[v] = grown[v]
      BY WithoutIs
    <2> HIDE DEF spared
    <2>3. db'.stored = spared
      BY <1>1 DEF spared
    <2> QED
      BY <2>1, <2>2, <2>3
  <1> HIDE DEF ops, seq, live, data, gone, grown, left
  <1>8. IndexInv' /\ db'.index \in Graph
    <2>1. CASE mode = "Sync"
      <3>1. db.backlog = <<>> /\ db.index = IndexesOf(db.data)
        BY <1>4, <2>1, NoEntriesCover
      <3>2. DOMAIN live = 1..Len(live)
        BY <1>3
      <3>3. db'.index = ApplyLiveOps(db.index, NamedOps(live))
        BY <1>1, <2>1, <3>2, IndexAfterIs DEF live
      <3>4. db'.index = IndexesOf(db'.data)
        BY <1>1, <1>3, <1>4, <3>1, <3>3, LiveIndexes
      <3>5. db'.data \in Graph /\ db'.index \in Graph /\ db'.backlog = <<>>
        BY <1>1, <1>3, <2>1, <3>1, <3>4, IndexesTyped
      <3>6. Covers(db'.index, db'.data, db'.backlog)
        BY <3>4, <3>5, NoEntriesCover
      <3> QED
        BY <1>1, <1>2, <3>5, <3>6 DEF IndexInv
    <2>2. CASE mode = "Async"
      <3>1. seq \in Nat
        BY <1>2
      <3>2. Covers(db.index, ApplyLiveOps(db.data, live), db.backlog \o EntriesOf(live, seq))
        BY <1>3, <1>4, <3>1, CoversGrow
      <3>3. Covers(db'.index, db'.data, db'.backlog)
        BY <1>1, <1>3, <1>5, <2>2, <3>2
      <3> QED
        BY <1>1, <1>2, <1>4, <2>2, <3>3 DEF IndexInv
    <2> QED
      BY <1>4, <2>1, <2>2
  <1>9. BacklogInv' /\ db'.backlog \in Seq(BacklogEntry)
    <2>1. /\ db.mark \in Int /\ db.mark < seq /\ db.next \in Nat /\ seq \in Nat
      BY <1>2, EngineBounds DEF StoreInv, TypeOK, BacklogInv
    <2>2. \A i \in 1..Len(db.backlog) : db.mark < db.backlog[i].seq /\ db.backlog[i].seq < seq + 1
      <3> TAKE i \in 1..Len(db.backlog)
      <3>1. db.backlog[i] \in BacklogEntry
        BY <1>4
      <3>2. db.backlog[i].seq \in Nat
        BY <3>1 DEF BacklogEntry
      <3>3. db.mark < db.backlog[i].seq /\ db.backlog[i].seq < db.next
        BY DEF StoreInv, BacklogInv
      <3> QED
        BY <1>2, <2>1, <3>2, <3>3
    <2>3. /\ db'.backlog \in Seq(BacklogEntry)
          /\ \A i \in 1..Len(db'.backlog) : db.mark < db'.backlog[i].seq /\ db'.backlog[i].seq < seq + 1
      <3>1. CASE mode = "Sync"
        BY <1>1, <1>4, <2>2, <3>1
      <3>2. CASE mode = "Async"
        <4> DEFINE old == db.backlog
                   both == old \o left
        <4>1. /\ both \in Seq(BacklogEntry) /\ Len(both) = Len(old) + Len(left)
              /\ \A i \in 1..Len(old) : both[i] = old[i]
              /\ \A i \in 1..Len(left) : both[Len(old) + i] = left[i]
              /\ Len(old) \in Nat /\ Len(left) \in Nat
          BY <1>4, <1>5, ConcatParts
        <4>2. \A i \in 1..Len(old) : db.mark < old[i].seq /\ old[i].seq < seq + 1
          BY <2>2
        <4> HIDE DEF both, old
        <4>3. \A i \in 1..Len(both) : db.mark < both[i].seq /\ both[i].seq < seq + 1
          <5> TAKE i \in 1..Len(both)
          <5>1. CASE i <= Len(old)
            <6>1. i \in 1..Len(old)
              BY <4>1, <5>1
            <6> QED
              BY <4>1, <4>2, <6>1
          <5>2. CASE i > Len(old)
            <6>1. i - Len(old) \in 1..Len(left) /\ Len(old) + (i - Len(old)) = i
              BY <4>1, <5>2
            <6>2. both[i] = left[i - Len(old)]
              BY <4>1, <6>1
            <6>3. both[i].seq = seq
              BY <1>5, <6>1, <6>2
            <6> QED
              BY <2>1, <6>3
          <5> QED
            BY <4>1, <5>1, <5>2
        <4>4. db'.backlog = both
          BY <1>1, <3>2 DEF both, old
        <4> QED
          BY <4>1, <4>3, <4>4
      <3> QED
        BY <1>4, <3>1, <3>2
    <2>4. mode = "Sync" => db'.backlog = <<>>
      BY <1>1, <1>4
    <2>5. db'.mark = -1 => db'.backlog = <<>>
      <3>1. mode = "Async" => db.mark = watermark /\ watermark \in Nat
        BY <1>2, EngineBounds DEF StoreInv, BacklogInv, TypeOK
      <3> QED
        BY <1>1, <1>4, <2>4, <3>1
    <2>6. db'.mark < db'.next /\ (up' /\ mode' = "Async" => db'.mark = watermark')
      BY <1>1, <2>1 DEF StoreInv, BacklogInv
    <2> QED
      BY <1>1, <2>3, <2>4, <2>5, <2>6 DEF BacklogInv
  <1>10. LiveIsNewest'
    <2>1. db'.next - 1 = seq
      BY <1>1, <1>2
    <2> QED
      BY <1>1, <1>3, <1>7, <2>1 DEF LiveIsNewest
  <1>11. WriteInv'
    <2>1. InFlight' = {}
      BY <1>1 DEF InFlight
    <2> QED
      BY <1>1, <2>1 DEF StoreInv, WriteInv
  <1>12. TypeOK'
    <2>1. /\ DOMAIN db'.stored \subseteq 1..(MaxVersion + 1)
          /\ \A v \in DOMAIN db'.stored : db'.stored[v] \in Graph
      <3>1. DOMAIN db.stored \subseteq 1..(MaxVersion + 1) /\ \A v \in DOMAIN db.stored : db.stored[v] \in Graph
        BY DEF StoreInv, TypeOK
      <3>2. seq \in 1..(MaxVersion + 1)
        BY <1>2, EngineBounds
      <3> QED
        BY <1>3, <1>7, <3>1, <3>2
    <2>2. db'.next \in 0..(MaxVersion + 2) /\ db'.mark \in -1..(MaxVersion + 1)
      BY <1>1, <1>2, EngineBounds DEF StoreInv, TypeOK
    <2>3. retained' \subseteq DOMAIN db'.stored
      BY <1>1, <1>7 DEF StoreInv, TypeOK
    <2> QED
      BY <1>1, <1>3, <1>8, <1>9, <2>1, <2>2, <2>3 DEF StoreInv, TypeOK
  <1> QED
    BY <1>8, <1>9, <1>10, <1>11, <1>12 DEF Own
LEMMA WriteFailedOwn ==
    ASSUME StoreInv, WriteFailed
    PROVE  Own'
  <1>1. /\ writing' = NoWrite /\ InFlight' = {}
        /\ UNCHANGED <<db, up, mode, pending, next_version, watermark, retained, captured, pins>>
    BY DEF WriteFailed, process, snapshots, InFlight
  <1>2. WriteInv'
    BY <1>1 DEF StoreInv, WriteInv
  <1>3. TypeOK' /\ LiveIsNewest' /\ IndexInv' /\ BacklogInv'
    BY <1>1, DatabaseKept DEF StoreInv, TypeOK
  <1> QED
    BY <1>2, <1>3 DEF Own

LEMMA PruneOwn ==
    ASSUME StoreInv, NEW retention \in Retentions, PruneVersions(retention)
    PROVE  Own'
  <1> DEFINE gone == Pruned(retention)
             spared == Without(db.stored, gone)
  <1>1. /\ db' = [db EXCEPT !.stored = spared] /\ retained' = retained \ gone
        /\ UNCHANGED <<up, mode, pending, next_version, watermark, writing, captured, pins>>
    BY DEF PruneVersions, process, snapshots
  <1>2. /\ db'.data = db.data /\ db'.index = db.index /\ db'.backlog = db.backlog
        /\ db'.next = db.next /\ db'.mark = db.mark /\ db'.stored = spared
    BY <1>1 DEF StoreInv, EngineInv, Shape
  <1>3. DOMAIN spared = DOMAIN db.stored \ gone /\ \A v \in DOMAIN db.stored \ gone : spared[v] = db.stored[v]
    BY WithoutIs
  <1> HIDE DEF gone, spared
  <1>4. LiveIsNewest'
    BY <1>2, <1>3 DEF StoreInv, LiveIsNewest
  <1>5. IndexInv'
    BY <1>1, <1>2 DEF StoreInv, IndexInv, Filled
  <1>6. BacklogInv'
    BY <1>1, <1>2 DEF StoreInv, BacklogInv
  <1>7. InFlight' = InFlight
    BY <1>1 DEF InFlight
  <1>8. WriteInv'
    BY <1>1, <1>7 DEF StoreInv, WriteInv
  <1>9. TypeOK'
    BY <1>1, <1>2, <1>3 DEF StoreInv, TypeOK
  <1> QED
    BY <1>4, <1>5, <1>6, <1>8, <1>9 DEF Own

\* Nothing in the backlog is behind the watermark: a round takes all of it.
LEMMA CatchUpOwn ==
    ASSUME StoreInv, CatchUpIndex
    PROVE  Own'
  <1> DEFINE n == Len(db.backlog)
             late == {i \in DOMAIN db.backlog : db.backlog[i].seq <= watermark}
             from == Cardinality(late)
             entries == SubSeq(db.backlog, from + 1, n)
             upto == CaughtUpTo(entries)
  <1>1. /\ up /\ entries # <<>>
        /\ db' = [db EXCEPT !.index = CaughtUp(entries), !.backlog = SubSeq(@, 1, from), !.mark = upto]
        /\ watermark' = upto
        /\ UNCHANGED <<up, mode, pending, next_version, retained, writing, captured, pins>>
    BY DEF CatchUpIndex, process, snapshots
  <1>2. /\ db'.data = db.data /\ db'.stored = db.stored /\ db'.next = db.next
        /\ db'.index = CaughtUp(entries) /\ db'.backlog = SubSeq(db.backlog, 1, from) /\ db'.mark = upto
    BY <1>1 DEF StoreInv, EngineInv, Shape
  <1>3. /\ db.backlog \in Seq(BacklogEntry) /\ n \in Nat /\ DOMAIN db.backlog = 1..n
        /\ db.data \in Graph /\ db.index \in Graph /\ watermark \in Nat /\ db.next \in Nat
        /\ mode \in {"Sync", "Async"} /\ db.next \in 0..(MaxVersion + 2) /\ MaxVersion \in Nat
    BY ModesAssumption, EngineBounds DEF StoreInv, TypeOK
  <1>4. \A i \in 1..n : db.backlog[i].seq \in Nat
    <2> TAKE i \in 1..n
    <2>1. db.backlog[i] \in BacklogEntry
      BY <1>3
    <2> QED
      BY <2>1 DEF BacklogEntry
  <1>5. n # 0 /\ mode = "Async"
    <2>1. db.backlog # <<>>
      <3>1. ASSUME db.backlog = <<>> PROVE FALSE
        <4>1. late = {} /\ n = 0
          BY <3>1
        <4>2. from = 0
          BY <4>1, FS_EmptySet
        <4> HIDE DEF late, from
        <4>3. SubSeq(<<>>, 1, 0) = <<>>
          OBVIOUS
        <4>4. entries = <<>>
          BY <3>1, <4>1, <4>2, <4>3
        <4> QED
          BY <1>1, <4>4
      <3> QED
        BY <3>1
    <2>2. n # 0
      BY <1>3, <2>1
    <2> QED
      BY <1>3, <2>1, <2>2 DEF StoreInv, BacklogInv
  <1>6. db.mark = watermark /\ \A i \in 1..n : watermark < db.backlog[i].seq /\ db.backlog[i].seq < db.next
    BY <1>1, <1>5 DEF StoreInv, BacklogInv
  <1>7. late = {}
    <2> HIDE DEF n
    <2>1. \A i \in 1..n : ~(db.backlog[i].seq <= watermark)
      BY <1>3, <1>4, <1>6
    <2> QED
      BY <1>3, <2>1
  <1>8. from = 0
    <2> HIDE DEF late
    <2> QED
      BY <1>7, FS_EmptySet
  <1>9. entries = db.backlog /\ db'.backlog = <<>>
    <2> HIDE DEF from, late
    <2>1. SubSeq(db.backlog, 1, n) = db.backlog
      BY <1>3
    <2>2. SubSeq(db.backlog, 1, 0) = <<>>
      BY <1>3
    <2> QED
      BY <1>2, <1>8, <2>1, <2>2
  <1> HIDE DEF entries, from, late
  <1>10. upto = db.backlog[n].seq /\ n \in 1..n
    BY <1>3, <1>5, <1>9 DEF CaughtUpTo
  <1> HIDE DEF upto, n
  <1>11. upto \in Nat /\ upto < db.next /\ upto \in 0..(MaxVersion + 1)
    BY <1>3, <1>4, <1>6, <1>10
  <1>12. db'.index = IndexesOf(db.data)
    BY <1>1, <1>2, <1>3, <1>9, CaughtUpIs DEF StoreInv, IndexInv, Covers
  <1>13. db'.index \in Graph
    BY <1>3, <1>12, IndexesTyped
  <1>14. IndexInv'
    BY <1>1, <1>2, <1>9, <1>12, <1>13, NoEntriesCover DEF IndexInv
  <1>15. BacklogInv'
    <2>1. 1..Len(db'.backlog) = {}
      BY <1>9
    <2> QED
      BY <1>1, <1>2, <1>9, <1>11, <2>1 DEF BacklogInv
  <1>16. LiveIsNewest'
    BY <1>2 DEF StoreInv, LiveIsNewest
  <1>17. InFlight' = InFlight
    BY <1>1 DEF InFlight
  <1>18. WriteInv'
    BY <1>1, <1>17 DEF StoreInv, WriteInv
  <1>19. TypeOK'
    <2>1. db'.backlog \in Seq(BacklogEntry)
      BY <1>9
    <2>2. db'.mark \in -1..(MaxVersion + 1) /\ watermark' \in 0..(MaxVersion + 1)
      BY <1>1, <1>2, <1>3, <1>11
    <2> QED
      BY <1>1, <1>2, <1>13, <2>1, <2>2 DEF StoreInv, TypeOK
  <1> QED
    BY <1>14, <1>15, <1>16, <1>18, <1>19 DEF Own

LEMMA SnapshotsOwn ==
    ASSUME StoreInv, NEW r \in Readers, CaptureVersion(r) \/ PinVersion(r) \/ ReleaseSnapshot(r)
    PROVE  Own'
  <1>1. UNCHANGED <<db, up, mode, pending, next_version, watermark, retained, writing>>
    BY DEF CaptureVersion, PinVersion, ReleaseSnapshot, process
  <1>2. DOMAIN captured' \subseteq DOMAIN captured \cup {r} /\ DOMAIN pins' \subseteq DOMAIN pins \cup {r}
    BY DEF CaptureVersion, PinVersion, ReleaseSnapshot, With, Without, Restrict
  <1>3. InFlight' = InFlight
    BY <1>1 DEF InFlight
  <1>4. WriteInv'
    BY <1>1, <1>3 DEF StoreInv, WriteInv
  <1>5. TypeOK' /\ LiveIsNewest' /\ IndexInv' /\ BacklogInv'
    BY <1>1, <1>2, DatabaseKept DEF StoreInv, TypeOK
  <1> QED
    BY <1>4, <1>5 DEF Own

\* Opening may fill one index family and not the other: what waits in the backlog can be applied to both.
LEMMA FilledCovers ==
    ASSUME StoreInv
    PROVE  Filled \in Graph /\ Covers(Filled, db.data, db.backlog)
  <1>1. db.data \in Graph /\ db.index \in Graph /\ db.backlog \in Seq(BacklogEntry)
    BY DEF StoreInv, TypeOK
  <1>2. Filled \in Graph
    BY <1>1 DEF Filled, Backfill, NamedOnly, Graph
  <1>3. CASE ~up
    BY <1>2, <1>3 DEF StoreInv, IndexInv
  <1>4. CASE up
    <2> DEFINE triples == Backfill(db.data.triples, db.index.triples)
               quads == Backfill(NamedOnly(db.data.quads), db.index.quads)
    <2>1. Covers(db.index, db.data, db.backlog)
      BY <1>4 DEF StoreInv, IndexInv
    <2>2. triples \in {db.index.triples, db.data.triples} /\ quads \in {db.index.quads, NamedOnly(db.data.quads)}
      BY DEF Backfill
    <2>3. Filled = [triples |-> triples, quads |-> quads]
      BY DEF Filled
    <2> HIDE DEF triples, quads
    <2> QED
      BY <1>1, <1>2, <2>1, <2>2, <2>3, CoversMix
  <1> QED
    BY <1>3, <1>4

LEMMA CrashOwn ==
    ASSUME StoreInv, Crash
    PROVE  Own'
  <1>1. /\ up' = FALSE /\ writing' = NoWrite /\ InFlight' = {}
        /\ DOMAIN pending' = {} /\ DOMAIN captured' = {} /\ DOMAIN pins' = {}
        /\ UNCHANGED <<db, mode, next_version, watermark, retained>>
    BY DEF Crash, InFlight
  <1>2. IndexInv'
    <2>1. Filled' = Filled
      BY <1>1 DEF Filled
    <2> QED
      BY <1>1, <2>1, FilledCovers DEF IndexInv
  <1>3. BacklogInv'
    BY <1>1 DEF StoreInv, BacklogInv
  <1>4. LiveIsNewest'
    BY <1>1 DEF StoreInv, LiveIsNewest
  <1>5. WriteInv'
    BY <1>1 DEF WriteInv
  <1>6. TypeOK'
    BY <1>1 DEF StoreInv, TypeOK
  <1> QED
    BY <1>2, <1>3, <1>4, <1>5, <1>6 DEF Own
LEMMA OpenOwn ==
    ASSUME ModeFixed, StoreInv, Open
    PROVE  Own'
  <1> DEFINE stored  == IF OldDatabase THEN With(db.stored, 1, db.data) ELSE db.stored
             next    == IF OldDatabase THEN 2 ELSE db.next
             version == IF next = 0 THEN 1 ELSE next
             mark    == IF db.mark = -1 THEN version - 1 ELSE db.mark
  <1>1. /\ ~up /\ up' = TRUE /\ mode' = mode /\ mode \in {"Sync", "Async"}
        /\ db'.data = db.data /\ db'.index = Filled /\ db'.backlog = db.backlog
        /\ db'.stored = stored /\ db'.next = next /\ db'.mark = IF mode = "Async" THEN mark ELSE db.mark
        /\ next_version' = version /\ watermark' = mark /\ retained' = FoundVersions(stored)
        /\ UNCHANGED <<pending, writing, captured, pins>>
    BY ModesAssumption DEF Open, Filled, StoreInv, TypeOK, EngineInv, Shape, snapshots, ModeFixed
  <1>2. /\ db.next \in 0..(MaxVersion + 2) /\ db.mark \in -1..(MaxVersion + 1) /\ MaxVersion \in Nat
        /\ db.data \in Graph /\ DOMAIN db.stored \subseteq 1..(MaxVersion + 1)
        /\ \A v \in DOMAIN db.stored : db.stored[v] \in Graph
    BY EngineBounds DEF StoreInv, TypeOK
  <1>3. /\ DOMAIN stored \subseteq 1..(MaxVersion + 1) /\ \A v \in DOMAIN stored : stored[v] \in Graph
        /\ (next - 1 \in DOMAIN stored => stored[next - 1] = db.data)
    <2>1. CASE OldDatabase
      <3>1. stored = With(db.stored, 1, db.data) /\ next = 2
        BY <2>1
      <3>2. /\ DOMAIN stored = DOMAIN db.stored \cup {1} /\ stored[1] = db.data
            /\ \A v \in DOMAIN db.stored : v # 1 => stored[v] = db.stored[v]
        BY <3>1 DEF With
      <3> HIDE DEF stored, next
      <3> QED
        BY <1>2, <3>1, <3>2
    <2>2. CASE ~OldDatabase
      BY <1>2, <2>2 DEF StoreInv, LiveIsNewest
    <2> QED
      BY <2>1, <2>2
  <1>4. next \in 0..(MaxVersion + 2) /\ (OldDatabase => db.next = 0) /\ (~OldDatabase => next = db.next)
    BY <1>2 DEF OldDatabase
  <1> HIDE DEF stored, next
  <1>5. version \in 1..(MaxVersion + 2) /\ (next = 0 => version = 1) /\ (next # 0 => version = next)
    BY <1>2, <1>4
  <1> HIDE DEF version
  <1>6. /\ mark \in 0..(MaxVersion + 1)
        /\ (db.mark = -1 => mark = version - 1) /\ (db.mark # -1 => mark = db.mark)
    BY <1>2, <1>5
  <1> HIDE DEF mark
  <1>7. IndexInv' /\ db'.index \in Graph
    BY <1>1, FilledCovers DEF IndexInv
  <1>8. BacklogInv'
    <2>1. /\ (mode = "Sync" => db.backlog = <<>>) /\ (db.mark = -1 => db.backlog = <<>>)
          /\ \A i \in 1..Len(db.backlog) : db.mark < db.backlog[i].seq /\ db.backlog[i].seq < db.next
          /\ db.mark <= 0 \/ db.mark < db.next
          /\ db.backlog \in Seq(BacklogEntry)
      BY DEF StoreInv, BacklogInv, TypeOK
    <2>2. \A i \in 1..Len(db.backlog) : db'.mark < db.backlog[i].seq /\ db.backlog[i].seq < next
      <3> TAKE i \in 1..Len(db.backlog)
      <3>1. db.backlog[i] \in BacklogEntry
        BY <2>1
      <3>2. db.backlog[i].seq \in Nat
        BY <3>1 DEF BacklogEntry
      <3>3. db.backlog # <<>>
        OBVIOUS
      <3>4. db'.mark = db.mark
        BY <1>1, <1>6, <2>1, <3>3
      <3>5. next = db.next
        BY <1>4, <2>1, <3>2
      <3> QED
        BY <2>1, <3>4, <3>5
    <2>3. db'.mark = -1 => db.backlog = <<>>
      BY <1>1, <1>6, <2>1
    <2>4. db'.mark <= 0 \/ db'.mark < next
      <3>1. CASE db'.mark = db.mark
        BY <1>2, <1>4, <2>1, <3>1
      <3>2. CASE db'.mark = version - 1
        BY <1>4, <1>5, <3>2
      <3> QED
        BY <1>1, <1>6, <3>1, <3>2
    <2> QED
      BY <1>1, <2>1, <2>2, <2>3, <2>4 DEF BacklogInv
  <1>9. LiveIsNewest'
    BY <1>1, <1>3 DEF LiveIsNewest
  <1>10. InFlight' = InFlight
    BY <1>1 DEF InFlight
  <1>11. WriteInv'
    BY <1>1, <1>10 DEF StoreInv, WriteInv
  <1>12. TypeOK'
    <2>1. retained' \subseteq DOMAIN db'.stored
      BY <1>1 DEF FoundVersions
    <2>2. db'.mark \in -1..(MaxVersion + 1)
      BY <1>1, <1>2, <1>6
    <2> QED
      BY <1>1, <1>3, <1>4, <1>5, <1>6, <1>7, <2>1, <2>2 DEF StoreInv, TypeOK
  <1> QED
    BY <1>7, <1>8, <1>9, <1>11, <1>12 DEF Own

LEMMA InitHasStoreInv == Init => StoreInv
  <1> SUFFICES ASSUME Init PROVE StoreInv
    OBVIOUS
  <1>1. PICK legacy \in LegacyGraphs \cup {EmptyGraph} : db = [EmptyDatabase EXCEPT !.data = legacy]
    BY DEF Init
  <1>2. legacy \in Graph
    BY LegacyAssumption DEF EmptyGraph, Graph
  <1>3. /\ db.data \in Graph /\ db.index = EmptyGraph /\ db.backlog = <<>> /\ DOMAIN db.stored = {}
        /\ db.next = 0 /\ db.mark = -1
    BY <1>1, <1>2 DEF EmptyDatabase
  <1>4. /\ up = FALSE /\ mode \in Modes /\ next_version = 1 /\ watermark = 0 /\ retained = {}
        /\ DOMAIN pending = {} /\ writing = NoWrite /\ DOMAIN captured = {} /\ DOMAIN pins = {}
    BY DEF Init, ProcessFresh
  <1>5. MaxVersion \in Nat
    BY EngineBounds
  <1>6. IndexInv
    <2>1. Filled = IndexesOf(db.data)
      BY <1>3 DEF Filled, Backfill, IndexesOf, EmptyGraph
    <2>2. Covers(Filled, db.data, <<>>)
      BY <1>3, <2>1, IndexesTyped, NoEntriesCover
    <2> QED
      BY <1>3, <1>4, <2>2 DEF IndexInv
  <1>7. BacklogInv
    <2>1. 1..Len(db.backlog) = {}
      BY <1>3
    <2> QED
      BY <1>3, <1>4, <2>1 DEF BacklogInv
  <1>8. LiveIsNewest /\ WriteInv
    BY <1>3, <1>4 DEF LiveIsNewest, WriteInv, InFlight
  <1>9. TypeOK
    <2>1. db.index \in Graph /\ db.backlog \in Seq(BacklogEntry)
      BY <1>3 DEF EmptyGraph, Graph
    <2>2. db.next \in 0..(MaxVersion + 2) /\ db.mark \in -1..(MaxVersion + 1)
          /\ next_version \in 1..(MaxVersion + 2) /\ watermark \in 0..(MaxVersion + 1)
      BY <1>3, <1>4, <1>5
    <2> QED
      BY <1>3, <1>4, <2>1, <2>2 DEF TypeOK
  <1> QED
    BY <1>6, <1>7, <1>8, <1>9, InitHasInv DEF StoreInv

LEMMA StoreInvStep ==
    ASSUME ModeFixed, KeysApart, StoreInv, [Next]_vars
    PROVE  StoreInv'
  <1>0. EngineInv'
    BY StepKeeps DEF StoreInv
  <1>1. CASE Open
    BY <1>0, <1>1, OpenOwn DEF StoreInv, Own
  <1>2. CASE Crash
    BY <1>0, <1>2, CrashOwn DEF StoreInv, Own
  <1>3. CASE WriteDone
    BY <1>0, <1>3, WriteDoneOwn DEF StoreInv, Own
  <1>4. CASE WriteFailed
    BY <1>0, <1>4, WriteFailedOwn DEF StoreInv, Own
  <1>5. CASE CatchUpIndex
    BY <1>0, <1>5, CatchUpOwn DEF StoreInv, Own
  <1>6. CASE \E t \in Txns, ops \in Batches : ApplyWriteBatch(t, ops)
    BY <1>0, <1>6, ApplyBatchOwn DEF StoreInv, Own
  <1>7. CASE \E t \in Txns : AbortTransaction(t)
    BY <1>0, <1>7, AbortOwn DEF StoreInv, Own
  <1>8. CASE \E t \in Txns : CommitBegin(t)
    BY <1>0, <1>8, CommitBeginOwn DEF StoreInv, Own
  <1>9. CASE \E s \in Subjects : DeleteByKeyBegin(s)
    BY <1>0, <1>9, DeleteByKeyOwn DEF StoreInv, Own
  <1>10. CASE \E retention \in Retentions : PruneVersions(retention)
    BY <1>0, <1>10, PruneOwn DEF StoreInv, Own
  <1>11. CASE \E r \in Readers : CaptureVersion(r) \/ PinVersion(r) \/ ReleaseSnapshot(r)
    BY <1>0, <1>11, SnapshotsOwn DEF StoreInv, Own
  <1>12. CASE UNCHANGED vars
    <2>1. UNCHANGED <<db, up, mode, pending, next_version, watermark, retained, writing, captured, pins>>
      BY <1>12 DEF vars
    <2>2. TypeOK' /\ LiveIsNewest' /\ IndexInv' /\ BacklogInv'
      BY <2>1, DatabaseKept DEF StoreInv, TypeOK
    <2>3. InFlight' = InFlight
      BY <2>1 DEF InFlight
    <2>4. WriteInv'
      BY <2>1, <2>3 DEF StoreInv, WriteInv
    <2> QED
      BY <1>0, <2>2, <2>4 DEF StoreInv
  <1> QED
    BY <1>1, <1>2, <1>3, <1>4, <1>5, <1>6, <1>7, <1>8, <1>9, <1>10, <1>11, <1>12 DEF Next
THEOREM StoreInvHolds ==
    ASSUME ModeFixed, KeysApart
    PROVE  Spec => []StoreInv
  <1>1. StoreInv /\ [Next]_vars => StoreInv'
    BY StoreInvStep
  <1> QED
    BY <1>1, InitHasStoreInv, PTL DEF Spec

\* What is stored has its types, and the newest version, while it is kept, is what the statement families
\* hold, although the commit computes the two apart (commit_transaction, apply_live_batch).
THEOREM VersionsSoundHolds ==
    ASSUME ModeFixed, KeysApart
    PROVE  Spec => []VersionsSound
  <1>1. StoreInv => VersionsSound
    BY DEF StoreInv, VersionsSound
  <1> QED
    BY <1>1, StoreInvHolds, PTL

\* Reads of a subject and of a named graph, through the indexes whenever these are said to cover the newest
\* version, are reads of the statement families; what a transaction reads is what its commit will leave
\* (index_caught_up, find_triples_by_subject_in_txn, catch_up_index, backfill of open_with_options).
THEOREM ReadsAgreeHolds ==
    ASSUME ModeFixed, KeysApart
    PROVE  Spec => []ReadsAgree
  <1>1. ASSUME StoreInv PROVE ReadsAgree
    <2> SUFFICES ASSUME up
                 PROVE  /\ \A s \in Subjects :
                              /\ TriplesOfSubject(s) = {x \in db.data.triples : x.s = s}
                              /\ \A t \in DOMAIN pending :
                                    ReadInTxn(s, pending[t]) = {x \in LiveAfter(pending[t]).triples : x.s = s}
                        /\ \A g \in GraphNames : QuadsInGraph(g) = {q \in db.data.quads : q.g = g}
      BY DEF ReadsAgree
    <2>1. ASSUME NEW s \in Subjects, NEW t \in DOMAIN pending
          PROVE  ReadInTxn(s, pending[t]) = {x \in LiveAfter(pending[t]).triples : x.s = s}
      <3>1. db.data \in Graph /\ pending[t] \in Seq(WriteOperation) /\ KeyFree(pending[t])
        BY <1>1 DEF StoreInv, TypeOK, WriteInv
      <3>2. TriplesOfSubject(s) = {x \in db.data.triples : x.s = s}
        BY <1>1, SubjectRead
      <3>3. TriplesInTxn({x \in db.data.triples : x.s = s}, pending[t], {s})
               = {x \in ApplyAll(db.data, pending[t]).triples : x.s = s}
        BY <3>1, TriplesRead
      <3>4. LiveAfter(pending[t]) = ApplyAll(db.data, pending[t])
        BY <1>1, <3>1, KeyFreeAfter
      <3> QED
        BY <3>2, <3>3, <3>4 DEF ReadInTxn
    <2> QED
      BY <1>1, <2>1, SubjectRead, GraphRead
  <1> QED
    BY <1>1, StoreInvHolds, PTL

-----------------------------------------------------------------------------
(* The engine against the transactional store.                             *)

LEMMA StagedIs ==
    /\ DOMAIN Staged = DOMAIN pending \cup InFlight
    /\ \A t \in DOMAIN pending : t \notin InFlight => Staged[t] = pending[t]
    /\ \A t \in InFlight : Staged[t] = writing.ops
  BY DEF Staged

LEMMA StagedStays ==
    ASSUME UNCHANGED <<pending, writing>>
    PROVE  Staged' = Staged
  BY DEF Staged, InFlight

LEMMA StageRefines ==
    ASSUME NEW t \in Txns, NEW ops \in Batches, ApplyWriteBatch(t, ops)
    PROVE  Store!StageOps(t, ops)
  <1>1. /\ t \notin InFlight /\ pending' = With(pending, t, Extended(t, ops))
        /\ UNCHANGED <<db, writing>>
    BY DEF ApplyWriteBatch
  <1>2. /\ DOMAIN pending' = DOMAIN pending \cup {t} /\ pending'[t] = Extended(t, ops)
        /\ \A x \in DOMAIN pending : x # t => pending'[x] = pending[x]
    BY <1>1 DEF With
  <1>3. InFlight' = InFlight
    BY <1>1 DEF InFlight
  <1> DEFINE longer == Store!StagedOf(t) \o ops
  <1>4. longer = Extended(t, ops)
    <2>1. Store!StagedOf(t) = StagedOf(t)
      BY <1>1, StagedIs DEF Store!StagedOf, StagedOf
    <2> QED
      BY <2>1 DEF Extended
  <1> HIDE DEF longer
  <1>5. Staged' = [x \in DOMAIN Staged \cup {t} |-> IF x = t THEN longer ELSE Staged[x]]
    <2>1. Staged' = [x \in DOMAIN pending' \cup InFlight' |-> IF x \in InFlight' THEN writing'.ops ELSE pending'[x]]
      BY DEF Staged
    <2>2. DOMAIN pending' \cup InFlight' = DOMAIN Staged \cup {t}
      BY <1>2, <1>3, StagedIs
    <2>3. \A x \in DOMAIN Staged \cup {t} :
             (IF x \in InFlight' THEN writing'.ops ELSE pending'[x]) = (IF x = t THEN longer ELSE Staged[x])
      <3> TAKE x \in DOMAIN Staged \cup {t}
      <3>1. CASE x = t
        BY <1>1, <1>2, <1>3, <1>4, <3>1
      <3>2. CASE x # t /\ x \in InFlight
        BY <1>1, <1>3, <3>2, StagedIs
      <3>3. CASE x # t /\ x \notin InFlight
        BY <1>2, <1>3, <3>3, StagedIs
      <3> QED
        BY <3>1, <3>2, <3>3
    <2> QED
      BY <2>1, <2>2, <2>3
  <1> QED
    BY <1>1, <1>5 DEF Store!StageOps, longer

LEMMA DropRefines ==
    ASSUME NEW t, t \in DOMAIN Staged, DOMAIN pending' \cup InFlight' = DOMAIN Staged \ {t},
           \A x \in DOMAIN Staged \ {t} :
              (IF x \in InFlight' THEN writing'.ops ELSE pending'[x]) = Staged[x]
    PROVE  Store!DropStaged(t)
  BY DEF Store!DropStaged, Staged

LEMMA AbortRefines ==
    ASSUME StoreInv, NEW t \in Txns, AbortTransaction(t)
    PROVE  Store!AbortStaged(t)
  <1>1. t \in DOMAIN pending /\ pending' = Without(pending, {t}) /\ UNCHANGED <<db, writing>>
    BY DEF AbortTransaction
  <1>2. DOMAIN pending' = DOMAIN pending \ {t} /\ \A x \in DOMAIN pending \ {t} : pending'[x] = pending[x]
    BY <1>1, WithoutIs
  <1>3. InFlight' = InFlight /\ t \notin InFlight
    BY <1>1 DEF InFlight, StoreInv, WriteInv
  <1>4. t \in DOMAIN Staged /\ DOMAIN pending' \cup InFlight' = DOMAIN Staged \ {t}
    BY <1>1, <1>2, <1>3, StagedIs
  <1>5. ASSUME NEW x \in DOMAIN Staged \ {t}
        PROVE  (IF x \in InFlight' THEN writing'.ops ELSE pending'[x]) = Staged[x]
    <2>1. CASE x \in InFlight
      BY <1>1, <1>3, <2>1, StagedIs
    <2>2. CASE x \notin InFlight
      BY <1>2, <1>3, <2>2, StagedIs
    <2> QED
      BY <2>1, <2>2
  <1>6. Store!DropStaged(t)
    BY <1>4, <1>5, DropRefines
  <1> QED
    BY <1>1, <1>4, <1>6 DEF Store!AbortStaged

\* Taking the operations of a transaction from the pending map leaves them staged.
LEMMA CommitBeginStutters ==
    ASSUME StoreInv, NEW t \in Txns, CommitBegin(t)
    PROVE  Staged' = Staged /\ db' = db
  <1>1. /\ t \in DOMAIN pending /\ pending' = Without(pending, {t}) /\ StartWrite({t}, pending[t])
        /\ writing = NoWrite /\ db' = db
    BY DEF CommitBegin
  <1>2. DOMAIN pending' = DOMAIN pending \ {t} /\ \A x \in DOMAIN pending \ {t} : pending'[x] = pending[x]
    BY <1>1, WithoutIs
  <1>3. pending[t] \in Seq(WriteOperation) /\ {t} \in SUBSET Txns
    BY <1>1 DEF StoreInv, TypeOK
  <1>4. InFlight = {} /\ InFlight' = {t} /\ writing'.ops = pending[t]
    BY <1>1, <1>3, StartedWrite DEF InFlight
  <1>5. DOMAIN pending' \cup InFlight' = DOMAIN pending \cup InFlight
    BY <1>1, <1>2, <1>4
  <1>6. \A x \in DOMAIN pending \cup InFlight :
           (IF x \in InFlight' THEN writing'.ops ELSE pending'[x]) = (IF x \in InFlight THEN writing.ops ELSE pending[x])
    BY <1>1, <1>2, <1>4
  <1> QED
    BY <1>1, <1>5, <1>6 DEF Staged

LEMMA DeleteBeginStutters ==
    ASSUME StoreInv, NEW s \in Subjects, DeleteByKeyBegin(s)
    PROVE  Staged' = Staged /\ db' = db
  <1>1. StartWrite({}, KeyDelete(s)) /\ writing = NoWrite /\ UNCHANGED <<db, pending>>
    BY DEF DeleteByKeyBegin, KeyDelete
  <1>2. db.data \in Graph
    BY DEF StoreInv, TypeOK
  <1>3. KeyDelete(s) \in Seq(WriteOperation) /\ {} \in SUBSET Txns
    BY <1>2, KeyDeleteApplies
  <1>4. InFlight = {} /\ InFlight' = {}
    BY <1>1, <1>3, StartedWrite DEF InFlight
  <1> QED
    BY <1>1, <1>4 DEF Staged

\* The end of a write of a transaction drops what it had staged.
LEMMA WriteEnds ==
    ASSUME StoreInv, writing # NoWrite, writing' = NoWrite, pending' = pending,
           NEW t \in Txns, writing.txn = {t}
    PROVE  t \in DOMAIN Staged /\ Staged[t] = writing.ops /\ Store!DropStaged(t)
  <1>1. InFlight = {t} /\ InFlight' = {} /\ t \notin DOMAIN pending
    BY DEF InFlight, StoreInv, WriteInv
  <1>2. t \in DOMAIN Staged /\ Staged[t] = writing.ops /\ DOMAIN pending' \cup InFlight' = DOMAIN Staged \ {t}
    BY <1>1, StagedIs
  <1>3. \A x \in DOMAIN Staged \ {t} : (IF x \in InFlight' THEN writing'.ops ELSE pending'[x]) = Staged[x]
    BY <1>1, StagedIs
  <1> QED
    BY <1>2, <1>3, DropRefines

LEMMA WriteDoneRefines ==
    ASSUME StoreInv, WriteDone
    PROVE  Store!StoreNext
  <1>1. /\ writing # NoWrite /\ writing' = NoWrite /\ pending' = pending
        /\ db'.data = LiveAfter(writing.ops)
    BY DEF WriteDone, StoreInv, EngineInv, Shape
  <1>2. db'.data = ApplyAll(db.data, writing.ops)
    BY <1>1, WriteLive
  <1>3. ASSUME NEW t \in Txns, writing.txn = {t} PROVE Store!CommitStaged(t)
    <2>1. t \in DOMAIN Staged /\ Staged[t] = writing.ops /\ Store!DropStaged(t)
      BY <1>1, <1>3, WriteEnds
    <2> QED
      BY <1>2, <2>1 DEF Store!CommitStaged
  <1>4. ASSUME NEW s \in Subjects, writing.txn = {}, writing.ops = KeyDelete(s) PROVE Store!DeleteKeyNow(s)
    <2>1. db.data \in Graph
      BY DEF StoreInv, TypeOK
    <2>2. db'.data = RemoveSubject(db.data, s)
      BY <1>2, <1>4, <2>1, KeyDeleteApplies
    <2>3. InFlight = {} /\ InFlight' = {}
      BY <1>1, <1>4 DEF InFlight
    <2>4. Staged' = Staged
      BY <1>1, <2>3 DEF Staged
    <2> QED
      BY <2>2, <2>4 DEF Store!DeleteKeyNow
  <1>5. WriteOf(writing)
    BY <1>1 DEF StoreInv, WriteInv
  <1> QED
    BY <1>3, <1>4, <1>5 DEF WriteOf, Store!StoreNext

LEMMA WriteFailedRefines ==
    ASSUME StoreInv, WriteFailed
    PROVE  Store!StoreNext \/ UNCHANGED <<db.data, Staged>>
  <1>1. writing # NoWrite /\ writing' = NoWrite /\ UNCHANGED <<db, pending>>
    BY DEF WriteFailed
  <1>2. ASSUME NEW t \in Txns, writing.txn = {t} PROVE Store!AbortStaged(t)
    BY <1>1, <1>2, WriteEnds DEF Store!AbortStaged
  <1>3. CASE writing.txn = {}
    <2>1. InFlight = {} /\ InFlight' = {}
      BY <1>1, <1>3 DEF InFlight
    <2> QED
      BY <1>1, <2>1 DEF Staged
  <1>4. WriteOf(writing)
    BY <1>1 DEF StoreInv, WriteInv
  <1> QED
    BY <1>2, <1>3, <1>4 DEF WriteOf, Store!StoreNext

LEMMA CrashRefines ==
    ASSUME Crash
    PROVE  AllStagedLost
  <1>1. pending' = <<>> /\ writing' = NoWrite /\ db' = db
    BY DEF Crash
  <1>2. DOMAIN pending' \cup InFlight' = {}
    BY <1>1 DEF InFlight
  <1>3. Staged' = [t \in {} |-> IF t \in InFlight' THEN writing'.ops ELSE pending'[t]]
    BY <1>2 DEF Staged
  <1>4. Staged' = <<>>
    BY <1>3
  <1> QED
    BY <1>1, <1>4 DEF AllStagedLost

LEMMA OthersStutter ==
    ASSUME StoreInv, \/ Open \/ CatchUpIndex \/ UNCHANGED vars
                     \/ \E retention \in Retentions : PruneVersions(retention)
                     \/ \E r \in Readers : CaptureVersion(r) \/ PinVersion(r) \/ ReleaseSnapshot(r)
    PROVE  UNCHANGED <<db.data, Staged>>
  <1>1. UNCHANGED <<db.data, pending, writing>>
    BY DEF StoreInv, EngineInv, Shape, Open, CatchUpIndex, PruneVersions, CaptureVersion, PinVersion,
           ReleaseSnapshot, vars
  <1> QED
    BY <1>1, StagedStays

\* A write is staged until its batch is durable, a commit applies all of its operations at once and in order,
\* a failed write drops them and a crash drops all that is staged (commit_transaction, delete_by_key,
\* abort_transaction).
THEOREM EngineImplementsStore ==
    ASSUME ModeFixed, KeysApart
    PROVE  Spec => ImplementsStore
  <1>1. ASSUME StoreInv, [Next]_vars
        PROVE  Store!StoreNext \/ AllStagedLost \/ UNCHANGED <<db.data, Staged>>
    <2>1. CASE \E t \in Txns, ops \in Batches : ApplyWriteBatch(t, ops)
      BY <2>1, StageRefines DEF Store!StoreNext
    <2>2. CASE \E t \in Txns : AbortTransaction(t)
      BY <1>1, <2>2, AbortRefines DEF Store!StoreNext
    <2>3. CASE \E t \in Txns : CommitBegin(t)
      BY <1>1, <2>3, CommitBeginStutters
    <2>4. CASE \E s \in Subjects : DeleteByKeyBegin(s)
      BY <1>1, <2>4, DeleteBeginStutters
    <2>5. CASE WriteDone
      BY <1>1, <2>5, WriteDoneRefines
    <2>6. CASE WriteFailed
      BY <1>1, <2>6, WriteFailedRefines
    <2>7. CASE Crash
      BY <2>7, CrashRefines
    <2>8. CASE \/ Open \/ CatchUpIndex \/ UNCHANGED vars
               \/ \E retention \in Retentions : PruneVersions(retention)
               \/ \E r \in Readers : CaptureVersion(r) \/ PinVersion(r) \/ ReleaseSnapshot(r)
      BY <1>1, <2>8, OthersStutter
    <2> QED
      BY <1>1, <2>1, <2>2, <2>3, <2>4, <2>5, <2>6, <2>7, <2>8 DEF Next
  <1>2. StoreInv /\ [Next]_vars => [Store!StoreNext \/ AllStagedLost]_(Store!storeVars)
    BY <1>1 DEF Store!storeVars
  <1> QED
    BY <1>2, StoreInvHolds, PTL DEF Spec, ImplementsStore

-----------------------------------------------------------------------------
(***************************************************************************)
(* The third part: DictionarySound for every number of threads, values and *)
(* restarts.                                                               *)
(*                                                                         *)
(* A value that nothing interfered with has at most one number: while a    *)
(* thread is on its way to give it one it has none, the number that the    *)
(* thread took is nobody's, and a collection spares the numbers that were  *)
(* referred to when it began.  `shaken` only grows, so each conjunct is    *)
(* about the values that are not in it yet.                                *)
(***************************************************************************)

Writers == At("missed") \cup At("numbered")
Calm(v) == v \notin shaken

DictTypes ==
    /\ dict = [fwd |-> dict.fwd, rev |-> dict.rev, next |-> dict.next, epoch |-> dict.epoch]
    /\ dict.next \in Nat /\ next_node \in Nat /\ behind \in BOOLEAN
    /\ \A v \in DOMAIN dict.fwd : dict.fwd[v] \in Nat
    /\ DOMAIN encoder = Encoders
    /\ \A t \in Encoders : encoder[t] # <<>> =>
            /\ encoder[t] = Held(encoder[t].step, encoder[t].value, encoder[t].id)
            /\ encoder[t].id \in Nat
    /\ sweep = NoSweep \/ sweep.step \in {"collected", "scanned", "clearing"}
    /\ sweep.step = "clearing" => sweep.next \in Nat

\* A value on its way to its number has none yet, and one thread that brings it.
MissingInv ==
    \A t \in Writers : Calm(encoder[t].value) =>
        /\ encoder[t].value \notin DOMAIN dict.fwd
        /\ \A u \in Writers : encoder[u].value = encoder[t].value => u = t

\* Numbers in use are below the next one, in the process and, unless META_NEXT_NODE is behind, in the
\* database; a number that a thread took is in no entry and no other thread's.
FreshInv ==
    /\ \A v \in DOMAIN dict.fwd : Calm(v) => dict.fwd[v] < next_node /\ (behind \/ dict.fwd[v] < dict.next)
    /\ \A t \in At("numbered") :
        /\ encoder[t].id < next_node
        /\ \A v \in DOMAIN dict.fwd : Calm(v) => dict.fwd[v] # encoder[t].id
        /\ \A u \in At("numbered") : encoder[u].id = encoder[t].id => u = t

\* No value has an entry back from a second number.
BackwardInv ==
    \A id \in DOMAIN dict.rev : Calm(dict.rev[id]) =>
        dict.rev[id] \in DOMAIN dict.fwd /\ dict.fwd[dict.rev[id]] = id

\* A collection spares what is referred to, and before a clear everything that is referred to is shaken.
SweepInv ==
    /\ sweep.step = "collected" => \A x \in References : Calm(x[2]) => x[1] \in sweep.used
    /\ sweep.step = "scanned" =>
        /\ sweep.doomed \subseteq DOMAIN dict.rev
        /\ \A x \in References : Calm(x[2]) => x[1] \notin sweep.doomed
    /\ sweep.step = "clearing" => \A x \in References : ~Calm(x[2])

DictInv == DictTypes /\ MissingInv /\ FreshInv /\ BackwardInv /\ SweepInv /\ DictionarySound

-----------------------------------------------------------------------------
LEMMA HeldFields ==
    \A step, v, id : Held(step, v, id).step = step /\ Held(step, v, id).value = v /\ Held(step, v, id).id = id
  BY DEF Held

\* A step of one thread changes only where that thread is.
LEMMA OthersStay ==
    ASSUME NEW t \in Encoders, NEW e, DOMAIN encoder = Encoders, encoder' = [encoder EXCEPT ![t] = e]
    PROVE  /\ encoder'[t] = e /\ DOMAIN encoder' = Encoders
           /\ \A u \in Encoders : u # t => encoder'[u] = encoder[u]
           /\ \A step \in {"missed", "numbered", "has"} : \A u \in At(step)' : u # t => u \in At(step) /\ encoder'[u] = encoder[u]
           /\ \A step \in {"missed", "numbered", "has"} : t \in At(step)' => e # <<>> /\ e.step = step
  <1>1. encoder'[t] = e /\ DOMAIN encoder' = Encoders /\ \A u \in Encoders : u # t => encoder'[u] = encoder[u]
    OBVIOUS
  <1>2. ASSUME NEW step \in {"missed", "numbered", "has"} PROVE \A u \in At(step)' : u # t => u \in At(step) /\ encoder'[u] = encoder[u]
    BY <1>1 DEF At
  <1>3. ASSUME NEW step \in {"missed", "numbered", "has"} PROVE t \in At(step)' => e # <<>> /\ e.step = step
    BY <1>1 DEF At
  <1> QED
    BY <1>1, <1>2, <1>3

\* Where references, threads and entries stay or shrink, and no number moves, nothing is lost.
LEMMA ShrinkKeepsInv ==
    ASSUME DictInv, UNCHANGED <<dict, next_node, sweep, behind>>, shaken \subseteq shaken',
           DOMAIN encoder' = Encoders,
           \A u \in Encoders : encoder'[u] = encoder[u] \/ encoder'[u] = <<>>,
           staged' \cup kept' \subseteq References
    PROVE  DictInv'
  <1>1. \A step : \A u \in At(step)' : u \in At(step) /\ encoder'[u] = encoder[u]
    BY DEF At
  <1>2. References' \subseteq References
    BY <1>1 DEF References, HeldRefs
  <1>3. \A v : Calm(v)' => Calm(v)
    BY DEF Calm
  <1>4. DictTypes'
    BY DEF DictInv, DictTypes
  <1>5. MissingInv'
    BY <1>1, <1>3 DEF DictInv, MissingInv, Writers
  <1>6. FreshInv'
    BY <1>1, <1>3 DEF DictInv, FreshInv
  <1>7. BackwardInv'
    BY <1>3 DEF DictInv, BackwardInv
  <1>8. SweepInv'
    BY <1>2, <1>3 DEF DictInv, SweepInv
  <1>9. DictionarySound'
    BY <1>2, <1>3 DEF DictInv, DictionarySound, Calm
  <1> QED
    BY <1>4, <1>5, <1>6, <1>7, <1>8, <1>9 DEF DictInv

-----------------------------------------------------------------------------
LEMMA LookUpKeepsInv ==
    ASSUME DictInv, NEW t \in Encoders, NEW v \in Values, LookUp(t, v)
    PROVE  DictInv'
  <1> DEFINE known == v \in DOMAIN dict.fwd
             e == IF known THEN Held("has", v, dict.fwd[v]) ELSE Held("missed", v, 0)
  <1>1. /\ encoder[t] = <<>> /\ encoder' = [encoder EXCEPT ![t] = e]
        /\ UNCHANGED <<dict, next_node, staged, kept, sweep, reopens, mishaps, behind>>
        /\ shaken \subseteq shaken'
        /\ ~known /\ v \in ValuesAt("missed") \cup ValuesAt("numbered") => v \in shaken'
        /\ known /\ sweep # NoSweep => v \in shaken'
    BY DEF LookUp
  <1>2. /\ encoder'[t] = e /\ DOMAIN encoder' = Encoders
        /\ \A u \in Encoders : u # t => encoder'[u] = encoder[u]
        /\ \A step \in {"missed", "numbered", "has"} : \A u \in At(step)' : u # t => u \in At(step) /\ encoder'[u] = encoder[u]
        /\ \A step \in {"missed", "numbered", "has"} : t \in At(step)' => e # <<>> /\ e.step = step
    BY <1>1, OthersStay, ZenonT(20) DEF DictInv, DictTypes
  <1>3. e.value = v /\ e.step = (IF known THEN "has" ELSE "missed") /\ e.id \in Nat /\ e = Held(e.step, e.value, e.id)
        /\ (known => e.id = dict.fwd[v])
    BY HeldFields DEF DictInv, DictTypes
  <1> HIDE DEF e
  <1>4. \A x : Calm(x)' => Calm(x)
    BY <1>1 DEF Calm
  <1>5. References' \subseteq References \cup {<<dict.fwd[v], v>>} /\ (~known => References' \subseteq References)
    BY <1>1, <1>2, <1>3 DEF References, HeldRefs
  <1>6. DictTypes'
    BY <1>1, <1>2, <1>3 DEF DictInv, DictTypes
  <1>7. MissingInv'
    <2>1. \A u \in Writers' : u # t => u \in Writers /\ encoder'[u] = encoder[u]
      BY <1>2 DEF Writers
    <2>2. t \in Writers' => ~known
      BY <1>2, <1>3 DEF Writers
    <2>3. t \in Writers' /\ Calm(v)' => \A u \in Writers : encoder[u].value # v
      BY <1>1, <2>2 DEF Writers, ValuesAt, Calm
    <2> QED
      BY <1>1, <1>2, <1>3, <1>4, <2>1, <2>2, <2>3 DEF DictInv, MissingInv
  <1>8. FreshInv'
    <2>1. \A u \in At("numbered")' : u \in At("numbered") /\ encoder'[u] = encoder[u]
      BY <1>2, <1>3
    <2> QED
      BY <1>1, <1>4, <2>1 DEF DictInv, FreshInv
  <1>9. BackwardInv'
    BY <1>1, <1>4 DEF DictInv, BackwardInv
  <1>10. SweepInv'
    <2>1. sweep.step \in {"collected", "scanned", "clearing"} /\ known => ~Calm(v)'
      BY <1>1 DEF NoSweep, Calm
    <2>2. sweep.step \in {"collected", "scanned", "clearing"} => \A x \in References' : Calm(x[2])' => x \in References
      BY <1>5, <2>1
    <2> QED
      BY <1>1, <1>4, <2>2 DEF DictInv, SweepInv
  <1>11. DictionarySound'
    <2>1. known => \A x \in References' : Calm(x[2])' => x \in References \/ x = <<dict.fwd[v], v>>
      BY <1>5
    <2>2. known /\ Calm(v) => dict.fwd[v] \in DOMAIN dict.rev /\ dict.rev[dict.fwd[v]] = v
      BY DEF DictInv, DictionarySound, Calm
    <2> QED
      BY <1>1, <1>4, <1>5, <2>1, <2>2 DEF DictInv, DictionarySound, Calm
  <1> QED
    BY <1>6, <1>7, <1>8, <1>9, <1>10, <1>11 DEF DictInv

LEMMA TakeNumberKeepsInv ==
    ASSUME DictInv, NEW t \in Encoders, TakeNumber(t)
    PROVE  DictInv'
  <1> DEFINE v == encoder[t].value
             e == Held("numbered", v, next_node)
  <1>1. /\ t \in At("missed") /\ encoder' = [encoder EXCEPT ![t] = e] /\ next_node' = next_node + 1
        /\ UNCHANGED <<dict, staged, kept, sweep, reopens, mishaps, shaken, behind>>
    BY DEF TakeNumber
  <1>a. encoder' = [encoder EXCEPT ![t] = e] /\ DOMAIN encoder = Encoders
    BY <1>1 DEF DictInv, DictTypes
  <1> HIDE DEF e
  <1>2. /\ encoder'[t] = e /\ DOMAIN encoder' = Encoders
        /\ \A u \in Encoders : u # t => encoder'[u] = encoder[u]
        /\ \A step \in {"missed", "numbered", "has"} : \A u \in At(step)' : u # t => u \in At(step) /\ encoder'[u] = encoder[u]
        /\ \A step \in {"missed", "numbered", "has"} : t \in At(step)' => e # <<>> /\ e.step = step
    BY <1>a, OthersStay
  <1>3. e.value = v /\ e.step = "numbered" /\ e.id = next_node /\ e = Held(e.step, e.value, e.id)
    BY HeldFields DEF e
  <1>4. \A x : Calm(x)' <=> Calm(x)
    BY <1>1 DEF Calm
  <1>5. References' \subseteq References
    BY <1>1, <1>2, <1>3 DEF References, HeldRefs
  <1>n. next_node \in Nat /\ next_node' \in Nat
    BY <1>1 DEF DictInv, DictTypes
  <1>6. DictTypes'
    BY <1>1, <1>2, <1>3, <1>n DEF DictInv, DictTypes
  <1>7. MissingInv'
    <2>1. \A u \in Writers' : u \in Writers /\ encoder'[u].value = encoder[u].value
      BY <1>1, <1>2, <1>3 DEF Writers
    <2> QED
      BY <1>1, <1>4, <2>1 DEF DictInv, MissingInv
  <1>8. FreshInv'
    <2>1. \A u \in At("numbered")' : u = t \/ (u \in At("numbered") /\ encoder'[u] = encoder[u])
      BY <1>2
    <2>2. \A u \in At("numbered")' : encoder'[u].id = (IF u = t THEN next_node ELSE encoder[u].id)
      BY <1>2, <1>3, <2>1
    <2>3. \A u \in At("numbered") : encoder[u].id \in Nat /\ encoder[u].id < next_node
      BY DEF DictInv, DictTypes, FreshInv, At
    <2>4. \A w \in DOMAIN dict.fwd : dict.fwd[w] \in Nat
      BY DEF DictInv, DictTypes
    <2>5. \A w \in DOMAIN dict.fwd : Calm(w) => dict.fwd[w] < next_node /\ (behind \/ dict.fwd[w] < dict.next)
      BY DEF DictInv, FreshInv
    <2>6. \A w \in DOMAIN dict'.fwd : Calm(w)' => dict'.fwd[w] < next_node' /\ (behind' \/ dict'.fwd[w] < dict'.next)
      BY <1>1, <1>4, <1>n, <2>4, <2>5
    <2>7. \A u \in At("numbered")' : encoder'[u].id < next_node'
      BY <1>1, <1>n, <2>1, <2>2, <2>3
    <2>8. \A u \in At("numbered")' : \A w \in DOMAIN dict'.fwd : Calm(w)' => dict'.fwd[w] # encoder'[u].id
      BY <1>1, <1>4, <1>n, <2>1, <2>2, <2>4, <2>5 DEF DictInv, FreshInv
    <2>9. \A u, w \in At("numbered")' : encoder'[w].id = encoder'[u].id => w = u
      <3>1. TAKE u \in At("numbered")', w \in At("numbered")'
      <3>2. CASE u = t \/ w = t
        BY <1>n, <2>1, <2>2, <2>3, <3>2
      <3>3. CASE u # t /\ w # t
        BY <2>1, <2>2, <3>3 DEF DictInv, FreshInv
      <3> QED
        BY <3>2, <3>3
    <2> QED
      BY <2>6, <2>7, <2>8, <2>9 DEF FreshInv
  <1>9. BackwardInv'
    BY <1>1, <1>4 DEF DictInv, BackwardInv
  <1>10. SweepInv'
    BY <1>1, <1>4, <1>5 DEF DictInv, SweepInv
  <1>11. DictionarySound'
    BY <1>1, <1>5 DEF DictInv, DictionarySound
  <1> QED
    BY <1>6, <1>7, <1>8, <1>9, <1>10, <1>11 DEF DictInv

LEMMA StageKeepsInv ==
    ASSUME DictInv, NEW t \in Encoders, Stage(t)
    PROVE  DictInv'
  <1>1. /\ t \in At("has") /\ staged' = staged \cup {<<encoder[t].id, encoder[t].value>>} /\ kept' = kept
        /\ encoder' = [encoder EXCEPT ![t] = <<>>]
        /\ UNCHANGED <<dict, next_node, sweep, behind, shaken>>
    BY DEF Stage
  <1>2. DOMAIN encoder = Encoders
    BY DEF DictInv, DictTypes
  <1>3. staged' \cup kept' \subseteq References
    BY <1>1 DEF References, HeldRefs
  <1> QED
    BY <1>1, <1>2, <1>3, ShrinkKeepsInv

LEMMA StatementsKeepInv ==
    ASSUME DictInv, CommitStaged \/ AbortStaged \/ \E x \in kept : DeleteKept(x)
    PROVE  DictInv'
  <1>1. UNCHANGED <<dict, next_node, sweep, behind, shaken, encoder>> /\ staged' \cup kept' \subseteq References
    BY DEF CommitStaged, AbortStaged, DeleteKept, References
  <1>2. DOMAIN encoder = Encoders
    BY DEF DictInv, DictTypes
  <1> QED
    BY <1>1, <1>2, ShrinkKeepsInv

-----------------------------------------------------------------------------
LEMMA WriteEntryKeepsInv ==
    ASSUME DictInv, NEW t \in Encoders, NEW fails \in BOOLEAN, WriteEntry(t, fails)
    PROVE  DictInv'
  <1> DEFINE v == encoder[t].value
             id == encoder[t].id
             e == Held("has", v, id)
  <1>1. /\ t \in At("numbered") /\ encoder' = [encoder EXCEPT ![t] = e]
        /\ dict' = IF fails THEN dict ELSE Encoded(v, id)
        /\ behind' = IF fails THEN TRUE ELSE id + 1 < dict.next \/ (behind /\ id + 1 # next_node)
        /\ shaken \subseteq shaken' /\ (fails \/ sweep # NoSweep => v \in shaken')
        /\ UNCHANGED <<next_node, staged, kept, sweep>>
    BY DEF WriteEntry
  <1>a. encoder' = [encoder EXCEPT ![t] = e] /\ DOMAIN encoder = Encoders
    BY <1>1 DEF DictInv, DictTypes
  <1> HIDE DEF e
  <1>2. /\ encoder'[t] = e /\ DOMAIN encoder' = Encoders
        /\ \A u \in Encoders : u # t => encoder'[u] = encoder[u]
        /\ \A step \in {"missed", "numbered", "has"} : \A u \in At(step)' : u # t => u \in At(step) /\ encoder'[u] = encoder[u]
        /\ \A step \in {"missed", "numbered", "has"} : t \in At(step)' => e # <<>> /\ e.step = step
    BY <1>a, OthersStay
  <1>3. e.value = v /\ e.step = "has" /\ e.id = id /\ e = Held(e.step, e.value, e.id)
    BY HeldFields DEF e
  <1>4. \A x : Calm(x)' => Calm(x)
    BY <1>1 DEF Calm
  <1>5. References' \subseteq References \cup {<<id, v>>}
    BY <1>1, <1>2, <1>3 DEF References, HeldRefs
  <1>6. id \in Nat /\ next_node \in Nat /\ dict.next \in Nat /\ id < next_node /\ behind \in BOOLEAN
    BY <1>1 DEF DictInv, DictTypes, FreshInv, At
  <1>w. \A u \in Writers' : u # t /\ u \in Writers /\ encoder'[u] = encoder[u]
    BY <1>2, <1>3 DEF Writers
  <1>n. \A u \in At("numbered")' : u # t /\ u \in At("numbered") /\ encoder'[u] = encoder[u]
    BY <1>2, <1>3
  <1>7. CASE fails
    <2>1. dict' = dict /\ behind' = TRUE /\ v \in shaken'
      BY <1>1, <1>7
    <2>2. DictTypes'
      BY <1>1, <1>2, <1>3, <1>6, <2>1 DEF DictInv, DictTypes
    <2>3. MissingInv'
      BY <1>4, <1>w, <2>1 DEF DictInv, MissingInv
    <2>4. FreshInv'
      BY <1>1, <1>4, <1>n, <2>1 DEF DictInv, FreshInv
    <2>5. BackwardInv'
      BY <1>4, <2>1 DEF DictInv, BackwardInv
    <2>6. \A x \in References' : Calm(x[2])' => x \in References
      BY <1>5, <2>1 DEF Calm
    <2>7. SweepInv'
      BY <1>1, <1>4, <2>1, <2>6 DEF DictInv, SweepInv
    <2>8. DictionarySound'
      BY <1>4, <2>1, <2>6 DEF DictInv, DictionarySound, Calm
    <2> QED
      BY <2>2, <2>3, <2>4, <2>5, <2>7, <2>8 DEF DictInv
  <1>8. CASE ~fails
    <2>1. /\ dict'.fwd = Put(dict.fwd, v, id) /\ dict'.rev = Put(dict.rev, id, v) /\ dict'.next = id + 1
          /\ dict' = [fwd |-> dict'.fwd, rev |-> dict'.rev, next |-> dict'.next, epoch |-> dict'.epoch]
      BY <1>1, <1>8 DEF Encoded, DictInv, DictTypes
    <2>2. /\ DOMAIN dict'.fwd = DOMAIN dict.fwd \cup {v} /\ dict'.fwd[v] = id
          /\ \A w \in DOMAIN dict.fwd : w # v => dict'.fwd[w] = dict.fwd[w]
      <3> DEFINE new == Put(dict.fwd, v, id)
      <3>1. DOMAIN new = DOMAIN dict.fwd \cup {v} /\ new[v] = id /\ \A w \in DOMAIN dict.fwd : w # v => new[w] = dict.fwd[w]
        BY DEF Put
      <3> QED
        BY <2>1, <3>1
    <2>3. /\ DOMAIN dict'.rev = DOMAIN dict.rev \cup {id} /\ dict'.rev[id] = v
          /\ \A i \in DOMAIN dict.rev : i # id => dict'.rev[i] = dict.rev[i]
      <3> DEFINE new == Put(dict.rev, id, v)
      <3>1. DOMAIN new = DOMAIN dict.rev \cup {id} /\ new[id] = v /\ \A i \in DOMAIN dict.rev : i # id => new[i] = dict.rev[i]
        BY DEF Put
      <3> QED
        BY <2>1, <3>1
    <2>4. behind' = (id + 1 < dict.next \/ (behind /\ id + 1 # next_node))
      BY <1>1, <1>8
    <2>5. t \in Writers /\ (Calm(v) => v \notin DOMAIN dict.fwd /\ \A u \in Writers : encoder[u].value = v => u = t)
      BY <1>1 DEF DictInv, MissingInv, Writers
    <2>6. \A w \in DOMAIN dict.fwd : Calm(w) =>
            dict.fwd[w] < next_node /\ (behind \/ dict.fwd[w] < dict.next) /\ dict.fwd[w] # id
      BY <1>1 DEF DictInv, FreshInv
    <2>7. \A w \in DOMAIN dict.fwd : dict.fwd[w] \in Nat
      BY DEF DictInv, DictTypes
    <2>8. DictTypes'
      <3>1. \A w \in DOMAIN dict'.fwd : dict'.fwd[w] \in Nat
        BY <1>6, <2>2, <2>7
      <3>2. dict'.next \in Nat /\ next_node' \in Nat
        BY <1>1, <1>6, <2>1
      <3>3. behind' \in BOOLEAN
        BY <2>4
      <3> QED
        BY <1>1, <1>2, <1>3, <1>6, <2>1, <3>1, <3>2, <3>3 DEF DictInv, DictTypes
    <2>9. MissingInv'
      BY <1>4, <1>w, <2>2, <2>5 DEF DictInv, MissingInv
    <2>10. FreshInv'
      <3>1. ASSUME NEW w \in DOMAIN dict'.fwd, Calm(w)'
            PROVE  dict'.fwd[w] < next_node' /\ (behind' \/ dict'.fwd[w] < dict'.next)
        <4>1. CASE w = v
          BY <1>1, <1>6, <2>1, <2>2, <4>1
        <4>2. CASE w # v
          <5>1. w \in DOMAIN dict.fwd /\ dict'.fwd[w] = dict.fwd[w] /\ Calm(w)
            BY <1>4, <2>2, <3>1, <4>2
          <5>2. dict.fwd[w] \in Nat /\ dict.fwd[w] < next_node /\ (behind \/ dict.fwd[w] < dict.next)
            BY <2>6, <2>7, <5>1
          <5>3. ~behind' => (behind => id + 1 = next_node) /\ ~(id + 1 < dict.next)
            BY <2>4
          <5> QED
            BY <1>1, <1>6, <2>1, <5>1, <5>2, <5>3
        <4> QED
          BY <4>1, <4>2
      <3>2. \A u \in At("numbered")' : encoder'[u].id < next_node'
        BY <1>1, <1>n DEF DictInv, FreshInv
      <3>3. \A u \in At("numbered")' : \A w \in DOMAIN dict'.fwd : Calm(w)' => dict'.fwd[w] # encoder'[u].id
        BY <1>1, <1>4, <1>n, <2>2 DEF DictInv, FreshInv
      <3>4. \A u, w \in At("numbered")' : encoder'[w].id = encoder'[u].id => w = u
        BY <1>n DEF DictInv, FreshInv
      <3> QED
        BY <3>1, <3>2, <3>3, <3>4 DEF FreshInv
    <2>11. BackwardInv'
      <3>1. \A i \in DOMAIN dict.rev : Calm(dict.rev[i]) =>
              dict.rev[i] # v /\ dict.rev[i] \in DOMAIN dict.fwd /\ dict.fwd[dict.rev[i]] = i
        BY <2>5 DEF DictInv, BackwardInv
      <3> QED
        BY <1>4, <2>2, <2>3, <3>1 DEF BackwardInv
    <2>12. SweepInv'
      <3>1. sweep # NoSweep => \A x \in References' : Calm(x[2])' => x \in References
        BY <1>1, <1>5 DEF Calm
      <3>2. sweep.step \in {"collected", "scanned", "clearing"} => sweep # NoSweep
        BY DEF NoSweep
      <3> QED
        BY <1>1, <1>4, <2>3, <3>1, <3>2 DEF DictInv, SweepInv
    <2>13. DictionarySound'
      <3>1. \A x \in References : Calm(x[2])' =>
              /\ x[2] # v /\ x[1] # id
              /\ x[1] \in DOMAIN dict.rev /\ dict.rev[x[1]] = x[2]
              /\ x[2] \in DOMAIN dict.fwd /\ dict.fwd[x[2]] = x[1]
        BY <1>4, <2>5, <2>6 DEF DictInv, DictionarySound, Calm
      <3>2. \A x \in References' : Calm(x[2])' =>
              /\ x[1] \in DOMAIN dict'.rev /\ dict'.rev[x[1]] = x[2]
              /\ x[2] \in DOMAIN dict'.fwd /\ dict'.fwd[x[2]] = x[1]
        BY <1>5, <2>2, <2>3, <3>1
      <3>3. \A w \in DOMAIN dict'.fwd : Calm(w)' => dict'.fwd[w] \in DOMAIN dict'.rev /\ dict'.rev[dict'.fwd[w]] = w
        BY <1>4, <2>2, <2>3, <2>6 DEF DictInv, DictionarySound, Calm
      <3> QED
        BY <3>2, <3>3 DEF DictionarySound, Calm
    <2> QED
      BY <2>8, <2>9, <2>10, <2>11, <2>12, <2>13 DEF DictInv
  <1> QED
    BY <1>7, <1>8

-----------------------------------------------------------------------------
\* What only adds to the values interfered with keeps all but the claims about the sweep.
LEMMA ShakingKeeps ==
    ASSUME DictInv, UNCHANGED <<dict, next_node, encoder, staged, kept, behind>>, shaken \subseteq shaken'
    PROVE  /\ MissingInv' /\ FreshInv' /\ BackwardInv' /\ DictionarySound'
           /\ (sweep' = NoSweep \/ sweep'.step \in {"collected", "scanned", "clearing"})
              /\ (sweep'.step = "clearing" => sweep'.next \in Nat) => DictTypes'
           /\ References' = References /\ \A v : Calm(v)' => Calm(v)
  <1>1. \A step \in {"missed", "numbered", "has"} : At(step)' = At(step)
    BY DEF At
  <1>2. \A v : Calm(v)' => Calm(v)
    BY DEF Calm
  <1>3. References' = References
    BY <1>1 DEF References, HeldRefs
  <1>4. MissingInv'
    BY <1>1, <1>2 DEF DictInv, MissingInv, Writers
  <1>5. FreshInv'
    BY <1>1, <1>2 DEF DictInv, FreshInv
  <1>6. BackwardInv'
    BY <1>2 DEF DictInv, BackwardInv
  <1>7. DictionarySound'
    BY <1>3 DEF DictInv, DictionarySound
  <1>8. (sweep' = NoSweep \/ sweep'.step \in {"collected", "scanned", "clearing"})
              /\ (sweep'.step = "clearing" => sweep'.next \in Nat) => DictTypes'
    BY DEF DictInv, DictTypes
  <1> QED
    BY <1>2, <1>3, <1>4, <1>5, <1>6, <1>7, <1>8

LEMMA GcCollectKeepsInv ==
    ASSUME DictInv, GcCollect
    PROVE  DictInv'
  <1>1. /\ sweep' = [step |-> "collected", used |-> ReferencedIds] /\ shaken' = shaken \cup ValuesAt("has")
        /\ UNCHANGED <<dict, next_node, encoder, staged, kept, behind>>
    BY DEF GcCollect
  <1>2. sweep'.step = "collected" /\ sweep'.used = ReferencedIds
    BY <1>1
  <1>3. /\ MissingInv' /\ FreshInv' /\ BackwardInv' /\ DictionarySound' /\ DictTypes'
        /\ References' = References
    BY <1>1, <1>2, ShakingKeeps
  <1>4. \A x \in References : Calm(x[2])' => x[1] \in ReferencedIds
    BY <1>1 DEF References, HeldRefs, ReferencedIds, ValuesAt, Calm
  <1>5. SweepInv'
    BY <1>2, <1>3, <1>4 DEF SweepInv
  <1> QED
    BY <1>3, <1>5 DEF DictInv

LEMMA GcScanKeepsInv ==
    ASSUME DictInv, GcScan
    PROVE  DictInv'
  <1>1. /\ sweep.step = "collected" /\ sweep' = [step |-> "scanned", doomed |-> DOMAIN dict.rev \ sweep.used]
        /\ UNCHANGED <<dict, next_node, encoder, staged, kept, behind, shaken>>
    BY DEF GcScan
  <1>2. sweep'.step = "scanned" /\ sweep'.doomed = DOMAIN dict.rev \ sweep.used
    BY <1>1
  <1>3. /\ MissingInv' /\ FreshInv' /\ BackwardInv' /\ DictionarySound' /\ DictTypes'
        /\ References' = References /\ \A v : Calm(v)' => Calm(v)
    BY <1>1, <1>2, ShakingKeeps
  <1>4. SweepInv'
    BY <1>1, <1>2, <1>3 DEF DictInv, SweepInv
  <1> QED
    BY <1>3, <1>4 DEF DictInv

LEMMA GcWriteKeepsInv ==
    ASSUME DictInv, GcWrite
    PROVE  DictInv'
  <1> DEFINE lost == {dict.rev[id] : id \in sweep.doomed}
  <1>1. /\ sweep.step = "scanned" /\ sweep' = NoSweep
        /\ dict' = [dict EXCEPT !.rev = Drop(@, sweep.doomed), !.fwd = Drop(@, lost)]
        /\ UNCHANGED <<next_node, encoder, staged, kept, shaken, behind>>
    BY DEF GcWrite
  <1>2. /\ dict'.rev = Drop(dict.rev, sweep.doomed) /\ dict'.fwd = Drop(dict.fwd, lost) /\ dict'.next = dict.next
        /\ dict' = [fwd |-> dict'.fwd, rev |-> dict'.rev, next |-> dict'.next, epoch |-> dict'.epoch]
    BY <1>1 DEF DictInv, DictTypes
  <1>3. DOMAIN dict'.rev = DOMAIN dict.rev \ sweep.doomed /\ \A id \in DOMAIN dict'.rev : dict'.rev[id] = dict.rev[id]
    BY <1>2 DEF Drop
  <1>4. DOMAIN dict'.fwd = DOMAIN dict.fwd \ lost /\ \A v \in DOMAIN dict'.fwd : dict'.fwd[v] = dict.fwd[v]
    BY <1>2 DEF Drop
  <1>5. /\ \A step \in {"missed", "numbered", "has"} : At(step)' = At(step)
        /\ \A v : Calm(v)' <=> Calm(v)
    BY <1>1 DEF At, Calm
  <1>6. References' = References
    BY <1>1, <1>5 DEF References, HeldRefs
  \* A value loses its number only with it.
  <1>7. sweep.doomed \subseteq DOMAIN dict.rev
    BY <1>1 DEF DictInv, SweepInv
  <1>8. \A v \in lost : Calm(v) => v \in DOMAIN dict.fwd /\ dict.fwd[v] \in sweep.doomed
    BY <1>7 DEF DictInv, BackwardInv
  <1>9. DictTypes'
    BY <1>1, <1>2, <1>4 DEF DictInv, DictTypes, NoSweep
  <1>10. MissingInv'
    BY <1>1, <1>4, <1>5 DEF DictInv, MissingInv, Writers
  <1>11. FreshInv'
    <2>1. \A v \in DOMAIN dict'.fwd : Calm(v)' => dict'.fwd[v] < next_node' /\ (behind' \/ dict'.fwd[v] < dict'.next)
      BY <1>1, <1>2, <1>4, <1>5 DEF DictInv, FreshInv
    <2>2. \A t \in At("numbered")' :
            /\ encoder'[t].id < next_node'
            /\ \A v \in DOMAIN dict'.fwd : Calm(v)' => dict'.fwd[v] # encoder'[t].id
            /\ \A u \in At("numbered")' : encoder'[u].id = encoder'[t].id => u = t
      BY <1>1, <1>4, <1>5 DEF DictInv, FreshInv
    <2> QED
      BY <2>1, <2>2 DEF FreshInv
  <1>12. BackwardInv'
    <2>1. ASSUME NEW id \in DOMAIN dict'.rev, dict'.rev[id] \notin shaken'
          PROVE  dict'.rev[id] \in DOMAIN dict'.fwd /\ dict'.fwd[dict'.rev[id]] = id
      <3> DEFINE v == dict.rev[id]
      <3>1. id \in DOMAIN dict.rev /\ id \notin sweep.doomed /\ dict'.rev[id] = v /\ Calm(v)
        BY <1>1, <1>3, <2>1 DEF Calm
      <3>2. v \in DOMAIN dict.fwd /\ dict.fwd[v] = id
        BY <3>1 DEF DictInv, BackwardInv
      <3> QED
        BY <1>4, <1>8, <3>1, <3>2
    <2> QED
      BY <2>1 DEF BackwardInv, Calm
  <1>13. SweepInv'
    BY <1>1 DEF SweepInv, NoSweep
  <1>14. DictionarySound'
    <2>1. ASSUME NEW x \in References, x[2] \notin shaken
          PROVE  /\ x[1] \in DOMAIN dict'.rev /\ dict'.rev[x[1]] = x[2]
                 /\ x[2] \in DOMAIN dict'.fwd /\ dict'.fwd[x[2]] = x[1]
      <3>1. Calm(x[2]) /\ x[1] \notin sweep.doomed
        BY <1>1, <2>1 DEF DictInv, SweepInv, Calm
      <3>2. /\ x[1] \in DOMAIN dict.rev /\ dict.rev[x[1]] = x[2]
            /\ x[2] \in DOMAIN dict.fwd /\ dict.fwd[x[2]] = x[1]
        BY <2>1 DEF DictInv, DictionarySound
      <3> QED
        BY <1>3, <1>4, <1>8, <3>1, <3>2
    <2>2. ASSUME NEW v \in DOMAIN dict'.fwd, v \notin shaken
          PROVE  dict'.fwd[v] \in DOMAIN dict'.rev /\ dict'.rev[dict'.fwd[v]] = v
      <3>1. v \in DOMAIN dict.fwd /\ v \notin lost /\ dict'.fwd[v] = dict.fwd[v]
        BY <1>4
      <3>2. dict.fwd[v] \in DOMAIN dict.rev /\ dict.rev[dict.fwd[v]] = v
        BY <2>2, <3>1 DEF DictInv, DictionarySound
      <3> QED
        BY <1>3, <3>1, <3>2
    <2> QED
      BY <1>1, <1>6, <2>1, <2>2 DEF DictionarySound
  <1> QED
    BY <1>9, <1>10, <1>11, <1>12, <1>13, <1>14 DEF DictInv

LEMMA ClearPrepareKeepsInv ==
    ASSUME DictInv, ClearPrepare
    PROVE  DictInv'
  <1>1. /\ sweep' = [step |-> "clearing", next |-> next_node] /\ shaken' = shaken \cup {x[2] : x \in References}
        /\ UNCHANGED <<dict, next_node, encoder, staged, kept, behind>>
    BY DEF ClearPrepare
  <1>2. sweep'.step = "clearing" /\ sweep'.next = next_node /\ next_node \in Nat
    BY <1>1 DEF DictInv, DictTypes
  <1>3. /\ MissingInv' /\ FreshInv' /\ BackwardInv' /\ DictionarySound' /\ DictTypes'
        /\ References' = References
    BY <1>1, <1>2, ShakingKeeps
  <1>4. SweepInv'
    BY <1>1, <1>2, <1>3 DEF SweepInv, Calm
  <1> QED
    BY <1>3, <1>4 DEF DictInv

LEMMA ClearWriteKeepsInv ==
    ASSUME DictInv, ClearWrite
    PROVE  DictInv'
  <1>1. /\ sweep.step = "clearing" /\ sweep' = NoSweep
        /\ dict' = [fwd |-> <<>>, rev |-> <<>>, next |-> sweep.next, epoch |-> dict.epoch + 1]
        /\ behind' = (sweep.next < dict.next \/ (behind /\ sweep.next # next_node))
        /\ UNCHANGED <<next_node, encoder, staged, kept, shaken>>
    BY DEF ClearWrite
  <1>2. DOMAIN dict'.fwd = {} /\ DOMAIN dict'.rev = {} /\ dict'.next = sweep.next /\ sweep.next \in Nat
    BY <1>1 DEF DictInv, DictTypes
  <1>3. /\ \A step \in {"missed", "numbered", "has"} : At(step)' = At(step)
        /\ \A v : Calm(v)' <=> Calm(v)
    BY <1>1 DEF At, Calm
  <1>4. References' = References
    BY <1>1, <1>3 DEF References, HeldRefs
  <1>5. DictTypes'
    <2>1. behind' \in BOOLEAN
      BY <1>1
    <2>2. dict' = [fwd |-> dict'.fwd, rev |-> dict'.rev, next |-> dict'.next, epoch |-> dict'.epoch]
      BY <1>1
    <2> QED
      BY <1>1, <1>2, <2>1, <2>2 DEF DictInv, DictTypes, NoSweep
  <1>6. MissingInv'
    BY <1>1, <1>2, <1>3 DEF DictInv, MissingInv, Writers
  <1>7. FreshInv'
    BY <1>1, <1>2, <1>3 DEF DictInv, FreshInv
  <1>8. BackwardInv'
    BY <1>2 DEF BackwardInv
  <1>9. SweepInv'
    BY <1>1 DEF SweepInv, NoSweep
  <1>10. DictionarySound'
    BY <1>1, <1>2, <1>4 DEF DictInv, SweepInv, DictionarySound, Calm
  <1> QED
    BY <1>5, <1>6, <1>7, <1>8, <1>9, <1>10 DEF DictInv

LEMMA ReopenKeepsInv ==
    ASSUME DictInv, Reopen
    PROVE  DictInv'
  <1>1. /\ next_node' = dict.next /\ encoder' = [t \in Encoders |-> <<>>]
        /\ staged' = {} /\ sweep' = NoSweep /\ behind' = FALSE
        /\ UNCHANGED <<dict, kept>>
    BY DEF Reopen
  <1>2. shaken \subseteq shaken' /\ \A v \in DOMAIN dict.fwd : behind /\ dict.fwd[v] >= dict.next => v \in shaken'
    BY DEF Reopen
  <1>3. \A step \in {"missed", "numbered", "has"} : At(step)' = {}
    BY <1>1 DEF At
  <1>4. References' \subseteq References
    BY <1>1, <1>3 DEF References, HeldRefs
  <1>5. \A v : Calm(v)' => Calm(v)
    BY <1>2 DEF Calm
  <1>6. DictTypes'
    BY <1>1 DEF DictInv, DictTypes, NoSweep
  <1>7. MissingInv'
    BY <1>3 DEF MissingInv, Writers
  <1>8. FreshInv'
    <2>1. ASSUME NEW v \in DOMAIN dict.fwd, Calm(v)'
          PROVE  dict.fwd[v] < dict.next
      <3>1. dict.fwd[v] \in Nat /\ dict.next \in Nat
        BY DEF DictInv, DictTypes
      <3>2. CASE behind
        BY <1>2, <2>1, <3>1, <3>2 DEF Calm
      <3>3. CASE ~behind
        BY <1>5, <2>1, <3>3 DEF DictInv, FreshInv
      <3> QED
        BY <3>2, <3>3
    <2> QED
      BY <1>1, <1>3, <2>1 DEF FreshInv
  <1>9. BackwardInv'
    BY <1>1, <1>5 DEF DictInv, BackwardInv
  <1>10. SweepInv'
    BY <1>1 DEF SweepInv, NoSweep
  <1>11. DictionarySound'
    BY <1>1, <1>4, <1>5 DEF DictInv, DictionarySound, Calm
  <1> QED
    BY <1>6, <1>7, <1>8, <1>9, <1>10, <1>11 DEF DictInv

-----------------------------------------------------------------------------
\* In a new database there is no entry and no reference, and no thread encodes.
LEMMA DictInitHasInv == DictInit => DictInv
  <1> SUFFICES ASSUME DictInit PROVE DictInv
    OBVIOUS
  <1>1. /\ dict = [fwd |-> <<>>, rev |-> <<>>, next |-> 1, epoch |-> 0] /\ next_node = 1 /\ behind = FALSE
        /\ encoder = [t \in Encoders |-> <<>>] /\ staged = {} /\ kept = {} /\ sweep = NoSweep
    BY DEF DictInit, EmptyDict
  <1>2. DOMAIN dict.fwd = {} /\ DOMAIN dict.rev = {}
    BY <1>1
  <1>3. \A step \in {"missed", "numbered", "has"} : At(step) = {}
    BY <1>1 DEF At
  <1>4. References = {}
    BY <1>1, <1>3 DEF References, HeldRefs
  <1>5. DictTypes
    BY <1>1, <1>2 DEF DictTypes, NoSweep
  <1>6. MissingInv /\ FreshInv
    BY <1>2, <1>3 DEF MissingInv, FreshInv, Writers
  <1>7. BackwardInv /\ SweepInv
    BY <1>1, <1>2 DEF BackwardInv, SweepInv, NoSweep
  <1>8. DictionarySound
    BY <1>2, <1>4 DEF DictionarySound
  <1> QED
    BY <1>5, <1>6, <1>7, <1>8 DEF DictInv

\* The invariant that DictionarySound rests on, over every step of encode_node,
\* gc_dictionary, clear_dictionary and load_meta.
THEOREM DictInvHolds == DictSpec => []DictInv
  <1>1. DictInit => DictInv
    BY DictInitHasInv
  <1>2. DictInv /\ [DictNext]_dictVars => DictInv'
    <2> SUFFICES ASSUME DictInv, [DictNext]_dictVars PROVE DictInv'
      OBVIOUS
    <2>1. CASE UNCHANGED dictVars
      <3>1. UNCHANGED <<dict, next_node, sweep, behind, shaken, encoder, staged, kept>> /\ DOMAIN encoder = Encoders
        BY <2>1 DEF dictVars, DictInv, DictTypes
      <3>2. staged' \cup kept' \subseteq References
        BY <3>1 DEF References
      <3> QED
        BY <3>1, <3>2, ShrinkKeepsInv
    <2>2. CASE \E t \in Encoders, v \in Values : LookUp(t, v)
      BY <2>2, LookUpKeepsInv
    <2>3. CASE \E t \in Encoders : TakeNumber(t) \/ Stage(t)
      BY <2>3, TakeNumberKeepsInv, StageKeepsInv
    <2>4. CASE \E t \in Encoders, fails \in BOOLEAN : WriteEntry(t, fails)
      BY <2>4, WriteEntryKeepsInv
    <2>5. CASE CommitStaged \/ AbortStaged \/ \E x \in kept : DeleteKept(x)
      BY <2>5, StatementsKeepInv
    <2>6. CASE GcCollect
      BY <2>6, GcCollectKeepsInv
    <2>7. CASE GcScan
      BY <2>7, GcScanKeepsInv
    <2>8. CASE GcWrite
      BY <2>8, GcWriteKeepsInv
    <2>9. CASE ClearPrepare
      BY <2>9, ClearPrepareKeepsInv
    <2>10. CASE ClearWrite
      BY <2>10, ClearWriteKeepsInv
    <2>11. CASE Reopen
      BY <2>11, ReopenKeepsInv
    <2> QED
      BY <2>1, <2>2, <2>3, <2>4, <2>5, <2>6, <2>7, <2>8, <2>9, <2>10, <2>11 DEF DictNext
  <1> QED
    BY <1>1, <1>2, PTL DEF DictSpec

\* For every number of threads, values, restarts, failing writes and clears:
\* a value that statements refer to has one number, which decodes to it, unless
\* one of the four known interferences met it.
THEOREM DictionarySoundHolds == DictSpec => []DictionarySound
  <1>1. DictInv => DictionarySound
    BY DEF DictInv
  <1> QED
    BY <1>1, DictInvHolds, PTL
=============================================================================
