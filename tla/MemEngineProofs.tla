-------------------------- MODULE MemEngineProofs ---------------------------
(***************************************************************************)
(* Proofs about the in-memory storage engine: its version chain is sound   *)
(* for every retention, whatever is pinned, staged, logged or lost by the  *)
(* log; the engine implements the abstract transactional store; what a     *)
(* transaction reads is what its commit would leave; and its log, cut by a *)
(* checkpointer or not, replays to what it was written for.                *)
(*                                                                         *)
(* For the chain and the refinement, what a batch of operations does to a  *)
(* graph is not expanded: engine and store apply the same operator to the  *)
(* same operands.                                                          *)
(***************************************************************************)
EXTENDS MCMemEngine, StoreOpsTheorems, SequenceTheorems, TLAPS

\* The versions are those of an interval that ends with the newest, with
\* holes; both ends are always there.
IInv ==
    /\ next_version \in Nat \ {0}
    /\ versions = [v \in DOMAIN versions |-> versions[v]]
    /\ DOMAIN versions \subseteq 0..LatestVersion
    /\ ChainEnds

-----------------------------------------------------------------------------
\* What removing a set of keys from a function leaves.
LEMMA WithoutIs ==
    ASSUME NEW f, NEW S
    PROVE  Without(f, S) = [x \in DOMAIN f \ S |-> f[x]]
  BY DEF Without, Restrict

\* Pruning never chooses genesis, the newest version or a pinned one.
LEMMA PrunedSpares ==
    ASSUME NEW chosen, NEW latest, NEW retention
    PROVE  /\ Pruned(chosen, latest, retention) \subseteq chosen
           /\ 0 \notin Pruned(chosen, latest, retention)
           /\ latest \notin Pruned(chosen, latest, retention)
           /\ PinnedVersions \cap Pruned(chosen, latest, retention) = {}
  BY DEF Pruned, Prunable

-----------------------------------------------------------------------------
\* A new version extends the chain by the next commit sequence; what pruning
\* leaves keeps both ends and every graph it held.
LEMMA NewVersionChain ==
    ASSUME IInv, NEW graph, NewVersion(graph)
    PROVE  /\ IInv'
           /\ next_version' = next_version + 1
           /\ Latest' = graph
           /\ \A v \in DOMAIN versions \cap DOMAIN versions' : versions'[v] = versions[v]
           /\ PinnedVersions \cap DOMAIN versions \subseteq DOMAIN versions'
  <1> DEFINE grown == With(versions, next_version, graph)
             gone  == Pruned(DOMAIN grown, next_version, Retention)
  <1>1. /\ next_version' = next_version + 1
        /\ versions' = Without(grown, gone)
    BY DEF NewVersion, NextSequence
  <1>2. /\ next_version \in Nat \ {0}
        /\ DOMAIN versions \subseteq 0..(next_version - 1)
        /\ {0, next_version - 1} \subseteq DOMAIN versions
    BY DEF IInv, ChainEnds, LatestVersion
  <1>3. /\ DOMAIN grown = DOMAIN versions \cup {next_version}
        /\ grown[next_version] = graph
        /\ \A v \in DOMAIN versions : v # next_version => grown[v] = versions[v]
    BY DEF With
  <1>4. /\ 0 \notin gone /\ next_version \notin gone
        /\ PinnedVersions \cap gone = {}
    BY PrunedSpares
  <1>5. versions' = [v \in (DOMAIN versions \cup {next_version}) \ gone |-> grown[v]]
    BY <1>1, <1>3, WithoutIs
  <1> HIDE DEF grown, gone
  <1>6. /\ DOMAIN versions' = (DOMAIN versions \cup {next_version}) \ gone
        /\ \A v \in DOMAIN versions' : versions'[v] = grown[v]
        /\ versions' = [v \in DOMAIN versions' |-> versions'[v]]
    BY <1>5
  <1>7. DOMAIN versions' \subseteq 0..(next_version' - 1) /\ next_version' \in Nat \ {0}
    BY <1>1, <1>2, <1>6
  <1>8. {0, next_version} \subseteq DOMAIN versions'
    BY <1>2, <1>4, <1>6
  <1>9. LatestVersion' = next_version
    BY <1>1, <1>2 DEF LatestVersion
  <1>10. IInv'
    BY <1>6, <1>7, <1>8, <1>9 DEF IInv, ChainEnds, LatestVersion
  <1>11. Latest' = graph
    BY <1>3, <1>6, <1>8, <1>9 DEF Latest
  <1>12. \A v \in DOMAIN versions \cap DOMAIN versions' : versions'[v] = versions[v]
    BY <1>2, <1>3, <1>6
  <1>13. PinnedVersions \cap DOMAIN versions \subseteq DOMAIN versions'
    BY <1>4, <1>6
  <1> QED
    BY <1>1, <1>10, <1>11, <1>12, <1>13

\* The same for prune_versions, which leaves the newest version in place.
LEMMA PruneChain ==
    ASSUME IInv, NEW retention, PruneVersions(retention)
    PROVE  /\ IInv'
           /\ Latest' = Latest
           /\ \A v \in DOMAIN versions \cap DOMAIN versions' : versions'[v] = versions[v]
           /\ PinnedVersions \cap DOMAIN versions \subseteq DOMAIN versions'
  <1> DEFINE gone == Pruned(DOMAIN versions, LatestVersion, retention)
  <1>1. versions' = [v \in DOMAIN versions \ gone |-> versions[v]] /\ UNCHANGED next_version
    BY WithoutIs DEF PruneVersions
  <1>2. 0 \notin gone /\ LatestVersion \notin gone /\ PinnedVersions \cap gone = {}
    BY PrunedSpares
  <1> HIDE DEF gone
  <1>3. LatestVersion' = LatestVersion
    BY <1>1 DEF LatestVersion
  <1>4. /\ DOMAIN versions' = DOMAIN versions \ gone
        /\ \A v \in DOMAIN versions' : versions'[v] = versions[v]
        /\ versions' = [v \in DOMAIN versions' |-> versions'[v]]
    BY <1>1
  <1>5. IInv'
    BY <1>1, <1>2, <1>3, <1>4 DEF IInv, ChainEnds
  <1>6. Latest' = Latest
    BY <1>2, <1>3, <1>4 DEF Latest, IInv, ChainEnds
  <1> QED
    BY <1>2, <1>4, <1>5, <1>6

\* After a new version the chain is within the retention, or nothing more
\* could have been removed.
LEMMA NewVersionBound ==
    ASSUME IInv, NEW graph, NewVersion(graph)
    PROVE  \/ Cardinality(DOMAIN versions' \ {0}) <= Greater(Retention, 1)
           \/ DOMAIN versions' \ {0} \subseteq PinnedVersions \cup {LatestVersion'}
  <1> DEFINE chosen == DOMAIN versions \cup {next_version}
             P      == Prunable(chosen, next_version)
             gone   == Pruned(chosen, next_version, Retention)
             k      == Excess(chosen, Retention)
             left   == chosen \ gone
             keep   == Greater(Retention, 1)
  <1>1. /\ next_version \in Nat \ {0}
        /\ chosen \subseteq 0..next_version
        /\ 0 \in chosen
    BY DEF IInv, ChainEnds, LatestVersion
  <1>2. IsFiniteSet(chosen) /\ Cardinality(chosen) \in Nat
    <2>1. IsFiniteSet(0..next_version)
      BY <1>1, FS_Interval
    <2> HIDE DEF chosen
    <2> QED
      BY <1>1, <2>1, FS_Subset, FS_CardinalityType
  <1>3. DOMAIN versions' = left /\ next_version' = next_version + 1
    BY WithoutIs DEF NewVersion, NextSequence, With
  <1>4. P \in SUBSET Nat /\ IsFiniteSet(P) /\ P \subseteq chosen \ {0}
    BY <1>1, <1>2, FS_Subset DEF Prunable
  <1>5. gone = {v \in P : Cardinality({u \in P : u < v}) < k} /\ gone \subseteq chosen
    BY DEF Pruned, Prunable
  <1>6. k = Cardinality(chosen) - 1 - keep /\ keep \in Nat /\ k \in Int
    BY <1>2, RetentionAssumption DEF Excess, Greater
  <1>7. LatestVersion' = next_version
    BY <1>1, <1>3 DEF LatestVersion
  <1>8. IsFiniteSet(left) /\ IsFiniteSet(gone) /\ IsFiniteSet(left \ {0})
    BY <1>2, <1>5, FS_Subset, ZenonT(20)
  <1>9. /\ Cardinality(left) \in Nat /\ Cardinality(gone) \in Nat
        /\ Cardinality(left) = Cardinality(chosen) - Cardinality(gone)
    <2>1. gone = chosen \cap gone /\ left = chosen \ gone
      BY <1>5
    <2> QED
      BY <1>2, <1>8, <2>1, FS_Difference, FS_CardinalityType, ZenonT(20)
  <1>10. 0 \in left /\ Cardinality(left \ {0}) = Cardinality(left) - 1
    <2>1. 0 \in left
      BY <1>1, <1>4, <1>5
    <2> QED
      BY <1>8, <2>1, FS_RemoveElement
  <1>11. CASE k <= 0
    BY <1>2, <1>3, <1>6, <1>9, <1>10, <1>11
  <1>12. CASE k > 0
    <2>1. k \in Nat
      BY <1>6, <1>12
    <2> HIDE DEF chosen, P, gone, k, left, keep
    <2>2. gone = P \/ k <= Cardinality(gone)
      BY <1>4, <1>5, <2>1, FirstElements
    <2>3. CASE k <= Cardinality(gone)
      BY <1>2, <1>3, <1>6, <1>9, <1>10, <2>3 DEF keep
    <2>4. CASE gone = P
      <3>1. left \ {0} \subseteq PinnedVersions \cup {next_version}
        BY <2>4 DEF left, P, Prunable
      <3> QED
        BY <1>3, <1>7, <3>1
    <2> QED
      BY <2>2, <2>3, <2>4
  <1> QED
    BY <1>6, <1>11, <1>12

-----------------------------------------------------------------------------
LEMMA InitInvariant == Init => IInv
  BY DEF Init, IInv, ChainEnds, LatestVersion

\* What a step may do to the chain.
ChainStep ==
    /\ \A v \in DOMAIN versions \cap DOMAIN versions' : versions'[v] = versions[v]
    /\ PinnedVersions \cap DOMAIN versions \subseteq DOMAIN versions'
    /\ next_version' # next_version =>
          \/ Cardinality(DOMAIN versions' \ {0}) <= Greater(Retention, 1)
          \/ DOMAIN versions' \ {0} \subseteq PinnedVersions' \cup {LatestVersion'}

\* A step that leaves the chain alone.
LEMMA SameChain ==
    ASSUME IInv, UNCHANGED <<versions, next_version>>
    PROVE  IInv' /\ ChainStep /\ Latest' = Latest
  BY DEF IInv, ChainEnds, LatestVersion, Latest, ChainStep

\* A step that adds a version and leaves the pins alone.
LEMMA GrownChain ==
    ASSUME IInv, NEW graph, NewVersion(graph), UNCHANGED pins
    PROVE  IInv' /\ ChainStep /\ Latest' = graph
  <1>1. PinnedVersions' = PinnedVersions
    BY DEF PinnedVersions
  <1> QED
    BY <1>1, NewVersionChain, NewVersionBound DEF ChainStep

\* The invariant and the action properties, one step per action.
LEMMA StepChain == IInv /\ [Next]_vars => IInv' /\ ChainStep
  <1> SUFFICES ASSUME IInv, [Next]_vars PROVE IInv' /\ ChainStep
    OBVIOUS
  <1>1. CASE \E t \in Txns, ops \in Batches : ApplyWriteBatch(t, ops)
    BY <1>1, SameChain DEF ApplyWriteBatch, chain
  <1>2. CASE \E t \in Txns : CommitTransaction(t)
    BY <1>2, GrownChain DEF CommitTransaction, snapshots
  <1>3. CASE \E t \in Txns : AbortTransaction(t)
    BY <1>3, SameChain DEF AbortTransaction, chain
  <1>4. CASE \E s \in Subjects : DeleteByKey(s)
    BY <1>4, GrownChain DEF DeleteByKey, snapshots
  <1>5. CASE \E r \in Readers : CaptureVersion(r) \/ PinVersion(r) \/ ReleaseSnapshot(r)
    BY <1>5, SameChain DEF CaptureVersion, PinVersion, ReleaseSnapshot, chain
  <1>6. CASE \E retention \in Retentions : PruneVersions(retention)
    <2>1. UNCHANGED next_version
      BY <1>6 DEF PruneVersions
    <2> QED
      BY <1>6, <2>1, PruneChain DEF ChainStep
  <1>7. CASE \E c \in Checkpointers, min_tail \in Tails : CheckpointScan(c, min_tail)
    BY <1>7, SameChain DEF CheckpointScan, chain
  <1>8. CASE \E c \in Checkpointers : CheckpointTruncate(c)
    BY <1>8, SameChain DEF CheckpointTruncate, chain
  <1>9. CASE UNCHANGED vars
    BY <1>9, SameChain DEF vars
  <1> QED
    BY <1>1, <1>2, <1>3, <1>4, <1>5, <1>6, <1>7, <1>8, <1>9 DEF Next

THEOREM InductiveInvariant == Spec => []IInv
  BY InitInvariant, StepChain, PTL DEF Spec

\* The chain always holds genesis and the newest version, for every retention
\* and whatever prunings, key deletes and failed log appends happen.
THEOREM ChainEndsHolds == Spec => []ChainEnds
  BY InductiveInvariant, PTL DEF IInv

\* No step changes what a retained version holds.
THEOREM VersionsImmutableHolds == Spec => VersionsImmutable
  <1>1. IInv /\ [Next]_vars =>
           [\A v \in DOMAIN versions \cap DOMAIN versions' : versions'[v] = versions[v]]_vars
    BY StepChain DEF ChainStep
  <1> QED
    BY <1>1, InductiveInvariant, PTL DEF Spec, VersionsImmutable

\* No step removes a pinned version that is in the chain.
THEOREM PinnedKeptHolds == Spec => PinnedKept
  <1>1. IInv /\ [Next]_vars =>
           [PinnedVersions \cap DOMAIN versions \subseteq DOMAIN versions']_vars
    BY StepChain DEF ChainStep
  <1> QED
    BY <1>1, InductiveInvariant, PTL DEF Spec, PinnedKept

\* Every new version leaves the chain within the retention, or only with
\* versions that pins and the newest one force it to keep.
THEOREM RetentionBoundedHolds == Spec => RetentionBounded
  <1>1. IInv /\ [Next]_vars =>
           [next_version' # next_version =>
              \/ Cardinality(DOMAIN versions' \ {0}) <= Greater(Retention, 1)
              \/ DOMAIN versions' \ {0} \subseteq PinnedVersions' \cup {LatestVersion'}]_vars
    BY StepChain DEF ChainStep
  <1> QED
    BY <1>1, InductiveInvariant, PTL DEF Spec, RetentionBounded

-----------------------------------------------------------------------------
(* The refinement: every step of the engine is a step of the store, or     *)
(* leaves the newest graph and the staged operations as they are.          *)

LEMMA InitRefines == Init => Store!StoreInit
  BY DEF Init, Store!StoreInit, Latest, LatestVersion

LEMMA StageRefines ==
    ASSUME IInv, NEW t \in Txns, NEW ops \in Batches, ApplyWriteBatch(t, ops)
    PROVE  Store!StageOps(t, ops)
  <1>1. Latest' = Latest
    BY SameChain DEF ApplyWriteBatch, chain
  <1>2. pending' = With(pending, t, StagedOf(t) \o ops)
    BY DEF ApplyWriteBatch, Extended
  <1> QED
    BY <1>1, <1>2 DEF Store!StageOps, Store!StagedOf, StagedOf, With

\* Dropping the staged operations of a transaction.
LEMMA DropRefines ==
    ASSUME NEW t, RemovePending(t)
    PROVE  Store!DropStaged(t)
  BY WithoutIs DEF RemovePending, Store!DropStaged

LEMMA CommitRefines ==
    ASSUME IInv, NEW t \in Txns, CommitTransaction(t)
    PROVE  Store!CommitStaged(t)
  <1>1. Latest' = ApplyAll(Latest, pending[t])
    BY GrownChain DEF CommitTransaction, snapshots
  <1> QED
    BY <1>1, DropRefines DEF CommitTransaction, Store!CommitStaged

LEMMA AbortRefines ==
    ASSUME IInv, NEW t \in Txns, AbortTransaction(t)
    PROVE  Store!AbortStaged(t)
  <1>1. Latest' = Latest
    BY SameChain DEF AbortTransaction, chain
  <1> QED
    BY <1>1, DropRefines DEF AbortTransaction, Store!AbortStaged

LEMMA DeleteRefines ==
    ASSUME IInv, NEW s \in Subjects, DeleteByKey(s)
    PROVE  Store!DeleteKeyNow(s)
  <1>1. Latest' = RemoveSubject(Latest, s)
    BY GrownChain DEF DeleteByKey, snapshots
  <1> QED
    BY <1>1 DEF DeleteByKey, Store!DeleteKeyNow

\* Snapshots, pruning and checkpoints are not visible to the store.
LEMMA OthersStutter ==
    ASSUME IInv, UNCHANGED pending,
           UNCHANGED <<versions, next_version>> \/ \E n \in Retentions : PruneVersions(n)
    PROVE  UNCHANGED <<Latest, pending>>
  BY SameChain, PruneChain

LEMMA StepRefines == IInv /\ [Next]_vars => [Store!StoreNext]_(Store!storeVars)
  <1> SUFFICES ASSUME IInv, [Next]_vars
               PROVE  Store!StoreNext \/ UNCHANGED <<Latest, pending>>
    BY DEF Store!storeVars
  <1>1. CASE \E t \in Txns, ops \in Batches : ApplyWriteBatch(t, ops)
    BY <1>1, StageRefines DEF Store!StoreNext
  <1>2. CASE \E t \in Txns : CommitTransaction(t) \/ AbortTransaction(t)
    BY <1>2, CommitRefines, AbortRefines DEF Store!StoreNext
  <1>3. CASE \E s \in Subjects : DeleteByKey(s)
    BY <1>3, DeleteRefines DEF Store!StoreNext
  <1>4. CASE \E r \in Readers : CaptureVersion(r) \/ PinVersion(r) \/ ReleaseSnapshot(r)
    BY <1>4, OthersStutter DEF CaptureVersion, PinVersion, ReleaseSnapshot, chain
  <1>5. CASE \E retention \in Retentions : PruneVersions(retention)
    BY <1>5, OthersStutter DEF PruneVersions
  <1>6. CASE \/ \E c \in Checkpointers, min_tail \in Tails : CheckpointScan(c, min_tail)
             \/ \E c \in Checkpointers : CheckpointTruncate(c)
    BY <1>6, OthersStutter DEF CheckpointScan, CheckpointTruncate, chain
  <1>7. CASE UNCHANGED vars
    BY <1>7, OthersStutter DEF vars
  <1> QED
    BY <1>1, <1>2, <1>3, <1>4, <1>5, <1>6, <1>7 DEF Next

\* The engine implements the transactional store for every set of
\* transactions, batches, readers and retentions, with a log that may fail.
THEOREM EngineImplementsStore == Spec => ImplementsStore
  BY InitRefines, StepRefines, InductiveInvariant, PTL
     DEF Spec, ImplementsStore, Store!StoreSpec

-----------------------------------------------------------------------------
(* Types, and the index.  The type invariant is inductive with the bound   *)
(* of the log; a read through the index is a read of the newest graph.     *)

IndexInv == spo_index = IndexOf(Latest)

TypeInv == TypeOK /\ Len(wal) <= MaxWal /\ IndexInv

\* The prefix a checkpoint may cut is within the log.
LEMMA SafePrefixWithin ==
    ASSUME NEW records, Len(records) \in Nat
    PROVE  SafePrefix(records) \in 0..Len(records) /\ OpenAfter(records, SafePrefix(records)) = {}
  <1> DEFINE safe == {i \in 0..Len(records) : OpenAfter(records, i) = {}}
  <1>1. OpenAfter(records, 0) = {}
    BY DEF OpenAfter
  <1>2. safe \in SUBSET (0..Len(records)) /\ safe # {}
    BY <1>1
  <1>3. SafePrefix(records) = CHOOSE i \in safe : \A j \in safe : j <= i
    BY DEF SafePrefix
  <1> HIDE DEF safe
  <1>4. \E i \in safe : \A j \in safe : j <= i
    <2>1. safe \in SUBSET (-1..Len(records))
      BY <1>2
    <2> QED
      BY <1>2, <2>1, GreatestElement
  <1>5. (CHOOSE i \in safe : \A j \in safe : j <= i) \in safe
    BY <1>4
  <1> QED
    BY <1>3, <1>5 DEF safe

\* The types of what an append to the log may leave.
LEMMA AppendTyped ==
    ASSUME TypeInv, NEW t \in Txns, NEW phase \in {"Staged", "Committed", "Aborted"},
           NEW ops \in Seq(WriteOperation), AppendWal(t, phase, ops)
    PROVE  wal' \in Seq(WalRecord) /\ Len(wal') <= MaxWal
  <1>1. [txn |-> t, phase |-> phase, ops |-> ops] \in WalRecord
    BY DEF WalRecord
  <1>2. wal \in Seq(WalRecord) /\ Len(wal) <= MaxWal /\ MaxWal \in Nat /\ Len(wal) \in Nat
    BY EngineBounds DEF TypeInv, TypeOK
  <1>3. CASE Len(wal) < MaxWal /\ Logged(t, phase, ops)
    <2>1. wal' = Append(wal, [txn |-> t, phase |-> phase, ops |-> ops])
      BY <1>3 DEF Logged
    <2>2. wal' \in Seq(WalRecord) /\ Len(wal') = Len(wal) + 1
      BY <1>1, <1>2, <2>1
    <2> QED
      BY <1>2, <1>3, <2>2
  <1>4. CASE UNCHANGED wal
    BY <1>2, <1>4
  <1> QED
    BY <1>3, <1>4 DEF AppendWal

\* A new version of a graph is typed and indexed.
LEMMA NewVersionTyped ==
    ASSUME IInv, TypeInv, NEW graph \in Graph, NewVersion(graph)
    PROVE  /\ next_version' \in 1..(MaxVersion + 1) /\ versions' \in [DOMAIN versions' -> Graph]
           /\ DOMAIN versions' \subseteq 0..LatestVersion' /\ 0..LatestVersion \subseteq 0..LatestVersion'
           /\ spo_index' \in [Subjects -> SUBSET Triple] /\ IndexInv'
  <1>1. Latest' = graph /\ IInv' /\ next_version' = next_version + 1
    BY NewVersionChain
  <1>2. spo_index' = IndexOf(graph)
    BY DEF NewVersion
  <1>3. IndexOf(graph) \in [Subjects -> SUBSET Triple]
    BY DEF IndexOf, Graph
  <1>4. IndexInv'
    BY <1>1, <1>2 DEF IndexInv, IndexOf
  <1>5. next_version \in 1..(MaxVersion + 1) /\ next_version <= MaxVersion /\ MaxVersion \in Nat
    BY EngineBounds DEF TypeInv, TypeOK, NewVersion
  <1>6. versions' \in [DOMAIN versions' -> Graph]
    <2>1. \A v \in DOMAIN versions : versions[v] \in Graph
      BY DEF TypeInv, TypeOK
    <2> QED
      BY <2>1, WithoutIs DEF NewVersion, With
  <1>7. 0..LatestVersion \subseteq 0..LatestVersion'
    BY <1>1, <1>5 DEF LatestVersion
  <1> QED
    BY <1>1, <1>2, <1>3, <1>4, <1>5, <1>6, <1>7 DEF IInv

\* Adding and removing keys of a typed function.
LEMMA FunctionsTyped ==
    ASSUME NEW f, NEW D, NEW R, DOMAIN f \subseteq D, f \in [DOMAIN f -> R]
    PROVE  /\ \A k \in D, v \in R : DOMAIN With(f, k, v) \subseteq D /\ With(f, k, v) \in [DOMAIN With(f, k, v) -> R]
           /\ \A S : DOMAIN Without(f, S) \subseteq D /\ Without(f, S) \in [DOMAIN Without(f, S) -> R]
  BY WithoutIs DEF With

LEMMA TypeInit == Init => TypeInv
  <1> SUFFICES ASSUME Init PROVE TypeInv
    OBVIOUS
  <1>1. EmptyGraph \in Graph
    BY DEF EmptyGraph, Graph
  <1>2. TypeOK /\ Len(wal) <= MaxWal
    BY <1>1, EngineBounds DEF Init, TypeOK, LatestVersion
  <1>3. IndexInv
    BY DEF Init, IndexInv, IndexOf, Latest, LatestVersion, EmptyGraph
  <1> QED
    BY <1>2, <1>3 DEF TypeInv

LEMMA TypeStep == IInv /\ TypeInv /\ [Next]_vars => TypeInv'
  <1> SUFFICES ASSUME IInv, TypeInv, [Next]_vars PROVE TypeInv'
    OBVIOUS
  <1>0. /\ next_version \in 1..(MaxVersion + 1) /\ next_version \in Nat
        /\ versions \in [DOMAIN versions -> Graph] /\ DOMAIN versions \subseteq 0..LatestVersion
        /\ Latest \in Graph /\ LatestVersion \in 0..LatestVersion
        /\ spo_index \in [Subjects -> SUBSET Triple] /\ IndexInv
        /\ DOMAIN pending \subseteq Txns /\ pending \in [DOMAIN pending -> Seq(WriteOperation)]
        /\ wal \in Seq(WalRecord) /\ Len(wal) \in Nat /\ Len(wal) <= MaxWal
        /\ DOMAIN captured \subseteq Readers /\ captured \in [DOMAIN captured -> 0..LatestVersion]
        /\ DOMAIN pins \subseteq Readers /\ pins \in [DOMAIN pins -> 0..LatestVersion]
        /\ truncating \in [Checkpointers -> 0..MaxWal]
    BY DEF TypeInv, TypeOK, IInv, ChainEnds, Latest, LatestVersion
  <1>a. ASSUME UNCHANGED chain PROVE LatestVersion' = LatestVersion /\ Latest' = Latest /\ IndexInv'
    BY <1>0, <1>a DEF chain, LatestVersion, Latest, IndexInv, IndexOf
  <1>b. ASSUME NEW t \in Txns PROVE StagedOf(t) \in Seq(WriteOperation)
    BY <1>0 DEF StagedOf
  <1>c. ASSUME NEW t, RemovePending(t) PROVE DOMAIN pending' \subseteq Txns /\ pending' \in [DOMAIN pending' -> Seq(WriteOperation)]
    BY <1>0, <1>c, FunctionsTyped DEF RemovePending
  <1>1. ASSUME NEW t \in Txns, NEW ops \in Batches, ApplyWriteBatch(t, ops) PROVE TypeInv'
    <2>1. ops \in Seq(WriteOperation) /\ Extended(t, ops) \in Seq(WriteOperation)
      BY <1>b, BatchesAssumption DEF Extended
    <2>2. DOMAIN pending' \subseteq Txns /\ pending' \in [DOMAIN pending' -> Seq(WriteOperation)]
      BY <1>0, <1>1, <2>1, FunctionsTyped DEF ApplyWriteBatch
    <2>3. wal' \in Seq(WalRecord) /\ Len(wal') <= MaxWal
      BY <1>1, <2>1, AppendTyped DEF ApplyWriteBatch
    <2> QED
      BY <1>0, <1>a, <1>1, <2>2, <2>3 DEF ApplyWriteBatch, TypeInv, TypeOK, chain, snapshots
  <1>2. ASSUME NEW t \in Txns, CommitTransaction(t) PROVE TypeInv'
    <2>1. pending[t] \in Seq(WriteOperation)
      BY <1>0, <1>2 DEF CommitTransaction
    <2>2. ApplyAll(Latest, pending[t]) \in Graph
      BY <1>0, <2>1, ApplyAllTyped
    <2>3. /\ next_version' \in 1..(MaxVersion + 1) /\ versions' \in [DOMAIN versions' -> Graph]
          /\ DOMAIN versions' \subseteq 0..LatestVersion' /\ 0..LatestVersion \subseteq 0..LatestVersion'
          /\ spo_index' \in [Subjects -> SUBSET Triple] /\ IndexInv'
      BY <1>2, <2>2, NewVersionTyped DEF CommitTransaction
    <2>4. <<>> \in Seq(WriteOperation)
      OBVIOUS
    <2>5. wal' \in Seq(WalRecord) /\ Len(wal') <= MaxWal
      BY <1>2, <2>4, AppendTyped DEF CommitTransaction
    <2> QED
      BY <1>0, <1>c, <1>2, <2>3, <2>5 DEF CommitTransaction, TypeInv, TypeOK, snapshots
  <1>3. ASSUME NEW t \in Txns, AbortTransaction(t) PROVE TypeInv'
    <2>1. <<>> \in Seq(WriteOperation)
      OBVIOUS
    <2>2. wal' \in Seq(WalRecord) /\ Len(wal') <= MaxWal
      BY <1>3, <2>1, AppendTyped DEF AbortTransaction
    <2> QED
      BY <1>0, <1>a, <1>c, <1>3, <2>2 DEF AbortTransaction, TypeInv, TypeOK, chain, snapshots
  <1>4. ASSUME NEW s \in Subjects, DeleteByKey(s) PROVE TypeInv'
    <2>1. RemoveSubject(Latest, s) \in Graph
      BY <1>0 DEF RemoveSubject, Graph
    <2>2. /\ next_version' \in 1..(MaxVersion + 1) /\ versions' \in [DOMAIN versions' -> Graph]
          /\ DOMAIN versions' \subseteq 0..LatestVersion' /\ 0..LatestVersion \subseteq 0..LatestVersion'
          /\ spo_index' \in [Subjects -> SUBSET Triple] /\ IndexInv'
      BY <1>4, <2>1, NewVersionTyped DEF DeleteByKey
    <2> QED
      BY <1>0, <1>4, <2>2 DEF DeleteByKey, TypeInv, TypeOK, snapshots
  <1>5. ASSUME NEW r \in Readers, CaptureVersion(r) PROVE TypeInv'
    <2>1. DOMAIN captured' \subseteq Readers /\ captured' \in [DOMAIN captured' -> 0..LatestVersion]
      BY <1>0, <1>5, FunctionsTyped DEF CaptureVersion
    <2> QED
      BY <1>0, <1>a, <1>5, <2>1 DEF CaptureVersion, TypeInv, TypeOK, chain
  <1>6. ASSUME NEW r \in Readers, PinVersion(r) PROVE TypeInv'
    <2>1. DOMAIN captured' \subseteq Readers /\ captured' \in [DOMAIN captured' -> 0..LatestVersion]
      BY <1>0, <1>6, FunctionsTyped DEF PinVersion
    <2>2. DOMAIN pins' \subseteq Readers /\ pins' \in [DOMAIN pins' -> 0..LatestVersion]
      <3>1. captured[r] \in 0..LatestVersion
        BY <1>0, <1>6 DEF PinVersion
      <3> QED
        BY <1>0, <1>6, <3>1 DEF PinVersion, With
    <2> QED
      BY <1>0, <1>a, <1>6, <2>1, <2>2 DEF PinVersion, TypeInv, TypeOK, chain
  <1>7. ASSUME NEW r \in Readers, ReleaseSnapshot(r) PROVE TypeInv'
    <2>1. DOMAIN pins' \subseteq Readers /\ pins' \in [DOMAIN pins' -> 0..LatestVersion]
      BY <1>0, <1>7, FunctionsTyped DEF ReleaseSnapshot
    <2> QED
      BY <1>0, <1>a, <1>7, <2>1 DEF ReleaseSnapshot, TypeInv, TypeOK, chain
  <1>8. ASSUME NEW n \in Retentions, PruneVersions(n) PROVE TypeInv'
    <2>1. Latest' = Latest /\ IInv' /\ LatestVersion' = LatestVersion /\ IndexInv'
      BY <1>0, <1>8, PruneChain DEF PruneVersions, LatestVersion, IndexInv, IndexOf
    <2>2. versions' \in [DOMAIN versions' -> Graph]
      BY <1>0, <1>8, FunctionsTyped DEF PruneVersions
    <2> QED
      BY <1>0, <1>8, <2>1, <2>2 DEF PruneVersions, TypeInv, TypeOK, IInv, snapshots
  <1>9. ASSUME NEW c \in Checkpointers, NEW min_tail \in Tails, CheckpointScan(c, min_tail) PROVE TypeInv'
    <2>1. SafePrefix(wal) \in 0..Len(wal)
      BY <1>0, SafePrefixWithin
    <2>2. SafePrefix(wal) - min_tail \in 0..MaxWal
      BY <1>0, <1>9, <2>1, RetentionAssumption, EngineBounds DEF CheckpointScan
    <2> QED
      BY <1>0, <1>a, <1>9, <2>2 DEF CheckpointScan, TypeInv, TypeOK, chain, snapshots
  <1>10. ASSUME NEW c \in Checkpointers, CheckpointTruncate(c) PROVE TypeInv'
    <2>1. truncating[c] \in Nat
      BY <1>0
    <2>2. wal' \in Seq(WalRecord) /\ Len(wal') <= MaxWal
      <3>1. wal' = SubSeq(wal, truncating[c] + 1, Len(wal))
        BY <1>10 DEF CheckpointTruncate
      <3>2. \A i \in (truncating[c] + 1)..Len(wal) : wal[i] \in WalRecord
        BY <1>0, <2>1
      <3>3. /\ wal' \in Seq(WalRecord)
            /\ Len(wal') = IF truncating[c] + 1 <= Len(wal) THEN Len(wal) - truncating[c] ELSE 0
        BY <1>0, <2>1, <3>1, <3>2, SubSeqProperties
      <3> QED
        BY <1>0, <2>1, <3>3, EngineBounds
    <2> QED
      BY <1>0, <1>a, <1>10, <2>2, EngineBounds DEF CheckpointTruncate, TypeInv, TypeOK, chain, snapshots
  <1>11. CASE UNCHANGED vars
    BY <1>0, <1>a, <1>11 DEF vars, chain, snapshots, TypeInv, TypeOK
  <1> QED
    BY <1>1, <1>2, <1>3, <1>4, <1>5, <1>6, <1>7, <1>8, <1>9, <1>10, <1>11 DEF Next

THEOREM TypeInvariant == Spec => []TypeInv
  BY TypeInit, TypeStep, InductiveInvariant, PTL DEF Spec

\* Every variable keeps its type: pins and captured versions never exceed the newest version, what is
\* staged are operations, a checkpoint never plans to cut more than the log holds.
THEOREM TypeOKHolds == Spec => []TypeOK
  BY TypeInvariant, PTL DEF TypeInv

\* For any batches: what a transaction reads of a subject through the index, of a named graph or of all
\* of them is what the newest graph would hold if it committed now, whatever others committed meanwhile.
THEOREM ReadYourWritesHolds == Spec => []ReadYourWrites
  <1>1. IInv /\ TypeInv => ReadYourWrites
    <2> SUFFICES ASSUME IInv, TypeInv, NEW t \in DOMAIN pending
                 PROVE  LET after == ApplyAll(Latest, pending[t]) IN
                        /\ \A s \in Subjects : TriplesInTxn(spo_index[s], pending[t], {s}) = IndexOf(after)[s]
                        /\ \A g \in GraphNames :
                              QuadsOfGraph(Latest, pending[t], g) = {q \in after.quads : q.g = g}
                        /\ (\A i \in DOMAIN pending[t] : pending[t][i].op \notin {"PutTriple", "DeleteTriple"})
                              => AllQuads(Latest, pending[t]) = after.quads
      BY DEF ReadYourWrites
    <2>1. Latest \in Graph /\ pending[t] \in Seq(WriteOperation)
      BY DEF TypeInv, TypeOK, IInv, ChainEnds, Latest
    <2>2. \A s \in Subjects : spo_index[s] = {x \in Latest.triples : x.s = s}
      BY DEF TypeInv, IndexInv, IndexOf
    <2>3. DOMAIN pending[t] = 1..Len(pending[t])
      BY <2>1
    <2> QED
      BY <2>1, <2>2, <2>3, TriplesRead, QuadsRead, AllQuadsRead DEF IndexOf
  <1> QED
    BY <1>1, InductiveInvariant, TypeInvariant, PTL

-----------------------------------------------------------------------------
(* Recovery.  A replay is a fold over the records; its states are typed,   *)
(* and what it makes of the staged operations depends on the transactions  *)
(* and phases of the records only.                                         *)

ReplayState ==
    {st \in [versions : UNION {[0..n -> Graph] : n \in Nat}, next_version : Nat,
             pending : UNION {[S -> Seq(WriteOperation)] : S \in SUBSET Txns}, ok : BOOLEAN] :
        st.next_version # 0 /\ DOMAIN st.versions = 0..(st.next_version - 1)}

LEMMA ReplayStateIs ==
    ASSUME NEW st
    PROVE  st \in ReplayState <=>
              /\ st = [versions |-> st.versions, next_version |-> st.next_version,
                       pending |-> st.pending, ok |-> st.ok]
              /\ st.next_version \in Nat \ {0} /\ st.ok \in BOOLEAN
              /\ st.versions = [v \in 0..(st.next_version - 1) |-> st.versions[v]]
              /\ \A v \in 0..(st.next_version - 1) : st.versions[v] \in Graph
              /\ DOMAIN st.pending \subseteq Txns
              /\ st.pending = [t \in DOMAIN st.pending |-> st.pending[t]]
              /\ \A t \in DOMAIN st.pending : st.pending[t] \in Seq(WriteOperation)
  <1>1. ASSUME st \in ReplayState
        PROVE  /\ st = [versions |-> st.versions, next_version |-> st.next_version,
                        pending |-> st.pending, ok |-> st.ok]
               /\ st.next_version \in Nat \ {0} /\ st.ok \in BOOLEAN
               /\ st.versions = [v \in 0..(st.next_version - 1) |-> st.versions[v]]
               /\ \A v \in 0..(st.next_version - 1) : st.versions[v] \in Graph
               /\ DOMAIN st.pending \subseteq Txns
               /\ st.pending = [t \in DOMAIN st.pending |-> st.pending[t]]
               /\ \A t \in DOMAIN st.pending : st.pending[t] \in Seq(WriteOperation)
    <2>1. /\ st = [versions |-> st.versions, next_version |-> st.next_version,
                   pending |-> st.pending, ok |-> st.ok]
          /\ st.next_version \in Nat /\ st.next_version # 0 /\ st.ok \in BOOLEAN
          /\ DOMAIN st.versions = 0..(st.next_version - 1)
      BY <1>1 DEF ReplayState
    <2>2. PICK n \in Nat : st.versions \in [0..n -> Graph]
      BY <1>1 DEF ReplayState
    <2>3. PICK S \in SUBSET Txns : st.pending \in [S -> Seq(WriteOperation)]
      BY <1>1 DEF ReplayState
    <2> QED
      BY <2>1, <2>2, <2>3
  <1>2. ASSUME st = [versions |-> st.versions, next_version |-> st.next_version,
                     pending |-> st.pending, ok |-> st.ok],
               st.next_version \in Nat \ {0}, st.ok \in BOOLEAN,
               st.versions = [v \in 0..(st.next_version - 1) |-> st.versions[v]],
               \A v \in 0..(st.next_version - 1) : st.versions[v] \in Graph,
               DOMAIN st.pending \subseteq Txns,
               st.pending = [t \in DOMAIN st.pending |-> st.pending[t]],
               \A t \in DOMAIN st.pending : st.pending[t] \in Seq(WriteOperation)
        PROVE  st \in ReplayState
    <2>1. st.next_version - 1 \in Nat
      BY <1>2
    <2>2. st.versions \in [0..(st.next_version - 1) -> Graph]
      BY <1>2
    <2>3. st.versions \in UNION {[0..n -> Graph] : n \in Nat}
      BY <2>1, <2>2
    <2>4. st.pending \in [DOMAIN st.pending -> Seq(WriteOperation)]
      BY <1>2
    <2>5. st.pending \in UNION {[S -> Seq(WriteOperation)] : S \in SUBSET Txns}
      BY <1>2, <2>4
    <2>6. DOMAIN st.versions = 0..(st.next_version - 1)
      BY <2>2
    <2>7. st \in [versions : UNION {[0..n -> Graph] : n \in Nat}, next_version : Nat,
                  pending : UNION {[S -> Seq(WriteOperation)] : S \in SUBSET Txns}, ok : BOOLEAN]
      BY <1>2, <2>3, <2>5
    <2> QED
      BY <1>2, <2>6, <2>7 DEF ReplayState
  <1> QED
    BY <1>1, <1>2

LEMMA ReplayStartTyped == ReplayStart \in ReplayState
  <1>1. EmptyGraph \in Graph
    BY DEF EmptyGraph, Graph
  <1>2. /\ ReplayStart = [versions |-> ReplayStart.versions, next_version |-> ReplayStart.next_version,
                          pending |-> ReplayStart.pending, ok |-> ReplayStart.ok]
        /\ ReplayStart.next_version = 1 /\ ReplayStart.ok = TRUE
        /\ ReplayStart.versions = [v \in {0} |-> EmptyGraph]
        /\ ReplayStart.pending = [t \in {} |-> <<>>]
    BY DEF ReplayStart
  <1>3. 0..(ReplayStart.next_version - 1) = {0}
    BY <1>2
  <1>4. /\ ReplayStart.versions = [v \in 0..(ReplayStart.next_version - 1) |-> ReplayStart.versions[v]]
        /\ \A v \in 0..(ReplayStart.next_version - 1) : ReplayStart.versions[v] \in Graph
    BY <1>1, <1>2, <1>3
  <1>5. /\ DOMAIN ReplayStart.pending = {}
        /\ ReplayStart.pending = [t \in DOMAIN ReplayStart.pending |-> ReplayStart.pending[t]]
    BY <1>2
  <1>6. ReplayStart.next_version \in Nat \ {0} /\ ReplayStart.ok \in BOOLEAN
    BY <1>2
  <1> QED
    BY <1>2, <1>4, <1>5, <1>6, ReplayStateIs

\* What a record does to a replay that has not failed.
LEMMA RecordEffect ==
    ASSUME NEW st \in ReplayState, NEW rec \in WalRecord, NEW tolerant \in BOOLEAN, st.ok
    PROVE  LET x == ReplayRecord(st, rec, tolerant)
               open == rec.txn \in DOMAIN st.pending
           IN  /\ rec.phase = "Staged" =>
                     /\ x.ok = TRUE /\ x.next_version = st.next_version /\ x.versions = st.versions
                     /\ x.pending = With(st.pending, rec.txn, (IF open THEN st.pending[rec.txn] ELSE <<>>) \o rec.ops)
               /\ rec.phase = "Committed" /\ open =>
                     /\ x.ok = TRUE /\ x.next_version = st.next_version + 1 /\ x.pending = Without(st.pending, {rec.txn})
                     /\ x.versions = With(st.versions, st.next_version,
                                          ApplyAll(st.versions[st.next_version - 1], st.pending[rec.txn]))
               /\ rec.phase = "Aborted" /\ open =>
                     /\ x.ok = TRUE /\ x.next_version = st.next_version /\ x.versions = st.versions
                     /\ x.pending = Without(st.pending, {rec.txn})
               /\ rec.phase # "Staged" /\ ~open => x = [st EXCEPT !.ok = tolerant]
  <1>1. st = [versions |-> st.versions, next_version |-> st.next_version, pending |-> st.pending, ok |-> st.ok]
    BY ReplayStateIs
  <1>2. rec.phase \in {"Staged", "Committed", "Aborted"}
    BY DEF WalRecord
  <1>3. CASE rec.phase = "Staged"
    BY <1>1, <1>3 DEF ReplayRecord, ReplayStaged
  <1>4. CASE rec.phase = "Committed"
    BY <1>1, <1>4 DEF ReplayRecord, ReplayCommitted
  <1>5. CASE rec.phase = "Aborted"
    BY <1>1, <1>5 DEF ReplayRecord, ReplayAborted
  <1> QED
    BY <1>2, <1>3, <1>4, <1>5

LEMMA RecordTyped ==
    ASSUME NEW st \in ReplayState, NEW rec \in WalRecord, NEW tolerant \in BOOLEAN
    PROVE  ReplayRecord(st, rec, tolerant) \in ReplayState
  <1> DEFINE x == ReplayRecord(st, rec, tolerant)
  <1>0. /\ st = [versions |-> st.versions, next_version |-> st.next_version,
                 pending |-> st.pending, ok |-> st.ok]
        /\ st.next_version \in Nat \ {0} /\ st.ok \in BOOLEAN
        /\ st.versions = [v \in 0..(st.next_version - 1) |-> st.versions[v]]
        /\ \A v \in 0..(st.next_version - 1) : st.versions[v] \in Graph
        /\ DOMAIN st.pending \subseteq Txns
        /\ st.pending = [t \in DOMAIN st.pending |-> st.pending[t]]
        /\ \A t \in DOMAIN st.pending : st.pending[t] \in Seq(WriteOperation)
    BY ReplayStateIs
  <1>1. rec.txn \in Txns /\ rec.ops \in Seq(WriteOperation) /\ rec.phase \in {"Staged", "Committed", "Aborted"}
    BY DEF WalRecord
  <1>2. x = [versions |-> x.versions, next_version |-> x.next_version, pending |-> x.pending, ok |-> x.ok]
    BY <1>0, <1>1 DEF ReplayRecord, ReplayStaged, ReplayCommitted, ReplayAborted
  <1>3. CASE ~st.ok
    BY <1>3 DEF ReplayRecord
  <1>4. CASE st.ok /\ rec.phase = "Staged"
    <2>1. /\ x.ok = TRUE /\ x.next_version = st.next_version /\ x.versions = st.versions
          /\ x.pending = With(st.pending, rec.txn, (IF rec.txn \in DOMAIN st.pending THEN st.pending[rec.txn] ELSE <<>>) \o rec.ops)
      BY <1>0, <1>4 DEF ReplayRecord, ReplayStaged
    <2>2. (IF rec.txn \in DOMAIN st.pending THEN st.pending[rec.txn] ELSE <<>>) \o rec.ops \in Seq(WriteOperation)
      BY <1>0, <1>1
    <2> HIDE DEF x
    <2>3. /\ DOMAIN x.pending \subseteq Txns /\ x.pending = [t \in DOMAIN x.pending |-> x.pending[t]]
          /\ \A t \in DOMAIN x.pending : x.pending[t] \in Seq(WriteOperation)
      BY <1>0, <1>1, <2>1, <2>2, ZenonT(20) DEF With
    <2>5. x \in ReplayState
      BY <1>0, <1>2, <2>1, <2>3, ReplayStateIs
    <2> QED
      BY <2>5 DEF x
  <1>5. CASE st.ok /\ rec.phase = "Committed" /\ rec.txn \in DOMAIN st.pending
    <2>1. /\ x.ok = TRUE /\ x.next_version = st.next_version + 1 /\ x.pending = Without(st.pending, {rec.txn})
          /\ x.versions = With(st.versions, st.next_version,
                               ApplyAll(st.versions[st.next_version - 1], st.pending[rec.txn]))
      BY <1>5, RecordEffect
    <2>2. ApplyAll(st.versions[st.next_version - 1], st.pending[rec.txn]) \in Graph
      BY <1>0, <1>5, ApplyAllTyped
    <2> HIDE DEF x
    <2>3. /\ DOMAIN x.pending \subseteq Txns /\ x.pending = [t \in DOMAIN x.pending |-> x.pending[t]]
          /\ \A t \in DOMAIN x.pending : x.pending[t] \in Seq(WriteOperation)
      BY <1>0, <2>1, WithoutIs
    <2>4. 0..(x.next_version - 1) = 0..(st.next_version - 1) \cup {st.next_version}
      BY <1>0, <2>1
    <2>5. /\ x.versions = [v \in 0..(x.next_version - 1) |-> x.versions[v]]
          /\ \A v \in 0..(x.next_version - 1) : x.versions[v] \in Graph
      BY <1>0, <2>1, <2>2, <2>4 DEF With
    <2>7. x \in ReplayState
      BY <1>0, <1>2, <2>1, <2>3, <2>5, ReplayStateIs
    <2> QED
      BY <2>7 DEF x
  <1>6. CASE st.ok /\ rec.phase = "Aborted" /\ rec.txn \in DOMAIN st.pending
    <2>1. /\ x.ok = TRUE /\ x.next_version = st.next_version /\ x.versions = st.versions
          /\ x.pending = Without(st.pending, {rec.txn})
      BY <1>6, RecordEffect
    <2> HIDE DEF x
    <2>2. /\ DOMAIN x.pending \subseteq Txns /\ x.pending = [t \in DOMAIN x.pending |-> x.pending[t]]
          /\ \A t \in DOMAIN x.pending : x.pending[t] \in Seq(WriteOperation)
      BY <1>0, <2>1, WithoutIs
    <2>4. x \in ReplayState
      BY <1>0, <1>2, <2>1, <2>2, ReplayStateIs
    <2> QED
      BY <2>4 DEF x
  <1>7. CASE st.ok /\ rec.phase # "Staged" /\ rec.txn \notin DOMAIN st.pending
    <2>1. x = [st EXCEPT !.ok = tolerant]
      BY <1>1, <1>7 DEF ReplayRecord
    <2>2. /\ x.versions = st.versions /\ x.next_version = st.next_version
          /\ x.pending = st.pending /\ x.ok = tolerant
      BY <1>0, <2>1
    <2> HIDE DEF x
    <2>3. x \in ReplayState
      BY <1>0, <1>2, <2>2, ReplayStateIs
    <2> QED
      BY <2>3 DEF x
  <1> QED
    BY <1>1, <1>3, <1>4, <1>5, <1>6, <1>7

\* The states of a replay, one after each record.
ReplaySteps(records, tolerant) ==
    [i \in 1..Len(records) |-> [st \in ReplayState |-> ReplayRecord(st, records[i], tolerant)]]

States(f, records, tolerant) ==
    /\ f[0] = ReplayStart
    /\ \A i \in 0..Len(records) : f[i] \in ReplayState
    /\ \A i \in 1..Len(records) : records[i] \in WalRecord /\ f[i] = ReplayRecord(f[i - 1], records[i], tolerant)

LEMMA ReplayPrefixes ==
    ASSUME NEW records \in Seq(WalRecord), NEW tolerant \in BOOLEAN
    PROVE  \E f : States(f, records, tolerant) /\ Replay(records, tolerant) = f[Len(records)]
  <1> DEFINE n == Len(records)
             step == ReplaySteps(records, tolerant)
             Eq(f) == f = [i \in 0..n |-> IF i = 0 THEN ReplayStart ELSE ReplayRecord(f[i - 1], records[i], tolerant)]
             F == CHOOSE f : Eq(f)
  <1>1. n \in Nat /\ \A i \in 1..n : records[i] \in WalRecord
    OBVIOUS
  <1>2. \A i \in 1..n : \A st \in ReplayState : step[i][st] = ReplayRecord(st, records[i], tolerant)
    BY DEF ReplaySteps
  <1>3. Replay(records, tolerant) = F[n]
    BY DEF Replay
  <1> HIDE DEF n, step
  <1>4. Steps(step, n, ReplayState)
    BY <1>1, <1>2, RecordTyped DEF Steps
  <1>5. PICK f : Iterates(f, ReplayStart, step, n, ReplayState)
    BY <1>1, <1>4, ReplayStartTyped, PrefixRecursion
  <1> DEFINE h == [i \in 0..n |-> f[i]]
  <1>6. /\ \A i \in 0..n : f[i] \in ReplayState
        /\ \A i \in 1..n : i - 1 \in 0..n /\ f[i] = ReplayRecord(f[i - 1], records[i], tolerant)
        /\ f[0] = ReplayStart
    BY <1>1, <1>2, <1>5 DEF Iterates
  <1>7. Eq(h)
    BY <1>1, <1>6
  <1> HIDE DEF h
  <1>8. Eq(F)
    BY <1>7
  <1> HIDE DEF F
  <1>9. F[0] = ReplayStart /\ \A i \in 1..n : F[i - 1] \in ReplayState => F[i] = step[i][F[i - 1]]
    BY <1>1, <1>2, <1>8
  <1>10. Iterates(F, ReplayStart, step, n, ReplayState)
    BY <1>1, <1>4, <1>9, ReplayStartTyped, PrefixUnique
  <1>11. \A i \in 1..n : F[i] = ReplayRecord(F[i - 1], records[i], tolerant)
    BY <1>1, <1>2, <1>10 DEF Iterates
  <1>12. States(F, records, tolerant)
    BY <1>1, <1>10, <1>11 DEF n, States, Iterates
  <1> QED
    BY <1>3, <1>12 DEF n

LEMMA ReplayTyped ==
    ASSUME NEW records \in Seq(WalRecord), NEW tolerant \in BOOLEAN
    PROVE  Replay(records, tolerant) \in ReplayState
  <1>1. PICK f : States(f, records, tolerant) /\ Replay(records, tolerant) = f[Len(records)]
    BY ReplayPrefixes
  <1>2. Len(records) \in 0..Len(records)
    OBVIOUS
  <1> QED
    BY <1>1, <1>2 DEF States

\* A replay of a longer log replays the last record after the others.
LEMMA ReplayAppend ==
    ASSUME NEW records \in Seq(WalRecord), NEW rec \in WalRecord, NEW tolerant \in BOOLEAN
    PROVE  Replay(Append(records, rec), tolerant) = ReplayRecord(Replay(records, tolerant), rec, tolerant)
  <1> DEFINE longer == Append(records, rec)
             n == Len(records)
  <1>1. /\ longer \in Seq(WalRecord) /\ n \in Nat /\ Len(longer) = n + 1 /\ longer[n + 1] = rec
        /\ \A i \in 1..n : longer[i] = records[i]
    OBVIOUS
  <1>2. PICK f : States(f, records, tolerant) /\ Replay(records, tolerant) = f[n]
    BY ReplayPrefixes
  <1>3. PICK g : States(g, longer, tolerant) /\ Replay(longer, tolerant) = g[n + 1]
    BY <1>1, ReplayPrefixes
  <1> HIDE DEF longer
  <1>4. f[0] = ReplayStart /\ \A i \in 1..n : f[i] = ReplayRecord(f[i - 1], records[i], tolerant)
    BY <1>2 DEF States
  <1> HIDE DEF n
  <1>5. g[0] = ReplayStart /\ \A i \in 1..(n + 1) : g[i] = ReplayRecord(g[i - 1], longer[i], tolerant)
    BY <1>1, <1>3 DEF States
  <1>6. f[0] = g[0] /\ \A i \in 1..n : f[i - 1] = g[i - 1] => f[i] = g[i]
    BY <1>1, <1>4, <1>5
  <1>7. f[n] = g[n]
    BY <1>1, <1>6, PrefixAgree
  <1>8. g[n + 1] = ReplayRecord(g[n], rec, tolerant)
    <2>1. n + 1 \in 1..(n + 1) /\ (n + 1) - 1 = n
      BY <1>1
    <2> QED
      BY <1>1, <1>5, <2>1
  <1> QED
    BY <1>2, <1>3, <1>7, <1>8 DEF longer

-----------------------------------------------------------------------------
\* Which transactions are open after a record.
LEMMA OpenStep ==
    ASSUME NEW records \in Seq(WalRecord), NEW i \in 1..Len(records)
    PROVE  OpenAfter(records, i) =
              IF records[i].phase = "Staged" THEN OpenAfter(records, i - 1) \cup {records[i].txn}
              ELSE OpenAfter(records, i - 1) \ {records[i].txn}
  <1>1. \A j \in 1..i : records[j] \in WalRecord /\ records[j].txn \in Txns
    <2>1. \A j \in 1..i : j \in 1..Len(records)
      OBVIOUS
    <2>2. \A j \in 1..Len(records) : records[j] \in WalRecord
      OBVIOUS
    <2> QED
      BY <2>1, <2>2 DEF WalRecord
  <1>2. i \in Nat /\ \A j : j \in 1..i <=> j \in 1..(i - 1) \/ j = i
    OBVIOUS
  <1>3. ASSUME NEW t \in Txns, t # records[i].txn
        PROVE  t \in OpenAfter(records, i) <=> t \in OpenAfter(records, i - 1)
    <2>1. ASSUME t \in OpenAfter(records, i) PROVE t \in OpenAfter(records, i - 1)
      <3>1. PICK j \in 1..i : /\ records[j].txn = t /\ records[j].phase = "Staged"
                              /\ \A k \in (j + 1)..i : records[k].txn = t => records[k].phase = "Staged"
        BY <2>1 DEF OpenAfter
      <3>2. j \in 1..(i - 1) /\ (j + 1)..(i - 1) \subseteq (j + 1)..i
        BY <1>2, <1>3, <3>1
      <3> QED
        BY <3>1, <3>2 DEF OpenAfter
    <2>2. ASSUME t \in OpenAfter(records, i - 1) PROVE t \in OpenAfter(records, i)
      <3>1. PICK j \in 1..(i - 1) : /\ records[j].txn = t /\ records[j].phase = "Staged"
                                    /\ \A k \in (j + 1)..(i - 1) : records[k].txn = t => records[k].phase = "Staged"
        BY <2>2 DEF OpenAfter
      <3>2. j \in 1..i /\ \A k \in (j + 1)..i : records[k].txn = t => k \in (j + 1)..(i - 1)
        BY <1>3, <3>1
      <3> QED
        BY <3>1, <3>2 DEF OpenAfter
    <2> QED
      BY <2>1, <2>2
  <1>4. ASSUME records[i].phase = "Staged" PROVE records[i].txn \in OpenAfter(records, i)
    <2>1. i \in 1..i /\ (i + 1)..i = {}
      OBVIOUS
    <2> QED
      BY <1>1, <1>4, <2>1 DEF OpenAfter
  <1>5. ASSUME records[i].phase # "Staged" PROVE records[i].txn \notin OpenAfter(records, i)
    <2> SUFFICES ASSUME NEW j \in 1..i, records[j].txn = records[i].txn, records[j].phase = "Staged",
                        \A k \in (j + 1)..i : records[k].txn = records[i].txn => records[k].phase = "Staged"
                 PROVE  FALSE
      BY DEF OpenAfter
    <2>1. j # i
      BY <1>5
    <2>2. i \in (j + 1)..i
      BY <2>1
    <2> QED
      BY <1>5, <2>2
  <1>6. OpenAfter(records, i) \subseteq Txns /\ OpenAfter(records, i - 1) \subseteq Txns
    BY DEF OpenAfter
  <1> QED
    BY <1>1, <1>2, <1>3, <1>4, <1>5, <1>6

\* A record after the last of a log opens or closes its transaction and changes nothing before.
LEMMA OpenPrefix ==
    ASSUME NEW rs, NEW qs, NEW n \in Nat, \A i \in 1..n : rs[i] = qs[i]
    PROVE  \A i \in 0..n : OpenAfter(rs, i) = OpenAfter(qs, i)
  <1> TAKE i \in 0..n
  <1>1. \A j \in 1..i : j \in 1..n /\ \A k \in (j + 1)..i : k \in 1..n
    OBVIOUS
  <1> QED
    BY <1>1 DEF OpenAfter

\* A record whose transaction is open, or that opens it, never fails.
LEMMA RecordOpens ==
    ASSUME NEW st \in ReplayState, NEW rec \in WalRecord, NEW tolerant \in BOOLEAN, st.ok,
           rec.phase # "Staged" => rec.txn \in DOMAIN st.pending
    PROVE  /\ ReplayRecord(st, rec, tolerant).ok = TRUE
           /\ DOMAIN ReplayRecord(st, rec, tolerant).pending =
                 IF rec.phase = "Staged" THEN DOMAIN st.pending \cup {rec.txn} ELSE DOMAIN st.pending \ {rec.txn}
  <1> DEFINE x == ReplayRecord(st, rec, tolerant)
  <1>1. st = [versions |-> st.versions, next_version |-> st.next_version, pending |-> st.pending, ok |-> st.ok]
        /\ st.ok = TRUE
    BY ReplayStateIs
  <1>2. rec.phase \in {"Staged", "Committed", "Aborted"}
    BY DEF WalRecord
  <1>3. CASE rec.phase = "Staged"
    BY <1>1, <1>3 DEF ReplayRecord, ReplayStaged, With
  <1>4. CASE rec.phase = "Committed"
    <2>1. x.ok = TRUE /\ x.pending = Without(st.pending, {rec.txn})
      BY <1>1, <1>4 DEF ReplayRecord, ReplayCommitted
    <2> QED
      BY <1>4, <2>1, WithoutIs
  <1>5. CASE rec.phase = "Aborted"
    <2>1. x.ok = TRUE /\ x.pending = Without(st.pending, {rec.txn})
      BY <1>1, <1>5 DEF ReplayRecord, ReplayAborted
    <2> QED
      BY <1>5, <2>1, WithoutIs
  <1> QED
    BY <1>2, <1>3, <1>4, <1>5

\* In a sound log every outcome belongs to a transaction that is open then.
WellFormed(records) ==
    \A i \in 1..Len(records) : records[i].phase # "Staged" => records[i].txn \in OpenAfter(records, i - 1)

\* A replay of such a log never fails, and what it holds of staged operations is those of the open
\* transactions.
LEMMA ReplayOpen ==
    ASSUME NEW records \in Seq(WalRecord), WellFormed(records), NEW tolerant \in BOOLEAN,
           NEW f, States(f, records, tolerant)
    PROVE  \A i \in 0..Len(records) : f[i].ok = TRUE /\ DOMAIN f[i].pending = OpenAfter(records, i)
  <1> DEFINE n == Len(records)
             S == {i \in 0..n : f[i].ok = TRUE /\ DOMAIN f[i].pending = OpenAfter(records, i)}
  <1>0. n \in Nat /\ n = Len(records)
    OBVIOUS
  <1> HIDE DEF n
  <1>1. 0 \in S
    <2>1. OpenAfter(records, 0) = {}
      BY DEF OpenAfter
    <2>2. f[0].ok = TRUE /\ DOMAIN f[0].pending = {}
      BY DEF States, ReplayStart
    <2>3. 0 \in 0..n
      BY <1>0
    <2> QED
      BY <2>1, <2>2, <2>3, Zenon
  <1>2. ASSUME NEW i \in 0..(n - 1), i \in S PROVE i + 1 \in S
    <2> DEFINE rec == records[i + 1]
    <2>1. i + 1 \in 1..n /\ i + 1 \in 0..n /\ (i + 1) - 1 = i /\ i \in 0..n
      BY <1>0
    <2>2. f[i] \in ReplayState /\ rec \in WalRecord /\ f[i + 1] = ReplayRecord(f[i], rec, tolerant) /\ f[i].ok
      BY <1>0, <1>2, <2>1 DEF States
    <2>3. OpenAfter(records, i + 1) = IF rec.phase = "Staged" THEN OpenAfter(records, i) \cup {rec.txn}
                                      ELSE OpenAfter(records, i) \ {rec.txn}
      BY <1>0, <2>1, OpenStep
    <2>4. DOMAIN f[i].pending = OpenAfter(records, i)
      BY <1>2
    <2>5. rec.phase # "Staged" => rec.txn \in DOMAIN f[i].pending
      BY <1>0, <2>1, <2>4 DEF WellFormed
    <2> HIDE DEF rec
    <2>6. f[i + 1].ok = TRUE /\ DOMAIN f[i + 1].pending = OpenAfter(records, i + 1)
      BY <2>2, <2>3, <2>4, <2>5, RecordOpens, ZenonT(20)
    <2> QED
      BY <2>1, <2>6
  <1> HIDE DEF S
  <1>3. \A i \in 0..n : i \in S
    BY <1>0, <1>1, <1>2, IntervalInduction
  <1> QED
    BY <1>0, <1>3 DEF S

\* A tolerant replay of such a log is a strict one.
LEMMA ReplayTolerant ==
    ASSUME NEW records \in Seq(WalRecord), WellFormed(records)
    PROVE  Replay(records, TRUE) = Replay(records, FALSE)
  <1>1. PICK f : States(f, records, TRUE) /\ Replay(records, TRUE) = f[Len(records)]
    BY ReplayPrefixes
  <1>2. PICK g : States(g, records, FALSE) /\ Replay(records, FALSE) = g[Len(records)]
    BY ReplayPrefixes
  <1>3. /\ \A i \in 0..Len(records) : f[i].ok = TRUE /\ DOMAIN f[i].pending = OpenAfter(records, i)
        /\ \A i \in 0..Len(records) : g[i].ok = TRUE /\ DOMAIN g[i].pending = OpenAfter(records, i)
    BY <1>1, <1>2, ReplayOpen
  <1>4. ASSUME NEW i \in 1..Len(records), f[i - 1] = g[i - 1] PROVE f[i] = g[i]
    <2> DEFINE st == f[i - 1]
               rec == records[i]
    <2>1. i - 1 \in 0..Len(records)
      OBVIOUS
    <2>2. /\ f[i] = ReplayRecord(st, rec, TRUE) /\ g[i] = ReplayRecord(st, rec, FALSE)
          /\ rec \in WalRecord
      BY <1>1, <1>2, <1>4 DEF States
    <2>3. st.ok /\ DOMAIN st.pending = OpenAfter(records, i - 1)
      BY <1>3, <2>1
    <2>4. rec.phase # "Staged" => rec.txn \in DOMAIN st.pending
      BY <2>3 DEF WellFormed
    <2>5. rec.phase \in {"Staged", "Committed", "Aborted"}
      BY <2>2 DEF WalRecord
    <2> QED
      BY <2>2, <2>3, <2>4, <2>5 DEF ReplayRecord
  <1>5. f[0] = g[0]
    BY <1>1, <1>2 DEF States
  <1>6. Len(records) \in Nat
    OBVIOUS
  <1>7. f[Len(records)] = g[Len(records)]
    BY <1>4, <1>5, <1>6, PrefixAgree
  <1> QED
    BY <1>1, <1>2, <1>7

-----------------------------------------------------------------------------
(* The log against the engine.  The log is sound, a replay of it holds the *)
(* staged operations, and a planned cut ends where nothing is open.  For   *)
(* this the log must take every record, a checkpoint must leave no extra   *)
(* tail, and there must not be two of them at work.                        *)

LogTakesAll == ~WalMayFail
OneCheckpointer == \A c, d \in Checkpointers : c = d /\ Tails \subseteq {0}

LogInv ==
    /\ wal \in Seq(WalRecord) /\ WellFormed(wal)
    /\ \A tolerant \in BOOLEAN : Replay(wal, tolerant).ok /\ Replay(wal, tolerant).pending = pending
    /\ truncating \in [Checkpointers -> Nat]
    /\ \A c \in Checkpointers : truncating[c] \in 0..Len(wal)
    /\ \A c \in Checkpointers : truncating[c] > 0 => OpenAfter(wal, truncating[c]) = {}

\* The transactions with staged operations are those the log leaves open.
LEMMA PendingOpen ==
    ASSUME LogInv
    PROVE  DOMAIN pending = OpenAfter(wal, Len(wal))
  <1>1. PICK f : States(f, wal, TRUE) /\ Replay(wal, TRUE) = f[Len(wal)]
    BY ReplayPrefixes DEF LogInv
  <1>2. DOMAIN f[Len(wal)].pending = OpenAfter(wal, Len(wal))
    <2>1. wal \in Seq(WalRecord) /\ WellFormed(wal) /\ Len(wal) \in 0..Len(wal)
      BY DEF LogInv
    <2> QED
      BY <1>1, <2>1, ReplayOpen
  <1> QED
    BY <1>1, <1>2 DEF LogInv

\* A record that fits what is staged, appended together with what it says.
LEMMA LogGrows ==
    ASSUME LogInv, NEW rec \in WalRecord, wal' = Append(wal, rec), UNCHANGED truncating,
           rec.phase # "Staged" => rec.txn \in DOMAIN pending,
           pending' = IF rec.phase = "Staged" THEN With(pending, rec.txn, StagedOf(rec.txn) \o rec.ops)
                      ELSE Without(pending, {rec.txn})
    PROVE  LogInv'
  <1> DEFINE n == Len(wal)
  <1>1. /\ wal \in Seq(WalRecord) /\ n \in Nat /\ n = Len(wal) /\ wal' \in Seq(WalRecord) /\ Len(wal') = n + 1
        /\ wal'[n + 1] = rec /\ \A i \in 1..n : wal'[i] = wal[i]
    BY DEF LogInv
  <1> HIDE DEF n
  <1>2. \A i \in 0..n : OpenAfter(wal', i) = OpenAfter(wal, i)
    BY <1>1, OpenPrefix
  <1>3. DOMAIN pending = OpenAfter(wal, n)
    BY <1>1, PendingOpen
  <1>4. WellFormed(wal')
    <2> SUFFICES ASSUME NEW i \in 1..(n + 1), wal'[i].phase # "Staged"
                 PROVE  wal'[i].txn \in OpenAfter(wal', i - 1)
      BY <1>1 DEF WellFormed
    <2>1. i - 1 \in 0..n
      BY <1>1
    <2>2. CASE i = n + 1
      <3>1. rec.txn \in OpenAfter(wal, n) /\ i - 1 = n
        BY <1>1, <1>3, <2>2
      <3> QED
        BY <1>1, <1>2, <2>1, <2>2, <3>1
    <2>3. CASE i # n + 1
      <3>1. i \in 1..n /\ wal[i].phase # "Staged" /\ wal'[i] = wal[i]
        BY <1>1, <2>3
      <3>2. wal[i].txn \in OpenAfter(wal, i - 1)
        BY <1>1, <3>1 DEF LogInv, WellFormed
      <3> QED
        BY <1>2, <2>1, <3>1, <3>2
    <2> QED
      BY <2>2, <2>3
  <1>5. ASSUME NEW tolerant \in BOOLEAN
        PROVE  Replay(wal', tolerant).ok /\ Replay(wal', tolerant).pending = pending'
    <2> DEFINE st == Replay(wal, tolerant)
    <2>1. Replay(wal', tolerant) = ReplayRecord(st, rec, tolerant)
      BY <1>1, ReplayAppend
    <2>2. st \in ReplayState /\ st.ok /\ st.pending = pending
      BY <1>1, ReplayTyped DEF LogInv
    <2>3. st = [versions |-> st.versions, next_version |-> st.next_version, pending |-> st.pending, ok |-> st.ok]
      BY <2>2, ReplayStateIs
    <2>4. rec.phase \in {"Staged", "Committed", "Aborted"}
      BY DEF WalRecord
    <2> HIDE DEF st
    <2>5. ReplayRecord(st, rec, tolerant).ok
      BY <2>2, RecordOpens
    <2>6. ReplayRecord(st, rec, tolerant).pending = pending'
      <3>1. CASE rec.phase = "Staged"
        BY <2>2, <2>3, <3>1 DEF ReplayRecord, ReplayStaged, StagedOf
      <3>2. CASE rec.phase = "Committed"
        BY <2>2, <2>3, <3>2 DEF ReplayRecord, ReplayCommitted
      <3>3. CASE rec.phase = "Aborted"
        BY <2>2, <2>3, <3>3 DEF ReplayRecord, ReplayAborted
      <3> QED
        BY <2>4, <3>1, <3>2, <3>3
    <2> QED
      BY <2>1, <2>5, <2>6
  <1>6. \A c \in Checkpointers : truncating'[c] \in 0..Len(wal')
    BY <1>1 DEF LogInv
  <1>7. \A c \in Checkpointers : truncating'[c] > 0 => OpenAfter(wal', truncating'[c]) = {}
    BY <1>1, <1>2 DEF LogInv
  <1> QED
    BY <1>1, <1>4, <1>5, <1>6, <1>7 DEF LogInv

\* A step that leaves log and staged operations alone, and plans no cut but a safe one.
LEMMA LogStays ==
    ASSUME LogInv, UNCHANGED <<wal, pending>>, truncating' \in [Checkpointers -> Nat],
           \A c \in Checkpointers : \/ truncating'[c] = truncating[c]
                                    \/ truncating'[c] \in 0..Len(wal) /\ OpenAfter(wal, truncating'[c]) = {}
    PROVE  LogInv'
  BY DEF LogInv, WellFormed

-----------------------------------------------------------------------------
\* Cutting a prefix at whose end nothing is open.
LEMMA CutOpen ==
    ASSUME NEW records \in Seq(WalRecord), NEW n \in 0..Len(records), OpenAfter(records, n) = {},
           NEW rest \in Seq(WalRecord), Len(rest) = Len(records) - n,
           \A i \in 1..Len(rest) : rest[i] = records[n + i]
    PROVE  \A i \in 0..Len(rest) : OpenAfter(rest, i) = OpenAfter(records, n + i)
  <1> TAKE i \in 0..Len(rest)
  <1>0. n \in Nat /\ Len(records) \in Nat /\ Len(rest) \in Nat /\ i \in Nat
    OBVIOUS
  <1>1. ASSUME NEW t \in OpenAfter(rest, i) PROVE t \in OpenAfter(records, n + i)
    <2>1. PICK j \in 1..i : /\ t \in Txns /\ rest[j].txn = t /\ rest[j].phase = "Staged"
                            /\ \A k \in (j + 1)..i : rest[k].txn = t => rest[k].phase = "Staged"
      BY <1>1 DEF OpenAfter
    <2>2. n + j \in 1..(n + i) /\ records[n + j] = rest[j]
      BY <1>0, <2>1
    <2>3. ASSUME NEW k \in (n + j + 1)..(n + i), records[k].txn = t PROVE records[k].phase = "Staged"
      <3>1. k - n \in (j + 1)..i /\ k - n \in 1..Len(rest) /\ n + (k - n) = k
        BY <1>0, <2>1
      <3>2. records[k] = rest[k - n]
        BY <3>1
      <3> QED
        BY <2>1, <2>3, <3>1, <3>2
    <2> QED
      BY <2>1, <2>2, <2>3 DEF OpenAfter
  <1>2. ASSUME NEW t \in OpenAfter(records, n + i) PROVE t \in OpenAfter(rest, i)
    <2>1. PICK j \in 1..(n + i) : /\ t \in Txns /\ records[j].txn = t /\ records[j].phase = "Staged"
                                  /\ \A k \in (j + 1)..(n + i) : records[k].txn = t => records[k].phase = "Staged"
      BY <1>2 DEF OpenAfter
    <2>2. j > n
      <3> SUFFICES ASSUME j <= n PROVE FALSE
        BY <1>0, <2>1
      <3>1. j \in 1..n /\ \A k \in (j + 1)..n : k \in (j + 1)..(n + i)
        BY <1>0, <2>1
      <3>2. t \in OpenAfter(records, n)
        BY <2>1, <3>1 DEF OpenAfter
      <3> QED
        BY <3>2
    <2>3. j - n \in 1..i /\ j - n \in 1..Len(rest) /\ n + (j - n) = j
      BY <1>0, <2>1, <2>2
    <2>4. rest[j - n] = records[j]
      BY <2>3
    <2>5. ASSUME NEW k \in ((j - n) + 1)..i, rest[k].txn = t PROVE rest[k].phase = "Staged"
      <3>1. n + k \in (j + 1)..(n + i) /\ k \in 1..Len(rest)
        BY <1>0, <2>1, <2>3
      <3>2. rest[k] = records[n + k]
        BY <3>1
      <3> QED
        BY <2>1, <2>5, <3>1, <3>2
    <2> QED
      BY <2>1, <2>3, <2>4, <2>5 DEF OpenAfter
  <1> QED
    BY <1>1, <1>2

\* The rest replays to the same staged operations.
LEMMA CutReplay ==
    ASSUME NEW records \in Seq(WalRecord), WellFormed(records), NEW n \in 0..Len(records), OpenAfter(records, n) = {},
           NEW rest \in Seq(WalRecord), Len(rest) = Len(records) - n,
           \A i \in 1..Len(rest) : rest[i] = records[n + i], NEW tolerant \in BOOLEAN
    PROVE  /\ WellFormed(rest) /\ Replay(rest, tolerant).ok
           /\ Replay(rest, tolerant).pending = Replay(records, tolerant).pending
  <1> DEFINE m == Len(rest)
  <1>0. n \in Nat /\ m \in Nat /\ n + m = Len(records) /\ m = Len(rest)
    OBVIOUS
  <1>1. \A i \in 0..m : OpenAfter(rest, i) = OpenAfter(records, n + i)
    BY CutOpen
  <1> HIDE DEF m
  <1>2. WellFormed(rest)
    <2> SUFFICES ASSUME NEW i \in 1..m, rest[i].phase # "Staged" PROVE rest[i].txn \in OpenAfter(rest, i - 1)
      BY <1>0 DEF WellFormed
    <2>1. n + i \in 1..Len(records) /\ (n + i) - 1 = n + (i - 1) /\ i - 1 \in 0..m /\ rest[i] = records[n + i]
      BY <1>0
    <2>2. records[n + i].txn \in OpenAfter(records, (n + i) - 1)
      BY <2>1 DEF WellFormed
    <2> QED
      BY <1>1, <2>1, <2>2
  <1>3. PICK f : States(f, records, tolerant) /\ Replay(records, tolerant) = f[Len(records)]
    BY ReplayPrefixes
  <1>4. PICK g : States(g, rest, tolerant) /\ Replay(rest, tolerant) = g[m]
    BY <1>0, ReplayPrefixes
  <1>5. \A i \in 0..Len(records) : f[i].ok = TRUE /\ DOMAIN f[i].pending = OpenAfter(records, i)
    <2>1. CASE tolerant = TRUE
      BY <1>3, <2>1, ReplayOpen
    <2>2. CASE tolerant = FALSE
      BY <1>3, <2>2, ReplayOpen
    <2> QED
      BY <2>1, <2>2
  <1>6. \A i \in 0..m : g[i].ok = TRUE /\ DOMAIN g[i].pending = OpenAfter(rest, i)
    <2>1. CASE tolerant = TRUE
      BY <1>0, <1>2, <1>4, <2>1, ReplayOpen
    <2>2. CASE tolerant = FALSE
      BY <1>0, <1>2, <1>4, <2>2, ReplayOpen
    <2> QED
      BY <2>1, <2>2
  <1> DEFINE p == [i \in 0..m |-> g[i].pending]
             q == [i \in 0..m |-> f[n + i].pending]
  <1>7. p[0] = q[0]
    <2>1. 0 \in 0..m /\ n \in 0..Len(records) /\ n + 0 = n
      BY <1>0
    <2>2. f[n] \in ReplayState /\ DOMAIN f[n].pending = {}
      BY <1>3, <1>5, <2>1 DEF States
    <2>3. f[n].pending = [t \in DOMAIN f[n].pending |-> f[n].pending[t]]
      BY <2>2, ReplayStateIs
    <2>4. g[0].pending = [t \in {} |-> <<>>]
      BY <1>4 DEF States, ReplayStart
    <2> QED
      BY <2>1, <2>2, <2>3, <2>4
  <1>8. ASSUME NEW i \in 1..m, p[i - 1] = q[i - 1] PROVE p[i] = q[i]
    <2> DEFINE a == g[i - 1]
               b == f[n + (i - 1)]
               rec == rest[i]
    <2>1. /\ i - 1 \in 0..m /\ i \in 0..m /\ i \in 1..Len(rest)
          /\ n + (i - 1) \in 0..Len(records) /\ n + i \in 1..Len(records) /\ (n + i) - 1 = n + (i - 1)
      BY <1>0
    <2>2. /\ a \in ReplayState /\ rec \in WalRecord /\ g[i] = ReplayRecord(a, rec, tolerant)
      BY <1>0, <1>4, <2>1 DEF States
    <2>3. /\ b \in ReplayState /\ f[n + i] = ReplayRecord(b, rec, tolerant)
      BY <1>3, <2>1 DEF States
    <2>4. a.ok /\ b.ok /\ a.pending = b.pending /\ DOMAIN a.pending = OpenAfter(rest, i - 1)
      BY <1>5, <1>6, <1>8, <2>1
    <2>5. rec.phase # "Staged" => rec.txn \in DOMAIN a.pending
      BY <1>2, <2>1, <2>4 DEF WellFormed
    <2>6. rec.phase \in {"Staged", "Committed", "Aborted"}
      BY <2>2 DEF WalRecord
    <2>7. /\ a = [versions |-> a.versions, next_version |-> a.next_version, pending |-> a.pending, ok |-> a.ok]
          /\ b = [versions |-> b.versions, next_version |-> b.next_version, pending |-> b.pending, ok |-> b.ok]
      BY <2>2, <2>3, ReplayStateIs
    <2> HIDE DEF a, b, rec
    <2>8. ReplayRecord(a, rec, tolerant).pending = ReplayRecord(b, rec, tolerant).pending
      <3>1. CASE rec.phase = "Staged"
        BY <2>4, <2>7, <3>1 DEF ReplayRecord, ReplayStaged
      <3>2. CASE rec.phase = "Committed"
        BY <2>4, <2>5, <2>7, <3>2 DEF ReplayRecord, ReplayCommitted
      <3>3. CASE rec.phase = "Aborted"
        BY <2>4, <2>5, <2>7, <3>3 DEF ReplayRecord, ReplayAborted
      <3> QED
        BY <2>6, <3>1, <3>2, <3>3
    <2> QED
      BY <2>1, <2>2, <2>3, <2>8
  <1>9. p[m] = q[m]
    <2> HIDE DEF p, q
    <2> QED
      BY <1>0, <1>7, <1>8, PrefixAgree
  <1>10. m \in 0..m
    BY <1>0
  <1> QED
    BY <1>0, <1>2, <1>3, <1>4, <1>6, <1>9, <1>10

-----------------------------------------------------------------------------
LEMMA LogInit == Init => LogInv
  <1> SUFFICES ASSUME Init PROVE LogInv
    OBVIOUS
  <1>1. /\ wal = <<>> /\ wal \in Seq(WalRecord) /\ Len(wal) = 0 /\ pending = [t \in {} |-> <<>>]
        /\ truncating = [c \in Checkpointers |-> 0]
    BY DEF Init
  <1>2. ASSUME NEW tolerant \in BOOLEAN PROVE Replay(wal, tolerant) = ReplayStart
    <2>1. PICK f : States(f, wal, tolerant) /\ Replay(wal, tolerant) = f[Len(wal)]
      BY <1>1, ReplayPrefixes
    <2> QED
      BY <1>1, <2>1 DEF States
  <1>3. WellFormed(wal)
    BY <1>1 DEF WellFormed
  <1> QED
    BY <1>1, <1>2, <1>3 DEF LogInv, ReplayStart

LEMMA LogStep ==
    ASSUME LogTakesAll, OneCheckpointer, LogInv, [RecoveryNext]_vars
    PROVE  LogInv'
  <1>0. /\ wal \in Seq(WalRecord) /\ Len(wal) \in Nat /\ truncating \in [Checkpointers -> Nat]
        /\ \A c \in Checkpointers : truncating[c] \in 0..Len(wal)
        /\ \A c \in Checkpointers : truncating[c] > 0 => OpenAfter(wal, truncating[c]) = {}
    BY DEF LogInv
  <1>a. \A t, phase, ops : AppendWal(t, phase, ops) => wal' = Append(wal, [txn |-> t, phase |-> phase, ops |-> ops])
    BY DEF LogTakesAll, AppendWal, Logged
  <1>1. ASSUME NEW t \in Txns, NEW ops \in Batches, ApplyWriteBatch(t, ops) PROVE LogInv'
    <2> DEFINE rec == [txn |-> t, phase |-> "Staged", ops |-> ops]
    <2>1. rec \in WalRecord /\ rec.phase = "Staged" /\ rec.txn = t /\ rec.ops = ops
      BY BatchesAssumption DEF WalRecord
    <2>2. wal' = Append(wal, rec) /\ UNCHANGED truncating /\ pending' = With(pending, t, StagedOf(t) \o ops)
      BY <1>a, <1>1 DEF ApplyWriteBatch, Extended
    <2> HIDE DEF rec
    <2> QED
      BY <2>1, <2>2, LogGrows
  <1>2. ASSUME NEW t \in DOMAIN pending, NEW phase \in {"Committed", "Aborted"}, RemovePending(t),
               AppendWal(t, phase, <<>>), UNCHANGED truncating
        PROVE  LogInv'
    <2> DEFINE rec == [txn |-> t, phase |-> phase, ops |-> <<>>]
    <2>1. t \in Txns
      BY PendingOpen DEF OpenAfter
    <2>2. rec \in WalRecord /\ rec.phase # "Staged" /\ rec.txn = t
      BY <2>1 DEF WalRecord
    <2>3. wal' = Append(wal, rec) /\ pending' = Without(pending, {t})
      BY <1>a, <1>2 DEF RemovePending
    <2> HIDE DEF rec
    <2> QED
      BY <1>2, <2>2, <2>3, LogGrows
  <1>3. ASSUME UNCHANGED <<pending, wal, truncating>> PROVE LogInv'
    BY <1>0, <1>3, LogStays
  <1>4. ASSUME NEW c \in Checkpointers, NEW min_tail \in Tails, CheckpointScan(c, min_tail) PROVE LogInv'
    <2>1. min_tail = 0
      BY DEF OneCheckpointer
    <2>2. SafePrefix(wal) \in 0..Len(wal) /\ OpenAfter(wal, SafePrefix(wal)) = {}
      BY <1>0, SafePrefixWithin
    <2>3. truncating' = [truncating EXCEPT ![c] = SafePrefix(wal)] /\ UNCHANGED <<wal, pending>>
      <3>1. truncating' = [truncating EXCEPT ![c] = SafePrefix(wal) - min_tail] /\ UNCHANGED <<wal, pending>>
        BY <1>4 DEF CheckpointScan
      <3>2. SafePrefix(wal) - min_tail = SafePrefix(wal)
        BY <2>1, <2>2
      <3> QED
        BY <3>1, <3>2
    <2>4. truncating' \in [Checkpointers -> Nat]
      BY <1>0, <2>2, <2>3
    <2>5. ASSUME NEW d \in Checkpointers, truncating'[d] # truncating[d]
          PROVE  truncating'[d] \in 0..Len(wal) /\ OpenAfter(wal, truncating'[d]) = {}
      <3>1. truncating'[d] = SafePrefix(wal)
        BY <1>0, <2>3, <2>5
      <3> QED
        BY <2>2, <3>1
    <2> QED
      BY <2>3, <2>4, <2>5, LogStays
  <1>5. ASSUME NEW c \in Checkpointers, CheckpointTruncate(c) PROVE LogInv'
    <2> DEFINE n == truncating[c]
    <2>1. /\ n \in 0..Len(wal) /\ n > 0 /\ OpenAfter(wal, n) = {} /\ n \in Nat
          /\ wal' = SubSeq(wal, n + 1, Len(wal)) /\ UNCHANGED pending
          /\ truncating' = [truncating EXCEPT ![c] = 0]
      BY <1>0, <1>5 DEF CheckpointTruncate
    <2> HIDE DEF n
    <2>2. /\ wal' \in Seq(WalRecord) /\ Len(wal') = Len(wal) - n
          /\ \A i \in 1..Len(wal') : wal'[i] = wal[n + i]
      <3>1. \A i \in (n + 1)..Len(wal) : wal[i] \in WalRecord
        BY <1>0, <2>1
      <3>2. /\ wal' \in Seq(WalRecord)
            /\ Len(wal') = IF n + 1 <= Len(wal) THEN Len(wal) - (n + 1) + 1 ELSE 0
            /\ \A i \in 1..(Len(wal) - (n + 1) + 1) : wal'[i] = wal[(n + 1) + i - 1]
        BY <1>0, <2>1, <3>1, SubSeqProperties
      <3>3. Len(wal') = Len(wal) - n
        BY <1>0, <2>1, <3>2
      <3>4. ASSUME NEW i \in 1..Len(wal') PROVE wal'[i] = wal[n + i]
        <4>1. i \in 1..(Len(wal) - (n + 1) + 1) /\ (n + 1) + i - 1 = n + i
          BY <1>0, <2>1, <3>3
        <4> QED
          BY <3>2, <4>1
      <3> QED
        BY <3>2, <3>3, <3>4
    <2>3. WellFormed(wal)
      BY DEF LogInv
    <2>4. ASSUME NEW tolerant \in BOOLEAN
          PROVE  WellFormed(wal') /\ Replay(wal', tolerant).ok /\ Replay(wal', tolerant).pending = pending'
      <3>1. /\ WellFormed(wal') /\ Replay(wal', tolerant).ok
            /\ Replay(wal', tolerant).pending = Replay(wal, tolerant).pending
        BY <1>0, <2>1, <2>2, <2>3, CutReplay
      <3> QED
        BY <2>1, <3>1 DEF LogInv
    <2>5. \A d \in Checkpointers : truncating'[d] = 0
      BY <1>0, <2>1 DEF OneCheckpointer
    <2>6. truncating' \in [Checkpointers -> Nat] /\ Len(wal') \in Nat
      BY <1>0, <2>1, <2>2
    <2>7. /\ \A d \in Checkpointers : truncating'[d] \in 0..Len(wal')
          /\ \A d \in Checkpointers : truncating'[d] > 0 => OpenAfter(wal', truncating'[d]) = {}
      BY <2>5, <2>6
    <2>8. wal' \in Seq(WalRecord) /\ WellFormed(wal')
      BY <2>2, <2>4
    <2>9. \A tolerant \in BOOLEAN : Replay(wal', tolerant).ok /\ Replay(wal', tolerant).pending = pending'
      BY <2>4
    <2> QED
      BY <2>6, <2>7, <2>8, <2>9, Zenon DEF LogInv
  <1>6. ASSUME NEW tolerant \in BOOLEAN, Recover(tolerant) PROVE LogInv'
    <2>1. pending' = pending /\ UNCHANGED wal /\ truncating' = [c \in Checkpointers |-> 0]
      BY <1>6 DEF Recover, LogInv
    <2>2. OpenAfter(wal, 0) = {} /\ 0 \in 0..Len(wal)
      BY <1>0 DEF OpenAfter
    <2>3. truncating' \in [Checkpointers -> Nat] /\ \A c \in Checkpointers : truncating'[c] = 0
      BY <2>1
    <2> QED
      BY <2>1, <2>2, <2>3, LogStays
  <1>7. CASE UNCHANGED vars
    BY <1>3, <1>7 DEF vars
  <1>8. CASE Next
    <2>1. ASSUME NEW t \in Txns, CommitTransaction(t) \/ AbortTransaction(t) PROVE LogInv'
      BY <1>2, <2>1 DEF CommitTransaction, AbortTransaction
    <2>2. ASSUME NEW s \in Subjects, DeleteByKey(s) PROVE LogInv'
      BY <1>3, <2>2 DEF DeleteByKey
    <2>3. ASSUME NEW r \in Readers, CaptureVersion(r) \/ PinVersion(r) \/ ReleaseSnapshot(r) PROVE LogInv'
      BY <1>3, <2>3 DEF CaptureVersion, PinVersion, ReleaseSnapshot
    <2>4. ASSUME NEW n \in Retentions, PruneVersions(n) PROVE LogInv'
      BY <1>3, <2>4 DEF PruneVersions
    <2> QED
      BY <1>1, <1>4, <1>5, <1>8, <2>1, <2>2, <2>3, <2>4 DEF Next
  <1> QED
    BY <1>6, <1>7, <1>8 DEF RecoveryNext

\* With a log that takes every record and one checkpointer that leaves no extra tail: between any two
\* steps of a checkpoint, after any number of them and of recoveries, a tolerant replay finds exactly
\* the staged operations of the open transactions, and a strict replay does not fail.
THEOREM CheckpointKeepsLogHolds ==
    ASSUME LogTakesAll, OneCheckpointer
    PROVE  RecoverySpec => []CheckpointKeepsLog
  <1>1. LogInv => CheckpointKeepsLog
    BY DEF LogInv, CheckpointKeepsLog, PendingTailKept, CheckpointedLogReplays
  <1>2. LogInv /\ [RecoveryNext]_vars => LogInv'
    BY LogStep
  <1> QED
    BY <1>1, <1>2, LogInit, PTL DEF RecoverySpec

-----------------------------------------------------------------------------
\* The chain against the log, when nobody cuts the log and no change goes past it.
ReplayedChain ==
    LET st == Replay(wal, FALSE) IN
    /\ st.next_version = next_version
    /\ \A v \in DOMAIN versions : st.versions[v] = versions[v]

NothingUnlogged == LogTakesAll /\ ~KeyDeletes
NobodyCuts == \A c \in Checkpointers : truncating[c] = 0

LEMMA ReplayedChainStays ==
    ASSUME IInv, ReplayedChain, UNCHANGED <<wal, next_version>>, DOMAIN versions' \subseteq DOMAIN versions,
           \A v \in DOMAIN versions' : versions'[v] = versions[v]
    PROVE  ReplayedChain'
  BY DEF ReplayedChain

\* A record that makes no version leaves the chain of the replay alone.
LEMMA ReplayedChainKept ==
    ASSUME LogInv, ReplayedChain, NEW rec \in WalRecord, wal' = Append(wal, rec), UNCHANGED chain,
           rec.phase # "Committed"
    PROVE  ReplayedChain'
  <1> DEFINE st == Replay(wal, FALSE)
  <1>1. Replay(wal', FALSE) = ReplayRecord(st, rec, FALSE) /\ st \in ReplayState /\ st.ok
    BY ReplayAppend, ReplayTyped DEF LogInv
  <1>2. st = [versions |-> st.versions, next_version |-> st.next_version, pending |-> st.pending, ok |-> st.ok]
    BY <1>1, ReplayStateIs
  <1>3. rec.phase \in {"Staged", "Aborted"}
    BY DEF WalRecord
  <1> HIDE DEF st
  <1>4. ReplayRecord(st, rec, FALSE).versions = st.versions /\ ReplayRecord(st, rec, FALSE).next_version = st.next_version
    BY <1>2, <1>3 DEF ReplayRecord, ReplayStaged, ReplayAborted
  <1> QED
    BY <1>1, <1>4 DEF ReplayedChain, chain, st

\* A commit record makes the same version in a replay as the commit did.
LEMMA ReplayedChainGrows ==
    ASSUME IInv, LogInv, ReplayedChain, NEW t \in DOMAIN pending, NewVersion(ApplyAll(Latest, pending[t])),
           Logged(t, "Committed", <<>>)
    PROVE  ReplayedChain'
  <1> DEFINE st  == Replay(wal, FALSE)
             rec == [txn |-> t, phase |-> "Committed", ops |-> <<>>]
             x   == ReplayRecord(st, rec, FALSE)
  <1>1. t \in Txns
    BY PendingOpen DEF OpenAfter
  <1>2. rec \in WalRecord /\ rec.phase = "Committed" /\ rec.txn = t /\ wal' = Append(wal, rec)
    BY <1>1 DEF WalRecord, Logged
  <1>3. /\ Replay(wal', FALSE) = x /\ st \in ReplayState /\ st.ok /\ st.pending = pending
        /\ st.next_version = next_version /\ \A v \in DOMAIN versions : st.versions[v] = versions[v]
    BY <1>2, ReplayAppend, ReplayTyped DEF LogInv, ReplayedChain
  <1>4. next_version - 1 \in DOMAIN versions /\ next_version \in Nat
    BY DEF IInv, ChainEnds, LatestVersion
  <1> HIDE DEF st, rec, x
  <1>5. /\ x.next_version = next_version + 1
        /\ x.versions = With(st.versions, next_version, ApplyAll(Latest, pending[t]))
    <2>1. /\ x.next_version = st.next_version + 1
          /\ x.versions = With(st.versions, st.next_version,
                               ApplyAll(st.versions[st.next_version - 1], st.pending[rec.txn]))
      BY <1>2, <1>3, RecordEffect DEF x
    <2>2. st.versions[next_version - 1] = Latest
      BY <1>3, <1>4 DEF Latest, LatestVersion
    <2> QED
      BY <1>2, <1>3, <2>1, <2>2
  <1>6. /\ next_version' = next_version + 1 /\ DOMAIN versions' \subseteq DOMAIN versions \cup {next_version}
        /\ \A v \in DOMAIN versions \cap DOMAIN versions' : versions'[v] = versions[v]
        /\ Latest' = ApplyAll(Latest, pending[t])
    BY NewVersionChain, WithoutIs DEF NewVersion, With
  <1>7. versions'[next_version] = ApplyAll(Latest, pending[t])
    BY <1>4, <1>6 DEF Latest, LatestVersion
  <1>8. DOMAIN versions \subseteq DOMAIN st.versions /\ next_version \notin DOMAIN versions
    <2>1. DOMAIN st.versions = 0..(next_version - 1)
      BY <1>3, ReplayStateIs
    <2> QED
      BY <1>4, <2>1 DEF IInv, LatestVersion
  <1>9. \A v \in DOMAIN versions' : x.versions[v] = versions'[v]
    BY <1>3, <1>5, <1>6, <1>7, <1>8 DEF With
  <1> QED
    BY <1>3, <1>5, <1>6, <1>9 DEF ReplayedChain

LEMMA ReplayedStep ==
    ASSUME NothingUnlogged, NobodyCuts, IInv, LogInv, ReplayedChain, [RecoveryNext]_vars
    PROVE  IInv' /\ ReplayedChain'
  <1>a. \A t, phase, ops : AppendWal(t, phase, ops) => Logged(t, phase, ops)
    BY DEF NothingUnlogged, LogTakesAll, AppendWal
  <1>b. ASSUME UNCHANGED <<chain, wal>> PROVE IInv' /\ ReplayedChain'
    BY <1>b DEF chain, IInv, ChainEnds, LatestVersion, ReplayedChain
  <1>c. ASSUME UNCHANGED chain PROVE IInv'
    BY <1>c DEF chain, IInv, ChainEnds, LatestVersion
  <1>1. ASSUME NEW t \in Txns, NEW ops \in Batches, ApplyWriteBatch(t, ops) PROVE IInv' /\ ReplayedChain'
    <2> DEFINE rec == [txn |-> t, phase |-> "Staged", ops |-> ops]
    <2>1. rec \in WalRecord /\ rec.phase # "Committed" /\ wal' = Append(wal, rec) /\ UNCHANGED chain
      BY <1>1, <1>a, BatchesAssumption DEF ApplyWriteBatch, WalRecord, Logged
    <2> HIDE DEF rec
    <2> QED
      BY <1>c, <2>1, ReplayedChainKept
  <1>2. ASSUME NEW t \in Txns, CommitTransaction(t) PROVE IInv' /\ ReplayedChain'
    BY <1>2, <1>a, NewVersionChain, ReplayedChainGrows DEF CommitTransaction
  <1>3. ASSUME NEW t \in Txns, AbortTransaction(t) PROVE IInv' /\ ReplayedChain'
    <2> DEFINE rec == [txn |-> t, phase |-> "Aborted", ops |-> <<>>]
    <2>1. rec \in WalRecord /\ rec.phase # "Committed" /\ wal' = Append(wal, rec) /\ UNCHANGED chain
      BY <1>3, <1>a DEF AbortTransaction, WalRecord, Logged
    <2> HIDE DEF rec
    <2> QED
      BY <1>c, <2>1, ReplayedChainKept
  <1>4. ASSUME NEW n \in Retentions, PruneVersions(n) PROVE IInv' /\ ReplayedChain'
    <2>1. /\ UNCHANGED <<wal, next_version>> /\ DOMAIN versions' \subseteq DOMAIN versions /\ IInv'
          /\ \A v \in DOMAIN versions \cap DOMAIN versions' : versions'[v] = versions[v]
      BY <1>4, PruneChain, WithoutIs DEF PruneVersions
    <2> QED
      BY <2>1, ReplayedChainStays
  <1>5. ASSUME NEW tolerant \in BOOLEAN, Recover(tolerant) PROVE IInv' /\ ReplayedChain'
    <2> DEFINE st == Replay(wal, FALSE)
    <2>1. wal \in Seq(WalRecord) /\ WellFormed(wal)
      BY DEF LogInv
    <2>2. Replay(wal, tolerant) = st
      <3>1. CASE tolerant = TRUE
        BY <2>1, <3>1, ReplayTolerant
      <3>2. CASE tolerant = FALSE
        BY <3>2
      <3> QED
        BY <3>1, <3>2
    <2>3. versions' = st.versions /\ next_version' = st.next_version /\ wal' = wal
      BY <1>5, <2>2 DEF Recover
    <2>4. st \in ReplayState
      BY <2>1, ReplayTyped
    <2> HIDE DEF st
    <2>5. /\ st.next_version \in Nat \ {0}
          /\ st.versions = [v \in 0..(st.next_version - 1) |-> st.versions[v]]
      BY <2>4, ReplayStateIs
    <2>6. IInv'
      BY <2>3, <2>5 DEF IInv, ChainEnds, LatestVersion
    <2> QED
      BY <2>3, <2>6 DEF ReplayedChain, st
  <1>6. CASE UNCHANGED vars
    BY <1>6, <1>b DEF vars, chain
  <1>7. CASE Next
    <2>1. ASSUME NEW r \in Readers, CaptureVersion(r) \/ PinVersion(r) \/ ReleaseSnapshot(r)
          PROVE  IInv' /\ ReplayedChain'
      BY <1>b, <2>1 DEF CaptureVersion, PinVersion, ReleaseSnapshot
    <2>2. \A s \in Subjects : ~DeleteByKey(s)
      BY DEF NothingUnlogged, DeleteByKey
    <2>3. ASSUME NEW c \in Checkpointers, NEW min_tail \in Tails, CheckpointScan(c, min_tail) PROVE IInv' /\ ReplayedChain'
      BY <1>b, <2>3 DEF CheckpointScan
    <2>4. \A c \in Checkpointers : ~CheckpointTruncate(c)
      BY DEF NobodyCuts, CheckpointTruncate
    <2> QED
      BY <1>1, <1>2, <1>3, <1>4, <1>7, <2>1, <2>2, <2>3, <2>4 DEF Next
  <1> QED
    BY <1>5, <1>6, <1>7 DEF RecoveryNext

LEMMA ReplayedInit == Init => IInv /\ LogInv /\ ReplayedChain /\ NobodyCuts
  <1> SUFFICES ASSUME Init PROVE IInv /\ LogInv /\ ReplayedChain /\ NobodyCuts
    OBVIOUS
  <1>1. IInv /\ LogInv
    BY LogInit DEF Init, IInv, ChainEnds, LatestVersion
  <1>2. PICK f : States(f, wal, FALSE) /\ Replay(wal, FALSE) = f[Len(wal)]
    BY <1>1, ReplayPrefixes DEF LogInv
  <1>3. Replay(wal, FALSE) = ReplayStart
    BY <1>2 DEF States, Init
  <1> QED
    BY <1>1, <1>3 DEF Init, ReplayedChain, ReplayStart, NobodyCuts

\* What the engine holds is what its log says.
LEMMA ReplayedDescribes ==
    ASSUME IInv, LogInv, ReplayedChain
    PROVE  LogDescribesState
  BY DEF LogInv, ReplayedChain, LogDescribesState

\* With a log that takes every record, no key deletes and no checkpoints: whenever the engine stops,
\* a strict replay of its log rebuilds the staged operations, the numbering and every retained version.
THEOREM LogDescribesStateHolds ==
    ASSUME NothingUnlogged, Checkpointers = {}
    PROVE  RecoverySpec => []LogDescribesState
  <1>1. LogTakesAll /\ OneCheckpointer
    BY DEF NothingUnlogged, OneCheckpointer
  <1>2. IInv /\ LogInv /\ ReplayedChain /\ [RecoveryNext]_vars => (IInv /\ LogInv /\ ReplayedChain)'
    BY <1>1, LogStep, ReplayedStep DEF NobodyCuts
  <1> QED
    BY <1>2, ReplayedInit, ReplayedDescribes, PTL DEF RecoverySpec

\* The same of the behaviours the run checks, where a checkpointer exists and does not cut: the log is enough
\* after every step of the engine and every recovery, in which strict and tolerant replays alternate.
THEOREM UncutLogDescribesStateHolds ==
    ASSUME NothingUnlogged, OneCheckpointer
    PROVE  MCSpec => []UncutLogDescribesState
  <1> DEFINE Uncut == scene = "recovery" => IInv /\ LogInv /\ ReplayedChain /\ NobodyCuts
  <1>1. MCInit => Uncut
    BY ReplayedInit DEF MCInit
  <1>2. Uncut /\ [MCNext]_<<vars, scene>> => Uncut'
    <2> SUFFICES ASSUME Uncut, [MCNext]_<<vars, scene>>, scene' = "recovery"
                 PROVE  IInv' /\ LogInv' /\ ReplayedChain' /\ NobodyCuts'
      OBVIOUS
    <2>1. scene = "recovery" /\ [RecoveryNext]_vars /\ truncating' = truncating
      BY DEF MCNext, InScene, vars
    <2>2. IInv /\ LogInv /\ ReplayedChain /\ NobodyCuts /\ LogTakesAll
      BY <2>1 DEF NothingUnlogged
    <2> QED
      BY <2>1, <2>2, LogStep, ReplayedStep DEF NobodyCuts
  <1>3. Uncut => UncutLogDescribesState
    BY ReplayedDescribes DEF UncutLogDescribesState
  <1> QED
    BY <1>1, <1>2, <1>3, PTL DEF MCSpec
=============================================================================
