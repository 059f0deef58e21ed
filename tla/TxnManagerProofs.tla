-------------------------- MODULE TxnManagerProofs --------------------------
(***************************************************************************)
(* Proofs about the transaction manager: its safety invariants hold for    *)
(* every limit, every set of timeouts, every clock width and any number of *)
(* transactions.  IInv is inductive as it stands; the work is in the       *)
(* cardinalities that the counters and the admission limit talk about.     *)
(***************************************************************************)
EXTENDS TxnManager, FiniteSetTheorems, TLAPS

\* The conjunction the induction runs on.
IInv == TypeOK /\ DeadlinesOnlyActive /\ ActiveBounded /\ MetricsAgree

-----------------------------------------------------------------------------
\* The set of transactions in one state is finite, whatever the state.
LEMMA StatesFinite ==
    ASSUME TypeOK, NEW s
    PROVE  /\ IsFiniteSet(DOMAIN txns)
           /\ IsFiniteSet(InState(s))
           /\ Cardinality(InState(s)) \in Nat
           /\ Cardinality(DOMAIN txns) \in Nat
  <1>1. DOMAIN txns = 1..(next_id - 1) /\ next_id - 1 \in Int
    BY DEF TypeOK
  <1>2. IsFiniteSet(DOMAIN txns)
    BY <1>1, FS_Interval
  <1>3. InState(s) \subseteq DOMAIN txns
    BY DEF InState
  <1> QED
    BY <1>2, <1>3, FS_Subset, FS_CardinalityType

\* Removing deadlines leaves a well-typed deadline table.
LEMMA WithoutType ==
    ASSUME NEW S, NEW f, f \in [DOMAIN f -> 0..ClockMax]
    PROVE  /\ DOMAIN Without(f, S) = DOMAIN f \ S
           /\ Without(f, S) \in [DOMAIN f \ S -> 0..ClockMax]
  BY DEF Without, Restrict

\* The saturating deadline stays within the width of the clock.
LEMMA SaturatingAddType ==
    ASSUME NEW a \in 0..ClockMax, NEW b \in 0..ClockMax
    PROVE  SaturatingAdd(a, b) \in 0..ClockMax
  BY ClockAssumption DEF SaturatingAdd

\* Adding k to one counter leaves the others as they were.
LEMMA BumpCounter ==
    ASSUME metrics \in [Counter -> Nat], NEW c \in Counter, NEW k \in Nat
    PROVE  LET m == [metrics EXCEPT ![c] = metrics[c] + k]
           IN  /\ m \in [Counter -> Nat]
               /\ m[c] = metrics[c] + k
               /\ \A d \in Counter \ {c} : m[d] = metrics[d]
  OBVIOUS

\* Moving one transaction out of Active into state t moves one unit of
\* cardinality and leaves the third state alone.
LEMMA MoveOne ==
    ASSUME TypeOK, NEW id \in DOMAIN txns, NEW t \in TxnState,
           txns[id] = "Active", t # "Active",
           txns' = [txns EXCEPT ![id] = t]
    PROVE  /\ DOMAIN txns' = DOMAIN txns
           /\ ActiveTxns' = ActiveTxns \ {id}
           /\ Cardinality(ActiveTxns') = Cardinality(ActiveTxns) - 1
           /\ Cardinality(InState(t)') = Cardinality(InState(t)) + 1
           /\ \A u \in TxnState \ {t, "Active"} : InState(u)' = InState(u)
  <1>1. DOMAIN txns' = DOMAIN txns
    BY DEF TypeOK
  <1>2. ActiveTxns' = ActiveTxns \ {id} /\ id \in ActiveTxns
    BY DEF ActiveTxns, InState, TypeOK
  <1>3. InState(t)' = InState(t) \cup {id} /\ id \notin InState(t)
    BY DEF InState, TypeOK
  <1>4. \A u \in TxnState \ {t, "Active"} : InState(u)' = InState(u)
    BY DEF InState, TypeOK
  <1>5. Cardinality(ActiveTxns') = Cardinality(ActiveTxns) - 1
    BY <1>2, StatesFinite, FS_RemoveElement DEF ActiveTxns
  <1>6. Cardinality(InState(t)') = Cardinality(InState(t)) + 1
    BY <1>3, StatesFinite, FS_AddElement
  <1> QED
    BY <1>1, <1>2, <1>4, <1>5, <1>6

-----------------------------------------------------------------------------
\* No transaction exists: every set is empty and every counter zero.
LEMMA InitInv == Init => IInv
  <1> SUFFICES ASSUME Init PROVE IInv
    OBVIOUS
  <1>1. DOMAIN txns = {} /\ DOMAIN deadlines_ms = {} /\ 1..0 = {}
    BY DEF Init
  <1>2. TypeOK
    BY <1>1, ClockAssumption DEF Init, TypeOK, TxnState, Counter
  <1>3. \A s : InState(s) = {}
    BY <1>1 DEF InState
  <1>4. \A c \in Counter : metrics[c] = 0
    BY DEF Init
  <1>5. DeadlinesOnlyActive /\ ActiveBounded
    BY <1>1, <1>3, FS_EmptySet, MaxActiveAssumption
    DEF DeadlinesOnlyActive, ActiveBounded, ActiveTxns
  <1>6. MetricsAgree
    <2>1. /\ metrics.begun = 0 /\ metrics.committed = 0 /\ metrics.aborted = 0
          /\ metrics.expired_cleaned = 0
      BY <1>4 DEF Counter
    <2>2. /\ Cardinality(DOMAIN txns) = 0
          /\ Cardinality(InState("Committed")) = 0 /\ Cardinality(InState("Aborted")) = 0
      BY <1>1, <1>3, FS_EmptySet
    <2> QED
      BY <2>1, <2>2 DEF MetricsAgree
  <1> QED
    BY <1>2, <1>5, <1>6 DEF IInv

\* A begin adds a fresh active transaction, within the admission limit.
LEMMA BeginInv ==
    ASSUME IInv, NEW timeout \in Timeouts \cup {None}, Begin(timeout)
    PROVE  IInv'
  <1> USE DEF IInv
  <1>1. CASE BeginRejected
    <2>1. metrics' \in [Counter -> Nat] /\ metrics'.begun = metrics.begun
          /\ metrics'.committed = metrics.committed /\ metrics'.aborted = metrics.aborted
          /\ metrics'.expired_cleaned = metrics.expired_cleaned
      BY <1>1 DEF BeginRejected, TypeOK, Counter
    <2> QED
      BY <1>1, <2>1 DEF BeginRejected, TypeOK, DeadlinesOnlyActive, ActiveBounded,
                        MetricsAgree, ActiveTxns, InState
  <1>2. CASE BeginAccepted(timeout)
    <2>1. /\ next_id \notin DOMAIN txns
          /\ DOMAIN txns' = DOMAIN txns \cup {next_id}
          /\ next_id' \in Nat \ {0}
          /\ txns' \in [1..(next_id' - 1) -> TxnState]
      BY <1>2 DEF BeginAccepted, TypeOK, With, TxnState
    <2>2. /\ DOMAIN deadlines_ms' \subseteq DOMAIN deadlines_ms \cup {next_id}
          /\ deadlines_ms' \in [DOMAIN deadlines_ms' -> 0..ClockMax]
      <3>1. CASE timeout = None
        BY <1>2, <3>1 DEF BeginAccepted, TypeOK
      <3>2. CASE timeout # None
        <4>1. SaturatingAdd(clock_ms, timeout) \in 0..ClockMax
          BY <3>2, SaturatingAddType, ClockAssumption DEF TypeOK
        <4> QED
          BY <1>2, <3>2, <4>1 DEF BeginAccepted, TypeOK, With
      <3> QED
        BY <3>1, <3>2
    <2>3. /\ metrics' \in [Counter -> Nat] /\ metrics'.begun = metrics.begun + 1
          /\ metrics'.committed = metrics.committed /\ metrics'.aborted = metrics.aborted
          /\ metrics'.expired_cleaned = metrics.expired_cleaned
      BY <1>2 DEF BeginAccepted, TypeOK, Counter
    <2>4. /\ ActiveTxns' = ActiveTxns \cup {next_id}
          /\ next_id \notin ActiveTxns
          /\ InState("Committed")' = InState("Committed")
          /\ InState("Aborted")' = InState("Aborted")
      BY <1>2, <2>1 DEF BeginAccepted, With, ActiveTxns, InState, TypeOK
    <2>5. Cardinality(ActiveTxns') = Cardinality(ActiveTxns) + 1
      BY <2>4, StatesFinite, FS_AddElement DEF ActiveTxns
    <2>6. Cardinality(DOMAIN txns') = Cardinality(DOMAIN txns) + 1
      BY <2>1, StatesFinite, FS_AddElement
    <2>7. TypeOK'
      BY <1>2, <2>1, <2>2, <2>3 DEF BeginAccepted, TypeOK
    <2>8. DeadlinesOnlyActive'
      BY <2>2, <2>4 DEF DeadlinesOnlyActive
    <2>9. ActiveBounded'
      BY <1>2, <2>5, StatesFinite, MaxActiveAssumption
      DEF BeginAccepted, Full, ActiveBounded, ActiveTxns
    <2> QED
      BY <2>3, <2>4, <2>6, <2>7, <2>8, <2>9 DEF MetricsAgree
  <1> QED
    BY <1>1, <1>2 DEF Begin

\* Leaving Active, to t, keeps the invariant whenever the deadline goes too
\* and only the counter of t, if any, moves by one.
LEMMA LeaveInv ==
    ASSUME IInv, NEW id \in DOMAIN txns, NEW t \in {"Committed", "Aborted"},
           txns[id] = "Active",
           txns' = [txns EXCEPT ![id] = t],
           deadlines_ms' = Without(deadlines_ms, {id}),
           UNCHANGED <<next_id, clock_ms>>,
           metrics' \in [Counter -> Nat],
           metrics'.begun = metrics.begun,
           metrics'.expired_cleaned = metrics.expired_cleaned,
           t = "Committed" => /\ metrics'.committed = metrics.committed + 1
                              /\ metrics'.aborted = metrics.aborted,
           t = "Aborted" => /\ metrics'.committed = metrics.committed
                            /\ metrics'.aborted \in {metrics.aborted, metrics.aborted + 1}
    PROVE  IInv'
  <1> USE DEF IInv
  <1>1. /\ DOMAIN txns' = DOMAIN txns
        /\ ActiveTxns' = ActiveTxns \ {id}
        /\ Cardinality(ActiveTxns') = Cardinality(ActiveTxns) - 1
        /\ Cardinality(InState(t)') = Cardinality(InState(t)) + 1
        /\ \A u \in TxnState \ {t, "Active"} : InState(u)' = InState(u)
    BY MoveOne DEF TxnState
  <1>2. /\ DOMAIN deadlines_ms' = DOMAIN deadlines_ms \ {id}
        /\ deadlines_ms' \in [DOMAIN deadlines_ms \ {id} -> 0..ClockMax]
    BY WithoutType DEF TypeOK
  <1>3. TypeOK'
    BY <1>1, <1>2 DEF TypeOK, TxnState
  <1>4. DeadlinesOnlyActive'
    BY <1>1, <1>2 DEF DeadlinesOnlyActive
  <1>5. ActiveBounded'
    BY <1>1, StatesFinite, MaxActiveAssumption DEF ActiveBounded, ActiveTxns
  <1>6. MetricsAgree'
    <2>1. CASE t = "Committed"
      <3>1. InState("Aborted")' = InState("Aborted")
        BY <1>1, <2>1 DEF TxnState
      <3> QED
        BY <1>1, <2>1, <3>1 DEF MetricsAgree
    <2>2. CASE t = "Aborted"
      <3>1. InState("Committed")' = InState("Committed")
        BY <1>1, <2>2 DEF TxnState
      <3>2. /\ metrics.aborted \in Nat /\ metrics.expired_cleaned \in Nat
            /\ Cardinality(InState("Aborted")) \in Nat
        BY StatesFinite DEF TypeOK, Counter
      <3> QED
        BY <1>1, <2>2, <3>1, <3>2 DEF MetricsAgree
    <2> QED
      BY <2>1, <2>2
  <1> QED
    BY <1>3, <1>4, <1>5, <1>6

LEMMA CommitInv ==
    ASSUME IInv, NEW id \in DOMAIN txns, Commit(id)
    PROVE  IInv'
  <1>1. CASE CommitExpired(id)
    <2>1. txns[id] = "Active"
      BY <1>1 DEF IInv, CommitExpired, Expired, DeadlinesOnlyActive, ActiveTxns, InState
    <2>2. metrics \in [Counter -> Nat] /\ metrics' = metrics
      BY <1>1 DEF CommitExpired, IInv, TypeOK
    <2> QED
      BY <1>1, <2>1, <2>2, LeaveInv DEF CommitExpired, DropDeadline, DropDeadline, DropDeadline
  <1>2. CASE CommitActive(id)
    <2>1. /\ metrics' \in [Counter -> Nat] /\ metrics'.begun = metrics.begun
          /\ metrics'.committed = metrics.committed + 1 /\ metrics'.aborted = metrics.aborted
          /\ metrics'.expired_cleaned = metrics.expired_cleaned
      BY <1>2, BumpCounter DEF CommitActive, IInv, TypeOK, Counter
    <2> QED
      BY <1>2, <2>1, LeaveInv DEF CommitActive, DropDeadline
  <1> QED
    BY <1>1, <1>2 DEF Commit

LEMMA AbortInv ==
    ASSUME IInv, NEW id \in DOMAIN txns, Abort(id)
    PROVE  IInv'
  <1>1. /\ metrics' \in [Counter -> Nat] /\ metrics'.begun = metrics.begun
        /\ metrics'.committed = metrics.committed /\ metrics'.aborted = metrics.aborted + 1
        /\ metrics'.expired_cleaned = metrics.expired_cleaned
    BY SMTT(20) DEF Abort, IInv, TypeOK, Counter
  <1> QED
    BY <1>1, LeaveInv DEF Abort, MayAbort, DropDeadline

\* cleanup_expired aborts exactly the transactions whose deadlines it removes,
\* because a deadline is only ever kept for an active transaction.
LEMMA CleanupInv ==
    ASSUME IInv, NEW now \in 0..ClockMax, CleanupExpired(now)
    PROVE  IInv'
  <1> DEFINE expired == {id \in DOMAIN deadlines_ms : Expired(id, now)}
  <1> USE DEF IInv
  <1>1. expired \subseteq ActiveTxns
    BY DEF DeadlinesOnlyActive
  <1>2. /\ DOMAIN txns' = DOMAIN txns
        /\ txns' \in [1..(next_id - 1) -> TxnState]
        /\ \A id \in DOMAIN txns : txns'[id] = IF id \in expired THEN "Aborted" ELSE txns[id]
    BY <1>1 DEF CleanupExpired, TypeOK, TxnState, ActiveTxns, InState
  <1>3. /\ ActiveTxns' = ActiveTxns \ expired
        /\ InState("Committed")' = InState("Committed")
        /\ InState("Aborted")' = InState("Aborted") \cup expired
        /\ InState("Aborted") \cap expired = {}
    BY <1>1, <1>2 DEF ActiveTxns, InState
  <1>4. IsFiniteSet(expired) /\ Cardinality(expired) \in Nat
    BY <1>1, StatesFinite, FS_Subset, FS_CardinalityType DEF ActiveTxns
  <1>5. Cardinality(InState("Aborted")') = Cardinality(InState("Aborted")) + Cardinality(expired)
    <2>1. IsFiniteSet(InState("Aborted")) /\ Cardinality(InState("Aborted")) \in Nat
      BY StatesFinite
    <2>2. Cardinality(InState("Aborted") \cup expired)
             = Cardinality(InState("Aborted")) + Cardinality(expired)
               - Cardinality(InState("Aborted") \cap expired)
      BY <1>4, <2>1, FS_Union
    <2>3. Cardinality(InState("Aborted") \cap expired) = 0
      BY <1>3, FS_EmptySet
    <2> HIDE DEF expired
    <2>4. Cardinality(InState("Aborted") \cup expired)
             = Cardinality(InState("Aborted")) + Cardinality(expired)
      BY <1>4, <2>1, <2>2, <2>3
    <2> QED
      BY <1>3, <2>4
  <1>6. Cardinality(ActiveTxns') <= Cardinality(ActiveTxns)
    BY <1>3, StatesFinite, FS_Subset DEF ActiveTxns
  <1>7. /\ metrics' \in [Counter -> Nat] /\ metrics'.begun = metrics.begun
        /\ metrics'.committed = metrics.committed /\ metrics'.aborted = metrics.aborted
        /\ metrics'.expired_cleaned = metrics.expired_cleaned + Cardinality(expired)
    BY <1>4, BumpCounter DEF CleanupExpired, TypeOK, Counter
  <1>8. /\ DOMAIN deadlines_ms' = DOMAIN deadlines_ms \ expired
        /\ deadlines_ms' \in [DOMAIN deadlines_ms \ expired -> 0..ClockMax]
    BY WithoutType DEF CleanupExpired, TypeOK
  <1>9. TypeOK'
    BY <1>2, <1>7, <1>8 DEF CleanupExpired, TypeOK
  <1>10. DeadlinesOnlyActive'
    BY <1>3, <1>8 DEF DeadlinesOnlyActive
  <1>11. ActiveBounded'
    <2>1. Cardinality(ActiveTxns) \in Nat /\ Cardinality(ActiveTxns') \in Nat
      BY <1>3, StatesFinite, FS_Subset, FS_CardinalityType DEF ActiveTxns
    <2> QED
      BY <1>6, <2>1, MaxActiveAssumption DEF ActiveBounded
  <1>12. MetricsAgree'
    <2>1. /\ metrics.aborted \in Nat /\ metrics.expired_cleaned \in Nat
          /\ Cardinality(InState("Aborted")) \in Nat
      BY StatesFinite DEF TypeOK, Counter
    <2> QED
      BY <1>2, <1>3, <1>4, <1>5, <1>7, <2>1 DEF MetricsAgree
  <1> QED
    BY <1>9, <1>10, <1>11, <1>12

LEMMA ClockInv ==
    ASSUME IInv, NEW delta \in 1..ClockMax, AdvanceClock(delta)
    PROVE  IInv'
  <1>1. clock_ms' \in 0..ClockMax
    BY ClockAssumption DEF AdvanceClock, IInv, TypeOK
  <1> QED
    BY <1>1 DEF AdvanceClock, IInv, TypeOK, DeadlinesOnlyActive, ActiveBounded,
                MetricsAgree, ActiveTxns, InState

LEMMA StepInv == IInv /\ [Next]_vars => IInv'
  <1> SUFFICES ASSUME IInv, [Next]_vars PROVE IInv'
    OBVIOUS
  <1>1. CASE \E timeout \in Timeouts \cup {None} : Begin(timeout)
    BY <1>1, BeginInv
  <1>2. CASE \E id \in DOMAIN txns : Commit(id) \/ Abort(id)
    BY <1>2, CommitInv, AbortInv
  <1>3. CASE \E now \in 0..ClockMax : CleanupExpired(now)
    BY <1>3, CleanupInv
  <1>4. CASE \E delta \in 1..ClockMax : AdvanceClock(delta)
    BY <1>4, ClockInv
  <1>5. CASE UNCHANGED vars
    BY <1>5 DEF vars, IInv, TypeOK, DeadlinesOnlyActive, ActiveBounded, MetricsAgree,
                ActiveTxns, InState
  <1> QED
    BY <1>1, <1>2, <1>3, <1>4, <1>5 DEF Next

LEMMA InductiveInvariant == Spec => []IInv
  BY InitInv, StepInv, PTL DEF Spec

-----------------------------------------------------------------------------
\* Every reachable state is well typed; ids are handed out densely from 1 and
\* never reused (infrastructure/mod.rs 55-58).
THEOREM TypeOKHolds == Spec => []TypeOK
  BY InductiveInvariant, PTL DEF IInv

\* Deadlines are kept for active transactions only, so cleanup_expired counts
\* each transaction it aborts exactly once (infrastructure/mod.rs 225-251).
THEOREM DeadlinesOnlyActiveHolds == Spec => []DeadlinesOnlyActive
  BY InductiveInvariant, PTL DEF IInv

\* The admission limit of begin (infrastructure/mod.rs 78-87) bounds the
\* active transactions in every reachable state.
THEOREM ActiveBoundedHolds == Spec => []ActiveBounded
  BY InductiveInvariant, PTL DEF IInv

\* The counters behind metrics_snapshot agree with the transaction table.
THEOREM MetricsAgreeHolds == Spec => []MetricsAgree
  BY InductiveInvariant, PTL DEF IInv

\* Commit, abort, expiry and cleanup are final: no operation of the manager
\* (infrastructure/mod.rs 68-251) changes the outcome of a transaction.
THEOREM OutcomeFinalHolds == Spec => OutcomeFinal
  <1> DEFINE Final == \A id \in DOMAIN txns :
                txns[id] # "Active" => id \in DOMAIN txns' /\ txns'[id] = txns[id]
  <1>1. IInv /\ [Next]_vars => [Final]_vars
    <2> SUFFICES ASSUME IInv, Next, NEW id \in DOMAIN txns, txns[id] # "Active"
                 PROVE  id \in DOMAIN txns' /\ txns'[id] = txns[id]
      OBVIOUS
    <2> USE DEF IInv, TypeOK
    <2>1. CASE \E timeout \in Timeouts \cup {None} : Begin(timeout)
      BY <2>1 DEF Begin, BeginRejected, BeginAccepted, With
    <2>2. CASE \E other \in DOMAIN txns : Commit(other) \/ Abort(other)
      <3>1. PICK other \in DOMAIN txns : Commit(other) \/ Abort(other)
        BY <2>2
      <3>2. txns[other] = "Active"
        BY <3>1 DEF Commit, CommitActive, CommitExpired, Abort, MayAbort, Expired,
                    DeadlinesOnlyActive, ActiveTxns, InState
      <3> QED
        BY <3>1, <3>2 DEF Commit, CommitActive, CommitExpired, Abort
    <2>3. CASE \E now \in 0..ClockMax : CleanupExpired(now)
      BY <2>3 DEF CleanupExpired
    <2>4. CASE \E delta \in 1..ClockMax : AdvanceClock(delta)
      BY <2>4 DEF AdvanceClock
    <2> QED
      BY <2>1, <2>2, <2>3, <2>4 DEF Next
  <1> QED
    BY <1>1, InductiveInvariant, PTL DEF Spec, OutcomeFinal

\* A transaction begun without a timeout is aborted by abort alone: neither
\* the expiry branch of commit nor cleanup_expired can reach it.
THEOREM NoDeadlineNoTimeoutHolds == Spec => NoDeadlineNoTimeout
  <1> DEFINE OnlyAbort == \A id \in ActiveTxns \ DOMAIN deadlines_ms :
                txns'[id] = "Aborted" => metrics'.aborted = metrics.aborted + 1
  <1>1. IInv /\ [Next]_vars => [OnlyAbort]_vars
    <2> SUFFICES ASSUME IInv, Next, NEW id \in ActiveTxns \ DOMAIN deadlines_ms,
                        txns'[id] = "Aborted"
                 PROVE  metrics'.aborted = metrics.aborted + 1
      OBVIOUS
    <2> USE DEF IInv, TypeOK
    <2>0. id \in DOMAIN txns /\ txns[id] = "Active"
      BY DEF ActiveTxns, InState
    <2>1. CASE \E timeout \in Timeouts \cup {None} : Begin(timeout)
      BY <2>0, <2>1 DEF Begin, BeginRejected, BeginAccepted, With
    <2>2. CASE \E other \in DOMAIN txns : Commit(other) \/ Abort(other)
      <3>1. PICK other \in DOMAIN txns : Commit(other) \/ Abort(other)
        BY <2>2
      <3>2. CASE Commit(other)
        BY <2>0, <3>1, <3>2 DEF Commit, CommitActive, CommitExpired, Expired
      <3>3. CASE Abort(other)
        BY <3>3, BumpCounter DEF Abort, Counter
      <3> QED
        BY <3>1, <3>2, <3>3
    <2>3. CASE \E now \in 0..ClockMax : CleanupExpired(now)
      BY <2>0, <2>3 DEF CleanupExpired
    <2>4. CASE \E delta \in 1..ClockMax : AdvanceClock(delta)
      BY <2>0, <2>4 DEF AdvanceClock
    <2> QED
      BY <2>1, <2>2, <2>3, <2>4 DEF Next
  <1> QED
    BY <1>1, InductiveInvariant, PTL DEF Spec, NoDeadlineNoTimeout

=============================================================================
