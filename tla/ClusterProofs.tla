---------------------------- MODULE ClusterProofs ----------------------------
(***************************************************************************)
(* The cluster plane. First the simulator, then the raft store and the     *)
(* registries behind it.                                                   *)
(*                                                                         *)
(* SimulatorSafe and SimulatorSteps for any nodes, layouts and thresholds  *)
(* and any order of elections, failures, partitions and rebalances.        *)
(*                                                                         *)
(* The invariant has five parts.  The shard map is a list of consecutive   *)
(* ranges from slot 0 on (Consecutive), whatever the layout, the bias and  *)
(* the rebalances since, so each slot is in exactly one; and the lag noted *)
(* for a follower bounds what it misses of the entries clients appended    *)
(* (LagsTrue): barriers and rebalances are logged after the lags are       *)
(* computed, so the lag itself is too small by then, and the bound on what *)
(* clients appended is what remains.  The leader has applied the whole log,*)
(* terms rise, and the receipts go on where the queue begins.              *)
(*                                                                         *)
(* Elections and rebalances deal the replica sets anew in one function,    *)
(* which is reasoned about once (ReplicaTrue), and so is the commit index  *)
(* (CommitIndexTrue).                                                      *)
(***************************************************************************)
EXTENDS ClusterSim, RaftStore, RaftRegistry, NatSetTheorems, SequenceTheorems

(***************************************************************************)
(* The slots: consecutive ranges, the first from 0 on, none of them empty. *)

Consecutive(ranges, n) ==
    /\ n \in Nat /\ n >= 1
    /\ \A i \in 1..n : ranges[i].start \in Nat /\ ranges[i].end \in Nat /\ ranges[i].start <= ranges[i].end
    /\ ranges[1].start = 0
    /\ \A i \in 1..(n - 1) : ranges[i + 1].start = ranges[i].end + 1

\* Integer division of at least the divisor.
LEMMA DivFits ==
    ASSUME NEW a \in Nat, NEW b \in Nat, b >= 1, a >= b
    PROVE  (a \div b) \in Nat /\ a \div b >= 1 /\ b * (a \div b) <= a
  OBVIOUS

\* Multiples rise: what the arithmetic of the boundaries needs, kept apart from it.
LEMMA Times ==
    ASSUME NEW k \in Nat
    PROVE  /\ \A i \in Nat : i * k \in Nat /\ (i + 1) * k = i * k + k
           /\ \A i \in Nat : \A j \in Nat : i <= j => i * k <= j * k
  <1>1. ASSUME NEW i \in Nat, NEW j \in Nat, i <= j PROVE i * k <= j * k
    BY <1>1
  <1>2. ASSUME NEW i \in Nat PROVE i * k \in Nat /\ (i + 1) * k = i * k + k
    OBVIOUS
  <1> QED
    BY <1>1, <1>2

\* even_assignments covers the slots with ranges that are not empty, when there is a slot for each.
LEMMA EvenConsecutive ==
    ASSUME NEW count \in Nat, NEW slots \in Nat, count >= 1, slots >= count
    PROVE  /\ Consecutive(EvenAssignments(count, slots), count)
           /\ EvenAssignments(count, slots)[count].end = slots - 1
           /\ DOMAIN EvenAssignments(count, slots) = 1..count
           /\ EvenAssignments(count, slots) \in Seq([start : Nat, end : Nat])
  <1> DEFINE per == slots \div count
             ranges == EvenAssignments(count, slots)
  <1>1. per \in Nat /\ per >= 1 /\ count * per <= slots
    BY DivFits
  <1> HIDE DEF per
  <1>2. ranges = [i \in 1..count |-> [start |-> (i - 1) * per, end |-> IF i = count THEN slots - 1 ELSE i * per - 1]]
    BY DEF EvenAssignments, per
  <1> HIDE DEF ranges
  <1>3. ASSUME NEW i \in 1..count
        PROVE  /\ i - 1 \in Nat /\ i \in Nat /\ (i - 1) * per \in Nat /\ i * per = (i - 1) * per + per
               /\ i * per <= count * per /\ i * per <= slots /\ (i - 1) * per < i * per
    <2>1. i - 1 \in Nat /\ i \in Nat /\ i <= count /\ (i - 1) + 1 = i
      OBVIOUS
    <2>2. (i - 1) * per \in Nat /\ ((i - 1) + 1) * per = (i - 1) * per + per /\ i * per <= count * per /\ count * per \in Nat
      BY <1>1, <2>1, Times
    <2>3. i * per = (i - 1) * per + per
      BY <2>1, <2>2
    <2> QED
      BY <1>1, <2>1, <2>2, <2>3
  <1>4. ASSUME NEW i \in 1..count
        PROVE  /\ ranges[i].start = (i - 1) * per
               /\ ranges[i].end = IF i = count THEN slots - 1 ELSE i * per - 1
    BY <1>2
  <1>5. ASSUME NEW i \in 1..count
        PROVE  ranges[i].start \in Nat /\ ranges[i].end \in Nat /\ ranges[i].start <= ranges[i].end
    BY <1>1, <1>3, <1>4
  <1>6. ranges[1].start = 0
    <2>1. 1 \in 1..count /\ (1 - 1) * per = 0
      BY <1>1
    <2> QED
      BY <1>4, <2>1
  <1>7. ASSUME NEW i \in 1..(count - 1) PROVE ranges[i + 1].start = ranges[i].end + 1
    <2>1. i \in 1..count /\ i + 1 \in 1..count /\ i # count /\ (i + 1) - 1 = i
      OBVIOUS
    <2>2. ranges[i + 1].start = ((i + 1) - 1) * per
      BY <1>4, <2>1
    <2>3. ranges[i].end = i * per - 1
      BY <1>4, <2>1
    <2>4. i * per \in Nat
      BY <1>1, <2>1, Times
    <2> DEFINE p == i * per
    <2>5. ranges[i + 1].start = p /\ ranges[i].end = p - 1 /\ p \in Nat
      BY <2>1, <2>2, <2>3, <2>4
    <2> HIDE DEF p
    <2> QED
      BY <2>5
  <1>8. Consecutive(ranges, count)
    BY <1>5, <1>6, <1>7 DEF Consecutive
  <1>9. ranges[count].end = slots - 1
    BY <1>4
  <1>10. ranges \in Seq([start : Nat, end : Nat])
    <2>1. \A i \in 1..count : ranges[i] \in [start : Nat, end : Nat]
      BY <1>2, <1>4, <1>5
    <2>2. ranges \in [1..count -> [start : Nat, end : Nat]]
      BY <1>2, <2>1
    <2>3. \A R : ranges \in [1..count -> R] => ranges \in Seq(R)
      OBVIOUS
    <2> QED
      BY <2>2, <2>3
  <1>11. DOMAIN ranges = 1..count
    BY <1>2
  <1> QED
    BY <1>8, <1>9, <1>10, <1>11 DEF ranges

\* The bias moves both sides of every boundary, and less than the last range is wide.
LEMMA BiasedConsecutive ==
    ASSUME NEW ranges \in Seq([start : Nat, end : Nat]), Consecutive(ranges, Len(ranges)), NEW bias \in Nat
    PROVE  /\ DOMAIN ApplyInitialSlotBias(ranges, bias) = 1..Len(ranges)
           /\ Consecutive(ApplyInitialSlotBias(ranges, bias), Len(ranges))
  <1> DEFINE n == Len(ranges)
             b == IF bias <= ranges[n].end - ranges[n].start THEN bias ELSE ranges[n].end - ranges[n].start
             moved == ApplyInitialSlotBias(ranges, bias)
  <1>1. /\ n \in Nat /\ n >= 1 /\ n \in 1..n /\ 1 \in 1..n
        /\ \A i \in 1..n : ranges[i].start \in Nat /\ ranges[i].end \in Nat /\ ranges[i].start <= ranges[i].end
        /\ ranges[1].start = 0
        /\ \A i \in 1..(n - 1) : ranges[i + 1].start = ranges[i].end + 1
    <2>1. Consecutive(ranges, n)
      OBVIOUS
    <2> HIDE DEF n
    <2>2. n \in Nat /\ n >= 1
      BY <2>1 DEF Consecutive
    <2>3. n \in 1..n /\ 1 \in 1..n
      BY <2>2
    <2> QED
      BY <2>1, <2>2, <2>3 DEF Consecutive
  <1>2. b \in Nat /\ ranges[n].start + b <= ranges[n].end
    BY <1>1
  <1>3. moved = [i \in 1..n |-> [start |-> IF i > 1 THEN ranges[i].start + b ELSE ranges[i].start,
                                 end |-> IF i < n THEN ranges[i].end + b ELSE ranges[i].end]]
    BY DEF ApplyInitialSlotBias
  <1> HIDE DEF n, b, moved
  <1>4. \A i \in 1..n : /\ moved[i].start = IF i > 1 THEN ranges[i].start + b ELSE ranges[i].start
                        /\ moved[i].end = IF i < n THEN ranges[i].end + b ELSE ranges[i].end
    BY <1>3
  <1>5. ASSUME NEW i \in 1..n
        PROVE  moved[i].start \in Nat /\ moved[i].end \in Nat /\ moved[i].start <= moved[i].end
    <2> DEFINE s == ranges[i].start
               e == ranges[i].end
    <2>0. s \in Nat /\ e \in Nat /\ s <= e /\ b \in Nat
      BY <1>1, <1>2
    <2>1. CASE i < n
      <3>1. moved[i].end = e + b
        BY <1>4, <2>1
      <3>2. moved[i].start = s + b \/ moved[i].start = s
        BY <1>4
      <3> HIDE DEF s, e
      <3>3. e + b \in Nat /\ s + b \in Nat /\ s + b <= e + b /\ s <= e + b
        BY <2>0
      <3> QED
        BY <2>0, <3>1, <3>2, <3>3
    <2>2. CASE i = n
      <3>1. moved[i].end = e
        BY <1>4, <2>2
      <3>2. moved[i].start = s + b \/ moved[i].start = s
        BY <1>4
      <3>3. s + b <= e
        BY <1>2, <2>2
      <3> HIDE DEF s, e
      <3>4. s + b \in Nat
        BY <2>0
      <3> QED
        BY <2>0, <3>1, <3>2, <3>3, <3>4
    <2> QED
      BY <1>1, <2>1, <2>2
  <1>6. moved[1].start = 0
    BY <1>1, <1>4
  <1>7. ASSUME NEW i \in 1..(n - 1) PROVE moved[i + 1].start = moved[i].end + 1
    <2>1. i \in 1..n /\ i + 1 \in 1..n /\ i < n /\ i + 1 > 1
      BY <1>1
    <2>2. ranges[i].end \in Nat /\ ranges[i + 1].start = ranges[i].end + 1
      BY <1>1, <2>1
    <2>3. moved[i + 1].start = ranges[i + 1].start + b /\ moved[i].end = ranges[i].end + b
      BY <1>4, <2>1
    <2> QED
      BY <1>2, <2>2, <2>3
  <1>8. Consecutive(moved, n)
    BY <1>1, <1>5, <1>6, <1>7 DEF Consecutive
  <1>9. DOMAIN moved = 1..n
    BY <1>3
  <1> QED
    BY <1>8, <1>9 DEF moved, n

\* So does every layout a runtime may be started with.
LEMMA InitialConsecutive ==
    ASSUME NEW c \in Configs
    PROVE  \E n \in Nat : DOMAIN InitialRanges(c) = 1..n /\ Consecutive(InitialRanges(c), n)
  <1> DEFINE count == IF c.shards > 0 THEN c.shards ELSE 1
             slots == IF c.slots > count THEN c.slots ELSE count
             ranges == EvenAssignments(count, slots)
  <1>1. c.shards \in Nat /\ c.slots \in Nat /\ c.bias \in Nat
    BY ClusterAssumption
  <1>2. count \in Nat /\ slots \in Nat /\ count >= 1 /\ slots >= count
    BY <1>1
  <1>3. InitialRanges(c) = ApplyInitialSlotBias(ranges, c.bias)
    BY DEF InitialRanges
  <1> HIDE DEF count, slots
  <1>4. Consecutive(ranges, count) /\ ranges \in Seq([start : Nat, end : Nat]) /\ DOMAIN ranges = 1..count
    BY <1>2, EvenConsecutive
  <1> HIDE DEF ranges
  <1>5. Len(ranges) = count
    BY <1>2, <1>4
  <1> QED
    BY <1>1, <1>2, <1>3, <1>4, <1>5, BiasedConsecutive

\* Consecutive ranges hold at least a slot each, rise, and hold every slot exactly once.
LEMMA ConsecutiveRises ==
    ASSUME NEW ranges, NEW n, Consecutive(ranges, n)
    PROVE  /\ ranges[n].end + 1 >= n /\ ranges[n].end \in Nat
           /\ \A i \in 1..n : \A j \in 1..n : i < j => ranges[i].end < ranges[j].start
  <1>1. /\ n \in Nat /\ n >= 1
        /\ \A i \in 1..n : ranges[i].start \in Nat /\ ranges[i].end \in Nat /\ ranges[i].start <= ranges[i].end
        /\ ranges[1].start = 0
        /\ \A i \in 1..(n - 1) : ranges[i + 1].start = ranges[i].end + 1
    BY DEF Consecutive
  <1>2. \A i \in 1..n : ranges[i].end + 1 >= i
    <2> DEFINE S == {i \in 1..n : ranges[i].end + 1 >= i}
    <2>1. 1 \in S
      BY <1>1
    <2>2. ASSUME NEW i \in 1..(n - 1), i \in S PROVE i + 1 \in S
      <3>1. i + 1 \in 1..n /\ ranges[i + 1].start = ranges[i].end + 1 /\ ranges[i].end + 1 >= i
        BY <1>1, <2>2
      <3> QED
        BY <1>1, <3>1
    <2> HIDE DEF S
    <2>3. \A i \in 1..n : i \in S
      BY <1>1, <2>1, <2>2, IntervalInduction
    <2> QED
      BY <2>3 DEF S
  <1>3. ASSUME NEW i \in 1..n PROVE \A j \in 1..n : i < j => ranges[i].end < ranges[j].start
    <2> DEFINE S == {j \in (i + 1)..n : ranges[i].end < ranges[j].start}
    <2>1. CASE i = n
      BY <1>1, <2>1
    <2>2. CASE i < n
      <3>1. i + 1 \in S
        <4>1. i \in 1..(n - 1) /\ i + 1 \in (i + 1)..n
          BY <1>1, <2>2
        <4>2. ranges[i + 1].start = ranges[i].end + 1 /\ ranges[i].end \in Nat
          BY <1>1, <4>1
        <4> QED
          BY <4>1, <4>2
      <3>2. ASSUME NEW j \in (i + 1)..(n - 1), j \in S PROVE j + 1 \in S
        <4>1. j \in 1..(n - 1) /\ j + 1 \in (i + 1)..n /\ j \in 1..n /\ j + 1 \in 1..n
          BY <1>1, <3>2
        <4>2. ranges[j + 1].start = ranges[j].end + 1 /\ ranges[j].start <= ranges[j].end /\ ranges[i].end < ranges[j].start
          BY <1>1, <3>2, <4>1
        <4>3. ranges[j].end \in Nat /\ ranges[j].start \in Nat /\ ranges[i].end \in Nat
          BY <1>1, <4>1
        <4> QED
          BY <4>1, <4>2, <4>3
      <3> HIDE DEF S
      <3>3. \A j \in (i + 1)..n : j \in S
        <4>1. i + 1 \in Nat
          BY <1>1
        <4> QED
          BY <1>1, <3>1, <3>2, <4>1, IntervalInduction
      <3> QED
        BY <1>1, <3>3 DEF S
    <2> QED
      BY <1>1, <2>1, <2>2
  <1> QED
    BY <1>1, <1>2, <1>3

\* ... and hold each of theirs in exactly one.
LEMMA ConsecutiveCovers ==
    ASSUME NEW ranges, NEW n, Consecutive(ranges, n), NEW slot \in 0..ranges[n].end
    PROVE  \E i \in 1..n : InRange(ranges[i], slot) /\ \A j \in 1..n : InRange(ranges[j], slot) => j = i
  <1> DEFINE S == {i \in 1..n : ranges[i].start <= slot}
  <1>1. /\ n \in Nat /\ n >= 1 /\ slot \in Nat /\ n \in 1..n /\ 1 \in 1..n
        /\ \A i \in 1..n : ranges[i].start \in Nat /\ ranges[i].end \in Nat /\ ranges[i].start <= ranges[i].end
        /\ ranges[1].start = 0
        /\ \A i \in 1..(n - 1) : ranges[i + 1].start = ranges[i].end + 1
    BY DEF Consecutive
  <1>2. S \in SUBSET (-1..n) /\ 1 \in S
    BY <1>1
  <1>3. PICK i \in S : \A j \in S : j <= i
    <2> HIDE DEF S
    <2> QED
      BY <1>1, <1>2, GreatestElement
  <1>4. i \in 1..n /\ ranges[i].start <= slot
    BY <1>3
  <1>5. slot <= ranges[i].end
    <2> SUFFICES ASSUME slot > ranges[i].end PROVE FALSE
      BY <1>1, <1>4
    <2>1. i # n
      BY <1>1
    <2>2. i \in 1..(n - 1) /\ i + 1 \in 1..n
      BY <1>1, <1>4, <2>1
    <2>3. ranges[i + 1].start = ranges[i].end + 1 /\ ranges[i].end \in Nat
      BY <1>1, <2>2
    <2>4. i + 1 \in S
      BY <1>1, <2>2, <2>3
    <2> QED
      BY <1>3, <1>4, <2>4
  <1>6. ASSUME NEW j \in 1..n, InRange(ranges[j], slot) PROVE j = i
    <2>1. ranges[j].start <= slot /\ slot <= ranges[j].end
      BY <1>6 DEF InRange
    <2>2. \A k \in 1..n : \A l \in 1..n : k < l => ranges[k].end < ranges[l].start
      BY ConsecutiveRises
    <2>3. ~(j < i) /\ ~(i < j)
      BY <1>1, <1>4, <1>5, <2>1, <2>2
    <2> QED
      BY <1>4, <2>3
  <1> QED
    BY <1>4, <1>5, <1>6 DEF InRange

-----------------------------------------------------------------------------
(* The shard map: a layout with replica sets whose lags bound what each    *)
(* follower misses of the entries that clients appended.                   *)

SimEntry == [term : Nat, kind : {"noop", "data", "metadata"}]
Member == [status : {"healthy", "suspect", "dead"}, role : {"leader", "follower"}, beat : Nat]
Lags(ids) == UNION {[known -> Nat] : known \in SUBSET ids}
Shard(ids) == [start : Nat, end : Nat, leader : ids \cup {None}, followers : SUBSET ids, lag : Lags(ids)]

Missed(ap, lg, f) == {i \in (ap[f] + 1)..Len(lg) : lg[i].kind = "data"}
LagsTrue(shard, ap, lg) == \A f \in DOMAIN shard.lag : Cardinality(Missed(ap, lg, f)) <= shard.lag[f]
ShardTrue(shard, ids, ap, lg) == shard \in Shard(ids) /\ shard.leader \notin shard.followers /\ LagsTrue(shard, ap, lg)

MapTrue(sh, ids, ap, lg) ==
    /\ sh \in Seq(Shard(ids)) /\ Consecutive(sh, Len(sh))
    /\ \A i \in 1..Len(sh) : ShardTrue(sh[i], ids, ap, lg)

\* A lag map is a function from some of the nodes.
LEMMA LagsAre ==
    ASSUME NEW ids, NEW lag
    PROVE  lag \in Lags(ids) <=> \E known \in SUBSET ids : lag \in [known -> Nat]
  BY DEF Lags

\* What else changes in a shard does not move its slots.
LEMMA SameSlots ==
    ASSUME NEW sh, NEW n \in Nat, Consecutive(sh, n), NEW new, \A i \in 1..n : new[i].start = sh[i].start /\ new[i].end = sh[i].end
    PROVE  Consecutive(new, n)
  <1>1. /\ n >= 1 /\ \A i \in 1..n : sh[i].start \in Nat /\ sh[i].end \in Nat /\ sh[i].start <= sh[i].end
        /\ sh[1].start = 0 /\ \A i \in 1..(n - 1) : sh[i + 1].start = sh[i].end + 1
    BY DEF Consecutive
  <1>2. \A i \in 1..n : new[i].start \in Nat /\ new[i].end \in Nat /\ new[i].start <= new[i].end
    BY <1>1
  <1>3. new[1].start = 0
    BY <1>1
  <1>4. ASSUME NEW i \in 1..(n - 1) PROVE new[i + 1].start = new[i].end + 1
    <2>1. i \in 1..n /\ i + 1 \in 1..n
      OBVIOUS
    <2> QED
      BY <1>1, <2>1
  <1> QED
    BY <1>1, <1>2, <1>3, <1>4 DEF Consecutive

\* The entries a node misses are no more than its lag says.
LEMMA MissedFew ==
    ASSUME NEW ids, NEW ap \in [ids -> Nat], NEW lg \in Seq(SimEntry), NEW f \in ids
    PROVE  /\ IsFiniteSet(Missed(ap, lg, f)) /\ Cardinality(Missed(ap, lg, f)) \in Nat
           /\ Lag(ap, f, Len(lg)) \in Nat /\ Cardinality(Missed(ap, lg, f)) <= Lag(ap, f, Len(lg))
  <1> DEFINE rest == (ap[f] + 1)..Len(lg)
             k == Lag(ap, f, Len(lg))
  <1>1. ap[f] \in Nat /\ Len(lg) \in Nat
    OBVIOUS
  <1>2. IsFiniteSet(rest) /\ Cardinality(rest) = IF ap[f] + 1 > Len(lg) THEN 0 ELSE Len(lg) - (ap[f] + 1) + 1
    <2>1. ap[f] + 1 \in Int /\ Len(lg) \in Int
      BY <1>1
    <2> QED
      BY <2>1, FS_Interval
  <1>3. k \in Nat /\ Cardinality(rest) = k
    BY <1>1, <1>2 DEF Lag
  <1>4. Missed(ap, lg, f) \in SUBSET rest
    BY DEF Missed
  <1> HIDE DEF rest, k
  <1>5. IsFiniteSet(Missed(ap, lg, f)) /\ Cardinality(Missed(ap, lg, f)) <= Cardinality(rest)
    BY <1>2, <1>4, FS_Subset
  <1>6. Cardinality(Missed(ap, lg, f)) \in Nat
    BY <1>5, FS_CardinalityType
  <1> QED
    BY <1>3, <1>5, <1>6 DEF k

\* Who has applied more misses no more, and an entry that is no client's is missed by nobody.
LEMMA MissedLess ==
    ASSUME NEW ids, NEW ap \in [ids -> Nat], NEW lg \in Seq(SimEntry), NEW f \in ids,
           NEW more, NEW ap2 \in [more -> Nat], ids \subseteq more, ap[f] <= ap2[f], NEW lg2,
           lg2 = lg \/ \E e \in SimEntry : e.kind # "data" /\ lg2 = Append(lg, e)
    PROVE  Cardinality(Missed(ap2, lg2, f)) <= Cardinality(Missed(ap, lg, f))
  <1>1. ap[f] \in Nat /\ ap2[f] \in Nat /\ Len(lg) \in Nat
    OBVIOUS
  <1>2. \A i \in (ap2[f] + 1)..Len(lg) : i \in (ap[f] + 1)..Len(lg)
    BY <1>1
  <1>3. Missed(ap2, lg2, f) \in SUBSET Missed(ap, lg, f)
    <2>1. CASE lg2 = lg
      BY <1>2, <2>1 DEF Missed
    <2>2. CASE \E e \in SimEntry : e.kind # "data" /\ lg2 = Append(lg, e)
      <3>1. PICK e \in SimEntry : e.kind # "data" /\ lg2 = Append(lg, e)
        BY <2>2
      <3>2. Len(lg2) = Len(lg) + 1 /\ lg2[Len(lg) + 1] = e /\ \A i \in 1..Len(lg) : lg2[i] = lg[i]
        BY <3>1
      <3>3. \A i \in (ap2[f] + 1)..Len(lg2) : i = Len(lg) + 1 \/ (i \in (ap2[f] + 1)..Len(lg) /\ i \in 1..Len(lg))
        <4> DEFINE a == ap2[f]
                   n == Len(lg)
                   m == Len(lg2)
        <4>1. a \in Nat /\ n \in Nat /\ m = n + 1
          BY <1>1, <3>2
        <4> HIDE DEF a, n, m
        <4>2. \A i \in (a + 1)..m : i = n + 1 \/ (i \in (a + 1)..n /\ i \in 1..n)
          BY <4>1
        <4> QED
          BY <4>2 DEF a, n, m
      <3> QED
        BY <1>2, <3>1, <3>2, <3>3 DEF Missed
    <2> QED
      BY <2>1, <2>2
  <1> QED
    BY <1>3, MissedFew, FS_Subset

\* A map stays true when nodes join or apply more, and when an entry is logged that is no client's.
LEMMA MapKept ==
    ASSUME NEW sh, NEW ids, NEW ap \in [ids -> Nat], NEW lg \in Seq(SimEntry), MapTrue(sh, ids, ap, lg),
           NEW more, NEW ap2 \in [more -> Nat], ids \subseteq more, \A f \in ids : ap[f] <= ap2[f], NEW lg2 \in Seq(SimEntry),
           lg2 = lg \/ \E e \in SimEntry : e.kind # "data" /\ lg2 = Append(lg, e)
    PROVE  MapTrue(sh, more, ap2, lg2)
  <1>1. sh \in Seq(Shard(ids)) /\ Consecutive(sh, Len(sh)) /\ \A i \in 1..Len(sh) : ShardTrue(sh[i], ids, ap, lg)
    BY DEF MapTrue
  <1>2. Lags(ids) \subseteq Lags(more)
    BY DEF Lags
  <1>3. Shard(ids) \subseteq Shard(more)
    BY <1>2 DEF Shard
  <1>4. sh \in Seq(Shard(more))
    BY <1>1, <1>3
  <1>5. ASSUME NEW i \in 1..Len(sh) PROVE ShardTrue(sh[i], more, ap2, lg2)
    <2> DEFINE shard == sh[i]
    <2>1. shard \in Shard(ids) /\ shard.leader \notin shard.followers /\ LagsTrue(shard, ap, lg)
      BY <1>1 DEF ShardTrue
    <2> HIDE DEF shard
    <2>2. shard.lag \in Lags(ids)
      BY <2>1 DEF Shard
    <2>3. \A f \in DOMAIN shard.lag : f \in ids /\ shard.lag[f] \in Nat
      BY <2>2, LagsAre
    <2>4. ASSUME NEW f \in DOMAIN shard.lag PROVE Cardinality(Missed(ap2, lg2, f)) <= shard.lag[f]
      <3>1. f \in ids /\ f \in more /\ ap[f] <= ap2[f] /\ shard.lag[f] \in Nat
        BY <2>3
      <3>2. Cardinality(Missed(ap2, lg2, f)) <= Cardinality(Missed(ap, lg, f))
        BY <3>1, MissedLess
      <3>3. Cardinality(Missed(ap2, lg2, f)) \in Nat /\ Cardinality(Missed(ap, lg, f)) \in Nat
        BY <3>1, MissedFew
      <3>4. Cardinality(Missed(ap, lg, f)) <= shard.lag[f]
        BY <2>1 DEF LagsTrue
      <3> QED
        BY <3>1, <3>2, <3>3, <3>4
    <2>5. shard \in Shard(more)
      BY <1>3, <2>1
    <2> QED
      BY <2>1, <2>4, <2>5 DEF ShardTrue, LagsTrue, shard
  <1> QED
    BY <1>1, <1>4, <1>5 DEF MapTrue

\* A replica set dealt anew has the lags of the moment.
LEMMA DealtTrue ==
    ASSUME NEW ids, NEW ap \in [ids -> Nat], NEW lg \in Seq(SimEntry), NEW start \in Nat, NEW end \in Nat,
           NEW l, l \in ids \cup {None}, NEW followers \in SUBSET ids, l \notin followers
    PROVE  ShardTrue([start |-> start, end |-> end, leader |-> l, followers |-> followers,
                      lag |-> [f \in followers |-> Lag(ap, f, Len(lg))]], ids, ap, lg)
  <1> DEFINE lag == [f \in followers |-> Lag(ap, f, Len(lg))]
             shard == [start |-> start, end |-> end, leader |-> l, followers |-> followers, lag |-> lag]
  <1>1. \A f \in followers : Lag(ap, f, Len(lg)) \in Nat /\ Cardinality(Missed(ap, lg, f)) <= Lag(ap, f, Len(lg))
    BY MissedFew
  <1>2. lag \in [followers -> Nat]
    BY <1>1
  <1>3. lag \in Lags(ids)
    BY <1>2, LagsAre
  <1>4. \A f \in DOMAIN lag : f \in followers /\ lag[f] = Lag(ap, f, Len(lg))
    OBVIOUS
  <1>5. \A f \in DOMAIN lag : Cardinality(Missed(ap, lg, f)) <= lag[f]
    BY <1>1, <1>4
  <1> HIDE DEF lag
  <1>6. shard \in Shard(ids) /\ shard.leader = l /\ shard.followers = followers /\ shard.lag = lag
    BY <1>3 DEF Shard
  <1> HIDE DEF shard
  <1>7. ShardTrue(shard, ids, ap, lg)
    BY <1>5, <1>6 DEF ShardTrue, LagsTrue
  <1> QED
    BY <1>7 DEF shard, lag

\* The dealing in turn picks one of the healthy nodes.
LEMMA OrderIn ==
    ASSUME NEW healthy, IsFiniteSet(healthy), healthy # {}, NEW order \in SetToSeqs(healthy), NEW i \in Nat, i >= 1
    PROVE  order[((i - 1) % Len(order)) + 1] \in healthy
  <1> DEFINE k == Cardinality(healthy)
  <1>1. k \in Nat /\ k # 0
    BY FS_CardinalityType, FS_EmptySet
  <1>2. order \in [1..k -> healthy]
    BY DEF SetToSeqs
  <1> HIDE DEF k
  <1>3. Len(order) = k
    BY <1>1, <1>2
  <1>4. (i - 1) % k \in 0..(k - 1)
    BY <1>1
  <1>5. ((i - 1) % k) + 1 \in 1..k
    BY <1>1, <1>4
  <1> QED
    BY <1>2, <1>3, <1>5

\* The map dealt anew is a map of the same shards, and a leader that serves leads them all.
DealtAnew(new, sh, ids, ns, l, ap, lg) ==
    /\ MapTrue(new, ids, ap, lg)
    /\ DOMAIN new = DOMAIN sh
    /\ l \in Serving(ns) => \A i \in DOMAIN sh : new[i].leader = l

\* rebalance_replica_sets deals a true map anew, with and without a serving leader.
LEMMA ReplicaTrue ==
    ASSUME NEW sh, NEW ids, NEW ns \in [ids -> Member], ids \subseteq Nodes, NEW ap \in [ids -> Nat], NEW lg \in Seq(SimEntry),
           MapTrue(sh, ids, ap, lg), NEW l, NEW order \in Orders(ns)
    PROVE  DealtAnew(ReplicaSets(sh, ns, l, ap, Len(lg), order), sh, ids, ns, l, ap, lg)
  <1> DEFINE healthy == Serving(ns)
             Primary(i) == IF l \in healthy THEN l ELSE order[((i - 1) % Len(order)) + 1]
             new == [i \in DOMAIN sh |->
                [start |-> sh[i].start, end |-> sh[i].end, leader |-> Primary(i),
                 followers |-> healthy \ {Primary(i)},
                 lag |-> [f \in healthy \ {Primary(i)} |-> Lag(ap, f, Len(lg))]]]
  <1>1. CASE healthy = {}
    <2>1. ReplicaSets(sh, ns, l, ap, Len(lg), order) = sh /\ l \notin healthy
      BY <1>1 DEF ReplicaSets
    <2> QED
      BY <2>1 DEF DealtAnew
  <1>2. CASE healthy # {}
    <2>1. ReplicaSets(sh, ns, l, ap, Len(lg), order) = new
      BY <1>2 DEF ReplicaSets
    <2>2. healthy \subseteq ids /\ IsFiniteSet(healthy)
      <3>1. healthy \subseteq ids /\ healthy \in SUBSET Nodes
        BY DEF Serving
      <3> QED
        BY <3>1, ClusterAssumption, FS_Subset
    <2>3. sh \in Seq(Shard(ids)) /\ Consecutive(sh, Len(sh)) /\ DOMAIN sh = 1..Len(sh) /\ Len(sh) \in Nat
      BY DEF MapTrue
    <2>4. ASSUME NEW i \in 1..Len(sh) PROVE Primary(i) \in healthy
      <3>1. order \in SetToSeqs(healthy)
        BY DEF Orders
      <3>2. i \in Nat /\ i >= 1
        BY <2>3
      <3> HIDE DEF healthy
      <3>3. order[((i - 1) % Len(order)) + 1] \in healthy
        BY <1>2, <2>2, <3>1, <3>2, OrderIn
      <3> QED
        BY <3>3
    <2>5. ASSUME NEW i \in 1..Len(sh)
          PROVE  /\ new[i].start = sh[i].start /\ new[i].end = sh[i].end
                 /\ new[i].leader = Primary(i) /\ ShardTrue(new[i], ids, ap, lg)
      <3>1. sh[i].start \in Nat /\ sh[i].end \in Nat
        <4>1. \A R : sh \in Seq(R) => sh[i] \in R
          BY <2>3
        <4>2. sh[i] \in Shard(ids)
          BY <2>3, <4>1
        <4> QED
          BY <4>2 DEF Shard
      <3>2. Primary(i) \in ids /\ healthy \ {Primary(i)} \in SUBSET ids /\ Primary(i) \notin healthy \ {Primary(i)}
        BY <2>2, <2>4
      <3> DEFINE p == Primary(i)
                 fs == healthy \ {p}
                 one == [start |-> sh[i].start, end |-> sh[i].end, leader |-> p, followers |-> fs,
                         lag |-> [f \in fs |-> Lag(ap, f, Len(lg))]]
      <3>3. new[i] = one
        BY <2>3
      <3>4. p \in ids /\ fs \in SUBSET ids /\ p \notin fs
        BY <3>2
      <3> HIDE DEF p, fs, healthy
      <3>5. ShardTrue(one, ids, ap, lg)
        BY <3>1, <3>4, DealtTrue
      <3>6. one.start = sh[i].start /\ one.end = sh[i].end /\ one.leader = p
        OBVIOUS
      <3> HIDE DEF one, new
      <3>7. new[i].start = sh[i].start /\ new[i].end = sh[i].end /\ new[i].leader = p /\ ShardTrue(new[i], ids, ap, lg)
        BY <3>3, <3>5, <3>6
      <3> QED
        BY <3>7 DEF p
    <2>6. DOMAIN new = 1..Len(sh)
      BY <2>3
    <2> HIDE DEF new, healthy, Primary
    <2>7. new \in Seq(Shard(ids)) /\ Len(new) = Len(sh)
      <3>1. \A i \in 1..Len(sh) : new[i] \in Shard(ids)
        BY <2>5 DEF ShardTrue
      <3>2. new = [i \in 1..Len(sh) |-> new[i]]
        BY <2>3, <2>6 DEF new
      <3>3. new \in [1..Len(sh) -> Shard(ids)]
        BY <3>1, <3>2
      <3> QED
        BY <2>3, <3>3
    <2>8. Consecutive(new, Len(sh))
      <3> DEFINE n == Len(sh)
      <3>1. n \in Nat /\ \A i \in 1..n : new[i].start = sh[i].start /\ new[i].end = sh[i].end
        BY <2>3, <2>5
      <3>2. Consecutive(sh, n)
        BY <2>3
      <3> HIDE DEF n
      <3>3. Consecutive(new, n)
        BY <3>1, <3>2, SameSlots
      <3> QED
        BY <3>3 DEF n
    <2>9. MapTrue(new, ids, ap, lg)
      BY <2>5, <2>7, <2>8 DEF MapTrue
    <2>10. l \in healthy => \A i \in DOMAIN sh : new[i].leader = l
      BY <2>3, <2>5 DEF Primary
    <2> QED
      BY <2>1, <2>3, <2>6, <2>9, <2>10 DEF healthy, DealtAnew
  <1> QED
    BY <1>1, <1>2

\* The lags brought up to date, whatever they were.
LEMMA RefreshedTrue ==
    ASSUME NEW sh, NEW ids, NEW ap0, NEW lg0, MapTrue(sh, ids, ap0, lg0),
           NEW ap \in [ids -> Nat], NEW lg \in Seq(SimEntry)
    PROVE  MapTrue(RefreshLag(sh, ap, Len(lg)), ids, ap, lg)
  <1> DEFINE new == RefreshLag(sh, ap, Len(lg))
  <1>1. /\ sh \in Seq(Shard(ids)) /\ Consecutive(sh, Len(sh)) /\ DOMAIN sh = 1..Len(sh) /\ Len(sh) \in Nat
        /\ \A i \in 1..Len(sh) : sh[i] \in Shard(ids) /\ sh[i].leader \notin sh[i].followers
    BY DEF MapTrue, ShardTrue
  <1>2. ASSUME NEW i \in 1..Len(sh)
        PROVE  new[i].start = sh[i].start /\ new[i].end = sh[i].end /\ ShardTrue(new[i], ids, ap, lg)
    <2> DEFINE shard == sh[i]
               one == [start |-> shard.start, end |-> shard.end, leader |-> shard.leader, followers |-> shard.followers,
                       lag |-> [f \in shard.followers |-> Lag(ap, f, Len(lg))]]
    <2>1. new[i] = [shard EXCEPT !.lag = [f \in shard.followers |-> Lag(ap, f, Len(lg))]]
      BY <1>1 DEF RefreshLag
    <2>2. shard \in Shard(ids) /\ shard.leader \notin shard.followers
      BY <1>1
    <2> HIDE DEF new, shard
    <2>3. /\ shard.start \in Nat /\ shard.end \in Nat /\ shard.leader \in ids \cup {None} /\ shard.followers \in SUBSET ids
          /\ new[i] = one
      BY <2>1, <2>2 DEF Shard
    <2>4. ShardTrue(one, ids, ap, lg)
      BY <2>2, <2>3, DealtTrue
    <2>5. one.start = shard.start /\ one.end = shard.end
      OBVIOUS
    <2> HIDE DEF one
    <2> QED
      BY <2>3, <2>4, <2>5 DEF shard
  <1>3. DOMAIN new = 1..Len(sh)
    BY <1>1 DEF RefreshLag
  <1>4. new \in Seq(Shard(ids)) /\ Len(new) = Len(sh)
    <2>1. \A i \in 1..Len(sh) : new[i] \in Shard(ids)
      BY <1>2 DEF ShardTrue
    <2>2. new = [i \in 1..Len(sh) |-> new[i]]
      BY <1>1 DEF RefreshLag
    <2> HIDE DEF new
    <2>3. new \in [1..Len(sh) -> Shard(ids)]
      BY <2>1, <2>2
    <2> QED
      BY <1>1, <2>3
  <1> HIDE DEF new
  <1>5. Consecutive(new, Len(sh))
    <2> DEFINE n == Len(sh)
    <2>1. n \in Nat /\ Consecutive(sh, n) /\ \A i \in 1..n : new[i].start = sh[i].start /\ new[i].end = sh[i].end
      BY <1>1, <1>2
    <2> HIDE DEF n
    <2>2. Consecutive(new, n)
      BY <2>1, SameSlots
    <2> QED
      BY <2>2 DEF n
  <1>6. MapTrue(new, ids, ap, lg)
    BY <1>2, <1>4, <1>5 DEF MapTrue
  <1> QED
    BY <1>6 DEF new

-----------------------------------------------------------------------------
(* The commit index, and the invariant of the simulator.                   *)

\* Voters are counted.
LEMMA VotersFinite ==
    ASSUME NEW ns, DOMAIN ns \subseteq Nodes, NEW iso, NEW T \in SUBSET Voters(ns, iso)
    PROVE  IsFiniteSet(T) /\ Cardinality(T) \in Nat
  <1>1. T \in SUBSET Nodes
    BY DEF Voters
  <1>2. IsFiniteSet(T)
    BY <1>1, ClusterAssumption, FS_Subset
  <1> QED
    BY <1>2, FS_CardinalityType

\* The index stays, or a majority of the voters that count has applied it.
IndexTrue(ns, iso, ap, length, index, old) ==
    /\ index \in 0..length
    /\ index = old \/ Majority({n \in Voters(ns, iso) : ap[n] >= index}, Voters(ns, iso))

\* recompute_commit_index keeps the index or finds one that a majority has applied.
LEMMA CommitIndexTrue ==
    ASSUME NEW ns, DOMAIN ns \subseteq Nodes, NEW iso, NEW ap \in [DOMAIN ns -> Nat],
           NEW length \in Nat, NEW old \in 0..length
    PROVE  IndexTrue(ns, iso, ap, length, CommitIndex(ns, iso, ap, length, old), old)
  <1> DEFINE voters == Voters(ns, iso)
             Reached(k) == Majority({n \in voters : ap[n] >= k}, voters)
             S == {k \in 0..length : Reached(k)}
             P(k) == k \in 0..length /\ Reached(k) /\ (k = length \/ ~Reached(k + 1))
  <1>0. old \in Int /\ 0 <= old /\ old <= length
    OBVIOUS
  <1>1. CASE length = 0
    <2>1. CommitIndex(ns, iso, ap, length, old) = 0
      BY <1>1 DEF CommitIndex
    <2> QED
      BY <1>0, <1>1, <2>1 DEF IndexTrue
  <1>2. CASE length # 0 /\ voters = {}
    <2>1. CommitIndex(ns, iso, ap, length, old) = old
      BY <1>2 DEF CommitIndex
    <2> QED
      BY <1>0, <2>1 DEF IndexTrue
  <1>3. CASE length # 0 /\ voters # {}
    <2>1. CommitIndex(ns, iso, ap, length, old) = CHOOSE k \in 0..length : Reached(k) /\ (k = length \/ ~Reached(k + 1))
      BY <1>3 DEF CommitIndex
    <2>2. Reached(0)
      <3>1. \A n \in voters : ap[n] >= 0
        BY DEF Voters
      <3>2. {n \in voters : ap[n] >= 0} = voters
        BY <3>1
      <3>3. Cardinality(voters) \in Nat /\ IsFiniteSet(voters)
        BY VotersFinite
      <3>4. Cardinality(voters) # 0
        BY <1>3, <3>3, FS_EmptySet
      <3> HIDE DEF voters
      <3>5. Majority(voters, voters)
        BY <3>3, <3>4 DEF Majority
      <3> QED
        BY <3>2, <3>5
    <2>3. S \in SUBSET (-1..length) /\ 0 \in S
      BY <2>2
    <2> HIDE DEF Reached
    <2>4. PICK k \in S : \A j \in S : j <= k
      <3> HIDE DEF S
      <3> QED
        BY <2>3, GreatestElement
    <2>5. k \in 0..length /\ Reached(k)
      BY <2>4
    <2>6. k = length \/ ~Reached(k + 1)
      <3> SUFFICES ASSUME k # length, Reached(k + 1) PROVE FALSE
        OBVIOUS
      <3>1. k + 1 \in 0..length
        BY <2>5
      <3>2. k + 1 \in S
        BY <3>1
      <3>3. k + 1 <= k /\ k \in Int
        BY <2>4, <2>5, <3>2
      <3> QED
        BY <3>3
    <2>7. \E j \in 0..length : Reached(j) /\ (j = length \/ ~Reached(j + 1))
      BY <2>5, <2>6
    <2>8. /\ CommitIndex(ns, iso, ap, length, old) \in 0..length
          /\ Reached(CommitIndex(ns, iso, ap, length, old))
      BY <2>1, <2>7
    <2> QED
      BY <2>8 DEF Reached, IndexTrue
  <1> QED
    BY <1>1, <1>2, <1>3

-----------------------------------------------------------------------------
GroupInv ==
    /\ epoch \in Nat /\ log \in Seq(SimEntry) /\ commit \in 0..Len(log)
    /\ Ids \subseteq Nodes /\ nodes \in [Ids -> Member] /\ leader \in Ids \cup {None}
    /\ applied \in [Ids -> Nat] /\ \A n \in Ids : applied[n] <= Len(log)
    /\ \A n \in Ids : nodes[n].role = "leader" => n = leader
    /\ sessions \in [Sessions -> Ids \cup {None}]

ShardsInv == MapTrue(shards, Ids, applied, log)

SyncInv ==
    /\ receipts \in Seq(Nat) /\ pending \in Seq(Nat)
    /\ \A i \in 1..Len(receipts) : receipts[i] = i
    /\ \A i \in 1..Len(pending) : pending[i] = Len(receipts) + i

SimInv == GroupInv /\ ShardsInv /\ TermsAscend /\ LeaderHasWholeLog /\ SyncInv

\* The lookup of a slot finds the one shard that has it.
LEMMA MapOwnsSlots ==
    ASSUME ShardsInv, NEW slot \in 0..(SlotCount - 1)
    PROVE  \E i \in 1..Len(shards) : /\ DOMAIN shards = 1..Len(shards)
                                     /\ {j \in DOMAIN shards : InRange(shards[j], slot)} = {i}
                                     /\ ShardForSlot(slot) = shards[i]
  <1>1. /\ DOMAIN shards = 1..Len(shards) /\ Len(shards) \in Nat /\ Consecutive(shards, Len(shards))
    BY DEF ShardsInv, MapTrue
  <1>2. shards[Len(shards)].end \in Nat
    BY <1>1, ConsecutiveRises
  <1>3. slot \in 0..shards[Len(shards)].end
    BY <1>2 DEF SlotCount
  <1>4. PICK i \in 1..Len(shards) : InRange(shards[i], slot) /\ \A j \in 1..Len(shards) : InRange(shards[j], slot) => j = i
    BY <1>1, <1>3, ConsecutiveCovers
  <1>5. \A j \in 1..(i - 1) : j \in 1..Len(shards) /\ j # i
    BY <1>1
  <1>6. \A j \in 1..(i - 1) : ~InRange(shards[j], slot)
    BY <1>4, <1>5
  <1>7. ShardForSlot(slot) = shards[i]
    <2> DEFINE P(k) == k \in DOMAIN shards /\ InRange(shards[k], slot) /\ \A j \in 1..(k - 1) : ~InRange(shards[j], slot)
               k0 == CHOOSE k \in DOMAIN shards : InRange(shards[k], slot) /\ \A j \in 1..(k - 1) : ~InRange(shards[j], slot)
    <2>1. \E k \in DOMAIN shards : InRange(shards[k], slot) /\ \A j \in 1..(k - 1) : ~InRange(shards[j], slot)
      BY <1>1, <1>4, <1>6
    <2>2. k0 \in DOMAIN shards /\ InRange(shards[k0], slot)
      BY <2>1
    <2>3. ShardForSlot(slot) = shards[k0]
      BY DEF ShardForSlot
    <2> HIDE DEF k0
    <2>4. k0 = i
      BY <1>1, <1>4, <2>2
    <2> QED
      BY <2>3, <2>4
  <1>8. {j \in DOMAIN shards : InRange(shards[j], slot)} = {i}
    BY <1>1, <1>4
  <1> QED
    BY <1>1, <1>7, <1>8

\* The invariant says what SimulatorSafe promises.
LEMMA SimInvIsSafe ==
    ASSUME SimInv
    PROVE  SimulatorSafe
  <1> USE DEF SimInv
  <1>1. SlotsPartitioned
    <2> SUFFICES ASSUME NEW slot \in 0..(SlotCount - 1)
                 PROVE  Cardinality({i \in DOMAIN shards : InRange(shards[i], slot)}) = 1
      BY DEF SlotsPartitioned
    <2>1. PICK i \in 1..Len(shards) : {j \in DOMAIN shards : InRange(shards[j], slot)} = {i}
      BY MapOwnsSlots
    <2> QED
      BY <2>1, FS_Singleton
  <1>2. EventualMissesFew
    <2> SUFFICES ASSUME NEW slot \in 0..(SlotCount - 1), NEW f \in FollowersInBound(ShardForSlot(slot))
                 PROVE  Cardinality(Missed(applied, log, f)) <= MaxEventualLag
      BY DEF EventualMissesFew, Missed
    <2>1. PICK i \in 1..Len(shards) : ShardForSlot(slot) = shards[i]
      BY MapOwnsSlots
    <2> DEFINE shard == shards[i]
    <2>2. f \in Ids /\ f \in DOMAIN shard.lag /\ shard.lag[f] <= MaxEventualLag
      BY <2>1 DEF FollowersInBound
    <2>3. ShardTrue(shard, Ids, applied, log)
      BY DEF ShardsInv, MapTrue
    <2>4. shard.lag \in Lags(Ids) /\ Cardinality(Missed(applied, log, f)) <= shard.lag[f]
      <3> HIDE DEF shard
      <3> QED
        BY <2>2, <2>3 DEF ShardTrue, Shard, LagsTrue
    <2>5. shard.lag[f] \in Nat
      BY <2>2, <2>4, LagsAre
    <2>6. Cardinality(Missed(applied, log, f)) \in Nat
      BY <2>2, MissedFew DEF GroupInv
    <2>7. MaxEventualLag \in Nat
      BY ClusterAssumption
    <2> QED
      BY <2>2, <2>4, <2>5, <2>6, <2>7
  <1>3. SyncsDrainOnce
    <2> DEFINE n == Len(receipts)
               m == Len(pending)
               all == receipts \o pending
    <2>1. n \in Nat /\ m \in Nat /\ all \in Seq(Nat) /\ Len(all) = n + m
      BY DEF SyncInv
    <2>2. ASSUME NEW i \in 1..(n + m) PROVE all[i] = i
      <3>1. CASE i <= n
        BY <2>1, <3>1 DEF SyncInv
      <3>2. CASE i > n
        <4>1. i - n \in 1..m /\ n + (i - n) = i
          BY <2>1, <3>2
        <4>2. all[i] = pending[i - n]
          BY <2>1, <3>2 DEF SyncInv
        <4> QED
          BY <4>1, <4>2 DEF SyncInv
      <3> QED
        BY <2>1, <3>1, <3>2
    <2>3. all = [i \in 1..(n + m) |-> all[i]]
      <3>1. \A s : s \in Seq(Nat) => s = [i \in 1..Len(s) |-> s[i]]
        OBVIOUS
      <3> HIDE DEF all
      <3> QED
        BY <2>1, <3>1
    <2> QED
      BY <2>2, <2>3 DEF SyncsDrainOnce
  <1>4. ClusterTypeOK
    <2>1. \A i \in DOMAIN shards : shards[i].leader \in Ids \cup {None} /\ shards[i].followers \subseteq Ids \ {shards[i].leader}
      <3> SUFFICES ASSUME NEW i \in DOMAIN shards
                   PROVE  shards[i].leader \in Ids \cup {None} /\ shards[i].followers \subseteq Ids \ {shards[i].leader}
        OBVIOUS
      <3>1. ShardTrue(shards[i], Ids, applied, log)
        BY DEF ShardsInv, MapTrue
      <3> QED
        BY <3>1 DEF ShardTrue, Shard
    <2> QED
      BY <2>1 DEF ClusterTypeOK, GroupInv
  <1> QED
    BY <1>1, <1>2, <1>3, <1>4 DEF SimulatorSafe

-----------------------------------------------------------------------------
(* What a step keeps.  Commits is the action of CommitIsReached.           *)

Commits == commit' # commit =>
    Majority({n \in Voters(nodes', isolated') : applied'[n] >= commit'}, Voters(nodes', isolated'))
StepKeeps == SimInv' /\ Commits

\* Logging an entry of the current epoch, or a barrier of a new one.
LEMMA AppendTerms ==
    ASSUME log \in Seq(SimEntry), TermsAscend, epoch \in Nat, epoch' \in Nat, epoch <= epoch',
           NEW e \in SimEntry, log' = Append(log, e), epoch <= e.term, e.term <= epoch', e.kind = "noop" => epoch < e.term
    PROVE  TermsAscend' /\ log' \in Seq(SimEntry) /\ Len(log') = Len(log) + 1
  <1> DEFINE n == Len(log)
  <1>1. /\ n \in Nat /\ log' \in Seq(SimEntry) /\ Len(log') = n + 1 /\ log'[n + 1] = e
        /\ \A i \in 1..n : log'[i] = log[i] /\ log[i].term \in Nat
        /\ DOMAIN log = 1..n /\ DOMAIN log' = 1..(n + 1)
    <2>1. \A i \in 1..n : log[i] \in SimEntry
      OBVIOUS
    <2> QED
      BY <2>1 DEF SimEntry
  <1>2. e.term \in Nat
    BY DEF SimEntry
  <1>3. /\ \A i \in 1..n : log[i].term <= epoch
        /\ \A i \in 1..n : \A j \in 1..i : log[j].term <= log[i].term
        /\ \A i \in 1..n : \A j \in 1..n : log[i].kind = "noop" /\ log[j].kind = "noop" /\ i # j => log[i].term # log[j].term
    BY <1>1 DEF TermsAscend
  <1> HIDE DEF n
  <1>4. ASSUME NEW i \in 1..(n + 1) PROVE log'[i].term <= epoch' /\ \A j \in 1..i : log'[j].term <= log'[i].term
    <2>1. CASE i = n + 1
      <3>1. log'[i].term = e.term
        BY <1>1, <2>1
      <3>2. ASSUME NEW j \in 1..i PROVE log'[j].term <= e.term
        <4>1. CASE j = n + 1
          BY <1>1, <1>2, <4>1
        <4>2. CASE j # n + 1
          <5>1. j \in 1..n
            BY <1>1, <2>1, <4>2
          <5>2. log'[j].term = log[j].term /\ log[j].term <= epoch /\ log[j].term \in Nat
            BY <1>1, <1>3, <5>1
          <5> QED
            BY <1>2, <5>2
        <4> QED
          BY <4>1, <4>2
      <3> QED
        BY <3>1, <3>2
    <2>2. CASE i # n + 1
      <3>1. i \in 1..n /\ \A j \in 1..i : j \in 1..n
        BY <1>1, <2>2
      <3>2. log'[i].term = log[i].term /\ log[i].term <= epoch /\ log[i].term \in Nat
        BY <1>1, <1>3, <3>1
      <3>3. \A j \in 1..i : log'[j].term <= log'[i].term
        BY <1>1, <1>3, <3>1
      <3>4. log'[i].term <= epoch'
        <4> DEFINE x == log'[i].term
        <4>1. x \in Nat /\ x <= epoch
          BY <3>2
        <4> HIDE DEF x
        <4>2. x <= epoch'
          BY <4>1
        <4> QED
          BY <4>2 DEF x
      <3> QED
        BY <3>3, <3>4
    <2> QED
      BY <2>1, <2>2
  <1>5. ASSUME NEW i \in 1..(n + 1), NEW j \in 1..(n + 1), log'[i].kind = "noop", log'[j].kind = "noop", i # j
        PROVE  log'[i].term # log'[j].term
    <2>1. ASSUME NEW k \in 1..n, e.kind = "noop" PROVE log'[k].term # e.term
      BY <1>1, <1>2, <1>3, <2>1
    <2>2. CASE i = n + 1
      <3>1. j \in 1..n
        BY <1>1, <1>5, <2>2
      <3> QED
        BY <1>1, <1>5, <2>1, <2>2, <3>1
    <2>3. CASE j = n + 1
      <3>1. i \in 1..n
        BY <1>1, <1>5, <2>3
      <3> QED
        BY <1>1, <1>5, <2>1, <2>3, <3>1
    <2>4. CASE i # n + 1 /\ j # n + 1
      <3>1. i \in 1..n /\ j \in 1..n
        BY <1>1, <2>4
      <3> QED
        BY <1>1, <1>3, <1>5, <3>1
    <2> QED
      BY <2>2, <2>3, <2>4
  <1>6. TermsAscend'
    BY <1>1, <1>4, <1>5 DEF TermsAscend
  <1> QED
    BY <1>1, <1>6 DEF n

\* Statuses, roles and heartbeats change, and perhaps the leader steps down.
LEMMA NodesOnly ==
    ASSUME SimInv, nodes' \in [Ids -> Member], leader' = leader \/ leader' = None,
           \A n \in Ids : nodes'[n].role = "leader" => n = leader',
           UNCHANGED <<epoch, shards, log, commit, applied, sessions, pending, receipts>>
    PROVE  StepKeeps
  <1>1. Ids' = Ids
    BY DEF Ids
  <1>2. GroupInv'
    BY <1>1 DEF SimInv, GroupInv
  <1>3. ShardsInv' /\ SyncInv' /\ TermsAscend'
    BY <1>1 DEF SimInv, ShardsInv, SyncInv, TermsAscend
  <1>4. LeaderHasWholeLog'
    BY DEF SimInv, LeaderHasWholeLog
  <1> QED
    BY <1>2, <1>3, <1>4 DEF SimInv, StepKeeps, Commits

\* heartbeat.
LEMMA HeartbeatKeeps ==
    ASSUME SimInv, NEW n \in Nodes, NEW t \in 0..MaxTick, Heartbeat(n, t)
    PROVE  StepKeeps
  <1>1. nodes \in [Ids -> Member] /\ n \in Ids /\ nodes[n] \in Member
    BY DEF SimInv, GroupInv, Heartbeat
  <1>2. t \in Nat
    BY ClusterAssumption
  <1>3. nodes' = [nodes EXCEPT ![n].beat = t, ![n].status = IF @ = "dead" THEN @ ELSE "healthy"]
    BY DEF Heartbeat
  <1>4. \A m \in Ids : nodes'[m] \in Member /\ nodes'[m].role = nodes[m].role
    BY <1>1, <1>2, <1>3 DEF Member
  <1>5. DOMAIN nodes' = Ids
    BY <1>1, <1>3
  <1>6. nodes' = [m \in Ids |-> nodes'[m]]
    BY <1>1, <1>3
  <1>7. nodes' \in [Ids -> Member]
    BY <1>4, <1>6
  <1> QED
    BY <1>4, <1>7, NodesOnly DEF Heartbeat, SimInv, GroupInv

\* set_node_status.
LEMMA SetNodeStatusKeeps ==
    ASSUME SimInv, NEW n \in Nodes, NEW st \in {"healthy", "suspect", "dead"}, SetNodeStatus(n, st)
    PROVE  StepKeeps
  <1>1. nodes \in [Ids -> Member] /\ n \in Ids /\ nodes[n] \in Member
    BY DEF SimInv, GroupInv, SetNodeStatus
  <1>2. nodes' = [nodes EXCEPT ![n].status = st]
    BY DEF SetNodeStatus
  <1>3. \A m \in Ids : nodes'[m] \in Member /\ nodes'[m].role = nodes[m].role
    BY <1>1, <1>2 DEF Member
  <1>4. nodes' = [m \in Ids |-> nodes'[m]]
    BY <1>1, <1>2
  <1>5. nodes' \in [Ids -> Member]
    BY <1>3, <1>4
  <1> QED
    BY <1>3, <1>5, NodesOnly DEF SetNodeStatus, SimInv, GroupInv

\* refresh_roles changes roles only, and leaves one leader at most.
LEMMA RefreshedRoles ==
    ASSUME NEW ids, NEW ns \in [ids -> Member], NEW l
    PROVE  /\ RefreshRoles(ns, l) \in [ids -> Member]
           /\ \A n \in ids : /\ RefreshRoles(ns, l)[n].role = "leader" => n = l
                             /\ RefreshRoles(ns, l)[n].status = ns[n].status
  <1> DEFINE new == RefreshRoles(ns, l)
  <1>1. new = [n \in ids |-> [ns[n] EXCEPT !.role = IF n = l THEN "leader" ELSE "follower"]]
    BY DEF RefreshRoles
  <1>2. ASSUME NEW n \in ids
        PROVE  new[n] \in Member /\ (new[n].role = "leader" => n = l) /\ new[n].status = ns[n].status
    <2>1. ns[n] \in Member
      OBVIOUS
    <2>2. new[n] = [ns[n] EXCEPT !.role = IF n = l THEN "leader" ELSE "follower"]
      BY <1>1
    <2> DEFINE m == ns[n]
    <2> HIDE DEF m, new
    <2> QED
      BY <2>1, <2>2 DEF Member, m
  <1>3. new = [n \in ids |-> new[n]]
    BY <1>1
  <1> HIDE DEF new
  <1>4. new \in [ids -> Member]
    BY <1>2, <1>3
  <1> QED
    BY <1>2, <1>4 DEF new

\* update_liveness changes statuses only.
LEMMA LiveTrue ==
    ASSUME NEW ids, NEW ns \in [ids -> Member], NEW now
    PROVE  Live(ns, now) \in [ids -> Member] /\ \A n \in ids : Live(ns, now)[n].role = ns[n].role
  <1> DEFINE new == Live(ns, now)
             Age(n) == IF now > ns[n].beat THEN now - ns[n].beat ELSE 0
             St(n) == IF Age(n) >= DeadAfter THEN "dead" ELSE IF Age(n) >= SuspectAfter THEN "suspect" ELSE "healthy"
  <1>1. new = [n \in ids |-> [ns[n] EXCEPT !.status = St(n)]]
    BY DEF Live
  <1> HIDE DEF Age
  <1>2. \A n \in ids : St(n) \in {"dead", "suspect", "healthy"}
    OBVIOUS
  <1> HIDE DEF St
  <1>3. ASSUME NEW n \in ids PROVE new[n] \in Member /\ new[n].role = ns[n].role
    <2>1. ns[n] \in Member
      OBVIOUS
    <2>2. new[n] = [ns[n] EXCEPT !.status = St(n)]
      BY <1>1
    <2> HIDE DEF new
    <2> QED
      BY <1>2, <2>1, <2>2 DEF Member
  <1>4. new = [n \in ids |-> new[n]]
    BY <1>1
  <1> HIDE DEF new
  <1>5. new \in [ids -> Member]
    BY <1>3, <1>4
  <1> QED
    BY <1>3, <1>5 DEF new

\* step_down.
LEMMA StepDownKeeps ==
    ASSUME SimInv, StepDown
    PROVE  StepKeeps
  <1>1. nodes \in [Ids -> Member] /\ nodes' = RefreshRoles(nodes, None) /\ leader' = None
    BY DEF SimInv, GroupInv, StepDown
  <1>2. nodes' \in [Ids -> Member] /\ \A n \in Ids : nodes'[n].role = "leader" => n = None
    BY <1>1, RefreshedRoles
  <1> QED
    BY <1>1, <1>2, NodesOnly DEF StepDown

\* The first half of tick.
LEMMA TickKeeps ==
    ASSUME SimInv, NEW t \in 0..MaxTick, Tick(t)
    PROVE  StepKeeps
  <1>1. nodes \in [Ids -> Member] /\ nodes' = Live(nodes, t)
    BY DEF SimInv, GroupInv, Tick
  <1>2. nodes' \in [Ids -> Member] /\ \A n \in Ids : nodes'[n].role = nodes[n].role
    BY <1>1, LiveTrue
  <1> QED
    BY <1>2, NodesOnly DEF Tick, SimInv, GroupInv

\* The same statuses, the same voters.
LEMMA VotersSame ==
    ASSUME NEW ns, NEW ms, DOMAIN ms = DOMAIN ns, \A n \in DOMAIN ns : ms[n].status = ns[n].status, NEW iso
    PROVE  Voters(ms, iso) = Voters(ns, iso)
  BY DEF Voters

\* An election, whichever path led to it: a new epoch, a barrier that only the new leader has applied.
LEMMA ElectKeeps ==
    ASSUME SimInv, NEW ns \in [Ids -> Member], NEW c \in Ids, Elect(ns, c),
           UNCHANGED <<sessions, isolated, pending, receipts>>
    PROVE  /\ StepKeeps /\ leader' = c
           /\ \A n \in Ids : nodes'[n].status = ns[n].status
           /\ DOMAIN nodes' = Ids /\ DOMAIN shards' = DOMAIN shards
           /\ c \in Serving(ns) => \A i \in DOMAIN shards : shards'[i].leader = c
  <1> DEFINE n == Len(log)
             e == [term |-> epoch + 1, kind |-> "noop"]
  <1>1. /\ epoch \in Nat /\ log \in Seq(SimEntry) /\ commit \in 0..n /\ n \in Nat
        /\ Ids \subseteq Nodes /\ nodes \in [Ids -> Member] /\ applied \in [Ids -> Nat] /\ \A m \in Ids : applied[m] <= n
        /\ sessions \in [Sessions -> Ids \cup {None}] /\ MapTrue(shards, Ids, applied, log) /\ TermsAscend /\ SyncInv
    BY DEF SimInv, GroupInv, ShardsInv
  <1>2. /\ epoch' = epoch + 1 /\ leader' = c /\ nodes' = RefreshRoles(ns, c)
        /\ log' = Append(log, e) /\ applied' = [applied EXCEPT ![c] = n + 1]
        /\ commit' = CommitIndex(ns, isolated, applied', Len(log'), commit)
    BY DEF Elect
  <1>3. PICK order \in Orders(ns) : shards' = ReplicaSets(shards, ns, c, applied, n, order)
    BY DEF Elect
  <1>4. /\ nodes' \in [Ids -> Member] /\ \A m \in Ids : nodes'[m].status = ns[m].status
        /\ \A m \in Ids : nodes'[m].role = "leader" => m = c
    BY <1>2, RefreshedRoles
  <1>5. Ids' = Ids /\ DOMAIN nodes' = Ids
    BY <1>4 DEF Ids
  <1>6. e \in SimEntry /\ epoch <= e.term /\ e.term <= epoch' /\ (e.kind = "noop" => epoch < e.term) /\ e.kind # "data" /\ epoch' \in Nat /\ epoch <= epoch'
    BY <1>1, <1>2 DEF SimEntry
  <1> HIDE DEF e
  <1>7. TermsAscend' /\ log' \in Seq(SimEntry) /\ Len(log') = n + 1
    BY <1>1, <1>2, <1>6, AppendTerms
  <1>8. applied' \in [Ids -> Nat] /\ applied'[c] = n + 1 /\ \A m \in Ids : applied[m] <= applied'[m] /\ applied'[m] <= n + 1
    <2> HIDE DEF n
    <2> QED
      BY <1>1, <1>2
  <1>9. /\ MapTrue(shards', Ids, applied, log) /\ DOMAIN shards' = DOMAIN shards
        /\ c \in Serving(ns) => \A i \in DOMAIN shards : shards'[i].leader = c
    <2>1. shards' = ReplicaSets(shards, ns, c, applied, Len(log), order)
      BY <1>3
    <2>2. DealtAnew(shards', shards, Ids, ns, c, applied, log)
      BY <1>1, <2>1, ReplicaTrue
    <2> QED
      BY <1>1, <2>1, <2>2 DEF DealtAnew
  <1>10. MapTrue(shards', Ids, applied', log')
    <2>1. \E x \in SimEntry : x.kind # "data" /\ log' = Append(log, x)
      BY <1>2, <1>6
    <2>2. \A m \in Ids : applied[m] <= applied'[m]
      BY <1>8
    <2> QED
      BY <1>1, <1>7, <1>8, <1>9, <2>1, <2>2, MapKept
  <1>11. IndexTrue(ns, isolated, applied', n + 1, commit', commit)
    <2>1. DOMAIN ns = Ids /\ DOMAIN ns \subseteq Nodes /\ applied' \in [DOMAIN ns -> Nat] /\ n + 1 \in Nat /\ commit \in 0..(n + 1)
      BY <1>1, <1>8
    <2>2. commit' = CommitIndex(ns, isolated, applied', n + 1, commit)
      BY <1>2, <1>7
    <2> HIDE DEF n
    <2> QED
      BY <1>1, <2>1, <2>2, CommitIndexTrue
  <1>12. Commits
    <2>1. Voters(nodes', isolated') = Voters(ns, isolated)
      BY <1>4, <1>5, VotersSame
    <2> QED
      BY <1>11, <2>1 DEF Commits, IndexTrue
  <1>13. GroupInv'
    BY <1>1, <1>2, <1>4, <1>5, <1>6, <1>7, <1>8, <1>11 DEF GroupInv, IndexTrue
  <1>14. ShardsInv' /\ SyncInv' /\ LeaderHasWholeLog'
    BY <1>1, <1>2, <1>5, <1>7, <1>8, <1>10 DEF ShardsInv, SyncInv, LeaderHasWholeLog
  <1> QED
    BY <1>2, <1>4, <1>5, <1>7, <1>9, <1>12, <1>13, <1>14 DEF StepKeeps, SimInv

\* campaign.
LEMMA CampaignKeeps ==
    ASSUME SimInv, NEW c \in Nodes, Campaign(c)
    PROVE  StepKeeps
  BY ElectKeeps DEF Campaign, SimInv, GroupInv

\* register_node, of a new node or of a known one: it keeps what it has applied.
LEMMA RegisterNodeKeeps ==
    ASSUME SimInv, NEW n \in Nodes, RegisterNode(n)
    PROVE  StepKeeps
  <1> DEFINE ids == Ids \cup {n}
             fresh == [status |-> "healthy", role |-> "follower", beat |-> 0]
             ns == [m \in ids |-> IF m = n THEN fresh ELSE nodes[m]]
             ap == [m \in ids |-> IF m \in Ids THEN applied[m] ELSE 0]
             k == Len(log)
  <1>1. /\ epoch \in Nat /\ log \in Seq(SimEntry) /\ commit \in 0..k /\ k \in Nat /\ leader \in Ids \cup {None}
        /\ Ids \subseteq Nodes /\ nodes \in [Ids -> Member] /\ applied \in [Ids -> Nat] /\ \A m \in Ids : applied[m] <= k
        /\ \A m \in Ids : nodes[m].role = "leader" => m = leader
        /\ sessions \in [Sessions -> Ids \cup {None}] /\ MapTrue(shards, Ids, applied, log) /\ TermsAscend /\ SyncInv
    BY DEF SimInv, GroupInv, ShardsInv
  <1>2. /\ nodes' = ns /\ applied' = ap /\ commit' = CommitIndex(ns, isolated, ap, k, commit)
        /\ UNCHANGED <<epoch, leader, log, sessions, isolated, pending, receipts, ticking>>
    BY DEF RegisterNode
  <1>3. PICK order \in Orders(ns) : shards' = ReplicaSets(shards, ns, leader, ap, k, order)
    BY DEF RegisterNode
  <1>4. fresh \in Member /\ fresh.role = "follower"
    BY DEF Member
  <1> HIDE DEF fresh
  <1>5. ns \in [ids -> Member] /\ \A m \in ids : ns[m].role = "leader" => m = leader
    <2>1. \A m \in ids : m = n \/ m \in Ids
      OBVIOUS
    <2> HIDE DEF ids
    <2> QED
      BY <1>1, <1>4, <2>1
  <1>6. ap \in [ids -> Nat] /\ (\A m \in ids : ap[m] <= k) /\ \A m \in Ids : ap[m] = applied[m] /\ applied[m] <= ap[m]
    <2> HIDE DEF k
    <2> QED
      BY <1>1
  <1>7. ids \subseteq Nodes /\ Ids \subseteq ids /\ DOMAIN ns = ids
    BY <1>1
  <1> HIDE DEF ns, ap, ids
  <1>8. MapTrue(shards, ids, ap, log)
    BY <1>1, <1>6, <1>7, MapKept
  <1>9. MapTrue(shards', ids, ap, log)
    BY <1>1, <1>3, <1>5, <1>6, <1>7, <1>8, ReplicaTrue DEF DealtAnew
  <1>10. IndexTrue(ns, isolated, ap, k, commit', commit)
    BY <1>1, <1>2, <1>6, <1>7, CommitIndexTrue
  <1>11. Ids' = ids
    BY <1>2, <1>7 DEF Ids
  <1>12. Commits
    BY <1>2, <1>10 DEF Commits, IndexTrue
  <1>13. GroupInv'
    <2>1. sessions \in [Sessions -> ids \cup {None}] /\ leader \in ids \cup {None}
      BY <1>1, <1>7
    <2> QED
      BY <1>1, <1>2, <1>5, <1>6, <1>7, <1>10, <1>11, <2>1 DEF GroupInv, IndexTrue
  <1>14. LeaderHasWholeLog'
    <2>1. leader # None => leader \in Ids /\ applied[leader] = k
      BY <1>1 DEF SimInv, LeaderHasWholeLog
    <2> QED
      BY <1>2, <1>6, <2>1 DEF LeaderHasWholeLog
  <1>15. ShardsInv' /\ SyncInv' /\ TermsAscend'
    BY <1>1, <1>2, <1>9, <1>11 DEF ShardsInv, SyncInv, TermsAscend
  <1> QED
    BY <1>12, <1>13, <1>14, <1>15 DEF StepKeeps, SimInv

\* append_entry: the lags are brought up to date with the entry in the log.
LEMMA AppendEntryKeeps ==
    ASSUME SimInv, AppendEntry
    PROVE  StepKeeps
  <1> DEFINE n == Len(log)
             e == [term |-> epoch, kind |-> "data"]
  <1>1. /\ epoch \in Nat /\ log \in Seq(SimEntry) /\ commit \in 0..n /\ n \in Nat /\ leader \in Ids
        /\ Ids \subseteq Nodes /\ nodes \in [Ids -> Member] /\ applied \in [Ids -> Nat] /\ \A m \in Ids : applied[m] <= n
        /\ \A m \in Ids : nodes[m].role = "leader" => m = leader
        /\ sessions \in [Sessions -> Ids \cup {None}] /\ MapTrue(shards, Ids, applied, log) /\ TermsAscend /\ SyncInv
    BY DEF SimInv, GroupInv, ShardsInv, AppendEntry
  <1>2. /\ log' = Append(log, e) /\ applied' = [applied EXCEPT ![leader] = n + 1]
        /\ shards' = RefreshLag(shards, applied', Len(log'))
        /\ commit' = CommitIndex(nodes, isolated, applied', Len(log'), commit)
        /\ UNCHANGED <<epoch, leader, nodes, sessions, isolated, pending, receipts>>
    BY DEF AppendEntry
  <1>3. Ids' = Ids
    BY <1>2 DEF Ids
  <1>4. e \in SimEntry /\ epoch <= e.term /\ e.term <= epoch' /\ e.kind # "noop" /\ epoch' \in Nat /\ epoch <= epoch'
    BY <1>1, <1>2 DEF SimEntry
  <1> HIDE DEF e
  <1>5. TermsAscend' /\ log' \in Seq(SimEntry) /\ Len(log') = n + 1
    BY <1>1, <1>2, <1>4, AppendTerms
  <1>6. applied' \in [Ids -> Nat] /\ applied'[leader] = n + 1 /\ \A m \in Ids : applied'[m] <= n + 1
    <2> HIDE DEF n
    <2> QED
      BY <1>1, <1>2
  <1>7. MapTrue(shards', Ids, applied', log')
    BY <1>1, <1>2, <1>5, <1>6, RefreshedTrue
  <1>8. IndexTrue(nodes, isolated, applied', n + 1, commit', commit)
    <2>1. DOMAIN nodes = Ids /\ DOMAIN nodes \subseteq Nodes /\ applied' \in [DOMAIN nodes -> Nat] /\ n + 1 \in Nat /\ commit \in 0..(n + 1)
      BY <1>1, <1>6
    <2>2. commit' = CommitIndex(nodes, isolated, applied', n + 1, commit)
      BY <1>2, <1>5
    <2> HIDE DEF n
    <2> QED
      BY <1>1, <2>1, <2>2, CommitIndexTrue
  <1>9. Commits
    BY <1>2, <1>8 DEF Commits, IndexTrue
  <1>10. GroupInv'
    BY <1>1, <1>2, <1>3, <1>5, <1>6, <1>8 DEF GroupInv, IndexTrue
  <1>11. ShardsInv' /\ SyncInv' /\ LeaderHasWholeLog'
    BY <1>1, <1>2, <1>3, <1>5, <1>6, <1>7 DEF ShardsInv, SyncInv, LeaderHasWholeLog
  <1> QED
    BY <1>5, <1>9, <1>10, <1>11 DEF StepKeeps, SimInv

\* replicate_to_followers.
LEMMA ReplicateKeeps ==
    ASSUME SimInv, ReplicateToFollowers
    PROVE  StepKeeps
  <1> DEFINE n == Len(log)
  <1>1. /\ epoch \in Nat /\ log \in Seq(SimEntry) /\ commit \in 0..n /\ n \in Nat /\ leader \in Ids \cup {None}
        /\ Ids \subseteq Nodes /\ nodes \in [Ids -> Member] /\ applied \in [Ids -> Nat] /\ \A m \in Ids : applied[m] <= n
        /\ MapTrue(shards, Ids, applied, log)
    BY DEF SimInv, GroupInv, ShardsInv
  <1>2. /\ applied' = [m \in Ids |-> IF m # leader /\ m \in Serving(nodes) THEN n ELSE applied[m]]
        /\ shards' = RefreshLag(shards, applied', n)
        /\ commit' = CommitIndex(nodes, isolated, applied', n, commit)
        /\ UNCHANGED <<epoch, leader, nodes, log, sessions, isolated, pending, receipts>>
    BY DEF ReplicateToFollowers
  <1>3. Ids' = Ids
    BY <1>2 DEF Ids
  <1>4. applied' \in [Ids -> Nat] /\ (\A m \in Ids : applied'[m] <= n) /\ (leader # None => applied'[leader] = applied[leader])
    <2> HIDE DEF n
    <2>1. \A m \in Ids : applied'[m] \in Nat /\ applied'[m] <= n
      BY <1>1, <1>2
    <2>2. DOMAIN applied' = Ids /\ applied' = [m \in Ids |-> applied'[m]]
      BY <1>2
    <2>3. leader # None => applied'[leader] = applied[leader]
      BY <1>1, <1>2
    <2> QED
      BY <2>1, <2>2, <2>3
  <1>5. MapTrue(shards', Ids, applied', log)
    BY <1>1, <1>2, <1>4, RefreshedTrue
  <1>6. IndexTrue(nodes, isolated, applied', n, commit', commit)
    <2>1. DOMAIN nodes = Ids /\ DOMAIN nodes \subseteq Nodes /\ applied' \in [DOMAIN nodes -> Nat]
      BY <1>1, <1>4
    <2> HIDE DEF n
    <2> QED
      BY <1>1, <1>2, <2>1, CommitIndexTrue
  <1>7. Commits
    BY <1>2, <1>6 DEF Commits, IndexTrue
  <1>8. GroupInv'
    BY <1>1, <1>2, <1>3, <1>4, <1>6 DEF GroupInv, SimInv, IndexTrue
  <1>9. ShardsInv' /\ SyncInv' /\ LeaderHasWholeLog' /\ TermsAscend'
    BY <1>1, <1>2, <1>3, <1>4, <1>5 DEF ShardsInv, SyncInv, LeaderHasWholeLog, TermsAscend, SimInv
  <1> QED
    BY <1>7, <1>8, <1>9 DEF StepKeeps, SimInv

-----------------------------------------------------------------------------
(* Rebalancing, transfers, partitions, routing and failover.               *)

\* A map built shard by shard.
LEMMA MapBuilt ==
    ASSUME NEW n \in Nat, NEW new, DOMAIN new = 1..n, new = [i \in 1..n |-> new[i]], NEW ids, NEW ap, NEW lg,
           Consecutive(new, n), \A i \in 1..n : ShardTrue(new[i], ids, ap, lg)
    PROVE  MapTrue(new, ids, ap, lg)
  <1>1. \A i \in 1..n : new[i] \in Shard(ids)
    BY DEF ShardTrue
  <1>2. new \in [1..n -> Shard(ids)]
    BY <1>1
  <1>3. new \in Seq(Shard(ids)) /\ Len(new) = n
    BY <1>2
  <1> QED
    BY <1>3 DEF MapTrue

\* The same replica sets on other consecutive ranges.
Moved(sh, even) == [i \in DOMAIN sh |-> [sh[i] EXCEPT !.start = even[i].start, !.end = even[i].end]]

LEMMA MovedTrue ==
    ASSUME NEW sh, NEW ids, NEW ap, NEW lg, MapTrue(sh, ids, ap, lg), NEW even, Consecutive(even, Len(sh))
    PROVE  MapTrue(Moved(sh, even), ids, ap, lg)
  <1> DEFINE n == Len(sh)
             new == Moved(sh, even)
  <1>1. n \in Nat /\ DOMAIN sh = 1..n /\ \A i \in 1..n : ShardTrue(sh[i], ids, ap, lg)
    BY DEF MapTrue
  <1>2. \A i \in 1..n : even[i].start \in Nat /\ even[i].end \in Nat
    BY DEF Consecutive
  <1> HIDE DEF n
  <1>3. new = [i \in 1..n |-> new[i]] /\ DOMAIN new = 1..n
    BY <1>1 DEF Moved
  <1>4. ASSUME NEW i \in 1..n
        PROVE  ShardTrue(new[i], ids, ap, lg) /\ new[i].start = even[i].start /\ new[i].end = even[i].end
    <2> DEFINE shard == sh[i]
               from == even[i].start
               to == even[i].end
    <2>1. new[i] = [shard EXCEPT !.start = from, !.end = to]
      BY <1>1 DEF Moved
    <2>2. shard \in Shard(ids) /\ shard.leader \notin shard.followers /\ LagsTrue(shard, ap, lg) /\ from \in Nat /\ to \in Nat
      BY <1>1, <1>2 DEF ShardTrue
    <2> HIDE DEF new, shard, from, to
    <2>3. /\ new[i] \in Shard(ids) /\ new[i].start = from /\ new[i].end = to
          /\ new[i].leader = shard.leader /\ new[i].followers = shard.followers /\ new[i].lag = shard.lag
      BY <2>1, <2>2 DEF Shard
    <2>4. ShardTrue(new[i], ids, ap, lg)
      BY <2>2, <2>3 DEF ShardTrue, LagsTrue
    <2> QED
      BY <2>3, <2>4 DEF from, to
  <1> HIDE DEF new
  <1>5. Consecutive(new, n)
    BY <1>1, <1>4, SameSlots DEF n
  <1>6. MapTrue(new, ids, ap, lg)
    BY <1>1, <1>3, <1>4, <1>5, MapBuilt
  <1> QED
    BY <1>6 DEF new

\* rebalance: even ranges over as many slots, the replica sets dealt on them.
LEMMA RebalanceKeeps ==
    ASSUME SimInv, Rebalance
    PROVE  StepKeeps
  <1> DEFINE n == Len(log)
             e == [term |-> epoch + 1, kind |-> "metadata"]
             k == Len(shards)
             even == EvenAssignments(k, SlotCount)
             moved == Moved(shards, even)
  <1>1. /\ epoch \in Nat /\ log \in Seq(SimEntry) /\ commit \in 0..n /\ n \in Nat /\ leader \in Ids \cup {None}
        /\ Ids \subseteq Nodes /\ nodes \in [Ids -> Member] /\ applied \in [Ids -> Nat] /\ \A m \in Ids : applied[m] <= n
        /\ \A m \in Ids : nodes[m].role = "leader" => m = leader
        /\ sessions \in [Sessions -> Ids \cup {None}] /\ MapTrue(shards, Ids, applied, log) /\ TermsAscend /\ SyncInv
    BY DEF SimInv, GroupInv, ShardsInv
  <1>2. /\ epoch' = epoch + 1 /\ log' = Append(log, e)
        /\ applied' = (IF leader = None THEN applied ELSE [applied EXCEPT ![leader] = n + 1])
        /\ commit' = CommitIndex(nodes, isolated, applied', Len(log'), commit)
        /\ UNCHANGED <<leader, nodes, sessions, isolated, pending, receipts>>
    BY DEF Rebalance
  <1>3. PICK order \in Orders(nodes) : shards' = ReplicaSets(moved, nodes, leader, applied, n, order)
    BY DEF Rebalance, Moved
  <1>4. MapTrue(moved, Ids, applied, log)
    <2>1. /\ k \in Nat /\ k >= 1 /\ DOMAIN shards = 1..k /\ Consecutive(shards, k)
          /\ \A i \in 1..k : ShardTrue(shards[i], Ids, applied, log)
      BY <1>1 DEF MapTrue, Consecutive
    <2>2. SlotCount \in Nat /\ SlotCount >= k
      BY <2>1, ConsecutiveRises DEF SlotCount
    <2>3. Consecutive(even, k)
      <3> HIDE DEF k
      <3> QED
        BY <2>1, <2>2, EvenConsecutive
    <2> HIDE DEF even
    <2> QED
      BY <1>1, <2>3, MovedTrue
  <1> HIDE DEF moved
  <1>5. Ids' = Ids
    BY <1>2 DEF Ids
  <1>6. e \in SimEntry /\ epoch <= e.term /\ e.term <= epoch' /\ (e.kind = "noop" => epoch < e.term) /\ e.kind # "data" /\ epoch' \in Nat /\ epoch <= epoch'
    BY <1>1, <1>2 DEF SimEntry
  <1> HIDE DEF e
  <1>7. TermsAscend' /\ log' \in Seq(SimEntry) /\ Len(log') = n + 1
    BY <1>1, <1>2, <1>6, AppendTerms
  <1>8. applied' \in [Ids -> Nat] /\ (leader # None => applied'[leader] = n + 1) /\ \A m \in Ids : applied[m] <= applied'[m] /\ applied'[m] <= n + 1
    <2> HIDE DEF n
    <2>1. CASE leader = None
      BY <1>1, <1>2, <2>1
    <2>2. CASE leader # None
      BY <1>1, <1>2, <2>2
    <2> QED
      BY <2>1, <2>2
  <1>9. MapTrue(shards', Ids, applied, log)
    <2>1. DealtAnew(shards', moved, Ids, nodes, leader, applied, log)
      BY <1>1, <1>3, <1>4, ReplicaTrue
    <2> QED
      BY <2>1 DEF DealtAnew
  <1>10. MapTrue(shards', Ids, applied', log')
    <2>1. \E x \in SimEntry : x.kind # "data" /\ log' = Append(log, x)
      BY <1>2, <1>6
    <2>2. \A m \in Ids : applied[m] <= applied'[m]
      BY <1>8
    <2> QED
      BY <1>1, <1>7, <1>8, <1>9, <2>1, <2>2, MapKept
  <1>11. IndexTrue(nodes, isolated, applied', n + 1, commit', commit)
    <2>1. DOMAIN nodes = Ids /\ DOMAIN nodes \subseteq Nodes /\ applied' \in [DOMAIN nodes -> Nat] /\ n + 1 \in Nat /\ commit \in 0..(n + 1)
      BY <1>1, <1>8
    <2>2. commit' = CommitIndex(nodes, isolated, applied', n + 1, commit)
      BY <1>2, <1>7
    <2> HIDE DEF n
    <2> QED
      BY <1>1, <2>1, <2>2, CommitIndexTrue
  <1>12. Commits
    BY <1>2, <1>11 DEF Commits, IndexTrue
  <1>13. GroupInv'
    BY <1>1, <1>2, <1>5, <1>6, <1>7, <1>8, <1>11 DEF GroupInv, IndexTrue
  <1>14. ShardsInv' /\ SyncInv' /\ LeaderHasWholeLog'
    BY <1>1, <1>2, <1>5, <1>7, <1>8, <1>10 DEF ShardsInv, SyncInv, LeaderHasWholeLog
  <1> QED
    BY <1>7, <1>12, <1>13, <1>14 DEF StepKeeps, SimInv

\* inject_partition and heal_partition: only who counts changes.
LEMMA PartitionKeeps ==
    ASSUME SimInv, NEW iso, Partition(iso)
    PROVE  StepKeeps
  <1>1. /\ isolated' = iso /\ commit' = CommitIndex(nodes, iso, applied, Len(log), commit)
        /\ UNCHANGED <<epoch, leader, nodes, shards, log, applied, sessions, pending, receipts>>
    BY DEF Partition
  <1>2. DOMAIN nodes \subseteq Nodes /\ applied \in [DOMAIN nodes -> Nat] /\ Len(log) \in Nat /\ commit \in 0..Len(log)
    BY DEF SimInv, GroupInv, Ids
  <1>3. IndexTrue(nodes, iso, applied, Len(log), commit', commit)
    BY <1>1, <1>2, CommitIndexTrue
  <1>4. Ids' = Ids
    BY <1>1 DEF Ids
  <1>5. GroupInv'
    BY <1>1, <1>3, <1>4 DEF SimInv, GroupInv, IndexTrue
  <1>6. ShardsInv' /\ SyncInv' /\ LeaderHasWholeLog' /\ TermsAscend'
    BY <1>1, <1>4 DEF SimInv, ShardsInv, SyncInv, LeaderHasWholeLog, TermsAscend
  <1>7. Commits
    BY <1>1, <1>3 DEF Commits, IndexTrue
  <1> QED
    BY <1>5, <1>6, <1>7 DEF SimInv, StepKeeps

\* Neither the group nor the shards change.
LEMMA SyncsOnly ==
    ASSUME SimInv, SyncInv', UNCHANGED <<epoch, leader, nodes, shards, log, commit, applied, sessions, isolated>>
    PROVE  StepKeeps
  <1>1. Ids' = Ids
    BY DEF Ids
  <1>2. GroupInv' /\ ShardsInv' /\ LeaderHasWholeLog' /\ TermsAscend'
    BY <1>1 DEF SimInv, GroupInv, ShardsInv, LeaderHasWholeLog, TermsAscend
  <1> QED
    BY <1>2 DEF SimInv, StepKeeps, Commits

\* transfer_snapshot: the next number goes to the end of the queue.
LEMMA TransferKeeps ==
    ASSUME SimInv, NEW s \in Nodes, NEW t \in Nodes, TransferSnapshot(s, t)
    PROVE  StepKeeps
  <1> DEFINE n == Len(receipts)
             m == Len(pending)
  <1>1. /\ n \in Nat /\ m \in Nat /\ receipts \in Seq(Nat) /\ pending \in Seq(Nat)
        /\ \A i \in 1..n : receipts[i] = i
        /\ \A i \in 1..m : pending[i] = n + i
    BY DEF SimInv, SyncInv
  <1>2. pending' = Append(pending, m + n + 1) /\ receipts' = receipts
    BY DEF TransferSnapshot
  <1>3. pending' \in Seq(Nat) /\ Len(pending') = m + 1
    BY <1>1, <1>2
  <1>4. ASSUME NEW i \in 1..(m + 1) PROVE pending'[i] = n + i
    <2>1. CASE i = m + 1
      BY <1>1, <1>2, <2>1
    <2>2. CASE i # m + 1
      <3>1. i \in 1..m
        BY <1>1, <2>2
      <3> QED
        BY <1>1, <1>2, <3>1
    <2> QED
      BY <2>1, <2>2
  <1>5. SyncInv'
    BY <1>1, <1>2, <1>3, <1>4 DEF SyncInv
  <1> QED
    BY <1>5, SyncsOnly DEF TransferSnapshot

\* drain_syncs: the queue goes to the end of the receipts.
LEMMA DrainKeeps ==
    ASSUME SimInv, DrainSyncs
    PROVE  StepKeeps
  <1> DEFINE n == Len(receipts)
             m == Len(pending)
  <1>1. /\ n \in Nat /\ m \in Nat /\ receipts \in Seq(Nat) /\ pending \in Seq(Nat)
        /\ \A i \in 1..n : receipts[i] = i
        /\ \A i \in 1..m : pending[i] = n + i
    BY DEF SimInv, SyncInv
  <1>2. receipts' = receipts \o pending /\ pending' = <<>>
    BY DEF DrainSyncs
  <1>3. receipts' \in Seq(Nat) /\ Len(receipts') = n + m
    BY <1>1, <1>2
  <1>4. ASSUME NEW i \in 1..(n + m) PROVE receipts'[i] = i
    <2>1. CASE i <= n
      BY <1>1, <1>2, <2>1
    <2>2. CASE i > n
      <3>1. i - n \in 1..m /\ n + (i - n) = i
        BY <1>1, <2>2
      <3>2. receipts'[i] = pending[i - n]
        BY <1>1, <1>2, <2>2
      <3> QED
        BY <1>1, <3>1, <3>2
    <2> QED
      BY <1>1, <2>1, <2>2
  <1>5. SyncInv'
    BY <1>2, <1>3, <1>4 DEF SyncInv
  <1> QED
    BY <1>5, SyncsOnly DEF DrainSyncs

\* A routed read moves its session to a node of the shard.
LEMMA RouteKeeps ==
    ASSUME SimInv, NEW s \in Sessions, NEW slot \in 0..(SlotCount - 1), NEW level \in {"strong", "session", "eventual"},
           RouteReadSession(s, slot, level)
    PROVE  StepKeeps
  <1>1. /\ sessions \in [Sessions -> Ids \cup {None}] /\ ShardsInv
        /\ UNCHANGED <<epoch, leader, nodes, shards, log, commit, applied, isolated, pending, receipts>>
    BY DEF SimInv, GroupInv, RouteReadSession
  <1>2. PICK target \in ReadTargets(slot, level, sessions[s]) : sessions' = [sessions EXCEPT ![s] = target]
    BY DEF RouteReadSession
  <1>3. PICK i \in 1..Len(shards) : ShardForSlot(slot) = shards[i] /\ DOMAIN shards = 1..Len(shards)
    BY <1>1, MapOwnsSlots
  <1> DEFINE shard == shards[i]
  <1>4. shard.leader \in Ids \cup {None} /\ shard.followers \subseteq Ids
    BY <1>1, <1>3 DEF ShardsInv, MapTrue, ShardTrue, Shard
  <1>5. target \in Ids \cup {None}
    <2>1. target \in ReadTargets(slot, level, sessions[s]) /\ ShardForSlot(slot) = shard
      BY <1>2, <1>3
    <2> HIDE DEF shard
    <2>2. FollowersInBound(shard) \subseteq Ids
      BY DEF FollowersInBound
    <2>3. EventualTargets(shard) \subseteq Ids \cup {None}
      BY <1>4, <2>2 DEF EventualTargets
    <2>4. StillOk(shard, sessions[s]) => sessions[s] \in Ids
      BY DEF StillOk
    <2> QED
      BY <1>4, <2>1, <2>3, <2>4 DEF ReadTargets
  <1>6. sessions' \in [Sessions -> Ids \cup {None}]
    BY <1>1, <1>2, <1>5
  <1>7. Ids' = Ids
    BY <1>1 DEF Ids
  <1>8. GroupInv' /\ ShardsInv' /\ SyncInv' /\ LeaderHasWholeLog' /\ TermsAscend'
    BY <1>1, <1>6, <1>7 DEF SimInv, GroupInv, ShardsInv, SyncInv, LeaderHasWholeLog, TermsAscend
  <1> QED
    BY <1>1, <1>8 DEF SimInv, StepKeeps, Commits

-----------------------------------------------------------------------------
(* Failover.  Serves is the action of CheckLeavesServed.                   *)

Serves == ticking # None /\ ticking' = None =>
    \/ \A i \in DOMAIN shards' : shards'[i].leader \in Voters(nodes', isolated)
    \/ Voters(nodes', isolated) = {}
    \/ Serving(nodes') = {}
    \/ ~Majority(Serving(nodes'), Voters(nodes', {})) /\ leader' \notin Voters(nodes', isolated)

\* Who is not gone may vote, and who serves may.
LEMMA NotGoneVotes ==
    ASSUME NEW ids, NEW ns \in [ids -> Member], ids \subseteq Nodes, NEW l
    PROVE  /\ Gone(ns, l) <=> l \notin Voters(ns, isolated)
           /\ Serving(ns) \subseteq Voters(ns, isolated) /\ Serving(ns) \subseteq ids
  <1>1. None \notin ids /\ DOMAIN ns = ids
    BY ClusterAssumption
  <1>2. \A n \in ids : ns[n].status # "dead" <=> Votable(ns[n].status)
    <2> SUFFICES ASSUME NEW n \in ids PROVE ns[n].status # "dead" <=> Votable(ns[n].status)
      OBVIOUS
    <2>1. ns[n] \in Member
      OBVIOUS
    <2>2. ns[n].status \in {"healthy", "suspect", "dead"}
      BY <2>1 DEF Member
    <2> QED
      BY <2>2 DEF Votable
  <1>3. Gone(ns, l) <=> l \notin Voters(ns, isolated)
    BY <1>1, <1>2 DEF Gone, Voters, Reachable
  <1>4. Serving(ns) \subseteq Voters(ns, isolated) /\ Serving(ns) \subseteq ids
    BY <1>1 DEF Serving, Voters, Reachable, Votable
  <1> QED
    BY <1>3, <1>4

\* A promoted heir leaves the followers; the lags stay.
LEMMA PromotedTrue ==
    ASSUME NEW ids, NEW ap, NEW lg, NEW ns \in [ids -> Member], NEW shard, ShardTrue(shard, ids, ap, lg), NEW heir \in ids
    PROVE  /\ ShardTrue(Promoted(ns, shard, heir), ids, ap, lg)
           /\ Promoted(ns, shard, heir).start = shard.start /\ Promoted(ns, shard, heir).end = shard.end
           /\ Promoted(ns, shard, heir).leader = heir
  <1> DEFINE new == Promoted(ns, shard, heir)
             stay == {m \in (shard.followers \union {shard.leader}) \ {heir} : m \in DOMAIN ns /\ ns[m].status # "dead"}
  <1>1. new = [shard EXCEPT !.leader = heir, !.followers = stay]
    BY DEF Promoted
  <1>2. stay \in SUBSET ids /\ heir \notin stay
    OBVIOUS
  <1>3. shard \in Shard(ids) /\ LagsTrue(shard, ap, lg)
    BY DEF ShardTrue
  <1> HIDE DEF new, stay
  <1>4. /\ new \in Shard(ids) /\ new.start = shard.start /\ new.end = shard.end
        /\ new.leader = heir /\ new.followers = stay /\ new.lag = shard.lag
    BY <1>1, <1>2, <1>3 DEF Shard
  <1>5. ShardTrue(new, ids, ap, lg)
    BY <1>2, <1>3, <1>4 DEF ShardTrue, LagsTrue
  <1> QED
    BY <1>4, <1>5 DEF new

\* The leader of the group is gone: one of the serving nodes is elected, or they are no majority.
LEMMA GroupFailsOver ==
    ASSUME SimInv, NEW ns \in [Ids -> Member], \A n \in Ids : ns[n].role = "leader" => n = leader,
           Gone(ns, leader), FailOverGroup(ns), UNCHANGED <<sessions, isolated, pending, receipts>>
    PROVE  StepKeeps /\ Serves
  <1> DEFINE reachable == Serving(ns)
  <1>1. Ids \subseteq Nodes
    BY DEF SimInv, GroupInv
  <1>2. CASE Majority(reachable, Voters(ns, {})) /\ reachable # {}
    <2>1. PICK c \in reachable : Elect(ns, c)
      BY <1>2 DEF FailOverGroup
    <2>2. c \in Ids /\ c \in Voters(ns, isolated)
      BY <1>1, NotGoneVotes
    <2>3. /\ StepKeeps /\ \A n \in Ids : nodes'[n].status = ns[n].status
          /\ DOMAIN nodes' = Ids /\ DOMAIN shards' = DOMAIN shards
          /\ \A i \in DOMAIN shards : shards'[i].leader = c
      BY <2>1, <2>2, ElectKeeps
    <2>4. Voters(nodes', isolated) = Voters(ns, isolated)
      BY <2>3, VotersSame
    <2> QED
      BY <2>2, <2>3, <2>4 DEF Serves
  <1>3. CASE ~(Majority(reachable, Voters(ns, {})) /\ reachable # {})
    <2>1. nodes' = ns /\ UNCHANGED <<epoch, leader, shards, log, commit, applied>>
      BY <1>3 DEF FailOverGroup
    <2>2. StepKeeps
      BY <2>1, NodesOnly
    <2>3. leader \notin Voters(ns, isolated)
      BY <1>1, NotGoneVotes
    <2> QED
      BY <1>3, <2>1, <2>2, <2>3 DEF Serves
  <1> QED
    BY <1>2, <1>3

\* The leader of the group is there: each shard whose own leader is gone gets an heir.
LEMMA ShardsFailOver ==
    ASSUME SimInv, NEW ns \in [Ids -> Member], \A n \in Ids : ns[n].role = "leader" => n = leader,
           FailOverShards(ns), UNCHANGED <<sessions, isolated, pending, receipts>>
    PROVE  StepKeeps /\ Serves
  <1> DEFINE n == Len(shards)
             lost == {i \in DOMAIN shards : Gone(ns, shards[i].leader) /\ Heirs(ns, shards[i]) # {}}
  <1>1. /\ Ids \subseteq Nodes /\ n \in Nat /\ DOMAIN shards = 1..n /\ Consecutive(shards, n)
        /\ \A i \in 1..n : ShardTrue(shards[i], Ids, applied, log)
    BY DEF SimInv, GroupInv, ShardsInv, MapTrue
  <1>2. PICK heir \in [lost -> Serving(ns)] :
            shards' = [i \in DOMAIN shards |-> IF i \in lost THEN Promoted(ns, shards[i], heir[i]) ELSE shards[i]]
    BY DEF FailOverShards
  <1>3. nodes' = ns /\ UNCHANGED <<epoch, leader, log, commit, applied>>
    BY DEF FailOverShards
  <1>4. Ids' = Ids
    BY <1>3 DEF Ids
  <1>5. Serving(ns) \subseteq Voters(ns, isolated) /\ Serving(ns) \subseteq Ids
    BY <1>1, NotGoneVotes
  <1> HIDE DEF n
  <1>6. ASSUME NEW i \in 1..n
        PROVE  /\ ShardTrue(shards'[i], Ids, applied, log) /\ shards'[i].start = shards[i].start /\ shards'[i].end = shards[i].end
               /\ i \in lost => shards'[i].leader \in Serving(ns)
               /\ i \notin lost => shards'[i] = shards[i]
    <2>1. CASE i \in lost
      <3>1. heir[i] \in Serving(ns) /\ heir[i] \in Ids
        BY <1>2, <1>5, <2>1
      <3>2. shards'[i] = Promoted(ns, shards[i], heir[i])
        BY <1>1, <1>2, <2>1
      <3> HIDE DEF lost
      <3> QED
        BY <1>1, <2>1, <3>1, <3>2, PromotedTrue
    <2>2. CASE i \notin lost
      <3>1. shards'[i] = shards[i]
        BY <1>1, <1>2, <2>2
      <3> HIDE DEF lost
      <3> QED
        BY <1>1, <2>2, <3>1
    <2> QED
      BY <2>1, <2>2
  <1>7. shards' = [i \in 1..n |-> shards'[i]] /\ DOMAIN shards' = 1..n
    BY <1>1, <1>2
  <1>8. Consecutive(shards', n)
    BY <1>1, <1>6, SameSlots
  <1>9. MapTrue(shards', Ids, applied, log)
    BY <1>1, <1>6, <1>7, <1>8, MapBuilt
  <1>10. GroupInv'
    BY <1>3, <1>4 DEF SimInv, GroupInv
  <1>11. ShardsInv' /\ SyncInv' /\ LeaderHasWholeLog' /\ TermsAscend'
    BY <1>3, <1>4, <1>9 DEF SimInv, ShardsInv, SyncInv, LeaderHasWholeLog, TermsAscend
  <1>12. StepKeeps
    BY <1>3, <1>10, <1>11 DEF SimInv, StepKeeps, Commits
  <1>13. CASE Serving(ns) = {}
    BY <1>3, <1>12, <1>13 DEF Serves
  <1>14. CASE Serving(ns) # {}
    <2>1. ASSUME NEW i \in 1..n PROVE shards'[i].leader \in Voters(ns, isolated)
      <3>1. Heirs(ns, shards[i]) # {}
        BY <1>14 DEF Heirs
      <3>2. CASE i \in lost
        BY <1>5, <1>6, <3>2
      <3>3. CASE i \notin lost
        <4>1. ~Gone(ns, shards[i].leader)
          BY <1>1, <3>1, <3>3
        <4>2. shards'[i] = shards[i]
          BY <1>6, <3>3
        <4> QED
          BY <1>1, <4>1, <4>2, NotGoneVotes
      <3> QED
        BY <3>2, <3>3
    <2> QED
      BY <1>3, <1>7, <1>12, <2>1 DEF Serves
  <1> QED
    BY <1>13, <1>14

\* check_and_failover.
LEMMA CheckKeeps ==
    ASSUME SimInv, CheckAndFailover
    PROVE  StepKeeps /\ Serves
  <1> DEFINE ns == Live(nodes, ticking)
  <1>1. ns \in [Ids -> Member] /\ \A n \in Ids : ns[n].role = "leader" => n = leader
    <2>1. nodes \in [Ids -> Member] /\ \A n \in Ids : nodes[n].role = "leader" => n = leader
      BY DEF SimInv, GroupInv
    <2> QED
      BY <2>1, LiveTrue
  <1>2. /\ UNCHANGED <<sessions, isolated, pending, receipts>>
        /\ Gone(ns, leader) => FailOverGroup(ns)
        /\ ~Gone(ns, leader) => FailOverShards(ns)
    BY DEF CheckAndFailover
  <1> HIDE DEF ns
  <1> QED
    BY <1>1, <1>2, GroupFailsOver, ShardsFailOver

-----------------------------------------------------------------------------
\* A runtime without nodes, and one that was bootstrapped.
LEMMA SimInit ==
    ASSUME ClusterInit
    PROVE  SimInv
  <1>1. CASE NoNodes
    <2>1. /\ epoch = 0 /\ leader = None /\ nodes = <<>> /\ applied = <<>> /\ log = <<>> /\ commit = 0
          /\ sessions = [s \in Sessions |-> None] /\ pending = <<>> /\ receipts = <<>>
      BY <1>1 DEF NoNodes
    <2>2. PICK c \in Configs : shards = [i \in DOMAIN InitialRanges(c) |->
                [start |-> InitialRanges(c)[i].start, end |-> InitialRanges(c)[i].end, leader |-> None, followers |-> {}, lag |-> <<>>]]
      BY <1>1 DEF NoNodes
    <2>3. Ids = {}
      BY <2>1 DEF Ids
    <2> DEFINE ranges == InitialRanges(c)
    <2>4. PICK n \in Nat : DOMAIN ranges = 1..n /\ Consecutive(ranges, n)
      BY InitialConsecutive
    <2>5. \A i \in 1..n : ranges[i].start \in Nat /\ ranges[i].end \in Nat
      BY <2>4 DEF Consecutive
    <2> HIDE DEF ranges
    <2>6. shards = [i \in 1..n |-> [start |-> ranges[i].start, end |-> ranges[i].end, leader |-> None, followers |-> {}, lag |-> <<>>]]
      BY <2>2, <2>4 DEF ranges
    <2>7. <<>> \in Lags({})
      <3>1. <<>> \in [{} -> Nat]
        OBVIOUS
      <3> QED
        BY <3>1, LagsAre
    <2>8. ASSUME NEW i \in 1..n
          PROVE  ShardTrue(shards[i], {}, applied, log) /\ shards[i].start = ranges[i].start /\ shards[i].end = ranges[i].end
      <3>1. shards[i] = [start |-> ranges[i].start, end |-> ranges[i].end, leader |-> None, followers |-> {}, lag |-> <<>>]
        BY <2>6
      <3> QED
        BY <2>5, <2>7, <3>1 DEF ShardTrue, Shard, LagsTrue
    <2>9. Consecutive(shards, n)
      BY <2>4, <2>8, SameSlots
    <2>10. MapTrue(shards, {}, applied, log)
      <3>1. shards = [i \in 1..n |-> shards[i]] /\ DOMAIN shards = 1..n
        BY <2>6
      <3> QED
        BY <2>8, <2>9, <3>1, MapBuilt
    <2>11. GroupInv
      BY <2>1, <2>3 DEF GroupInv
    <2> QED
      BY <2>1, <2>3, <2>10, <2>11 DEF SimInv, ShardsInv, SyncInv, TermsAscend, LeaderHasWholeLog
  <1>2. CASE Bootstrapped
    <2>1. /\ epoch = 1 /\ leader \in Nodes /\ commit = (IF Cardinality(Nodes) = 1 THEN 1 ELSE 0)
          /\ nodes = [n \in Nodes |-> [status |-> "healthy", role |-> IF n = leader THEN "leader" ELSE "follower", beat |-> 0]]
          /\ applied = [n \in Nodes |-> IF n = leader THEN 1 ELSE 0]
          /\ log = <<[term |-> 1, kind |-> "noop"]>>
          /\ sessions = [s \in Sessions |-> None] /\ pending = <<>> /\ receipts = <<>>
      BY <1>2 DEF Bootstrapped
    <2>2. PICK c \in Configs : shards = [i \in DOMAIN InitialRanges(c) |->
                [start |-> InitialRanges(c)[i].start, end |-> InitialRanges(c)[i].end, leader |-> leader,
                 followers |-> Nodes \ {leader}, lag |-> [f \in Nodes \ {leader} |-> 0]]]
      BY <1>2 DEF Bootstrapped
    <2>3. Ids = Nodes
      BY <2>1 DEF Ids
    <2> DEFINE ranges == InitialRanges(c)
    <2>4. PICK n \in Nat : DOMAIN ranges = 1..n /\ Consecutive(ranges, n)
      BY InitialConsecutive
    <2>5. \A i \in 1..n : ranges[i].start \in Nat /\ ranges[i].end \in Nat
      BY <2>4 DEF Consecutive
    <2> HIDE DEF ranges
    <2> DEFINE none == [f \in Nodes \ {leader} |-> 0]
    <2>6. shards = [i \in 1..n |-> [start |-> ranges[i].start, end |-> ranges[i].end, leader |-> leader,
                                    followers |-> Nodes \ {leader}, lag |-> none]]
      BY <2>2, <2>4 DEF ranges
    <2>7. none \in Lags(Nodes) /\ DOMAIN none = Nodes \ {leader} /\ \A f \in Nodes \ {leader} : none[f] = 0
      <3>1. none \in [Nodes \ {leader} -> Nat]
        OBVIOUS
      <3> QED
        BY <3>1, LagsAre
    <2>8. ASSUME NEW f \in Nodes \ {leader} PROVE Cardinality(Missed(applied, log, f)) <= 0
      <3>1. Missed(applied, log, f) = {}
        BY <2>1 DEF Missed
      <3> QED
        BY <3>1, FS_EmptySet
    <2> HIDE DEF none
    <2>9. ASSUME NEW i \in 1..n
          PROVE  ShardTrue(shards[i], Nodes, applied, log) /\ shards[i].start = ranges[i].start /\ shards[i].end = ranges[i].end
      <3>1. shards[i] = [start |-> ranges[i].start, end |-> ranges[i].end, leader |-> leader, followers |-> Nodes \ {leader}, lag |-> none]
        BY <2>6
      <3>2. shards[i] \in Shard(Nodes)
        BY <2>1, <2>5, <2>7, <3>1 DEF Shard
      <3>3. LagsTrue(shards[i], applied, log)
        BY <2>7, <2>8, <3>1 DEF LagsTrue
      <3> QED
        BY <3>1, <3>2, <3>3 DEF ShardTrue
    <2>10. Consecutive(shards, n)
      BY <2>4, <2>9, SameSlots
    <2>11. MapTrue(shards, Nodes, applied, log)
      <3>1. shards = [i \in 1..n |-> shards[i]] /\ DOMAIN shards = 1..n
        BY <2>6
      <3> QED
        BY <2>9, <2>10, <3>1, MapBuilt
    <2>12. log \in Seq(SimEntry) /\ Len(log) = 1 /\ DOMAIN log = 1..1 /\ log[1].term = 1
      <3>1. [term |-> 1, kind |-> "noop"] \in SimEntry
        BY DEF SimEntry
      <3> QED
        BY <2>1, <3>1
    <2>13. GroupInv
      <3>1. nodes \in [Nodes -> Member] /\ \A m \in Nodes : nodes[m].role = "leader" => m = leader
        BY <2>1 DEF Member
      <3>2. applied \in [Nodes -> Nat] /\ \A m \in Nodes : applied[m] <= 1
        BY <2>1
      <3> QED
        BY <2>1, <2>3, <2>12, <3>1, <3>2 DEF GroupInv
    <2>14. TermsAscend /\ LeaderHasWholeLog
      BY <2>1, <2>12 DEF TermsAscend, LeaderHasWholeLog
    <2> QED
      BY <2>1, <2>3, <2>11, <2>13, <2>14 DEF SimInv, ShardsInv, SyncInv
  <1> QED
    BY <1>1, <1>2 DEF ClusterInit

\* Every operation.
LEMMA SimStep ==
    ASSUME SimInv, [ClusterNext]_clusterVars
    PROVE  StepKeeps /\ Serves
  <1>1. CASE UNCHANGED clusterVars
    <2>1. Ids' = Ids
      BY <1>1 DEF clusterVars, Ids
    <2> QED
      BY <1>1, <2>1 DEF clusterVars, SimInv, GroupInv, ShardsInv, SyncInv, LeaderHasWholeLog, TermsAscend, StepKeeps, Commits, Serves
  <1>2. ASSUME NEW n \in Nodes, RegisterNode(n) PROVE StepKeeps /\ Serves
    BY <1>2, RegisterNodeKeeps DEF RegisterNode, Serves
  <1>3. ASSUME NEW n \in Nodes, Campaign(n) PROVE StepKeeps /\ Serves
    BY <1>3, CampaignKeeps DEF Campaign, Serves
  <1>4. ASSUME NEW n \in Nodes, NEW t \in 0..MaxTick, Heartbeat(n, t) PROVE StepKeeps /\ Serves
    BY <1>4, HeartbeatKeeps DEF Heartbeat, Serves
  <1>5. ASSUME NEW n \in Nodes, NEW st \in {"healthy", "suspect", "dead"}, SetNodeStatus(n, st) PROVE StepKeeps /\ Serves
    BY <1>5, SetNodeStatusKeeps DEF SetNodeStatus, Serves
  <1>6. CASE StepDown
    BY <1>6, StepDownKeeps DEF StepDown, Serves
  <1>7. CASE CheckAndFailover
    BY <1>7, CheckKeeps
  <1>8. CASE AppendEntry
    BY <1>8, AppendEntryKeeps DEF AppendEntry, Serves
  <1>9. CASE ReplicateToFollowers
    BY <1>9, ReplicateKeeps DEF ReplicateToFollowers, Serves
  <1>10. CASE Rebalance
    BY <1>10, RebalanceKeeps DEF Rebalance, Serves
  <1>11. CASE DrainSyncs
    BY <1>11, DrainKeeps DEF DrainSyncs, Serves
  <1>12. CASE HealPartition
    BY <1>12, PartitionKeeps DEF HealPartition, Partition, Serves
  <1>13. ASSUME NEW t \in 0..MaxTick, Tick(t) PROVE StepKeeps /\ Serves
    BY <1>13, TickKeeps DEF Tick, Serves
  <1>14. ASSUME NEW s \in Nodes, NEW t \in Nodes, TransferSnapshot(s, t) PROVE StepKeeps /\ Serves
    BY <1>14, TransferKeeps DEF TransferSnapshot, Serves
  <1>15. ASSUME NEW iso \in SUBSET Nodes, InjectPartition(iso) PROVE StepKeeps /\ Serves
    BY <1>15, PartitionKeeps DEF InjectPartition, Partition, Serves
  <1>16. ASSUME NEW s \in Sessions, NEW slot \in 0..(SlotCount - 1), NEW level \in {"strong", "session", "eventual"},
                RouteReadSession(s, slot, level)
         PROVE  StepKeeps /\ Serves
    BY <1>16, RouteKeeps DEF RouteReadSession, Serves
  <1> QED
    BY <1>1, <1>2, <1>3, <1>4, <1>5, <1>6, <1>7, <1>8, <1>9, <1>10, <1>11, <1>12, <1>13, <1>14, <1>15, <1>16 DEF ClusterNext

\* The invariant holds.
LEMMA SimInvHolds == ClusterSpec => []SimInv
  <1>1. SimInv /\ [ClusterNext]_clusterVars => SimInv'
    BY SimStep DEF StepKeeps
  <1> QED
    BY <1>1, SimInit, PTL DEF ClusterSpec

\* Whatever elections, failures, partitions and rebalances happen: each slot has one owner, terms rise,
\* the leader holds the log, an eventual read misses no more than max_eventual_lag of what clients
\* appended, and transfers complete once and in order.
THEOREM SimulatorSafeHolds == ClusterSpec => []SimulatorSafe
  <1>1. SimInv => SimulatorSafe
    BY SimInvIsSafe
  <1> QED
    BY <1>1, SimInvHolds, PTL

\* A step that moves the commit index moves it to one a majority of the reachable voters has applied,
\* and a failure check leaves no shard without a live leader that it could have given one.
THEOREM SimulatorStepsHolds == ClusterSpec => SimulatorSteps
  <1>1. ASSUME SimInv, [ClusterNext]_clusterVars
        PROVE  /\ [commit' # commit =>
                      Majority({n \in Voters(nodes', isolated') : applied'[n] >= commit'}, Voters(nodes', isolated'))]_clusterVars
               /\ [ticking # None /\ ticking' = None =>
                      \/ \A i \in DOMAIN shards' : shards'[i].leader \in Voters(nodes', isolated)
                      \/ Voters(nodes', isolated) = {}
                      \/ Serving(nodes') = {}
                      \/ ~Majority(Serving(nodes'), Voters(nodes', {})) /\ leader' \notin Voters(nodes', isolated)]_clusterVars
    BY <1>1, SimStep DEF StepKeeps, Commits, Serves
  <1> QED
    BY <1>1, SimInvHolds, PTL DEF ClusterSpec, SimulatorSteps, CommitIsReached, CheckLeavesServed

-----------------------------------------------------------------------------
(***************************************************************************)
(* StoreSafe for every bound: the raft store keeps its promises to openraft*)
(* between calls, inside them and after any number of crashes there, up to *)
(* the entries that its histories name.                                    *)
(*                                                                         *)
(* StoreSafe is not inductive.  What it leaves out is what each call relies*)
(* on when it is half done: which purge point counts while a purge is under*)
(* way, how far the log reaches while it is cut back, how log_last relates *)
(* to its end before it is written, what a starting process still has to   *)
(* apply, and what the snapshot builder carries while entries are applied  *)
(* beside it.                                                              *)
(*                                                                         *)
(* RegistrySafe follows from an invariant of five parts, the second half   *)
(* of this module: the counts, what each registry is a fold of, which      *)
(* calls are committed, whom a process believes to lead, and the numbers   *)
(* of the transfers.                                                       *)
(***************************************************************************)

LogIds == [idx : Nat, term : Nat]
Entries == [term : Nat, member : BOOLEAN]

\* The purge point that counts: the new one from the first write of a purge on.  How far the log reaches: to
\* before the cut from the first write of a deletion on.
StoreCalls == {"conflict", "purge", "purged"}
PurgePoint == IF Doing("purge") \/ Doing("purged") THEN todo[2].idx ELSE IdxOf(lastPurged)
Reach == IF Doing("conflict") THEN todo[2].idx - 1 ELSE top

TypeInv ==
    /\ DOMAIN logs \subseteq 0..MaxIdx /\ \A i \in DOMAIN logs : logs[i] \in Entries
    /\ {logLast, lastPurged, lastApplied} \subseteq LogIds \union {Absent}
    /\ committed \in Int /\ committed >= -1 /\ membership \in Int /\ vote \in Nat
    /\ todo = <<>> \/ todo \in StoreCalls \X LogIds
    /\ up \in BOOLEAN /\ top \in Int /\ top >= -1 /\ unbacked \subseteq Int /\ unmarked \subseteq Int

\* What was purged is applied; what is committed and not applied is in the log, or a torn cut took it; what
\* a torn purge took is applied; and a process past its start-up knows of all that is applied or committed.
AppliedInv ==
    /\ IdxOf(lastPurged) <= IdxOf(lastApplied)
    /\ \A i \in DOMAIN Applied : Applied[i] \in Entries
    /\ \A i \in (IdxOf(lastApplied) + 1)..committed : i \in DOMAIN logs \union unbacked
    /\ \A i \in unmarked : i <= IdxOf(lastApplied)
    /\ up => IdxOf(lastApplied) <= top /\ committed <= top

\* The first entry is a membership, and so is the one in force when it is committed before it is applied.
MemberInv ==
    /\ 0 \in DOMAIN logs => logs[0].member
    /\ membership \in DOMAIN logs /\ membership > IdxOf(lastApplied) /\ membership <= committed => logs[membership].member

\* Behind the purge point the log is whole up to where it reaches, but for what the histories name.
WholeInv ==
    /\ IdxOf(lastPurged) <= PurgePoint /\ PurgePoint <= IdxOf(lastApplied)
    /\ \A i \in (PurgePoint + 1)..Reach : i \in DOMAIN logs \union unbacked \union unmarked
    /\ Doing("conflict") => up /\ todo[2].idx > KnownCommitted
    /\ Doing("purged") => lastPurged = todo[2]

\* log_last is never past the end openraft knows of.
LastInv ==
    /\ IdxOf(logLast) <= top
    /\ todo = <<>> \/ Doing("purge") =>
          IdxOf(StoredLast) = top \/ top \in unbacked \union unmarked \/ (StoredLast = Absent /\ top = 0)
    /\ Doing("purged") => IdxOf(logLast) = top \/ top \in unbacked \union unmarked \/ top <= todo[2].idx
    /\ logLast # Absent /\ logLast.idx \in DOMAIN logs /\ logLast.idx > IdxOf(lastPurged) => logs[logLast.idx].term = logLast.term

\* The builder holds a beginning of the applied entries, and of last_applied at least its end.
BuilderInv ==
    builder # Absent =>
        /\ builder.step \in 1..3 /\ lastApplied # Absent
        /\ builder = [step |-> builder.step, data |-> builder.data, last |-> builder.last, member |-> builder.member]
        /\ DOMAIN builder.data \subseteq DOMAIN Applied
        /\ \A i \in DOMAIN builder.data : builder.data[i] = Applied[i]
        /\ builder.step > 1 =>
            /\ builder.last \in LogIds /\ builder.last.idx <= IdxOf(lastApplied)
            /\ DOMAIN builder.data \subseteq 0..builder.last.idx

SnapshotInv == snapshot # Absent => snapshot.last \in LogIds

StoreInv ==
    /\ TypeInv /\ AppliedInv /\ MemberInv /\ WholeInv /\ LastInv /\ BuilderInv /\ SnapshotInv
    /\ AppliedWhole /\ SnapshotIsPrefix /\ VoteCovers

-----------------------------------------------------------------------------
\* The index of an id, and of none.
LEMMA IdxOfId ==
    /\ \A id \in LogIds : IdxOf(id) = id.idx /\ id # Absent
    /\ IdxOf(Absent) = -1
    /\ \A id \in LogIds \union {Absent} : IdxOf(id) \in Int /\ IdxOf(id) >= -1
    /\ \A i, t \in Nat : /\ Id(i, t) \in LogIds /\ Id(i, t) # Absent /\ IdxOf(Id(i, t)) = i
                          /\ Id(i, t).idx = i /\ Id(i, t).term = t
  BY StoreAssumption DEF LogIds, IdxOf, Id

\* What the proofs of the steps need of the types.
LEMMA StoreTypes ==
    ASSUME StoreInv
    PROVE  /\ MaxIdx \in Nat /\ committed \in Int /\ committed >= -1 /\ membership \in Int /\ vote \in Nat
           /\ up \in BOOLEAN /\ top \in Int /\ top >= -1 /\ unbacked \subseteq Int /\ unmarked \subseteq Int
           /\ IdxOf(lastPurged) \in Int /\ IdxOf(lastPurged) >= -1
           /\ IdxOf(lastApplied) \in Int /\ IdxOf(lastApplied) >= -1
           /\ IdxOf(logLast) \in Int /\ IdxOf(logLast) >= -1
           /\ DOMAIN logs \subseteq 0..MaxIdx
           /\ IF logLast = Absent THEN IdxOf(logLast) = -1 ELSE logLast \in LogIds /\ IdxOf(logLast) = logLast.idx
           /\ IF lastPurged = Absent THEN IdxOf(lastPurged) = -1 ELSE lastPurged \in LogIds /\ IdxOf(lastPurged) = lastPurged.idx
           /\ IF lastApplied = Absent THEN IdxOf(lastApplied) = -1 ELSE lastApplied \in LogIds /\ IdxOf(lastApplied) = lastApplied.idx
  BY IdxOfId, StoreAssumption DEF StoreInv, TypeInv

\* How far a node knows to be committed.
LEMMA KnownCommittedIs ==
    ASSUME StoreInv
    PROVE  /\ KnownCommitted \in Int /\ KnownCommitted >= committed /\ KnownCommitted >= IdxOf(lastApplied)
           /\ KnownCommitted >= IdxOf(lastPurged) /\ KnownCommitted >= -1
  BY StoreTypes DEF KnownCommitted, Larger, StoreInv, AppliedInv

\* The applied entries: those the column family holds and the gaps, up to last_applied.
LEMMA AppliedIs ==
    ASSUME AppliedWhole
    PROVE  /\ DOMAIN Applied = 0..IdxOf(lastApplied)
           /\ \A i \in DOMAIN appliedLog : i \in DOMAIN Applied /\ Applied[i] = appliedLog[i]
           /\ \A i \in DOMAIN gaps : i \in DOMAIN Applied /\ Applied[i] = gaps[i]
  BY DEF AppliedWhole, Applied, Put

\* A step that leaves the applied entries and the snapshots alone, and only cuts or extends the log.
LEMMA LogStepKeeps ==
    ASSUME StoreInv, UNCHANGED <<appliedVars, buildVars>>
    PROVE  Applied' = Applied /\ BuilderInv' /\ SnapshotInv' /\ SnapshotIsPrefix'
  <1>1. /\ UNCHANGED <<appliedLog, lastApplied, membership, gaps, snapshot, builder>>
        /\ Applied' = Applied
    BY DEF appliedVars, buildVars, Applied, Put
  <1> QED
    BY <1>1 DEF StoreInv, BuilderInv, SnapshotInv, SnapshotIsPrefix

\* What a running build has read stays true while more is applied.
LEMMA BuilderKept ==
    ASSUME TypeInv, BuilderInv, builder' = builder, lastApplied' # Absent, IdxOf(lastApplied) <= IdxOf(lastApplied'),
           DOMAIN Applied \subseteq DOMAIN Applied', \A j \in DOMAIN Applied : Applied'[j] = Applied[j],
           IdxOf(lastApplied') \in Int
    PROVE  BuilderInv'
  <1> SUFFICES ASSUME builder # Absent PROVE BuilderInv'
    BY DEF BuilderInv
  <1>1. IdxOf(lastApplied) \in Int
    BY IdxOfId DEF TypeInv
  <1>2. DOMAIN builder.data \subseteq DOMAIN Applied' /\ \A i \in DOMAIN builder.data : builder.data[i] = Applied'[i]
    BY DEF BuilderInv
  <1>3. builder.step > 1 =>
            /\ builder.last \in LogIds /\ builder.last.idx <= IdxOf(lastApplied')
            /\ DOMAIN builder.data \subseteq 0..builder.last.idx
    BY <1>1 DEF BuilderInv, LogIds
  <1> QED
    BY <1>2, <1>3 DEF BuilderInv

-----------------------------------------------------------------------------
(* One lemma for each call, or step of one. *)

LEMMA SaveVoteKeepsInv ==
    ASSUME StoreInv, NEW t \in 1..MaxTerm, SaveVote(t)
    PROVE  StoreInv'
  <1>1. /\ vote' = t /\ vote < t /\ t \in Nat
        /\ UNCHANGED <<logs, logLast, lastPurged, committed, appliedVars, buildVars, nodeVars, todo, unbacked, unmarked>>
    BY StoreAssumption DEF SaveVote
  <1>2. /\ UNCHANGED <<appliedLog, lastApplied, membership, gaps, snapshot, builder, up, top>>
        /\ Applied' = Applied /\ BuilderInv' /\ SnapshotInv' /\ SnapshotIsPrefix'
    BY <1>1, LogStepKeeps DEF appliedVars, buildVars, nodeVars
  <1>3. TypeInv'
    BY <1>1, <1>2 DEF StoreInv, TypeInv
  <1>4. AppliedInv' /\ MemberInv' /\ AppliedWhole'
    BY <1>1, <1>2 DEF StoreInv, AppliedInv, MemberInv, AppliedWhole
  <1>5. WholeInv' /\ LastInv'
    BY <1>1, <1>2 DEF StoreInv, WholeInv, LastInv, PurgePoint, Reach, Doing, KnownCommitted, StoredLast
  <1>6. VoteCovers'
    BY <1>1, <1>2, StoreTypes DEF StoreInv, VoteCovers, TypeInv, AppliedInv, Entries
  <1> QED
    BY <1>2, <1>3, <1>4, <1>5, <1>6 DEF StoreInv

LEMMA AppendKeepsInv ==
    ASSUME StoreInv, NEW t \in 1..MaxTerm, NEW member \in BOOLEAN, AppendToLog(t, member)
    PROVE  StoreInv'
  <1> DEFINE new == top + 1
  <1>1. /\ todo = <<>> /\ up /\ top < MaxIdx /\ t <= vote /\ new \in Nat /\ t \in Nat
        /\ top = -1 => member
        /\ logLast' = Id(new, t) /\ top' = new /\ unbacked' = unbacked \ DOMAIN logs'
        /\ UNCHANGED <<vote, lastPurged, committed, appliedLog, lastApplied, membership, gaps, snapshot, builder, up, todo, unmarked>>
    BY StoreTypes, StoreAssumption DEF AppendToLog, Free, appliedVars, buildVars
  <1>2. Applied' = Applied /\ BuilderInv' /\ SnapshotInv' /\ SnapshotIsPrefix'
    BY <1>1, LogStepKeeps DEF appliedVars, buildVars
  <1>3. /\ DOMAIN logs' = DOMAIN logs \union {new} /\ new \in 0..MaxIdx
        /\ logs'[new] = [term |-> t, member |-> member]
        /\ \A i \in DOMAIN logs : i # new => logs'[i] = logs[i]
    BY <1>1, StoreTypes DEF AppendToLog, Put
  <1>4. /\ Id(new, t) \in LogIds /\ IdxOf(Id(new, t)) = new /\ Id(new, t) # Absent
        /\ Id(new, t).idx = new /\ Id(new, t).term = t
    BY <1>1, IdxOfId
  <1>5. /\ ~Doing("conflict") /\ ~Doing("purge") /\ ~Doing("purged")
        /\ ~Doing("conflict")' /\ ~Doing("purge")' /\ ~Doing("purged")'
        /\ PurgePoint = IdxOf(lastPurged) /\ PurgePoint' = IdxOf(lastPurged) /\ Reach = top /\ Reach' = new
    BY <1>1 DEF PurgePoint, Reach, Doing
  <1>6. IdxOf(lastApplied) <= top /\ committed <= top /\ IdxOf(lastPurged) <= top
    BY <1>1, StoreTypes DEF StoreInv, AppliedInv
  <1>7. TypeInv'
    <2>1. DOMAIN logs' \subseteq 0..MaxIdx /\ \A i \in DOMAIN logs' : logs'[i] \in Entries
      BY <1>1, <1>3 DEF StoreInv, TypeInv, Entries
    <2>2. {logLast', lastPurged', lastApplied'} \subseteq LogIds \union {Absent}
      BY <1>1, <1>4 DEF StoreInv, TypeInv
    <2>3. /\ committed' \in Int /\ committed' >= -1 /\ membership' \in Int /\ vote' \in Nat
          /\ top' \in Int /\ top' >= -1 /\ unbacked' \subseteq Int /\ unmarked' \subseteq Int
      BY <1>1, StoreTypes
    <2>4. up' \in BOOLEAN /\ (todo' = <<>> \/ todo' \in StoreCalls \X LogIds)
      BY <1>1, StoreTypes
    <2> QED
      BY <2>1, <2>2, <2>3, <2>4 DEF TypeInv
  <1>8. AppliedInv'
    BY <1>1, <1>2, <1>3, <1>6, StoreTypes DEF StoreInv, AppliedInv
  <1>9. MemberInv'
    BY <1>1, <1>3, <1>6, StoreTypes DEF StoreInv, MemberInv
  <1>10. WholeInv'
    <2>1. \A i \in (IdxOf(lastPurged) + 1)..new : i = new \/ i \in (IdxOf(lastPurged) + 1)..top
      BY <1>1, <1>6, StoreTypes
    <2>2. \A i \in (IdxOf(lastPurged) + 1)..new : i \in DOMAIN logs' \union unbacked' \union unmarked'
      BY <1>1, <1>3, <1>5, <2>1 DEF StoreInv, WholeInv
    <2> QED
      BY <1>1, <1>5, <2>2 DEF StoreInv, WholeInv
  <1>11. LastInv'
    BY <1>1, <1>3, <1>4, <1>5 DEF LastInv, StoredLast
  <1>12. AppliedWhole'
    <2>1. new \notin DOMAIN appliedLog
      BY <1>6, StoreTypes DEF StoreInv, AppliedWhole
    <2> QED
      BY <1>1, <1>2, <1>3, <2>1 DEF StoreInv, AppliedWhole
  <1>13. VoteCovers'
    BY <1>1, <1>2, <1>3 DEF StoreInv, VoteCovers
  <1> QED
    BY <1>2, <1>7, <1>8, <1>9, <1>10, <1>11, <1>12, <1>13 DEF StoreInv

LEMMA SaveCommittedKeepsInv ==
    ASSUME StoreInv, NEW i \in 0..MaxIdx, SaveCommitted(i)
    PROVE  StoreInv'
  <1>1. /\ todo = <<>> /\ up /\ KnownCommitted < i /\ i <= top /\ i \in Int /\ committed' = i
        /\ membership \in DOMAIN logs /\ membership > IdxOf(lastApplied) /\ membership <= i => logs[membership].member
        /\ UNCHANGED <<vote, logs, logLast, lastPurged, appliedLog, lastApplied, membership, gaps, snapshot, builder,
                       up, top, todo, unbacked, unmarked>>
    BY StoreTypes DEF SaveCommitted, Free, appliedVars, buildVars, nodeVars
  <1>2. Applied' = Applied /\ BuilderInv' /\ SnapshotInv' /\ SnapshotIsPrefix'
    BY <1>1, LogStepKeeps DEF appliedVars, buildVars
  <1>3. /\ ~Doing("conflict") /\ ~Doing("purge") /\ ~Doing("purged")
        /\ ~Doing("conflict")' /\ ~Doing("purge")' /\ ~Doing("purged")'
        /\ PurgePoint = IdxOf(lastPurged) /\ PurgePoint' = IdxOf(lastPurged) /\ Reach = top /\ Reach' = top
    BY <1>1 DEF PurgePoint, Reach, Doing
  <1>4. \A j \in (IdxOf(lastApplied) + 1)..i : j \in DOMAIN logs \union unbacked
    <2> SUFFICES ASSUME NEW j \in (IdxOf(lastApplied) + 1)..i PROVE j \in DOMAIN logs \union unbacked
      OBVIOUS
    <2>1. j \in (IdxOf(lastPurged) + 1)..top
      BY <1>1, StoreTypes DEF StoreInv, AppliedInv
    <2>2. j \in DOMAIN logs \union unbacked \union unmarked
      BY <1>3, <2>1 DEF StoreInv, WholeInv
    <2> QED
      BY <2>2, StoreTypes DEF StoreInv, AppliedInv
  <1>5. TypeInv'
    BY <1>1 DEF StoreInv, TypeInv
  <1>6. AppliedInv' /\ MemberInv'
    BY <1>1, <1>2, <1>4 DEF StoreInv, AppliedInv, MemberInv
  <1>7. WholeInv'
    BY <1>1, <1>3 DEF StoreInv, WholeInv
  <1>8. LastInv'
    BY <1>1, <1>3 DEF StoreInv, LastInv, StoredLast
  <1>9. AppliedWhole' /\ VoteCovers'
    BY <1>1, <1>2 DEF StoreInv, AppliedWhole, VoteCovers
  <1> QED
    BY <1>2, <1>5, <1>6, <1>7, <1>8, <1>9 DEF StoreInv

LEMMA DeleteConflictLogsKeepsInv ==
    ASSUME StoreInv, NEW i \in 0..MaxIdx, DeleteConflictLogs(i)
    PROVE  StoreInv'
  <1>1. /\ todo = <<>> /\ up /\ KnownCommitted < i /\ i <= top /\ i \in Nat
        /\ unbacked' = {j \in unbacked : j < i}
        /\ UNCHANGED <<vote, logLast, lastPurged, committed, appliedLog, lastApplied, membership, gaps, snapshot, builder,
                       up, top, unmarked>>
    BY StoreTypes DEF DeleteConflictLogs, Free, appliedVars, buildVars, nodeVars
  <1>2. Applied' = Applied /\ BuilderInv' /\ SnapshotInv' /\ SnapshotIsPrefix'
    BY <1>1, LogStepKeeps DEF appliedVars, buildVars
  <1>3. /\ DOMAIN logs' = {j \in DOMAIN logs : j < i}
        /\ \A j \in DOMAIN logs' : logs'[j] = logs[j]
    BY <1>1, StoreTypes DEF DeleteConflictLogs, Cut
  <1>4. /\ todo' = <<"conflict", Id(i, 0)>> /\ Id(i, 0) \in LogIds /\ todo'[2].idx = i /\ todo' # <<>>
        /\ Doing("conflict")' /\ ~Doing("purge")' /\ ~Doing("purged")'
        /\ ~Doing("conflict") /\ ~Doing("purge") /\ ~Doing("purged")
    BY <1>1, IdxOfId DEF DeleteConflictLogs, Doing
  <1>5. PurgePoint = IdxOf(lastPurged) /\ PurgePoint' = IdxOf(lastPurged) /\ Reach = top /\ Reach' = i - 1
    BY <1>1, <1>4 DEF PurgePoint, Reach
  <1>6. /\ KnownCommitted' = KnownCommitted /\ KnownCommitted \in Int
        /\ KnownCommitted >= committed /\ KnownCommitted >= IdxOf(lastApplied)
    BY <1>1, KnownCommittedIs DEF KnownCommitted
  <1>7. TypeInv'
    BY <1>1, <1>3, <1>4 DEF StoreInv, TypeInv, StoreCalls
  <1>8. AppliedInv'
    BY <1>1, <1>2, <1>3, <1>6, StoreTypes DEF StoreInv, AppliedInv
  <1>9. MemberInv' /\ VoteCovers'
    BY <1>1, <1>2, <1>3 DEF StoreInv, MemberInv, VoteCovers
  <1>10. WholeInv'
    BY <1>1, <1>3, <1>4, <1>5, <1>6, StoreTypes DEF StoreInv, WholeInv
  <1>11. LastInv'
    BY <1>1, <1>3, <1>4 DEF StoreInv, LastInv
  <1>12. AppliedWhole'
    BY <1>1, <1>2, <1>3 DEF StoreInv, AppliedWhole
  <1> QED
    BY <1>2, <1>7, <1>8, <1>9, <1>10, <1>11, <1>12 DEF StoreInv

LEMMA DeleteConflictLastKeepsInv ==
    ASSUME StoreInv, DeleteConflictLast
    PROVE  StoreInv'
  <1> DEFINE i == todo[2].idx
  <1>1. /\ Doing("conflict") /\ ~Doing("purge") /\ ~Doing("purged") /\ up /\ i \in Nat
        /\ KnownCommitted < i /\ Reach = i - 1
        /\ PurgePoint = IdxOf(lastPurged)
        /\ \A j \in (IdxOf(lastPurged) + 1)..(i - 1) : j \in DOMAIN logs \union unbacked \union unmarked
    BY DEF StoreInv, TypeInv, WholeInv, Doing, DeleteConflictLast, StoreCalls, LogIds, PurgePoint, Reach
  <1>2. /\ todo' = <<>> /\ top' = i - 1
        /\ ~Doing("conflict")' /\ ~Doing("purge")' /\ ~Doing("purged")'
        /\ logLast' = IF i > PurgedIdx + 1 /\ i - 1 \in DOMAIN logs THEN Id(i - 1, logs[i - 1].term) ELSE lastPurged
        /\ UNCHANGED <<vote, logs, lastPurged, committed, appliedLog, lastApplied, membership, gaps, snapshot, builder,
                       up, unbacked, unmarked>>
    BY DEF DeleteConflictLast, Doing, appliedVars, buildVars
  <1>3. Applied' = Applied /\ BuilderInv' /\ SnapshotInv' /\ SnapshotIsPrefix'
    BY <1>2, LogStepKeeps DEF appliedVars, buildVars
  <1>4. PurgePoint' = IdxOf(lastPurged) /\ Reach' = i - 1
    BY <1>2 DEF PurgePoint, Reach
  <1>5. /\ IdxOf(lastPurged) <= i - 1 /\ IdxOf(lastApplied) <= i - 1 /\ committed <= i - 1
        /\ i - 1 \in Int /\ i - 1 >= -1
    <2>1. KnownCommitted <= i - 1
      BY <1>1, KnownCommittedIs
    <2> QED
      BY <1>1, <2>1, KnownCommittedIs, StoreTypes
  <1>6. CASE i > PurgedIdx + 1 /\ i - 1 \in DOMAIN logs
    <2>1. /\ logLast' = Id(i - 1, logs[i - 1].term) /\ i - 1 \in Nat /\ logs[i - 1].term \in Nat
      BY <1>2, <1>6, StoreTypes DEF StoreInv, TypeInv, Entries
    <2>2. /\ logLast' \in LogIds /\ logLast' # Absent /\ IdxOf(logLast') = i - 1
          /\ logLast'.idx = i - 1 /\ logLast'.term = logs[i - 1].term
      BY <2>1, IdxOfId
    <2>3. LastInv'
      <3>1. /\ todo' = <<>> /\ top' = i - 1 /\ ~Doing("purged")' /\ logs' = logs /\ top' \in Int
        BY <1>2, <1>5
      <3>2. StoredLast' = logLast' /\ IdxOf(logLast') = top'
        BY <2>2, <3>1 DEF StoredLast
      <3> QED
        BY <2>2, <3>1, <3>2 DEF LastInv
    <2> QED
      BY <1>1, <1>2, <1>3, <1>4, <1>5, <2>2, <2>3
         DEF StoreInv, TypeInv, AppliedInv, MemberInv, WholeInv, AppliedWhole, VoteCovers
  <1>7. CASE ~(i > PurgedIdx + 1 /\ i - 1 \in DOMAIN logs)
    <2>1. logLast' = lastPurged
      BY <1>2, <1>7
    <2>2. IdxOf(lastPurged) = i - 1 \/ i - 1 \in unbacked \union unmarked \/ (lastPurged = Absent /\ i - 1 = 0)
      <3> SUFFICES ASSUME IdxOf(lastPurged) # i - 1, i - 1 \in DOMAIN logs
                   PROVE  lastPurged = Absent /\ i - 1 = 0
        BY <1>1, <1>5, StoreTypes
      <3> QED
        BY <1>1, <1>5, <1>7, StoreTypes DEF PurgedIdx
    <2>3. LastInv'
      BY <1>2, <1>5, <2>1, <2>2, StoreTypes DEF LastInv, StoredLast
    <2> QED
      BY <1>1, <1>2, <1>3, <1>4, <1>5, <2>1, <2>3
         DEF StoreInv, TypeInv, AppliedInv, MemberInv, WholeInv, AppliedWhole, VoteCovers
  <1> QED
    BY <1>6, <1>7

LEMMA PurgeLogsKeepsInv ==
    ASSUME StoreInv, NEW i \in 0..MaxIdx, PurgeLogs(i)
    PROVE  StoreInv'
  <1> DEFINE id == Id(i, Applied[i].term)
  <1>1. /\ todo = <<>> /\ IdxOf(lastPurged) <= i /\ i <= IdxOf(lastApplied) /\ i \in Nat
        /\ UNCHANGED <<vote, logLast, lastPurged, committed, appliedLog, lastApplied, membership, gaps, snapshot, builder,
                       up, top, unbacked, unmarked>>
    BY StoreTypes DEF PurgeLogs, MayPurge, appliedVars, buildVars, nodeVars, StoreInv, AppliedInv
  <1>2. Applied' = Applied /\ BuilderInv' /\ SnapshotInv' /\ SnapshotIsPrefix'
    BY <1>1, LogStepKeeps DEF appliedVars, buildVars
  <1>3. /\ DOMAIN logs' = {j \in DOMAIN logs : j > i}
        /\ \A j \in DOMAIN logs' : logs'[j] = logs[j]
    BY <1>1, StoreTypes DEF PurgeLogs, Cut
  <1>4. id \in LogIds /\ id.idx = i
    <2>1. i \in DOMAIN Applied
      BY <1>1, AppliedIs, StoreTypes DEF StoreInv
    <2>2. Applied[i].term \in Nat
      BY <2>1 DEF StoreInv, AppliedInv, Entries
    <2> QED
      BY <1>1, <2>2, IdxOfId
  <1>5. /\ todo' = <<"purge", id>> /\ todo'[2].idx = i /\ todo' # <<>>
        /\ Doing("purge")' /\ ~Doing("conflict")' /\ ~Doing("purged")'
        /\ ~Doing("conflict") /\ ~Doing("purge") /\ ~Doing("purged")
    BY <1>1, <1>4 DEF PurgeLogs, Doing
  <1>6. PurgePoint = IdxOf(lastPurged) /\ PurgePoint' = i /\ Reach = top /\ Reach' = top
    BY <1>1, <1>5 DEF PurgePoint, Reach
  <1> HIDE DEF id
  <1>7. TypeInv'
    BY <1>1, <1>3, <1>4, <1>5 DEF StoreInv, TypeInv, StoreCalls
  <1>8. AppliedInv'
    BY <1>1, <1>2, <1>3, StoreTypes DEF StoreInv, AppliedInv
  <1>9. MemberInv' /\ VoteCovers'
    BY <1>1, <1>2, <1>3 DEF StoreInv, MemberInv, VoteCovers
  <1>10. WholeInv'
    BY <1>1, <1>3, <1>5, <1>6, StoreTypes DEF StoreInv, WholeInv
  <1>11. LastInv'
    BY <1>1, <1>3, <1>5 DEF StoreInv, LastInv, StoredLast
  <1>12. AppliedWhole'
    BY <1>1, <1>2, <1>3 DEF StoreInv, AppliedWhole
  <1> QED
    BY <1>2, <1>7, <1>8, <1>9, <1>10, <1>11, <1>12 DEF StoreInv

LEMMA PurgeMarkKeepsInv ==
    ASSUME StoreInv, PurgeMark
    PROVE  StoreInv'
  <1> DEFINE id == todo[2]
  <1>1. /\ Doing("purge") /\ ~Doing("conflict") /\ ~Doing("purged")
        /\ todo' = <<"purged", id>> /\ lastPurged' = id /\ unmarked' = {j \in unmarked : j > id.idx}
        /\ UNCHANGED <<vote, logs, logLast, committed, appliedLog, lastApplied, membership, gaps, snapshot, builder,
                       up, top, unbacked>>
    BY DEF PurgeMark, Doing, appliedVars, buildVars, nodeVars
  <1>2. Applied' = Applied /\ BuilderInv' /\ SnapshotInv' /\ SnapshotIsPrefix'
    BY <1>1, LogStepKeeps DEF appliedVars, buildVars
  <1>3. id \in LogIds /\ id.idx = IdxOf(id) /\ id.idx \in Nat /\ id # Absent
    BY <1>1, IdxOfId DEF StoreInv, TypeInv, Doing, LogIds
  <1>4. /\ todo'[2] = id /\ todo' # <<>>
        /\ Doing("purged")' /\ ~Doing("conflict")' /\ ~Doing("purge")'
    BY <1>1 DEF Doing
  <1>5. PurgePoint = id.idx /\ PurgePoint' = id.idx /\ Reach = top /\ Reach' = top
    BY <1>1, <1>4 DEF PurgePoint, Reach
  <1>6. IdxOf(lastPurged) <= id.idx /\ id.idx <= IdxOf(lastApplied)
    BY <1>5 DEF StoreInv, WholeInv
  <1>7. TypeInv'
    BY <1>1, <1>3 DEF StoreInv, TypeInv, StoreCalls
  <1>8. AppliedInv' /\ MemberInv' /\ VoteCovers'
    BY <1>1, <1>2, <1>3, <1>6 DEF StoreInv, AppliedInv, MemberInv, VoteCovers
  <1>9. WholeInv'
    <2>1. \A j \in (id.idx + 1)..top : j \in DOMAIN logs \union unbacked \union unmarked
      BY <1>5 DEF StoreInv, WholeInv
    <2>2. \A j \in (id.idx + 1)..top : j \in DOMAIN logs' \union unbacked' \union unmarked'
      BY <1>1, <1>3, <2>1, StoreTypes
    <2> QED
      BY <1>1, <1>3, <1>4, <1>5, <1>6, <2>2 DEF WholeInv
  <1>10. LastInv'
    <2>1. IdxOf(logLast) = top \/ top \in unbacked' \union unmarked' \/ top <= id.idx
      <3>1. IdxOf(StoredLast) = top \/ top \in unbacked \union unmarked \/ (StoredLast = Absent /\ top = 0)
        BY <1>1 DEF StoreInv, LastInv
      <3>2. CASE IdxOf(StoredLast) = top
        BY <1>6, <3>2, StoreTypes DEF StoredLast
      <3> QED
        BY <1>1, <1>3, <3>1, <3>2, StoreTypes
    <2>2. logLast # Absent /\ logLast.idx \in DOMAIN logs /\ logLast.idx > id.idx => logs[logLast.idx].term = logLast.term
      BY <1>3, <1>6, StoreTypes DEF StoreInv, LastInv
    <2> QED
      BY <1>1, <1>3, <1>4, <2>1, <2>2 DEF StoreInv, LastInv
  <1>11. AppliedWhole'
    BY <1>1, <1>2, <1>3, <1>6, StoreTypes DEF StoreInv, AppliedWhole
  <1> QED
    BY <1>2, <1>7, <1>8, <1>9, <1>10, <1>11 DEF StoreInv

LEMMA PurgeLastKeepsInv ==
    ASSUME StoreInv, PurgeLast
    PROVE  StoreInv'
  <1> DEFINE id == todo[2]
  <1>1. /\ Doing("purged") /\ ~Doing("conflict") /\ ~Doing("purge") /\ lastPurged = id
        /\ todo' = <<>> /\ top' = Larger(top, id.idx)
        /\ logLast' = IF IdxOf(logLast) > id.idx THEN logLast ELSE id
        /\ UNCHANGED <<vote, logs, lastPurged, committed, appliedLog, lastApplied, membership, gaps, snapshot, builder,
                       up, unbacked, unmarked>>
    BY DEF PurgeLast, Doing, appliedVars, buildVars, StoreInv, WholeInv
  <1>2. Applied' = Applied /\ BuilderInv' /\ SnapshotInv' /\ SnapshotIsPrefix'
    BY <1>1, LogStepKeeps DEF appliedVars, buildVars
  <1>3. id \in LogIds /\ id.idx = IdxOf(id) /\ id.idx \in Nat /\ id # Absent
    BY <1>1, IdxOfId DEF StoreInv, TypeInv, Doing, LogIds
  <1>4. ~Doing("purged")' /\ ~Doing("conflict")' /\ ~Doing("purge")'
    BY <1>1 DEF Doing
  <1>5. PurgePoint = id.idx /\ PurgePoint' = id.idx /\ Reach = top /\ Reach' = top'
    BY <1>1, <1>3, <1>4 DEF PurgePoint, Reach
  <1>6. top' \in Int /\ top' >= top /\ top' >= id.idx /\ (top' = top \/ top' = id.idx)
    BY <1>1, <1>3, StoreTypes DEF Larger
  <1>7. TypeInv'
    BY <1>1, <1>3, <1>6, StoreTypes DEF StoreInv, TypeInv
  <1>8. AppliedInv' /\ MemberInv' /\ VoteCovers' /\ AppliedWhole'
    BY <1>1, <1>2, <1>6, StoreTypes DEF StoreInv, AppliedInv, MemberInv, VoteCovers, AppliedWhole
  <1>9. WholeInv'
    <2>1. \A j \in (id.idx + 1)..top' : j \in (id.idx + 1)..top
      BY <1>3, <1>6, StoreTypes
    <2> QED
      BY <1>1, <1>3, <1>4, <1>5, <2>1 DEF StoreInv, WholeInv
  <1>10. LastInv'
    <2>1. IdxOf(logLast) = top \/ top \in unbacked \union unmarked \/ top <= id.idx
      BY <1>1 DEF StoreInv, LastInv
    <2>2. CASE IdxOf(logLast) > id.idx
      <3>1. logLast' = logLast /\ logLast # Absent /\ top > id.idx /\ top' = top
        BY <1>1, <1>3, <1>6, <2>2, StoreTypes DEF StoreInv, LastInv
      <3> QED
        BY <1>1, <1>3, <1>4, <2>1, <3>1, StoreTypes DEF StoreInv, LastInv, StoredLast
    <2>3. CASE ~(IdxOf(logLast) > id.idx)
      <3>1. logLast' = id /\ (top > id.idx => top \in unbacked \union unmarked)
        BY <1>1, <1>3, <2>1, <2>3, StoreTypes
      <3> QED
        BY <1>1, <1>3, <1>4, <1>6, <3>1, StoreTypes DEF LastInv, StoredLast
    <2> QED
      BY <2>2, <2>3
  <1> QED
    BY <1>2, <1>7, <1>8, <1>9, <1>10 DEF StoreInv

LEMMA ApplyKeepsInv ==
    ASSUME StoreInv, NEW i \in 0..MaxIdx, ApplyUpTo(i)
    PROVE  StoreInv'
  <1> DEFINE reached == IdxOf(lastApplied)
             new == (reached + 1)..i
             members == {j \in new : logs[j].member}
  <1>1. /\ todo = <<>> /\ reached < i /\ i <= committed /\ i \in Nat /\ reached \in Int /\ reached >= -1
        /\ new \subseteq DOMAIN logs
        /\ UNCHANGED <<vote, logs, logLast, lastPurged, committed, gaps, snapshot, builder, up, top, todo, unbacked, unmarked>>
    BY StoreTypes DEF ApplyUpTo, logVars, buildVars, nodeVars
  <1>2. DOMAIN Applied = 0..reached
    BY AppliedIs DEF StoreInv
  <1>3. /\ DOMAIN appliedLog' = DOMAIN appliedLog \union new
        /\ \A j \in new : appliedLog'[j] = logs[j]
        /\ \A j \in DOMAIN appliedLog \ new : appliedLog'[j] = appliedLog[j]
    BY <1>1 DEF ApplyUpTo, Put, Cut
  <1>4. DOMAIN appliedLog \subseteq 0..reached /\ DOMAIN gaps \subseteq 0..reached
    BY <1>2 DEF Applied, Put
  <1>5. /\ DOMAIN Applied' = 0..i
        /\ \A j \in 0..reached : Applied'[j] = Applied[j]
        /\ \A j \in new : Applied'[j] = logs[j]
    <2>1. DOMAIN Applied' = DOMAIN gaps \union DOMAIN appliedLog \union new
      BY <1>1, <1>3 DEF Applied, Put
    <2>2. DOMAIN Applied = DOMAIN gaps \union DOMAIN appliedLog
      BY DEF Applied, Put
    <2>3. (0..reached) \union new = 0..i /\ \A j \in new : j \notin 0..reached
      BY <1>1
    <2>4. \A j \in 0..reached : Applied'[j] = Applied[j]
      <3> SUFFICES ASSUME NEW j \in 0..reached PROVE Applied'[j] = Applied[j]
        OBVIOUS
      <3>1. j \in DOMAIN Applied /\ j \in DOMAIN Applied' /\ j \notin new
        BY <1>2, <2>1, <2>2, <2>3
      <3>2. CASE j \in DOMAIN appliedLog
        BY <1>1, <1>3, <3>1, <3>2 DEF Applied, Put
      <3>3. CASE j \notin DOMAIN appliedLog
        BY <1>1, <1>3, <3>1, <3>3 DEF Applied, Put
      <3> QED
        BY <3>2, <3>3
    <2>5. \A j \in new : Applied'[j] = logs[j]
      BY <1>1, <1>3, <2>1 DEF Applied, Put
    <2> QED
      BY <1>2, <2>1, <2>2, <2>3, <2>4, <2>5
  <1>6. /\ lastApplied' = Id(i, logs[i].term) /\ lastApplied' \in LogIds /\ lastApplied' # Absent
        /\ IdxOf(lastApplied') = i
    <2>1. i \in DOMAIN logs /\ lastApplied' = Id(i, logs[i].term)
      BY <1>1 DEF ApplyUpTo
    <2>2. logs[i].term \in Nat
      BY <2>1 DEF StoreInv, TypeInv, Entries
    <2> QED
      BY <1>1, <2>1, <2>2, IdxOfId
  <1>7. \A j \in 0..i : j \in 0..reached \/ j \in new
    BY <1>1
  <1>8. /\ membership' \in Int
        /\ \A j \in 0..i : Applied'[j].member => j <= membership'
        /\ membership' <= i => membership' \in 0..i /\ Applied'[membership'].member
        /\ membership' > i => membership' = membership
    <2>1. membership' = IF members = {} THEN membership ELSE CHOOSE j \in members : \A k \in members : k <= j
      BY DEF ApplyUpTo
    <2>2. CASE members = {}
      <3>1. reached >= 0 /\ lastApplied # Absent
        <4> SUFFICES ASSUME reached = -1 PROVE FALSE
          BY <1>1, StoreTypes
        <4>1. 0 \in new /\ 0 \in DOMAIN logs
          BY <1>1
        <4> QED
          BY <2>2, <4>1 DEF StoreInv, MemberInv
      <3>2. /\ membership' = membership /\ membership \in Int
            /\ \A j \in 0..reached : Applied[j].member => j <= membership
            /\ membership <= reached => membership \in 0..reached /\ Applied[membership].member
        BY <1>2, <2>1, <2>2, <3>1, StoreTypes DEF StoreInv, AppliedWhole
      <3>3. \A j \in new : ~logs[j].member
        BY <2>2
      <3>4. ~(membership > reached /\ membership <= i)
        <4> SUFFICES ASSUME membership > reached, membership <= i PROVE FALSE
          OBVIOUS
        <4>1. membership \in new /\ membership \in DOMAIN logs /\ membership <= committed
          BY <1>1, <3>2, StoreTypes
        <4> QED
          BY <3>3, <4>1 DEF StoreInv, MemberInv
      <3> HIDE DEF members, new
      <3> QED
        BY <1>1, <1>5, <1>7, <3>2, <3>3, <3>4
    <2>3. CASE members # {}
      <3>1. members \in SUBSET (-1..i)
        BY <1>1
      <3>2. \E j \in members : \A k \in members : k <= j
        <4> HIDE DEF members
        <4> QED
          BY <1>1, <2>3, <3>1, GreatestElement
      <3>3. membership' \in members /\ \A k \in members : k <= membership'
        BY <2>1, <2>3, <3>2
      <3>4. membership' \in new /\ logs[membership'].member
        BY <3>3
      <3>5. \A j \in 0..i : Applied'[j].member => j <= membership'
        <4> SUFFICES ASSUME NEW j \in 0..i, Applied'[j].member PROVE j <= membership'
          OBVIOUS
        <4>1. CASE j \in new
          BY <1>5, <3>3, <4>1
        <4>2. CASE j \in 0..reached
          BY <1>1, <3>4, <4>2
        <4> QED
          BY <1>7, <4>1, <4>2
      <3> HIDE DEF members
      <3> QED
        BY <1>1, <1>5, <3>4, <3>5
    <2> QED
      BY <2>2, <2>3
  <1>9. \A j \in 0..i : Applied'[j] \in Entries /\ Applied'[j].term <= vote
    <2> SUFFICES ASSUME NEW j \in 0..i PROVE Applied'[j] \in Entries /\ Applied'[j].term <= vote
      OBVIOUS
    <2>1. CASE j \in 0..reached
      BY <1>2, <1>5, <2>1 DEF StoreInv, AppliedInv, VoteCovers
    <2>2. CASE j \in new
      BY <1>1, <1>5, <2>2 DEF StoreInv, TypeInv, VoteCovers
    <2> QED
      BY <1>7, <2>1, <2>2
  <1> HIDE DEF members
  <1>10. TypeInv'
    BY <1>1, <1>6, <1>8 DEF StoreInv, TypeInv
  <1>11. AppliedInv'
    BY <1>1, <1>5, <1>6, <1>9, StoreTypes DEF StoreInv, AppliedInv
  <1>12. MemberInv' /\ VoteCovers'
    BY <1>1, <1>5, <1>6, <1>8, <1>9, StoreTypes DEF StoreInv, MemberInv, VoteCovers
  <1>13. WholeInv' /\ LastInv'
    <2>1. /\ PurgePoint' = PurgePoint /\ PurgePoint = IdxOf(lastPurged) /\ Reach' = Reach
          /\ ~Doing("conflict")' /\ ~Doing("purge")' /\ ~Doing("purged")'
      BY <1>1 DEF PurgePoint, Reach, Doing
    <2>2. WholeInv'
      BY <1>1, <1>6, <2>1, StoreTypes DEF StoreInv, WholeInv
    <2>3. LastInv'
      BY <1>1, <2>1 DEF StoreInv, LastInv, StoredLast
    <2> QED
      BY <2>2, <2>3
  <1>14. BuilderInv'
    <2>1. /\ DOMAIN Applied \subseteq DOMAIN Applied' /\ \A j \in DOMAIN Applied : Applied'[j] = Applied[j]
          /\ builder' = builder /\ lastApplied' # Absent /\ IdxOf(lastApplied) <= IdxOf(lastApplied')
          /\ IdxOf(lastApplied') \in Int
      BY <1>1, <1>2, <1>5, <1>6, StoreTypes
    <2> QED
      BY <2>1, BuilderKept DEF StoreInv
  <1>15. AppliedWhole'
    <2>1. \A j \in DOMAIN appliedLog' \intersect DOMAIN logs' : j > IdxOf(lastPurged') => appliedLog'[j] = logs'[j]
      BY <1>1, <1>3 DEF StoreInv, AppliedWhole
    <2>2. DOMAIN appliedLog' \union DOMAIN gaps' = 0..i
      BY <1>1, <1>3, <1>5 DEF Applied, Put
    <2>3. DOMAIN appliedLog' \intersect DOMAIN gaps' = {}
      <3>1. \A j \in new : j \notin 0..reached
        BY <1>1
      <3> QED
        BY <1>1, <1>3, <1>4, <3>1 DEF StoreInv, AppliedWhole
    <2> HIDE DEF new, reached
    <2> QED
      BY <1>5, <1>6, <1>8, <2>1, <2>2, <2>3 DEF AppliedWhole
  <1>16. SnapshotIsPrefix' /\ SnapshotInv'
    <2>1. snapshot # Absent => /\ snapshot.last.idx \in Nat /\ snapshot.last.idx <= reached
                               /\ DOMAIN snapshot.data \subseteq 0..snapshot.last.idx
      BY DEF StoreInv, SnapshotIsPrefix, SnapshotInv, LogIds
    <2>2. snapshot # Absent => \A j \in DOMAIN snapshot.data : j \in 0..reached /\ snapshot.data[j] = Applied[j]
      BY <1>1, <2>1 DEF StoreInv, SnapshotIsPrefix
    <2>3. SnapshotIsPrefix'
      BY <1>1, <1>5, <1>6, <2>1, <2>2 DEF SnapshotIsPrefix
    <2> QED
      BY <1>1, <2>3 DEF StoreInv, SnapshotInv
  <1> QED
    BY <1>10, <1>11, <1>12, <1>13, <1>14, <1>15, <1>16 DEF StoreInv

LEMMA StartUpKeepsInv ==
    ASSUME StoreInv, StartUp
    PROVE  StoreInv'
  <1>1. /\ up' = TRUE /\ committed <= IdxOf(lastApplied) /\ IdxOf(lastApplied) <= top /\ todo = <<>>
        /\ UNCHANGED <<vote, logs, logLast, lastPurged, committed, appliedLog, lastApplied, membership, gaps, snapshot,
                       builder, top, todo, unbacked, unmarked>>
    BY DEF StartUp, logVars, appliedVars, buildVars
  <1>2. Applied' = Applied /\ BuilderInv' /\ SnapshotInv' /\ SnapshotIsPrefix'
    BY <1>1, LogStepKeeps DEF appliedVars, buildVars
  <1>3. AppliedInv'
    BY <1>1, <1>2, StoreTypes DEF StoreInv, AppliedInv
  <1>4. WholeInv' /\ LastInv'
    BY <1>1 DEF StoreInv, WholeInv, LastInv, PurgePoint, Reach, Doing, KnownCommitted, StoredLast
  <1>5. TypeInv' /\ MemberInv' /\ AppliedWhole' /\ VoteCovers'
    BY <1>1, <1>2 DEF StoreInv, TypeInv, MemberInv, AppliedWhole, VoteCovers
  <1> QED
    BY <1>2, <1>3, <1>4, <1>5 DEF StoreInv

LEMMA BuildKeepsInv ==
    ASSUME StoreInv, ScanApplied \/ ReadLastApplied \/ ReadMembership \/ WriteSnapshot
    PROVE  StoreInv'
  <1>1. UNCHANGED <<vote, logs, logLast, lastPurged, committed, appliedLog, lastApplied, membership, gaps, up, top, todo,
                    unbacked, unmarked>>
    BY DEF ScanApplied, ReadLastApplied, ReadMembership, WriteSnapshot, logVars, appliedVars, nodeVars
  <1>2. Applied' = Applied
    BY <1>1 DEF Applied, Put
  <1>3. TypeInv' /\ AppliedInv' /\ MemberInv' /\ AppliedWhole' /\ VoteCovers'
    BY <1>1, <1>2 DEF StoreInv, TypeInv, AppliedInv, MemberInv, AppliedWhole, VoteCovers
  <1>4. WholeInv' /\ LastInv'
    BY <1>1 DEF StoreInv, WholeInv, LastInv, PurgePoint, Reach, Doing, KnownCommitted, StoredLast
  <1>5. ASSUME ScanApplied
        PROVE  BuilderInv' /\ SnapshotIsPrefix' /\ SnapshotInv'
    <2>1. /\ builder' = [step |-> 1, data |-> appliedLog, last |-> Absent, member |-> -1]
          /\ lastApplied # Absent /\ snapshot' = snapshot
      BY <1>5 DEF ScanApplied
    <2>2. \A j \in DOMAIN appliedLog : j \in DOMAIN Applied /\ Applied[j] = appliedLog[j]
      BY AppliedIs DEF StoreInv
    <2>3. BuilderInv'
      BY <1>1, <1>2, <2>1, <2>2 DEF BuilderInv
    <2> QED
      BY <1>2, <1>1, <2>1, <2>3 DEF StoreInv, SnapshotIsPrefix, SnapshotInv
  <1>6. ASSUME ReadLastApplied
        PROVE  BuilderInv' /\ SnapshotIsPrefix' /\ SnapshotInv'
    <2>1. /\ builder' = [builder EXCEPT !.step = 2, !.last = lastApplied] /\ builder # Absent /\ builder.step = 1
          /\ snapshot' = snapshot
      BY <1>6 DEF ReadLastApplied
    <2>2. builder' = [step |-> 2, data |-> builder.data, last |-> lastApplied, member |-> builder.member]
      BY <2>1 DEF StoreInv, BuilderInv
    <2>3. /\ lastApplied # Absent /\ lastApplied \in LogIds /\ lastApplied.idx = IdxOf(lastApplied)
          /\ DOMAIN builder.data \subseteq 0..lastApplied.idx /\ DOMAIN builder.data \subseteq DOMAIN Applied
          /\ \A i \in DOMAIN builder.data : builder.data[i] = Applied[i]
      BY <2>1, AppliedIs, StoreTypes DEF StoreInv, BuilderInv
    <2>4. BuilderInv'
      <3>1. /\ builder'.step = 2 /\ builder'.data = builder.data /\ builder'.last = lastApplied
            /\ builder'.member = builder.member
        BY <2>2
      <3> QED
        BY <1>1, <1>2, <2>2, <2>3, <3>1, StoreTypes DEF BuilderInv
    <2> QED
      BY <1>1, <1>2, <2>1, <2>4 DEF StoreInv, SnapshotIsPrefix, SnapshotInv
  <1>7. ASSUME ReadMembership
        PROVE  BuilderInv' /\ SnapshotIsPrefix' /\ SnapshotInv'
    <2>1. /\ builder' = [builder EXCEPT !.step = 3, !.member = membership] /\ builder # Absent /\ builder.step = 2
          /\ snapshot' = snapshot
      BY <1>7 DEF ReadMembership
    <2>2. builder' = [step |-> 3, data |-> builder.data, last |-> builder.last, member |-> membership]
      BY <2>1 DEF StoreInv, BuilderInv
    <2>3. BuilderInv'
      <3>1. /\ builder'.step = 3 /\ builder'.data = builder.data /\ builder'.last = builder.last
            /\ builder'.member = membership
        BY <2>2
      <3>2. /\ lastApplied # Absent
            /\ DOMAIN builder.data \subseteq DOMAIN Applied
            /\ \A i \in DOMAIN builder.data : builder.data[i] = Applied[i]
            /\ builder.last \in LogIds /\ builder.last.idx <= IdxOf(lastApplied)
            /\ DOMAIN builder.data \subseteq 0..builder.last.idx
        BY <2>1 DEF StoreInv, BuilderInv
      <3> QED
        BY <1>1, <1>2, <2>2, <3>1, <3>2 DEF BuilderInv
    <2> QED
      BY <1>1, <1>2, <2>1, <2>3 DEF StoreInv, SnapshotIsPrefix, SnapshotInv
  <1>8. ASSUME WriteSnapshot
        PROVE  BuilderInv' /\ SnapshotIsPrefix' /\ SnapshotInv'
    <2>1. /\ snapshot' = [last |-> builder.last, member |-> builder.member, data |-> builder.data]
          /\ builder # Absent /\ builder.step = 3 /\ builder' = Absent
      BY <1>8 DEF WriteSnapshot
    <2> QED
      BY <1>1, <1>2, <2>1 DEF StoreInv, BuilderInv, SnapshotIsPrefix, SnapshotInv
  <1> QED
    BY <1>3, <1>4, <1>5, <1>6, <1>7, <1>8 DEF StoreInv

LEMMA InstallKeepsInv ==
    ASSUME StoreInv, NEW i \in 0..MaxIdx, NEW m \in 0..MaxIdx, NEW t \in 1..MaxTerm, NEW have \in SUBSET (0..i),
           InstallSnapshot(i, t, have, m)
    PROVE  StoreInv'
  <1> DEFINE whole == Committed(i, t, m)
  <1>1. /\ todo = <<>> /\ up /\ KnownCommitted < i /\ t <= vote /\ i \in Nat /\ t \in Nat /\ m \in Nat
        /\ m <= i => whole[m].member
        /\ \A j \in 0..i : whole[j].member => j <= m
        /\ appliedLog' = Cut(whole, have) /\ gaps' = Cut(whole, (0..i) \ have)
        /\ snapshot' = [last |-> Id(i, t), member |-> m, data |-> Cut(whole, have)]
        /\ lastApplied' = Id(i, t) /\ membership' = m /\ logLast' = Id(i, t) /\ lastPurged' = Id(i, t)
        /\ top' = Larger(top, i) /\ unbacked' = (i + 1)..top /\ unmarked' = {}
        /\ UNCHANGED <<vote, logs, committed, builder, up, todo>>
    BY StoreTypes, StoreAssumption DEF InstallSnapshot, MayInstall, Free
  <1>2. /\ Id(i, t) \in LogIds /\ Id(i, t) # Absent /\ IdxOf(Id(i, t)) = i /\ Id(i, t).idx = i /\ Id(i, t).term = t
    BY <1>1, IdxOfId
  <1>3. /\ KnownCommitted \in Int /\ committed < i /\ IdxOf(lastApplied) < i /\ IdxOf(lastPurged) < i
    BY <1>1, KnownCommittedIs, StoreTypes
  <1>4. /\ top' \in Int /\ top' >= top /\ top' >= i /\ (top' = top \/ top' = i)
    BY <1>1, StoreTypes DEF Larger
  <1>5. DOMAIN whole = 0..i /\ \A j \in DOMAIN Applied : j \in 0..i /\ whole[j] = Applied[j]
    <2>1. DOMAIN Applied \subseteq 0..i
      BY <1>3, AppliedIs, StoreTypes DEF StoreInv
    <2> QED
      BY <2>1 DEF Committed
  <1>6. \A j \in 0..i : whole[j] \in Entries /\ whole[j].term <= vote
    <2> SUFFICES ASSUME NEW j \in 0..i PROVE whole[j] \in Entries /\ whole[j].term <= vote
      OBVIOUS
    <2>1. CASE j \in DOMAIN Applied
      BY <1>5, <2>1 DEF StoreInv, AppliedInv, VoteCovers
    <2>2. CASE j \notin DOMAIN Applied /\ j \in DOMAIN logs /\ (j <= committed \/ i <= top)
      <3>1. whole[j] = logs[j]
        BY <2>2 DEF Committed
      <3> QED
        BY <2>2, <3>1 DEF StoreInv, TypeInv, VoteCovers
    <2>3. CASE j \notin DOMAIN Applied /\ ~(j \in DOMAIN logs /\ (j <= committed \/ i <= top))
      <3>1. whole[j] = [term |-> t, member |-> j \in {0, m}]
        BY <2>3 DEF Committed
      <3> QED
        BY <1>1, <3>1 DEF Entries
    <2> QED
      BY <2>1, <2>2, <2>3
  <1> HIDE DEF whole
  <1>7. /\ DOMAIN appliedLog' = have /\ DOMAIN gaps' = (0..i) \ have
        /\ DOMAIN Applied' = 0..i /\ \A j \in 0..i : Applied'[j] = whole[j]
        /\ DOMAIN snapshot'.data = have /\ \A j \in have : snapshot'.data[j] = whole[j]
        /\ snapshot'.last = Id(i, t)
    <2>1. /\ DOMAIN appliedLog' = have /\ \A j \in have : appliedLog'[j] = whole[j]
          /\ DOMAIN gaps' = (0..i) \ have /\ \A j \in (0..i) \ have : gaps'[j] = whole[j]
          /\ snapshot'.data = appliedLog' /\ snapshot'.last = Id(i, t)
      BY <1>1, <1>5 DEF Cut
    <2>2. DOMAIN Applied' = 0..i /\ \A j \in 0..i : Applied'[j] = whole[j]
      BY <2>1 DEF Applied, Put
    <2> QED
      BY <2>1, <2>2
  <1>8. /\ ~Doing("conflict")' /\ ~Doing("purge")' /\ ~Doing("purged")'
        /\ PurgePoint' = i /\ Reach' = top'
    BY <1>1, <1>2 DEF PurgePoint, Reach, Doing
  <1>9. TypeInv'
    BY <1>1, <1>2, <1>4, StoreTypes DEF StoreInv, TypeInv
  <1>10. AppliedInv' /\ MemberInv' /\ VoteCovers'
    <2>1. \A j \in DOMAIN Applied' : Applied'[j] \in Entries /\ Applied'[j].term <= vote'
      BY <1>1, <1>6, <1>7
    <2>2. AppliedInv'
      BY <1>1, <1>2, <1>3, <1>4, <2>1, StoreTypes DEF AppliedInv
    <2>3. MemberInv'
      BY <1>1, <1>2, <1>3, StoreTypes DEF StoreInv, MemberInv
    <2> QED
      BY <1>1, <2>1, <2>2, <2>3 DEF StoreInv, VoteCovers
  <1>11. WholeInv'
    <2>1. \A j \in (i + 1)..top' : j \in (i + 1)..top
      BY <1>1, <1>4, StoreTypes
    <2> QED
      BY <1>1, <1>2, <1>8, <2>1 DEF WholeInv
  <1>12. LastInv'
    <2>1. top' = i \/ top' \in unbacked'
      BY <1>1, <1>4, StoreTypes
    <2> QED
      BY <1>1, <1>2, <1>4, <1>8, <2>1 DEF LastInv, StoredLast
  <1>13. BuilderInv'
    <2>1. /\ DOMAIN Applied \subseteq DOMAIN Applied' /\ \A j \in DOMAIN Applied : Applied'[j] = Applied[j]
          /\ builder' = builder /\ lastApplied' # Absent /\ IdxOf(lastApplied) <= IdxOf(lastApplied')
          /\ IdxOf(lastApplied') \in Int
      BY <1>1, <1>2, <1>3, <1>5, <1>7, StoreTypes
    <2> QED
      BY <2>1, BuilderKept DEF StoreInv
  <1>14. AppliedWhole'
    <2>1. IdxOf(lastApplied') = i /\ IdxOf(lastPurged') = i /\ membership' = m /\ m \in Nat
      BY <1>1, <1>2
    <2>2. /\ DOMAIN appliedLog' \union DOMAIN gaps' = 0..i /\ DOMAIN appliedLog' \intersect DOMAIN gaps' = {}
          /\ DOMAIN appliedLog' \subseteq 0..i
      BY <1>7
    <2>3. m <= i => m \in DOMAIN Applied' /\ Applied'[m].member
      BY <1>1, <1>7
    <2>4. \A j \in DOMAIN Applied' : Applied'[j].member => j <= m
      BY <1>1, <1>7
    <2> QED
      <3>1. \A j \in DOMAIN appliedLog' \intersect DOMAIN logs' : ~(j > IdxOf(lastPurged'))
        BY <1>1, <2>1, <2>2
      <3>2. DOMAIN appliedLog' \union DOMAIN gaps' = 0..IdxOf(lastApplied')
        BY <2>1, <2>2
      <3> QED
        BY <2>1, <2>2, <2>3, <2>4, <3>1, <3>2 DEF AppliedWhole
  <1>15. SnapshotIsPrefix' /\ SnapshotInv'
    BY <1>1, <1>2, <1>7 DEF SnapshotIsPrefix, SnapshotInv
  <1> QED
    BY <1>9, <1>10, <1>11, <1>12, <1>13, <1>14, <1>15 DEF StoreInv

LEMMA CrashKeepsInv ==
    ASSUME StoreInv, Crash
    PROVE  StoreInv'
  <1> DEFINE end == IdxOf(StoredLast)
  <1>1. /\ builder' = Absent /\ todo' = <<>> /\ up' = FALSE /\ top' = end
        /\ unbacked' = IF Doing("conflict") THEN unbacked \union todo[2].idx..end ELSE unbacked
        /\ unmarked' = IF Doing("purge") THEN unmarked \union (IdxOf(lastPurged) + 1)..todo[2].idx ELSE unmarked
        /\ UNCHANGED <<vote, logs, logLast, lastPurged, committed, appliedLog, lastApplied, membership, gaps, snapshot>>
    BY DEF Crash, logVars, appliedVars
  <1>2. Applied' = Applied
    BY <1>1 DEF Applied, Put
  <1>3. /\ ~Doing("conflict")' /\ ~Doing("purge")' /\ ~Doing("purged")'
        /\ PurgePoint' = IdxOf(lastPurged) /\ Reach' = end /\ StoredLast' = StoredLast
    BY <1>1 DEF Doing, PurgePoint, Reach, StoredLast
  <1>4. end \in Int /\ end >= -1 /\ IdxOf(logLast) <= end /\ (end <= top \/ end = IdxOf(lastPurged))
    BY StoreTypes DEF StoredLast, StoreInv, LastInv
  <1>5. /\ unbacked \subseteq unbacked' /\ unmarked \subseteq unmarked' /\ unbacked' \subseteq Int /\ unmarked' \subseteq Int
        /\ \A j \in unmarked' : j <= IdxOf(lastApplied)
    <2>1. Doing("purge") => todo[2].idx \in Nat /\ todo[2].idx <= IdxOf(lastApplied)
      BY DEF StoreInv, TypeInv, WholeInv, PurgePoint, Doing, LogIds
    <2>2. Doing("conflict") => todo[2].idx \in Nat
      BY DEF StoreInv, TypeInv, Doing, LogIds
    <2> QED
      BY <1>1, <1>4, <2>1, <2>2, StoreTypes DEF StoreInv, AppliedInv
  <1>6. \A j \in (IdxOf(lastPurged) + 1)..end : j \in DOMAIN logs \union unbacked' \union unmarked'
    <2> SUFFICES ASSUME NEW j \in (IdxOf(lastPurged) + 1)..end
                 PROVE  j \in DOMAIN logs \union unbacked' \union unmarked'
      OBVIOUS
    <2>1. j \in Int /\ IdxOf(lastPurged) < j /\ j <= end /\ j <= top
      BY <1>4, StoreTypes
    <2>2. CASE Doing("conflict")
      <3>1. /\ PurgePoint = IdxOf(lastPurged) /\ Reach = todo[2].idx - 1 /\ todo[2].idx \in Nat
        BY <2>2 DEF PurgePoint, Reach, Doing, StoreInv, TypeInv, LogIds
      <3>2. CASE j < todo[2].idx
        BY <1>5, <2>1, <3>1, <3>2, StoreTypes DEF StoreInv, WholeInv
      <3>3. CASE ~(j < todo[2].idx)
        BY <1>1, <1>4, <2>1, <2>2, <3>1, <3>3
      <3> QED
        BY <3>2, <3>3
    <2>3. CASE Doing("purge")
      <3>1. /\ PurgePoint = todo[2].idx /\ Reach = top /\ todo[2].idx \in Nat
        BY <2>3 DEF PurgePoint, Reach, Doing, StoreInv, TypeInv, LogIds
      <3>2. CASE j <= todo[2].idx
        BY <1>1, <2>1, <2>3, <3>1, <3>2, StoreTypes
      <3>3. CASE ~(j <= todo[2].idx)
        BY <1>5, <2>1, <3>1, <3>3, StoreTypes DEF StoreInv, WholeInv
      <3> QED
        BY <3>2, <3>3
    <2>4. CASE ~Doing("conflict") /\ ~Doing("purge")
      <3>1. PurgePoint = IdxOf(lastPurged) /\ Reach = top
        <4>1. Doing("purged") => todo[2] \in LogIds /\ lastPurged = todo[2]
          BY DEF StoreInv, TypeInv, WholeInv, Doing
        <4> QED
          BY <2>4, <4>1, IdxOfId DEF PurgePoint, Reach
      <3> QED
        BY <1>5, <2>1, <3>1, StoreTypes DEF StoreInv, WholeInv
    <2> QED
      BY <2>2, <2>3, <2>4
  <1> HIDE DEF end
  <1>7. TypeInv'
    BY <1>1, <1>4, <1>5 DEF StoreInv, TypeInv
  <1>8. AppliedInv' /\ MemberInv' /\ AppliedWhole' /\ VoteCovers' /\ SnapshotIsPrefix' /\ SnapshotInv' /\ BuilderInv'
    BY <1>1, <1>2, <1>5 DEF StoreInv, AppliedInv, MemberInv, AppliedWhole, VoteCovers, SnapshotIsPrefix, SnapshotInv, BuilderInv
  <1>9. WholeInv'
    BY <1>1, <1>3, <1>6, StoreTypes DEF StoreInv, WholeInv, AppliedInv
  <1>10. LastInv'
    BY <1>1, <1>3, <1>4 DEF StoreInv, LastInv, end
  <1> QED
    BY <1>7, <1>8, <1>9, <1>10 DEF StoreInv

-----------------------------------------------------------------------------
\* What the invariant says between calls is what get_log_state returns.
LEMMA InvImpliesSafe ==
    ASSUME StoreInv
    PROVE  StoreSafe
  <1>1. CommittedKept
    <2> SUFFICES ASSUME NEW i \in 0..committed PROVE i \in DOMAIN logs \union DOMAIN Applied \union unbacked
      BY DEF CommittedKept
    <2>1. DOMAIN Applied = 0..IdxOf(lastApplied)
      BY AppliedIs DEF StoreInv
    <2>2. i \in 0..IdxOf(lastApplied) \/ i \in (IdxOf(lastApplied) + 1)..committed
      BY StoreTypes
    <2> QED
      BY <2>1, <2>2 DEF StoreInv, AppliedInv
  <1>2. LogStateTrue
    <2> SUFFICES ASSUME todo = <<>>
                 PROVE  /\ \A i \in (IdxOf(lastPurged) + 1)..top : i \in DOMAIN logs \union unbacked \union unmarked
                        /\ IdxOf(StoredLast) = top \/ top \in unbacked \union unmarked \/ (StoredLast = Absent /\ top = 0)
                        /\ StoredLast # Absent /\ StoredLast.idx \in DOMAIN logs /\ StoredLast.idx > IdxOf(lastPurged) =>
                              StoredLast.term = logs[StoredLast.idx].term
      BY DEF LogStateTrue
    <2>1. PurgePoint = IdxOf(lastPurged) /\ Reach = top
      BY DEF PurgePoint, Reach, Doing
    <2>2. \A i \in (IdxOf(lastPurged) + 1)..top : i \in DOMAIN logs \union unbacked \union unmarked
      BY <2>1 DEF StoreInv, WholeInv
    <2>3. IdxOf(StoredLast) = top \/ top \in unbacked \union unmarked \/ (StoredLast = Absent /\ top = 0)
      BY DEF StoreInv, LastInv
    <2>4. StoredLast # Absent /\ StoredLast.idx \in DOMAIN logs /\ StoredLast.idx > IdxOf(lastPurged) =>
              StoredLast.term = logs[StoredLast.idx].term
      BY StoreTypes DEF StoredLast, StoreInv, LastInv
    <2> QED
      BY <2>2, <2>3, <2>4
  <1> QED
    BY <1>1, <1>2 DEF StoreInv, StoreSafe

\* The invariant holds in every reachable state.
THEOREM StoreInvHolds == StoreSpec => []StoreInv
  <1>1. ASSUME StoreInit PROVE StoreInv
    <2>1. /\ DOMAIN logs = {} /\ DOMAIN appliedLog = {} /\ DOMAIN gaps = {} /\ todo = <<>> /\ up = FALSE /\ top = -1
          /\ logLast = Absent /\ lastPurged = Absent /\ lastApplied = Absent /\ committed = -1 /\ membership = -1
          /\ snapshot = Absent /\ builder = Absent /\ vote = 0 /\ unbacked = {} /\ unmarked = {}
      BY <1>1 DEF StoreInit
    <2>2. /\ IdxOf(Absent) = -1 /\ IdxOf(lastPurged) = -1 /\ IdxOf(lastApplied) = -1 /\ IdxOf(logLast) = -1
          /\ PurgePoint = -1 /\ Reach = -1 /\ ~Doing("conflict") /\ ~Doing("purge") /\ ~Doing("purged")
      BY <2>1, IdxOfId DEF PurgePoint, Reach, Doing
    <2>3. DOMAIN Applied = {}
      BY <2>1 DEF Applied, Put
    <2>4. TypeInv
      <3>1. {logLast, lastPurged, lastApplied} \subseteq LogIds \union {Absent}
        BY <2>1
      <3>2. DOMAIN logs \subseteq 0..MaxIdx /\ \A i \in DOMAIN logs : logs[i] \in Entries
        BY <2>1
      <3>3. /\ committed \in Int /\ committed >= -1 /\ membership \in Int /\ vote \in Nat
            /\ top \in Int /\ top >= -1 /\ unbacked \subseteq Int /\ unmarked \subseteq Int
        BY <2>1
      <3>4. up \in BOOLEAN
        BY <2>1
      <3> QED
        BY <2>1, <3>1, <3>2, <3>3, <3>4 DEF TypeInv
    <2>5. AppliedInv /\ MemberInv /\ AppliedWhole /\ WholeInv /\ VoteCovers
      BY <2>1, <2>2, <2>3 DEF AppliedInv, MemberInv, AppliedWhole, WholeInv, VoteCovers
    <2>6. LastInv
      BY <2>1, <2>2 DEF LastInv, StoredLast
    <2>7. BuilderInv /\ SnapshotInv /\ SnapshotIsPrefix
      BY <2>1 DEF BuilderInv, SnapshotInv, SnapshotIsPrefix
    <2> QED
      BY <2>4, <2>5, <2>6, <2>7 DEF StoreInv
  <1>2. StoreInv /\ [StoreNext]_storeVars => StoreInv'
    <2> SUFFICES ASSUME StoreInv, [StoreNext]_storeVars PROVE StoreInv'
      OBVIOUS
    <2>1. ASSUME UNCHANGED storeVars PROVE StoreInv'
      <3>1. /\ UNCHANGED <<vote, logs, logLast, lastPurged, committed, appliedLog, lastApplied, membership, gaps, snapshot,
                           builder, up, top, todo, unbacked, unmarked>>
        BY <2>1 DEF storeVars, logVars, appliedVars, buildVars, nodeVars
      <3>2. Applied' = Applied /\ BuilderInv' /\ SnapshotInv' /\ SnapshotIsPrefix'
        BY <3>1, LogStepKeeps DEF appliedVars, buildVars
      <3> QED
        BY <3>1, <3>2 DEF StoreInv, TypeInv, AppliedInv, MemberInv, WholeInv, LastInv, AppliedWhole, VoteCovers,
           PurgePoint, Reach, Doing, KnownCommitted, StoredLast
    <2> QED
      BY <2>1, SaveVoteKeepsInv, AppendKeepsInv, SaveCommittedKeepsInv, DeleteConflictLogsKeepsInv, DeleteConflictLastKeepsInv,
         PurgeLogsKeepsInv, PurgeMarkKeepsInv, PurgeLastKeepsInv, ApplyKeepsInv, StartUpKeepsInv, BuildKeepsInv,
         InstallKeepsInv, CrashKeepsInv DEF StoreNext, Operations
  <1> QED
    BY <1>1, <1>2, PTL DEF StoreSpec

\* For all bounds and any number of crashes: whenever no call is running get_log_state tells the end of the log and
\* the entries up to it are there, but for those that a torn call took or an installed snapshot set log_last back
\* from; and at every moment, also inside a call and after a crash there, the applied entries are whole but for what
\* an installed snapshot lacked, no committed entry is lost but one a torn cut had taken, the membership in force is
\* the last one applied or one a snapshot brought, a snapshot holds a beginning of the applied entries, and the saved
\* vote covers every entry (rocks_store.rs).
THEOREM StoreSafeHolds == StoreSpec => []StoreSafe
  BY StoreInvHolds, InvImpliesSafe, PTL
-----------------------------------------------------------------------------
(***************************************************************************)
(* The registry a process holds is a fold over a prefix of the committed   *)
(* entries: from nothing, or from what it completed when it bootstrapped.  *)

Entry == [op : {"register", "beat", "status"}, node : Members, value : {0, 1, "dead", "healthy"}, call : Nat]
NodeView == [status : {0, 1, "dead", "healthy"}, beat : {0, 1, "dead", "healthy"}]
Registry == UNION {[known -> NodeView] : known \in SUBSET Members}

FoldOf(es, reg, from, to) ==
    LET f[i \in from..to] == IF i = from THEN reg ELSE Folded(f[i - 1], es[i]) IN f[to]

\* The registries between two entries, starting from a given one.
Trace(f, es, reg, from, to) ==
    /\ f[from] = reg
    /\ \A i \in from..to : f[i] \in Registry
    /\ \A i \in (from + 1)..to : f[i] = Folded(f[i - 1], es[i])

LEMMA RegistryIs ==
    ASSUME NEW reg
    PROVE  reg \in Registry <=> \E known \in SUBSET Members : reg \in [known -> NodeView]
  BY DEF Registry

LEMMA FoldedTyped ==
    ASSUME NEW reg \in Registry, NEW e \in Entry
    PROVE  Folded(reg, e) \in Registry
  <1>1. PICK known \in SUBSET Members : reg \in [known -> NodeView]
    BY RegistryIs
  <1>2. DOMAIN reg = known /\ \A n \in known : reg[n] \in NodeView
    BY <1>1
  <1>3. e.node \in Members /\ e.value \in {0, 1, "dead", "healthy"} /\ e.op \in {"register", "beat", "status"}
    BY DEF Entry
  <1>4. CASE e.op = "register"
    <2> DEFINE more == known \cup {e.node}
               new == [n \in more |-> IF n = e.node THEN [status |-> "healthy", beat |-> 0] ELSE reg[n]]
    <2>1. Folded(reg, e) = new
      BY <1>2, <1>4 DEF Folded
    <2>2. new \in [more -> NodeView] /\ more \in SUBSET Members
      BY <1>2, <1>3 DEF NodeView
    <2> QED
      BY <2>1, <2>2, RegistryIs
  <1>5. CASE e.op = "beat" /\ e.node \in known
    <2> DEFINE view == [beat |-> e.value, status |-> IF reg[e.node].status = "dead" THEN "dead" ELSE "healthy"]
               new == [reg EXCEPT ![e.node] = view]
    <2>1. Folded(reg, e) = new
      BY <1>2, <1>5 DEF Folded
    <2>2. view \in NodeView
      BY <1>3 DEF NodeView
    <2>3. new \in [known -> NodeView]
      BY <1>1, <2>2
    <2> QED
      BY <2>1, <2>3, RegistryIs
  <1>6. CASE e.op = "status" /\ e.node \in known
    <2> DEFINE new == [reg EXCEPT ![e.node].status = e.value]
    <2>1. Folded(reg, e) = new
      BY <1>2, <1>6 DEF Folded
    <2>2. new \in [known -> NodeView]
      BY <1>1, <1>3 DEF NodeView
    <2> QED
      BY <2>1, <2>2, RegistryIs
  <1>7. CASE e.op \in {"beat", "status"} /\ e.node \notin known
    BY <1>2, <1>7 DEF Folded
  <1> QED
    BY <1>3, <1>4, <1>5, <1>6, <1>7

FoldSteps(es, from, n) == [k \in 1..n |-> [reg \in Registry |-> Folded(reg, es[from + k])]]

LEMMA FoldTraces ==
    ASSUME NEW es \in Seq(Entry), NEW reg \in Registry, NEW from \in Nat, NEW to \in from..Len(es)
    PROVE  \E f : Trace(f, es, reg, from, to)
  <1> DEFINE n == to - from
             step == FoldSteps(es, from, n)
  <1>1. n \in Nat /\ to \in Nat /\ \A k \in 1..n : from + k \in 1..Len(es) /\ es[from + k] \in Entry
    OBVIOUS
  <1>2. \A k \in 1..n : \A r \in Registry : step[k][r] = Folded(r, es[from + k]) /\ Folded(r, es[from + k]) \in Registry
    BY <1>1, FoldedTyped DEF FoldSteps
  <1> HIDE DEF step
  <1>3. Steps(step, n, Registry)
    BY <1>2 DEF Steps
  <1>4. PICK g : Iterates(g, reg, step, n, Registry)
    BY <1>1, <1>3, PrefixRecursion
  <1>5. /\ g[0] = reg /\ \A k \in 0..n : g[k] \in Registry
        /\ \A k \in 1..n : g[k] = step[k][g[k - 1]]
    BY <1>4 DEF Iterates
  <1>6. ASSUME NEW k \in 1..n PROVE g[k] = Folded(g[k - 1], es[from + k])
    <2>1. k - 1 \in 0..n
      BY <1>1
    <2> QED
      BY <1>2, <1>5, <2>1
  <1> DEFINE f == [i \in from..to |-> g[i - from]]
  <1>7. f[from] = reg
    BY <1>1, <1>5
  <1>8. \A i \in from..to : f[i] \in Registry
    BY <1>1, <1>5
  <1>9. ASSUME NEW i \in (from + 1)..to PROVE f[i] = Folded(f[i - 1], es[i])
    <2> DEFINE k == i - from
    <2>1. k \in 1..n /\ from + k = i /\ i \in from..to /\ i - 1 \in from..to /\ (i - 1) - from = k - 1
      BY <1>1
    <2>2. f[i] = g[k] /\ f[i - 1] = g[k - 1]
      BY <2>1
    <2> QED
      BY <1>6, <2>1, <2>2
  <1> HIDE DEF f
  <1>10. Trace(f, es, reg, from, to)
    BY <1>7, <1>8, <1>9 DEF Trace
  <1> QED
    BY <1>10

\* A fold is the end of any trace.
LEMMA FoldIs ==
    ASSUME NEW es \in Seq(Entry), NEW from \in Nat, NEW to \in from..Len(es), NEW reg, NEW f,
           Trace(f, es, reg, from, to)
    PROVE  FoldOf(es, reg, from, to) = f[to] /\ f[to] \in Registry
  <1> DEFINE Eq(h) == h = [i \in from..to |-> IF i = from THEN reg ELSE Folded(h[i - 1], es[i])]
             F == CHOOSE h : Eq(h)
             g == [i \in from..to |-> f[i]]
  <1>1. to \in Nat /\ to \in from..to /\ from \in from..to
    OBVIOUS
  <1>2. FoldOf(es, reg, from, to) = F[to]
    BY DEF FoldOf
  <1>3. /\ f[from] = reg /\ \A i \in from..to : f[i] \in Registry
        /\ \A i \in from..to : i # from => i - 1 \in from..to /\ f[i] = Folded(f[i - 1], es[i])
    <2>1. \A i \in from..to : i # from => i \in (from + 1)..to /\ i - 1 \in from..to
      BY <1>1
    <2> QED
      BY <2>1 DEF Trace
  <1>4. Eq(g)
    BY <1>3
  <1> HIDE DEF g
  <1>5. Eq(F)
    BY <1>4
  <1> HIDE DEF F
  <1>6. \A i \in from..to : F[i] = IF i = from THEN reg ELSE Folded(F[i - 1], es[i])
    BY <1>5
  <1> DEFINE S == {i \in from..to : F[i] = f[i]}
  <1>7. from \in S
    BY <1>1, <1>3, <1>6
  <1>8. ASSUME NEW i \in from..(to - 1), i \in S PROVE i + 1 \in S
    <2>1. i + 1 \in from..to /\ i + 1 # from /\ (i + 1) - 1 = i
      BY <1>1
    <2>2. F[i + 1] = Folded(F[i], es[i + 1]) /\ f[i + 1] = Folded(f[i], es[i + 1])
      BY <1>3, <1>6, <2>1
    <2> QED
      BY <1>8, <2>1, <2>2
  <1> HIDE DEF S
  <1>9. \A i \in from..to : i \in S
    BY <1>1, <1>7, <1>8, IntervalInduction
  <1>10. F[to] = f[to]
    BY <1>1, <1>9 DEF S
  <1> QED
    BY <1>1, <1>2, <1>3, <1>10

LEMMA FoldTyped ==
    ASSUME NEW es \in Seq(Entry), NEW reg \in Registry, NEW from \in Nat, NEW to \in from..Len(es)
    PROVE  FoldOf(es, reg, from, to) \in Registry
  BY FoldTraces, FoldIs

LEMMA FoldNothing ==
    ASSUME NEW es \in Seq(Entry), NEW reg \in Registry, NEW from \in 0..Len(es)
    PROVE  FoldOf(es, reg, from, from) = reg
  <1>1. from \in from..Len(es) /\ from \in Nat
    OBVIOUS
  <1>2. PICK f : Trace(f, es, reg, from, from)
    BY <1>1, FoldTraces
  <1>3. FoldOf(es, reg, from, from) = f[from]
    BY <1>1, <1>2, FoldIs
  <1> QED
    BY <1>2, <1>3 DEF Trace

\* What was folded in two goes is what is folded in one.
LEMMA FoldTwice ==
    ASSUME NEW es \in Seq(Entry), NEW reg \in Registry, NEW from \in Nat, NEW mid \in Nat, NEW to \in Nat,
           from <= mid, mid <= to, to <= Len(es)
    PROVE  FoldOf(es, FoldOf(es, reg, from, mid), mid, to) = FoldOf(es, reg, from, to)
  <1>1. mid \in from..Len(es) /\ to \in mid..Len(es) /\ to \in from..Len(es)
    OBVIOUS
  <1>2. PICK f : Trace(f, es, reg, from, mid)
    BY <1>1, FoldTraces
  <1>3. FoldOf(es, reg, from, mid) = f[mid] /\ f[mid] \in Registry
    BY <1>1, <1>2, FoldIs
  <1>4. PICK g : Trace(g, es, f[mid], mid, to)
    BY <1>1, <1>3, FoldTraces
  <1>5. FoldOf(es, f[mid], mid, to) = g[to]
    BY <1>1, <1>4, FoldIs
  <1> DEFINE h == [i \in from..to |-> IF i <= mid THEN f[i] ELSE g[i]]
  <1>6. /\ f[from] = reg /\ \A i \in from..mid : f[i] \in Registry
        /\ \A i \in (from + 1)..mid : f[i] = Folded(f[i - 1], es[i])
        /\ g[mid] = f[mid] /\ \A i \in mid..to : g[i] \in Registry
        /\ \A i \in (mid + 1)..to : g[i] = Folded(g[i - 1], es[i])
    BY <1>2, <1>4 DEF Trace
  <1>7. \A i \in from..to : h[i] = IF i <= mid THEN f[i] ELSE g[i]
    OBVIOUS
  <1> HIDE DEF h
  <1>8. h[from] = reg /\ h[to] = g[to]
    <2>1. from \in from..to /\ to \in from..to
      OBVIOUS
    <2> QED
      BY <1>6, <1>7, <2>1
  <1>9. \A i \in from..to : h[i] \in Registry
    <2> TAKE i \in from..to
    <2>1. i <= mid => i \in from..mid
      OBVIOUS
    <2>2. ~(i <= mid) => i \in mid..to
      OBVIOUS
    <2> QED
      BY <1>6, <1>7, <2>1, <2>2
  <1>10. ASSUME NEW i \in (from + 1)..to PROVE h[i] = Folded(h[i - 1], es[i])
    <2>1. i \in from..to /\ i - 1 \in from..to
      OBVIOUS
    <2>2. CASE i <= mid
      <3>1. i \in (from + 1)..mid /\ i - 1 <= mid
        BY <2>2
      <3> QED
        BY <1>6, <1>7, <2>1, <2>2, <3>1
    <2>3. CASE i > mid
      <3>1. i \in (mid + 1)..to /\ ~(i <= mid) /\ (i - 1 <= mid => i - 1 = mid)
        BY <2>3
      <3>2. h[i - 1] = g[i - 1]
        BY <1>6, <1>7, <2>1, <3>1
      <3> QED
        BY <1>6, <1>7, <2>1, <3>1, <3>2
    <2> QED
      BY <2>2, <2>3
  <1>11. Trace(h, es, reg, from, to)
    BY <1>8, <1>9, <1>10 DEF Trace
  <1>12. FoldOf(es, reg, from, to) = h[to]
    BY <1>1, <1>11, FoldIs
  <1> QED
    BY <1>3, <1>5, <1>8, <1>12

\* Entries that follow do not matter, and the last one is folded last.
LEMMA FoldLonger ==
    ASSUME NEW es \in Seq(Entry), NEW e \in Entry, NEW reg \in Registry, NEW from \in Nat, NEW to \in from..Len(es)
    PROVE  /\ FoldOf(Append(es, e), reg, from, to) = FoldOf(es, reg, from, to)
           /\ to = Len(es) => FoldOf(Append(es, e), reg, from, to + 1) = Folded(FoldOf(es, reg, from, to), e)
  <1> DEFINE longer == Append(es, e)
  <1>1. /\ longer \in Seq(Entry) /\ Len(longer) = Len(es) + 1 /\ longer[Len(es) + 1] = e
        /\ \A i \in 1..Len(es) : longer[i] = es[i]
        /\ to \in from..Len(longer) /\ Len(es) \in Nat
    OBVIOUS
  <1> HIDE DEF longer
  <1>2. PICK f : Trace(f, es, reg, from, to)
    BY FoldTraces
  <1>3. FoldOf(es, reg, from, to) = f[to] /\ f[to] \in Registry
    BY <1>2, FoldIs
  <1>4. /\ f[from] = reg /\ \A i \in from..to : f[i] \in Registry
        /\ \A i \in (from + 1)..to : f[i] = Folded(f[i - 1], es[i])
    BY <1>2 DEF Trace
  <1>5. \A i \in (from + 1)..to : longer[i] = es[i]
    BY <1>1
  <1>6. Trace(f, longer, reg, from, to)
    BY <1>4, <1>5 DEF Trace
  <1>7. FoldOf(longer, reg, from, to) = f[to]
    BY <1>1, <1>6, FoldIs
  <1>8. ASSUME to = Len(es) PROVE FoldOf(longer, reg, from, to + 1) = Folded(f[to], e)
    <2>1. /\ to + 1 \in to..Len(longer) /\ to \in Nat /\ to + 1 \in Nat /\ from <= to /\ to <= to + 1
          /\ to + 1 <= Len(longer) /\ longer[to + 1] = e
      BY <1>1, <1>8
    <2>2. FoldOf(longer, FoldOf(longer, reg, from, to), to, to + 1) = FoldOf(longer, reg, from, to + 1)
      BY <1>1, <2>1, FoldTwice
    <2>3. PICK g : Trace(g, longer, f[to], to, to + 1)
      BY <1>1, <1>3, <2>1, FoldTraces
    <2>4. FoldOf(longer, f[to], to, to + 1) = g[to + 1]
      BY <1>1, <2>1, <2>3, FoldIs
    <2>5. g[to + 1] = Folded(f[to], e)
      <3>1. to + 1 \in (to + 1)..(to + 1) /\ (to + 1) - 1 = to
        BY <2>1
      <3>2. g[to + 1] = Folded(g[(to + 1) - 1], longer[to + 1]) /\ g[to] = f[to]
        BY <2>3, <3>1 DEF Trace
      <3> QED
        BY <2>1, <3>1, <3>2
    <2> QED
      BY <1>7, <2>2, <2>4, <2>5
  <1> QED
    BY <1>3, <1>7, <1>8 DEF longer
-----------------------------------------------------------------------------
(* What each process holds, against the committed entries.                 *)

WithMembers(reg) ==
    [n \in Members |-> IF n \in DOMAIN reg THEN reg[n] ELSE [status |-> "healthy", beat |-> 0]]

\* The registry after so many entries of a process that bootstrapped when it had folded s of them.
Held(es, s, m) ==
    IF s = -1 THEN FoldOf(es, Unknown, 0, m)
    ELSE FoldOf(es, WithMembers(FoldOf(es, Unknown, 0, s)), s, m)

Counts ==
    /\ entries \in Seq(Entry) /\ head \in Members
    /\ DOMAIN done = Members /\ DOMAIN mark = Members /\ DOMAIN seeded = Members /\ DOMAIN registry = Members
    /\ \A p \in Members :
          /\ done[p] \in 0..Len(entries) /\ mark[p] \in 0..done[p]
          /\ seeded[p] = -1 \/ seeded[p] \in 0..mark[p]

HeldInv == \A p \in Members : registry[p] = Held(entries, seeded[p], mark[p])

LEMMA UnknownTyped == Unknown \in Registry
  <1>1. Unknown \in [{} -> NodeView] /\ {} \in SUBSET Members
    BY DEF Unknown
  <1> QED
    BY <1>1, RegistryIs

LEMMA WithMembersTyped ==
    ASSUME NEW reg \in Registry
    PROVE  WithMembers(reg) \in Registry
  <1>1. PICK known \in SUBSET Members : reg \in [known -> NodeView]
    BY RegistryIs
  <1>2. [status |-> "healthy", beat |-> 0] \in NodeView
    BY DEF NodeView
  <1>3. WithMembers(reg) \in [Members -> NodeView]
    BY <1>1, <1>2 DEF WithMembers
  <1> QED
    BY <1>3, RegistryIs

LEMMA SeedTyped ==
    ASSUME NEW es \in Seq(Entry), NEW s \in 0..Len(es)
    PROVE  WithMembers(FoldOf(es, Unknown, 0, s)) \in Registry
  BY UnknownTyped, FoldTyped, WithMembersTyped

\* Folding on from where a process is.
LEMMA HeldOn ==
    ASSUME NEW es \in Seq(Entry), NEW s, NEW m \in Nat, NEW to \in Nat, m <= to, to <= Len(es),
           s = -1 \/ s \in 0..m
    PROVE  FoldOf(es, Held(es, s, m), m, to) = Held(es, s, to)
  <1>1. CASE s = -1
    BY <1>1, UnknownTyped, FoldTwice DEF Held
  <1>2. CASE s # -1
    <2>1. s \in Nat /\ s <= m /\ s \in 0..Len(es)
      BY <1>2
    <2>2. WithMembers(FoldOf(es, Unknown, 0, s)) \in Registry
      BY <2>1, SeedTyped
    <2> QED
      BY <1>2, <2>1, <2>2, FoldTwice DEF Held
  <1> QED
    BY <1>1, <1>2

LEMMA HeldTyped ==
    ASSUME NEW es \in Seq(Entry), NEW s, NEW m \in 0..Len(es), s = -1 \/ s \in 0..m
    PROVE  Held(es, s, m) \in Registry
  <1>1. CASE s = -1
    BY <1>1, UnknownTyped, FoldTyped DEF Held
  <1>2. CASE s # -1
    <2>1. s \in Nat /\ m \in s..Len(es) /\ s \in 0..Len(es)
      BY <1>2
    <2>2. WithMembers(FoldOf(es, Unknown, 0, s)) \in Registry
      BY <2>1, SeedTyped
    <2> QED
      BY <1>2, <2>1, <2>2, FoldTyped DEF Held
  <1> QED
    BY <1>1, <1>2

\* Entries that follow do not matter to a registry, and the next is folded into it.
LEMMA HeldLonger ==
    ASSUME NEW es \in Seq(Entry), NEW e \in Entry, NEW s, NEW m \in 0..Len(es), s = -1 \/ s \in 0..m
    PROVE  /\ Held(Append(es, e), s, m) = Held(es, s, m)
           /\ m = Len(es) => Held(Append(es, e), s, m + 1) = Folded(Held(es, s, m), e)
  <1>1. CASE s = -1
    <2>1. m \in 0..Len(es) /\ 0 \in Nat
      OBVIOUS
    <2> QED
      BY <1>1, <2>1, UnknownTyped, FoldLonger DEF Held
  <1>2. CASE s # -1
    <2>1. s \in Nat /\ m \in s..Len(es) /\ s \in 0..Len(es)
      BY <1>2
    <2> DEFINE seed == WithMembers(FoldOf(es, Unknown, 0, s))
    <2>2. seed \in Registry
      BY <2>1, SeedTyped
    <2>3. WithMembers(FoldOf(Append(es, e), Unknown, 0, s)) = seed
      BY <2>1, UnknownTyped, FoldLonger
    <2> HIDE DEF seed
    <2>4. /\ FoldOf(Append(es, e), seed, s, m) = FoldOf(es, seed, s, m)
          /\ m = Len(es) => FoldOf(Append(es, e), seed, s, m + 1) = Folded(FoldOf(es, seed, s, m), e)
      BY <2>1, <2>2, FoldLonger
    <2>5. /\ Held(Append(es, e), s, m) = FoldOf(Append(es, e), seed, s, m)
          /\ Held(Append(es, e), s, m + 1) = FoldOf(Append(es, e), seed, s, m + 1)
      BY <1>2, <2>3 DEF Held
    <2>6. Held(es, s, m) = FoldOf(es, seed, s, m)
      BY <1>2 DEF Held, seed
    <2> QED
      BY <2>4, <2>5, <2>6
  <1> QED
    BY <1>1, <1>2

LEMMA FoldIsOf ==
    ASSUME NEW reg, NEW from, NEW to
    PROVE  Fold(reg, from, to) = FoldOf(entries, reg, from, to)
  BY DEF Fold, FoldOf

\* What a process folds when it synchronises.
LEMMA SyncedRegistry ==
    ASSUME Counts, HeldInv, NEW p \in Members
    PROVE  /\ Fold(registry[p], mark[p], done[p]) = Held(entries, seeded[p], done[p])
           /\ Fold(registry[p], mark[p], Len(entries)) = Held(entries, seeded[p], Len(entries))
  <1>1. /\ entries \in Seq(Entry) /\ mark[p] \in Nat /\ done[p] \in Nat /\ mark[p] <= done[p] /\ done[p] <= Len(entries)
        /\ seeded[p] = -1 \/ seeded[p] \in 0..mark[p]
        /\ Len(entries) \in Nat /\ mark[p] <= Len(entries)
    BY DEF Counts
  <1>2. registry[p] = Held(entries, seeded[p], mark[p])
    BY DEF HeldInv
  <1>3. FoldOf(entries, Held(entries, seeded[p], mark[p]), mark[p], done[p]) = Held(entries, seeded[p], done[p])
    BY <1>1, HeldOn
  <1>4. FoldOf(entries, Held(entries, seeded[p], mark[p]), mark[p], Len(entries)) = Held(entries, seeded[p], Len(entries))
    BY <1>1, HeldOn
  <1> QED
    BY <1>2, <1>3, <1>4, FoldIsOf

LEMMA SyncedKeeps ==
    ASSUME Counts, HeldInv, NEW p \in Members, Synced(p), UNCHANGED <<entries, head, done, seeded>>
    PROVE  Counts' /\ HeldInv'
  <1>1. /\ registry' = [registry EXCEPT ![p] = Held(entries, seeded[p], done[p])]
        /\ mark' = [mark EXCEPT ![p] = done[p]]
    BY SyncedRegistry DEF Synced
  <1>2. \A q \in Members : /\ mark'[q] = (IF q = p THEN done[p] ELSE mark[q])
                           /\ registry'[q] = (IF q = p THEN Held(entries, seeded[p], done[p]) ELSE registry[q])
    BY <1>1 DEF Counts
  <1>3. DOMAIN mark' = Members /\ DOMAIN registry' = Members
    BY <1>1 DEF Counts
  <1>4. Counts'
    <2>1. ASSUME NEW q \in Members
          PROVE  done[q] \in 0..Len(entries) /\ mark'[q] \in 0..done[q] /\ (seeded[q] = -1 \/ seeded[q] \in 0..mark'[q])
      <3>1. /\ entries \in Seq(Entry) /\ done[q] \in 0..Len(entries) /\ mark[q] \in 0..done[q]
            /\ seeded[q] = -1 \/ seeded[q] \in 0..mark[q]
        BY DEF Counts
      <3> QED
        BY <1>2, <3>1
    <2> QED
      BY <1>3, <2>1 DEF Counts
  <1>5. HeldInv'
    BY <1>2 DEF HeldInv
  <1> QED
    BY <1>4, <1>5

\* Committing an entry leaves the registries of the others what they are.
LEMMA CommittedKeeps ==
    ASSUME Counts, HeldInv, NEW p \in Members, NEW e \in Entry, ClientWrite(p, e),
           UNCHANGED <<mark, registry, seeded>>
    PROVE  Counts' /\ HeldInv'
  <1>1. /\ entries' = Append(entries, e) /\ done' = [done EXCEPT ![p] = Len(entries) + 1] /\ head' = head
        /\ entries \in Seq(Entry) /\ Len(entries) \in Nat
    BY DEF ClientWrite, Counts
  <1>2. entries' \in Seq(Entry) /\ Len(entries') = Len(entries) + 1
    BY <1>1
  <1>3. ASSUME NEW q \in Members
        PROVE  /\ done'[q] \in 0..Len(entries') /\ mark[q] \in 0..done'[q]
               /\ (seeded[q] = -1 \/ seeded[q] \in 0..mark[q])
               /\ registry[q] = Held(entries', seeded[q], mark[q])
    <2>1. /\ done[q] \in 0..Len(entries) /\ mark[q] \in 0..done[q] /\ (seeded[q] = -1 \/ seeded[q] \in 0..mark[q])
          /\ registry[q] = Held(entries, seeded[q], mark[q])
      BY DEF Counts, HeldInv
    <2>2. done'[q] = IF q = p THEN Len(entries) + 1 ELSE done[q]
      BY <1>1 DEF Counts
    <2>3. mark[q] \in 0..Len(entries)
      BY <1>1, <2>1
    <2>4. Held(entries', seeded[q], mark[q]) = Held(entries, seeded[q], mark[q])
      BY <1>1, <2>1, <2>3, HeldLonger
    <2> QED
      BY <1>1, <1>2, <2>1, <2>2, <2>4
  <1>4. DOMAIN done' = Members
    BY <1>1 DEF Counts
  <1>5. Counts'
    BY <1>1, <1>2, <1>3, <1>4 DEF Counts
  <1>6. HeldInv'
    BY <1>3 DEF HeldInv
  <1> QED
    BY <1>5, <1>6

LEMMA BootstrapKeeps ==
    ASSUME Counts, HeldInv, NEW p \in Members, Bootstrap(p)
    PROVE  Counts' /\ HeldInv'
  <1> DEFINE reg == Fold(registry[p], mark[p], done[p])
  <1>1. /\ seeded[p] = -1 /\ seeded' = [seeded EXCEPT ![p] = done[p]] /\ mark' = [mark EXCEPT ![p] = done[p]]
        /\ registry' = [registry EXCEPT ![p] = WithMembers(reg)]
        /\ UNCHANGED <<entries, head, done>>
    BY DEF Bootstrap, raftVars, WithMembers
  <1>2. /\ entries \in Seq(Entry) /\ done[p] \in 0..Len(entries)
    BY DEF Counts
  <1>3. reg = FoldOf(entries, Unknown, 0, done[p])
    BY <1>1, SyncedRegistry DEF Held
  <1>4. Held(entries, done[p], done[p]) = WithMembers(reg)
    <2>1. WithMembers(reg) \in Registry
      BY <1>2, <1>3, SeedTyped
    <2>2. FoldOf(entries, WithMembers(reg), done[p], done[p]) = WithMembers(reg)
      BY <1>2, <2>1, FoldNothing
    <2>3. done[p] # -1
      BY <1>2
    <2> QED
      BY <1>3, <2>2, <2>3 DEF Held
  <1> HIDE DEF reg
  <1>5. \A q \in Members : /\ mark'[q] = (IF q = p THEN done[p] ELSE mark[q])
                           /\ seeded'[q] = (IF q = p THEN done[p] ELSE seeded[q])
                           /\ registry'[q] = (IF q = p THEN WithMembers(reg) ELSE registry[q])
    BY <1>1 DEF Counts
  <1>6. DOMAIN mark' = Members /\ DOMAIN registry' = Members /\ DOMAIN seeded' = Members
    BY <1>1 DEF Counts
  <1>7. ASSUME NEW q \in Members
        PROVE  done[q] \in 0..Len(entries) /\ mark'[q] \in 0..done[q] /\ (seeded'[q] = -1 \/ seeded'[q] \in 0..mark'[q])
    <2>1. done[q] \in 0..Len(entries) /\ mark[q] \in 0..done[q] /\ (seeded[q] = -1 \/ seeded[q] \in 0..mark[q])
      BY DEF Counts
    <2>2. Len(entries) \in Nat
      BY <1>2
    <2> QED
      BY <1>5, <2>1, <2>2
  <1>8. Counts'
    BY <1>1, <1>6, <1>7 DEF Counts
  <1>9. HeldInv'
    BY <1>1, <1>4, <1>5 DEF HeldInv
  <1> QED
    BY <1>8, <1>9

LEMMA AppliedMore ==
    ASSUME Counts, HeldInv, NEW p \in Members, NEW n, n \in done[p]..Len(entries), done' = [done EXCEPT ![p] = n],
           head' \in Members, UNCHANGED <<entries, mark, registry, seeded>>
    PROVE  Counts' /\ HeldInv'
  <1>1. entries \in Seq(Entry) /\ Len(entries) \in Nat
    BY DEF Counts
  <1>2. ASSUME NEW q \in Members
        PROVE  done'[q] \in 0..Len(entries) /\ mark[q] \in 0..done'[q]
    <2>1. done[q] \in 0..Len(entries) /\ mark[q] \in 0..done[q] /\ done[p] \in 0..Len(entries)
      BY DEF Counts
    <2>2. done'[q] = IF q = p THEN n ELSE done[q]
      BY DEF Counts
    <2> QED
      BY <1>1, <2>1, <2>2
  <1>3. DOMAIN done' = Members
    BY DEF Counts
  <1>4. Counts'
    BY <1>2, <1>3 DEF Counts
  <1>5. HeldInv'
    BY DEF HeldInv
  <1> QED
    BY <1>4, <1>5

-----------------------------------------------------------------------------
(* The calls: an entry that is not committed yet is not answered, and one  *)
(* that is committed is not asked for again.                               *)

Waiting == {"append", "forward", "sent", "409", "400"}

CallShape(c) == c = [pc |-> c.pc, entry |-> c.entry, peer |-> c.peer, tries |-> c.tries, answer |-> c.answer]

CallInv ==
    /\ asked \in Nat /\ DOMAIN calls = Members
    /\ \A i \in 1..Len(entries) : entries[i].call <= asked
    /\ \A i, j \in 1..Len(entries) : entries[i].call = entries[j].call => i = j
    /\ \A p \in Members :
          /\ CallShape(calls[p]) /\ calls[p].pc \in Waiting \cup {"200", "idle"}
          /\ calls[p].pc # "idle" => calls[p].entry \in Entry /\ calls[p].entry.call <= asked
          /\ calls[p].pc \in Waiting => \A i \in 1..Len(entries) : entries[i].call # calls[p].entry.call
          /\ calls[p].pc = "sent" => calls[p].peer \in Members
          /\ calls[p].pc = "200" \/ calls[p].answer = "ok" => \E i \in 1..Len(entries) : entries[i] = calls[p].entry
          /\ \A q \in Members : p # q /\ calls[p].pc # "idle" /\ calls[q].pc # "idle" =>
                calls[p].entry.call # calls[q].entry.call

BeliefInv == DOMAIN belief = Members /\ \A p \in Members : belief[p] \in Members \cup {Nobody}

LEMMA CallMoves ==
    ASSUME CallInv, NEW p \in Members, NEW c, calls' = [calls EXCEPT ![p] = c], UNCHANGED <<entries, asked>>,
           CallShape(c), c.entry = calls[p].entry, c.pc \in Waiting \cup {"200", "idle"},
           c.pc # "idle" => calls[p].pc # "idle", c.pc \in Waiting => calls[p].pc \in Waiting,
           c.pc = "sent" => c.peer \in Members,
           c.pc = "200" \/ c.answer = "ok" => calls[p].pc = "200" \/ calls[p].answer = "ok"
    PROVE  CallInv'
  <1>1. DOMAIN calls' = Members /\ \A q \in Members : calls'[q] = IF q = p THEN c ELSE calls[q]
    BY DEF CallInv
  <1>2. ASSUME NEW q \in Members
        PROVE  /\ CallShape(calls'[q]) /\ calls'[q].pc \in Waiting \cup {"200", "idle"}
               /\ calls'[q].pc # "idle" => calls'[q].entry \in Entry /\ calls'[q].entry.call <= asked
               /\ calls'[q].pc \in Waiting => \A i \in 1..Len(entries) : entries[i].call # calls'[q].entry.call
               /\ calls'[q].pc = "sent" => calls'[q].peer \in Members
               /\ calls'[q].pc = "200" \/ calls'[q].answer = "ok" => \E i \in 1..Len(entries) : entries[i] = calls'[q].entry
    <2>1. CASE q = p
      BY <1>1, <2>1 DEF CallInv
    <2>2. CASE q # p
      BY <1>1, <2>2 DEF CallInv
    <2> QED
      BY <2>1, <2>2
  <1>3. ASSUME NEW q \in Members, NEW r \in Members, q # r, calls'[q].pc # "idle", calls'[r].pc # "idle"
        PROVE  calls'[q].entry.call # calls'[r].entry.call
    <2>1. calls'[q].entry = calls[q].entry /\ calls'[r].entry = calls[r].entry
      BY <1>1
    <2>2. calls[q].pc # "idle" /\ calls[r].pc # "idle"
      BY <1>1, <1>3
    <2> QED
      BY <1>3, <2>1, <2>2 DEF CallInv
  <1>4. entries' = entries /\ asked' = asked
    OBVIOUS
  <1> QED
    BY <1>1, <1>2, <1>3, <1>4 DEF CallInv

\* The entry of a call in wait is committed: no other call has its number, and it is asked for no more.
LEMMA CallCommits ==
    ASSUME CallInv, Counts, NEW p \in Members, NEW c, calls' = [calls EXCEPT ![p] = c], asked' = asked,
           calls[p].pc \in Waiting, entries' = Append(entries, calls[p].entry),
           CallShape(c), c.entry = calls[p].entry, c.pc \in {"200", "idle"}
    PROVE  CallInv'
  <1> DEFINE e == calls[p].entry
             n == Len(entries)
  <1>1. DOMAIN calls' = Members /\ \A q \in Members : calls'[q] = IF q = p THEN c ELSE calls[q]
    BY DEF CallInv
  <1>2. e \in Entry /\ e.call <= asked /\ e.call \in Nat /\ asked \in Nat /\ \A i \in 1..n : entries[i].call # e.call
    BY DEF CallInv, Waiting, Entry
  <1>3. entries \in Seq(Entry) /\ n \in Nat
    BY DEF Counts
  <1>4. /\ Len(entries') = n + 1 /\ entries'[n + 1] = e /\ \A i \in 1..n : entries'[i] = entries[i]
        /\ 1..n \subseteq 1..(n + 1) /\ n + 1 \in 1..(n + 1) /\ \A i \in 1..(n + 1) : i \in 1..n \/ i = n + 1
    BY <1>2, <1>3
  <1> HIDE DEF e, n
  <1>5. \A i \in 1..(n + 1) : entries'[i].call <= asked
    BY <1>2, <1>4 DEF CallInv, n
  <1>6. \A i, j \in 1..(n + 1) : entries'[i].call = entries'[j].call => i = j
    <2> TAKE i, j \in 1..(n + 1)
    <2>1. CASE i \in 1..n /\ j \in 1..n
      BY <1>4, <2>1 DEF CallInv, n
    <2>2. CASE i = n + 1 /\ j \in 1..n
      BY <1>2, <1>4, <2>2
    <2>3. CASE i \in 1..n /\ j = n + 1
      BY <1>2, <1>4, <2>3
    <2> QED
      BY <1>4, <2>1, <2>2, <2>3
  <1>7. ASSUME NEW q \in Members
        PROVE  /\ CallShape(calls'[q]) /\ calls'[q].pc \in Waiting \cup {"200", "idle"}
               /\ calls'[q].pc # "idle" => calls'[q].entry \in Entry /\ calls'[q].entry.call <= asked
               /\ calls'[q].pc \in Waiting => \A i \in 1..(n + 1) : entries'[i].call # calls'[q].entry.call
               /\ calls'[q].pc = "sent" => calls'[q].peer \in Members
               /\ calls'[q].pc = "200" \/ calls'[q].answer = "ok" => \E i \in 1..(n + 1) : entries'[i] = calls'[q].entry
    <2>1. CASE q = p
      <3>1. calls'[q] = c /\ c.entry = e /\ c.pc \notin Waiting /\ c.pc # "sent"
        BY <1>1, <2>1 DEF e, Waiting
      <3> QED
        BY <1>2, <1>4, <3>1
    <2>2. CASE q # p
      <3>1. calls'[q] = calls[q]
        BY <1>1, <2>2
      <3>2. calls[q].pc \in Waiting => \A i \in 1..(n + 1) : entries'[i].call # calls[q].entry.call
        <4>1. calls[q].pc \in Waiting => e.call # calls[q].entry.call
          BY <2>2 DEF CallInv, Waiting, e
        <4>2. calls[q].pc \in Waiting => \A i \in 1..n : entries[i].call # calls[q].entry.call
          BY DEF CallInv, n
        <4> QED
          BY <1>4, <4>1, <4>2
      <3>3. calls[q].pc = "200" \/ calls[q].answer = "ok" => \E i \in 1..(n + 1) : entries'[i] = calls[q].entry
        BY <1>4 DEF CallInv, n
      <3> QED
        BY <3>1, <3>2, <3>3 DEF CallInv
    <2> QED
      BY <2>1, <2>2
  <1>8. ASSUME NEW q \in Members, NEW r \in Members, q # r, calls'[q].pc # "idle", calls'[r].pc # "idle"
        PROVE  calls'[q].entry.call # calls'[r].entry.call
    <2>1. calls'[q].entry = calls[q].entry /\ calls'[r].entry = calls[r].entry
      BY <1>1
    <2>2. calls[q].pc # "idle" /\ calls[r].pc # "idle"
      BY <1>1, <1>8 DEF Waiting
    <2> QED
      BY <1>8, <2>1, <2>2 DEF CallInv
  <1> QED
    BY <1>1, <1>2, <1>4, <1>5, <1>6, <1>7, <1>8 DEF CallInv

LEMMA MutateCalls ==
    ASSUME CallInv, Counts, NEW p \in Members, NEW payload \in Payloads, Mutate(p, payload)
    PROVE  CallInv'
  <1> DEFINE e == [op |-> payload.op, node |-> payload.node, value |-> payload.value, call |-> asked + 1]
             c == [pc |-> IF p \in cutOff[p] THEN "idle" ELSE IF belief[p] = p THEN "append" ELSE "forward",
                   entry |-> e, peer |-> Nobody, tries |-> 0,
                   answer |-> IF p \in cutOff[p] THEN "error" ELSE "none"]
  <1>1. asked' = asked + 1 /\ calls' = [calls EXCEPT ![p] = c] /\ entries' = entries /\ asked \in Nat
    BY DEF Mutate, raftVars, CallInv
  <1>2. e \in Entry /\ e.call = asked + 1
    BY <1>1 DEF Payloads, Entry
  <1>3. CallShape(c) /\ c.entry = e /\ c.pc \in {"idle", "append", "forward"} /\ c.answer # "ok"
    BY DEF CallShape
  <1>4. \A i \in 1..Len(entries) : entries[i].call \in Nat
    <2> TAKE i \in 1..Len(entries)
    <2>1. entries[i] \in Entry
      BY DEF Counts
    <2> QED
      BY <2>1 DEF Entry
  <1> HIDE DEF e, c
  <1>5. DOMAIN calls' = Members /\ \A q \in Members : calls'[q] = IF q = p THEN c ELSE calls[q]
    BY <1>1 DEF CallInv
  <1>6. \A q \in Members : calls[q].pc # "idle" =>
           calls[q].entry \in Entry /\ calls[q].entry.call <= asked /\ calls[q].entry.call \in Nat
    BY DEF CallInv, Entry
  <1>7. ASSUME NEW q \in Members
        PROVE  /\ CallShape(calls'[q]) /\ calls'[q].pc \in Waiting \cup {"200", "idle"}
               /\ calls'[q].pc # "idle" => calls'[q].entry \in Entry /\ calls'[q].entry.call <= asked + 1
               /\ calls'[q].pc \in Waiting => \A i \in 1..Len(entries) : entries[i].call # calls'[q].entry.call
               /\ calls'[q].pc = "sent" => calls'[q].peer \in Members
               /\ calls'[q].pc = "200" \/ calls'[q].answer = "ok" => \E i \in 1..Len(entries) : entries[i] = calls'[q].entry
    <2>1. CASE q = p
      <3>1. calls'[q] = c
        BY <1>5, <2>1
      <3>2. \A i \in 1..Len(entries) : entries[i].call # e.call
        BY <1>1, <1>2, <1>4 DEF CallInv
      <3> QED
        BY <1>1, <1>2, <1>3, <3>1, <3>2 DEF Waiting
    <2>2. CASE q # p
      <3>1. calls'[q] = calls[q]
        BY <1>5, <2>2
      <3>2. calls[q].pc # "idle" => calls[q].entry.call <= asked + 1
        BY <1>1, <1>6
      <3> QED
        BY <3>1, <3>2 DEF CallInv
    <2> QED
      BY <2>1, <2>2
  <1>8. ASSUME NEW q \in Members, NEW r \in Members, q # r, calls'[q].pc # "idle", calls'[r].pc # "idle"
        PROVE  calls'[q].entry.call # calls'[r].entry.call
    <2>1. CASE q # p /\ r # p
      BY <1>5, <1>8, <2>1 DEF CallInv
    <2>2. CASE q = p
      BY <1>1, <1>2, <1>3, <1>5, <1>6, <1>8, <2>2
    <2>3. CASE r = p
      BY <1>1, <1>2, <1>3, <1>5, <1>6, <1>8, <2>3
    <2> QED
      BY <2>1, <2>2, <2>3
  <1>9. \A i \in 1..Len(entries) : entries[i].call <= asked + 1
    BY <1>1, <1>4 DEF CallInv
  <1> QED
    BY <1>1, <1>5, <1>7, <1>8, <1>9 DEF CallInv

WithAnswer(c, a) == [c EXCEPT !.pc = "idle", !.answer = a]
SentTo(c, peer) == [c EXCEPT !.pc = "sent", !.peer = peer, !.tries = @ + 1]

LEMMA ShapeAnswered ==
    ASSUME NEW r, CallShape(r), NEW a
    PROVE  /\ CallShape(WithAnswer(r, a)) /\ WithAnswer(r, a).entry = r.entry
           /\ WithAnswer(r, a).pc = "idle" /\ WithAnswer(r, a).answer = a
  <1> DEFINE R(pc, entry, peer, tries, answer) == [pc |-> pc, entry |-> entry, peer |-> peer, tries |-> tries, answer |-> answer]
             c == WithAnswer(r, a)
             mid == [r EXCEPT !.pc = "idle"]
  <1>1. r = R(r.pc, r.entry, r.peer, r.tries, r.answer)
    BY DEF CallShape
  <1>2. mid = R("idle", r.entry, r.peer, r.tries, r.answer)
    BY <1>1
  <1>3. c = [mid EXCEPT !.answer = a]
    BY DEF WithAnswer
  <1> HIDE DEF mid
  <1>4. c = R("idle", r.entry, r.peer, r.tries, a)
    BY <1>2, <1>3
  <1> QED
    BY <1>4 DEF CallShape
LEMMA ShapeSent ==
    ASSUME NEW r, CallShape(r), NEW b
    PROVE  /\ CallShape(SentTo(r, b)) /\ SentTo(r, b).entry = r.entry /\ SentTo(r, b).pc = "sent"
           /\ SentTo(r, b).peer = b /\ SentTo(r, b).answer = r.answer
  <1> DEFINE R(pc, entry, peer, tries, answer) == [pc |-> pc, entry |-> entry, peer |-> peer, tries |-> tries, answer |-> answer]
             c == SentTo(r, b)
             one == [r EXCEPT !.pc = "sent"]
             two == [one EXCEPT !.peer = b]
  <1>1. r = R(r.pc, r.entry, r.peer, r.tries, r.answer)
    BY DEF CallShape
  <1>2. one = R("sent", r.entry, r.peer, r.tries, r.answer)
    BY <1>1
  <1>3. c = [two EXCEPT !.tries = @ + 1]
    BY DEF SentTo
  <1> HIDE DEF one
  <1>4. two = R("sent", r.entry, b, r.tries, r.answer)
    BY <1>2
  <1> HIDE DEF two
  <1>5. c = R("sent", r.entry, b, r.tries + 1, r.answer)
    BY <1>3, <1>4
  <1> QED
    BY <1>5 DEF CallShape
\* AppendHere: the entry is committed and folded in one step, or refused.
LEMMA AppendKeeps ==
    ASSUME Counts, HeldInv, CallInv, NEW p \in Members, AppendHere(p)
    PROVE  Counts' /\ HeldInv' /\ CallInv'
  <1> DEFINE e == calls[p].entry
             n == Len(entries)
  <1>1. /\ calls[p].pc \in Waiting /\ e \in Entry /\ CallShape(calls[p])
        /\ UNCHANGED <<seeded, asked>>
    BY DEF AppendHere, CallInv, Waiting
  <1>2. CASE p = head /\ belief[p] = p
    <2> DEFINE c == WithAnswer(calls[p], "ok")
    <2>1. /\ entries' = Append(entries, e) /\ done' = [done EXCEPT ![p] = n + 1] /\ head' = head
          /\ registry' = [registry EXCEPT ![p] = Folded(Fold(registry[p], mark[p], n), e)]
          /\ mark' = [mark EXCEPT ![p] = n + 1]
          /\ calls' = [calls EXCEPT ![p] = c]
      BY <1>2 DEF AppendHere, ClientWrite, Answered, WithAnswer
    <2>2. CallShape(c) /\ c.entry = e /\ c.pc = "idle"
      BY <1>1, ShapeAnswered
    <2>3. CallInv'
      <3> HIDE DEF c
      <3> QED
        BY <1>1, <2>1, <2>2, CallCommits
    <2>4. entries \in Seq(Entry) /\ n \in Nat
      BY DEF Counts
    <2>5. entries' \in Seq(Entry) /\ Len(entries') = n + 1
      BY <1>1, <2>1, <2>4
    <2>6. Folded(Fold(registry[p], mark[p], n), e) = Held(entries', seeded[p], n + 1)
      <3>1. Fold(registry[p], mark[p], n) = Held(entries, seeded[p], n)
        BY SyncedRegistry
      <3>2. n \in 0..Len(entries) /\ (seeded[p] = -1 \/ seeded[p] \in 0..n)
        BY <2>4 DEF Counts
      <3>3. Held(entries', seeded[p], n + 1) = Folded(Held(entries, seeded[p], n), e)
        BY <1>1, <2>1, <2>4, <3>2, HeldLonger
      <3> QED
        BY <3>1, <3>3
    <2>7. ASSUME NEW q \in Members
          PROVE  /\ done'[q] \in 0..(n + 1) /\ mark'[q] \in 0..done'[q]
                 /\ (seeded[q] = -1 \/ seeded[q] \in 0..mark'[q])
                 /\ registry'[q] = Held(entries', seeded[q], mark'[q])
      <3>1. /\ done[q] \in 0..n /\ mark[q] \in 0..done[q] /\ (seeded[q] = -1 \/ seeded[q] \in 0..mark[q])
            /\ registry[q] = Held(entries, seeded[q], mark[q])
        BY DEF Counts, HeldInv
      <3>2. CASE q = p
        <4>1. done'[q] = n + 1 /\ mark'[q] = n + 1 /\ registry'[q] = Held(entries', seeded[p], n + 1)
          BY <2>1, <2>6, <3>2 DEF Counts
        <4> QED
          BY <2>4, <3>1, <3>2, <4>1
      <3>3. CASE q # p
        <4>1. done'[q] = done[q] /\ mark'[q] = mark[q] /\ registry'[q] = registry[q]
          BY <2>1, <3>3 DEF Counts
        <4>2. mark[q] \in 0..Len(entries)
          BY <2>4, <3>1
        <4>3. Held(entries', seeded[q], mark[q]) = Held(entries, seeded[q], mark[q])
          BY <1>1, <2>1, <2>4, <3>1, <4>2, HeldLonger
        <4> QED
          BY <2>4, <3>1, <4>1, <4>3
      <3> QED
        BY <3>2, <3>3
    <2>8. DOMAIN done' = Members /\ DOMAIN mark' = Members /\ DOMAIN registry' = Members
      BY <2>1 DEF Counts
    <2>9. Counts'
      BY <1>1, <2>1, <2>5, <2>7, <2>8 DEF Counts
    <2>10. HeldInv'
      BY <1>1, <2>7 DEF HeldInv
    <2> QED
      BY <2>3, <2>9, <2>10
  <1>3. CASE ~(p = head /\ belief[p] = p)
    <2> DEFINE c == WithAnswer(calls[p], "error")
    <2>1. UNCHANGED <<entries, head, done, mark, registry>> /\ calls' = [calls EXCEPT ![p] = c]
      BY <1>3 DEF AppendHere, Answered, WithAnswer, raftVars
    <2>2. CallShape(c) /\ c.entry = e /\ c.pc = "idle" /\ c.answer = "error"
      BY <1>1, ShapeAnswered
    <2> HIDE DEF c
    <2>3. CallInv'
      BY <1>1, <2>1, <2>2, CallMoves DEF Waiting
    <2>4. Counts' /\ HeldInv'
      BY <1>1, <2>1 DEF Counts, HeldInv
    <2> QED
      BY <2>3, <2>4
  <1> QED
    BY <1>2, <1>3

LEMMA ForwardKeeps ==
    ASSUME CallInv, BeliefInv, NEW p \in Members, Forward(p)
    PROVE  CallInv'
  <1>1. calls[p].pc = "forward" /\ CallShape(calls[p]) /\ UNCHANGED <<entries, asked>>
    BY DEF Forward, CallInv, raftVars
  <1>2. CASE calls[p].tries = 3 \/ belief[p] = Nobody \/ belief[p] \in cutOff[p]
    <2> DEFINE c == WithAnswer(calls[p], "error")
    <2>1. calls' = [calls EXCEPT ![p] = c]
      BY <1>2 DEF Forward, Answered, WithAnswer
    <2>2. CallShape(c) /\ c.entry = calls[p].entry /\ c.pc = "idle" /\ c.answer = "error"
      BY <1>1, ShapeAnswered
    <2> HIDE DEF c
    <2> QED
      BY <1>1, <2>1, <2>2, CallMoves DEF Waiting
  <1>3. CASE ~(calls[p].tries = 3 \/ belief[p] = Nobody \/ belief[p] \in cutOff[p])
    <2> DEFINE c == SentTo(calls[p], belief[p])
    <2>1. calls' = [calls EXCEPT ![p] = c]
      BY <1>3 DEF Forward, SentTo
    <2>2. /\ CallShape(c) /\ c.entry = calls[p].entry /\ c.pc = "sent" /\ c.peer = belief[p]
          /\ c.answer = calls[p].answer
      BY <1>1, ShapeSent
    <2>3. belief[p] \in Members
      BY <1>3 DEF BeliefInv
    <2> HIDE DEF c
    <2> QED
      BY <1>1, <2>1, <2>2, <2>3, CallMoves DEF Waiting
  <1> QED
    BY <1>2, <1>3

LEMMA ServeKeeps ==
    ASSUME Counts, HeldInv, CallInv, NEW p \in Members, Serve(p)
    PROVE  Counts' /\ HeldInv' /\ CallInv'
  <1> DEFINE peer == calls[p].peer
  <1>1. /\ calls[p].pc = "sent" /\ CallShape(calls[p]) /\ UNCHANGED <<mark, registry, seeded, asked>>
        /\ peer \in Members /\ calls[p].entry \in Entry
    BY DEF Serve, CallInv
  <1>2. ASSUME NEW pc \in {"409", "400"}, calls' = [calls EXCEPT ![p].pc = pc], UNCHANGED raftVars
        PROVE  Counts' /\ HeldInv' /\ CallInv'
    <2> DEFINE c == [calls[p] EXCEPT !.pc = pc]
    <2>1. calls' = [calls EXCEPT ![p] = c] /\ UNCHANGED <<entries, head, done>>
      BY <1>2 DEF raftVars
    <2>2. CallShape(c) /\ c.entry = calls[p].entry /\ c.pc = pc /\ c.answer = calls[p].answer
      BY <1>1 DEF CallShape
    <2> HIDE DEF c
    <2>3. CallInv'
      BY <1>1, <1>2, <2>1, <2>2, CallMoves DEF Waiting
    <2> QED
      BY <1>1, <2>1, <2>3 DEF Counts, HeldInv
  <1>3. CASE ClientWrite(peer, calls[p].entry) /\ calls' = [calls EXCEPT ![p].pc = "200"]
    <2> DEFINE c == [calls[p] EXCEPT !.pc = "200"]
    <2>1. calls' = [calls EXCEPT ![p] = c] /\ entries' = Append(entries, calls[p].entry)
      BY <1>3 DEF ClientWrite
    <2>2. CallShape(c) /\ c.entry = calls[p].entry /\ c.pc = "200"
      BY <1>1 DEF CallShape
    <2> HIDE DEF c
    <2>3. CallInv'
      BY <1>1, <2>1, <2>2, CallCommits DEF Waiting
    <2>4. Counts' /\ HeldInv'
      BY <1>1, <1>3, CommittedKeeps
    <2> QED
      BY <2>3, <2>4
  <1> QED
    BY <1>2, <1>3 DEF Serve

LEMMA ReplyKeeps ==
    ASSUME Counts, HeldInv, CallInv, NEW p \in Members, Reply(p)
    PROVE  Counts' /\ HeldInv' /\ CallInv'
  <1>1. /\ calls[p].pc \in {"200", "409", "400"} /\ CallShape(calls[p])
        /\ UNCHANGED <<entries, head, done, seeded, asked>>
    BY DEF Reply, CallInv, raftVars
  <1>2. CASE calls[p].pc = "200"
    <2> DEFINE c == WithAnswer(calls[p], "ok")
    <2>1. Synced(p) /\ calls' = [calls EXCEPT ![p] = c]
      BY <1>2 DEF Reply, Answered, WithAnswer
    <2>2. CallShape(c) /\ c.entry = calls[p].entry /\ c.pc = "idle"
      BY <1>1, ShapeAnswered
    <2> HIDE DEF c
    <2>3. CallInv'
      BY <1>1, <1>2, <2>1, <2>2, CallMoves DEF Waiting
    <2> QED
      BY <1>1, <2>1, <2>3, SyncedKeeps
  <1>3. CASE calls[p].pc = "409"
    <2> DEFINE c == [calls[p] EXCEPT !.pc = "forward"]
    <2>1. UNCHANGED <<mark, registry>> /\ calls' = [calls EXCEPT ![p] = c]
      BY <1>3 DEF Reply
    <2>2. CallShape(c) /\ c.entry = calls[p].entry /\ c.pc = "forward" /\ c.answer = calls[p].answer
      BY <1>1 DEF CallShape
    <2> HIDE DEF c
    <2>3. CallInv'
      BY <1>1, <1>3, <2>1, <2>2, CallMoves DEF Waiting
    <2> QED
      BY <1>1, <2>1, <2>3 DEF Counts, HeldInv
  <1>4. CASE calls[p].pc = "400"
    <2> DEFINE c == WithAnswer(calls[p], "error")
    <2>1. UNCHANGED <<mark, registry>> /\ calls' = [calls EXCEPT ![p] = c]
      BY <1>4 DEF Reply, Answered, WithAnswer
    <2>2. CallShape(c) /\ c.entry = calls[p].entry /\ c.pc = "idle" /\ c.answer = "error"
      BY <1>1, ShapeAnswered
    <2> HIDE DEF c
    <2>3. CallInv'
      BY <1>1, <1>4, <2>1, <2>2, CallMoves DEF Waiting
    <2> QED
      BY <1>1, <2>1, <2>3 DEF Counts, HeldInv
  <1> QED
    BY <1>1, <1>2, <1>3, <1>4

LEMMA LostKeeps ==
    ASSUME CallInv, NEW p \in Members, Lost(p)
    PROVE  CallInv'
  <1>1. /\ calls[p].pc \in {"sent", "200", "409", "400"} /\ CallShape(calls[p]) /\ UNCHANGED <<entries, asked>>
    BY DEF Lost, CallInv, raftVars
  <1> DEFINE c == WithAnswer(calls[p], "error")
  <1>2. calls' = [calls EXCEPT ![p] = c]
    BY DEF Lost, Answered, WithAnswer
  <1>3. CallShape(c) /\ c.entry = calls[p].entry /\ c.pc = "idle" /\ c.answer = "error"
    BY <1>1, ShapeAnswered
  <1> HIDE DEF c
  <1> QED
    BY <1>1, <1>2, <1>3, CallMoves DEF Waiting
-----------------------------------------------------------------------------
(* The data plane: the numbers of the receipts, of the transfers being     *)
(* drained and of those queued rise, each list below the next.             *)

Transfer == [target : Members, nr : Nat]
Nr(transfers) == [i \in DOMAIN transfers |-> transfers[i].nr]

Rising(s) == \A i, j \in 1..Len(s) : i < j => s[i] < s[j]
Below(s, t) == \A i \in 1..Len(s), j \in 1..Len(t) : s[i] < t[j]

PlaneOf(h, t, q, n) ==
    /\ h \in Seq(Nat) /\ t \in Seq(Transfer) /\ q \in Seq(Transfer) /\ n \in Nat
    /\ Rising(h) /\ Rising(Nr(t)) /\ Rising(Nr(q))
    /\ Below(h, Nr(t)) /\ Below(h, Nr(q)) /\ Below(Nr(t), Nr(q))
    /\ \A i \in 1..Len(h) : h[i] <= n
    /\ \A i \in 1..Len(t) : t[i].nr <= n
    /\ \A i \in 1..Len(q) : q[i].nr <= n

PlaneInv ==
    /\ DOMAIN requested = Members /\ DOMAIN history = Members /\ DOMAIN taken = Members /\ DOMAIN queue = Members
    /\ \A p \in Members : PlaneOf(history[p], taken[p], queue[p], requested[p])

LEMMA NrIs ==
    ASSUME NEW t \in Seq(Transfer)
    PROVE  Nr(t) \in Seq(Nat) /\ Len(Nr(t)) = Len(t) /\ \A i \in 1..Len(t) : Nr(t)[i] = t[i].nr /\ t[i].nr \in Nat
  <1>1. DOMAIN t = 1..Len(t) /\ Len(t) \in Nat
    OBVIOUS
  <1>2. ASSUME NEW i \in 1..Len(t) PROVE t[i].nr \in Nat
    <2>1. t[i] \in Transfer
      OBVIOUS
    <2> QED
      BY <2>1 DEF Transfer
  <1>3. Nr(t) = [i \in 1..Len(t) |-> t[i].nr]
    BY <1>1 DEF Nr
  <1>4. Nr(t) \in [1..Len(t) -> Nat]
    BY <1>2, <1>3
  <1>5. Nr(t) \in Seq(Nat) /\ Len(Nr(t)) = Len(t)
    BY <1>1, <1>4
  <1> QED
    BY <1>2, <1>3, <1>5

\* One more transfer queued, the queue taken, the first of it completed, the drain given up.
LEMMA QueuedMore ==
    ASSUME NEW h, NEW t, NEW q, NEW n, PlaneOf(h, t, q, n), NEW node \in Members
    PROVE  PlaneOf(h, t, Append(q, [target |-> node, nr |-> n + 1]), n + 1)
  <1> DEFINE x == [target |-> node, nr |-> n + 1]
             longer == Append(q, x)
  <1>1. h \in Seq(Nat) /\ t \in Seq(Transfer) /\ q \in Seq(Transfer) /\ n \in Nat /\ x \in Transfer /\ x.nr = n + 1
    BY DEF PlaneOf, Transfer
  <1> HIDE DEF x
  <1>2. /\ longer \in Seq(Transfer) /\ Len(longer) = Len(q) + 1 /\ longer[Len(q) + 1] = x /\ Len(q) \in Nat
        /\ \A i \in 1..Len(q) : longer[i] = q[i]
    BY <1>1
  <1> HIDE DEF longer
  <1>3. /\ Len(Nr(t)) = Len(t) /\ \A i \in 1..Len(t) : Nr(t)[i] = t[i].nr
        /\ Len(Nr(q)) = Len(q) /\ \A i \in 1..Len(q) : Nr(q)[i] = q[i].nr
        /\ Len(Nr(longer)) = Len(q) + 1 /\ \A i \in 1..(Len(q) + 1) : Nr(longer)[i] = longer[i].nr
        /\ \A i \in 1..Len(h) : h[i] \in Nat
        /\ \A i \in 1..Len(t) : t[i].nr \in Nat
        /\ \A i \in 1..Len(q) : q[i].nr \in Nat
    <2>1. /\ Len(Nr(t)) = Len(t) /\ \A i \in 1..Len(t) : Nr(t)[i] = t[i].nr
          /\ \A i \in 1..Len(t) : t[i].nr \in Nat
      BY <1>1, NrIs
    <2>2. /\ Len(Nr(q)) = Len(q) /\ \A i \in 1..Len(q) : Nr(q)[i] = q[i].nr
          /\ \A i \in 1..Len(q) : q[i].nr \in Nat
      BY <1>1, NrIs
    <2>3. Len(Nr(longer)) = Len(q) + 1 /\ \A i \in 1..(Len(q) + 1) : Nr(longer)[i] = longer[i].nr
      BY <1>2, NrIs
    <2>4. \A i \in 1..Len(h) : h[i] \in Nat
      BY <1>1
    <2> QED
      BY <2>1, <2>2, <2>3, <2>4
  <1>4. \A i \in 1..(Len(q) + 1) : IF i = Len(q) + 1 THEN Nr(longer)[i] = n + 1 ELSE i \in 1..Len(q) /\ Nr(longer)[i] = Nr(q)[i]
    BY <1>1, <1>2, <1>3
  <1>5. /\ \A i \in 1..Len(h) : h[i] <= n
        /\ \A i \in 1..Len(t) : t[i].nr <= n
        /\ \A i \in 1..Len(q) : q[i].nr <= n
        /\ Rising(h) /\ Rising(Nr(t)) /\ Rising(Nr(q)) /\ Below(h, Nr(t)) /\ Below(h, Nr(q)) /\ Below(Nr(t), Nr(q))
    BY DEF PlaneOf
  <1>6. Rising(Nr(longer))
    <2> SUFFICES ASSUME NEW i \in 1..(Len(q) + 1), NEW j \in 1..(Len(q) + 1), i < j PROVE Nr(longer)[i] < Nr(longer)[j]
      BY <1>3 DEF Rising
    <2>1. i # Len(q) + 1 /\ i \in 1..Len(q) /\ Nr(longer)[i] = Nr(q)[i] /\ Nr(q)[i] \in Nat /\ Nr(q)[i] <= n
      BY <1>2, <1>3, <1>4, <1>5
    <2>2. CASE j = Len(q) + 1
      BY <1>1, <1>4, <2>1, <2>2
    <2>3. CASE j # Len(q) + 1
      BY <1>3, <1>4, <1>5, <2>1, <2>3 DEF Rising
    <2> QED
      BY <2>2, <2>3
  <1>7. Below(h, Nr(longer))
    <2> SUFFICES ASSUME NEW i \in 1..Len(h), NEW j \in 1..(Len(q) + 1) PROVE h[i] < Nr(longer)[j]
      BY <1>3 DEF Below
    <2>1. CASE j = Len(q) + 1
      BY <1>1, <1>3, <1>4, <1>5, <2>1
    <2>2. CASE j # Len(q) + 1
      BY <1>3, <1>4, <1>5, <2>2 DEF Below
    <2> QED
      BY <2>1, <2>2
  <1>8. Below(Nr(t), Nr(longer))
    <2> SUFFICES ASSUME NEW i \in 1..Len(t), NEW j \in 1..(Len(q) + 1) PROVE Nr(t)[i] < Nr(longer)[j]
      BY <1>3 DEF Below
    <2>1. CASE j = Len(q) + 1
      BY <1>1, <1>3, <1>4, <1>5, <2>1, SMTT(20)
    <2>2. CASE j # Len(q) + 1
      BY <1>3, <1>4, <1>5, <2>2 DEF Below
    <2> QED
      BY <2>1, <2>2
  <1>9. /\ \A i \in 1..Len(h) : h[i] <= n + 1
        /\ \A i \in 1..Len(t) : t[i].nr <= n + 1
        /\ \A i \in 1..Len(longer) : longer[i].nr <= n + 1
    <2>1. \A i \in 1..Len(h) : h[i] <= n + 1
      BY <1>1, <1>3, <1>5
    <2>2. \A i \in 1..Len(t) : t[i].nr <= n + 1
      BY <1>1, <1>3, <1>5
    <2>3. ASSUME NEW i \in 1..Len(longer) PROVE longer[i].nr <= n + 1
      <3>1. CASE i = Len(q) + 1
        BY <1>1, <1>2, <3>1
      <3>2. CASE i # Len(q) + 1
        <4>1. i \in 1..Len(q)
          BY <1>2, <3>2
        <4>2. longer[i].nr = q[i].nr /\ q[i].nr \in Nat /\ q[i].nr <= n
          BY <1>2, <1>3, <1>5, <4>1
        <4> QED
          BY <1>1, <4>2
      <3> QED
        BY <3>1, <3>2
    <2> QED
      BY <2>1, <2>2, <2>3
  <1>10. PlaneOf(h, t, longer, n + 1)
    BY <1>1, <1>2, <1>5, <1>6, <1>7, <1>8, <1>9 DEF PlaneOf
  <1> QED
    BY <1>10 DEF longer, x

LEMMA NothingBelow ==
    /\ <<>> \in Seq(Transfer) /\ Rising(Nr(<<>>))
    /\ \A s : Below(s, Nr(<<>>)) /\ Below(Nr(<<>>), s)
  <1>1. <<>> \in Seq(Transfer) /\ Len(<<>>) = 0
    OBVIOUS
  <1>2. Len(Nr(<<>>)) = 0
    BY <1>1, NrIs
  <1> QED
    BY <1>1, <1>2 DEF Rising, Below

LEMMA AllTaken ==
    ASSUME NEW h, NEW t, NEW q, NEW n, PlaneOf(h, t, q, n)
    PROVE  PlaneOf(h, q, <<>>, n) /\ PlaneOf(h, <<>>, q, n)
  <1>1. \A i \in 1..Len(<<>>) : FALSE
    OBVIOUS
  <1> QED
    BY <1>1, NothingBelow DEF PlaneOf

LEMMA OneCompleted ==
    ASSUME NEW h, NEW t, NEW q, NEW n, PlaneOf(h, t, q, n), t # <<>>
    PROVE  PlaneOf(Append(h, Head(t).nr), Tail(t), q, n)
  <1> DEFINE x == Head(t).nr
             more == Append(h, x)
             rest == Tail(t)
  <1>1. h \in Seq(Nat) /\ t \in Seq(Transfer) /\ q \in Seq(Transfer) /\ n \in Nat
    BY DEF PlaneOf
  <1>2. Len(t) \in Nat /\ 1 \in 1..Len(t) /\ x = t[1].nr /\ x \in Nat
    <2>1. Len(t) \in Nat /\ Len(t) # 0 /\ Head(t) = t[1]
      BY <1>1
    <2> QED
      BY <1>1, <2>1, NrIs
  <1>3. /\ rest \in Seq(Transfer) /\ Len(rest) = Len(t) - 1
        /\ \A i \in 1..Len(rest) : rest[i] = t[i + 1] /\ i + 1 \in 1..Len(t)
    BY <1>1, <1>2
  <1> HIDE DEF x, rest
  <1>4. /\ more \in Seq(Nat) /\ Len(more) = Len(h) + 1 /\ Len(h) \in Nat
        /\ \A i \in 1..(Len(h) + 1) : IF i = Len(h) + 1 THEN more[i] = x ELSE i \in 1..Len(h) /\ more[i] = h[i]
    BY <1>1, <1>2
  <1> HIDE DEF more
  <1>5. /\ Len(Nr(t)) = Len(t) /\ \A i \in 1..Len(t) : Nr(t)[i] = t[i].nr
        /\ Len(Nr(q)) = Len(q) /\ \A i \in 1..Len(q) : Nr(q)[i] = q[i].nr
        /\ Len(Nr(rest)) = Len(rest) /\ \A i \in 1..Len(rest) : Nr(rest)[i] = rest[i].nr
    BY <1>1, <1>3, NrIs
  <1>6. Nr(t)[1] = x /\ \A i \in 1..Len(rest) : Nr(rest)[i] = Nr(t)[i + 1] /\ i + 1 \in 1..Len(t) /\ 1 < i + 1
    BY <1>2, <1>3, <1>5
  <1>7. /\ \A i \in 1..Len(h) : h[i] <= n
        /\ \A i \in 1..Len(t) : t[i].nr <= n
        /\ \A i \in 1..Len(q) : q[i].nr <= n
        /\ Rising(h) /\ Rising(Nr(t)) /\ Rising(Nr(q)) /\ Below(h, Nr(t)) /\ Below(h, Nr(q)) /\ Below(Nr(t), Nr(q))
    BY DEF PlaneOf
  <1>8. Rising(more)
    <2> SUFFICES ASSUME NEW i \in 1..(Len(h) + 1), NEW j \in 1..(Len(h) + 1), i < j PROVE more[i] < more[j]
      BY <1>4 DEF Rising
    <2>1. i # Len(h) + 1 /\ i \in 1..Len(h) /\ more[i] = h[i]
      BY <1>4
    <2>2. CASE j = Len(h) + 1
      BY <1>2, <1>4, <1>5, <1>6, <1>7, <2>1, <2>2 DEF Below
    <2>3. CASE j # Len(h) + 1
      BY <1>4, <1>7, <2>1, <2>3 DEF Rising
    <2> QED
      BY <2>2, <2>3
  <1>9. Rising(Nr(rest))
    <2> SUFFICES ASSUME NEW i \in 1..Len(rest), NEW j \in 1..Len(rest), i < j PROVE Nr(rest)[i] < Nr(rest)[j]
      BY <1>5 DEF Rising
    <2>1. i + 1 < j + 1
      OBVIOUS
    <2> QED
      BY <1>5, <1>6, <1>7, <2>1 DEF Rising
  <1>10. Below(more, Nr(rest))
    <2> SUFFICES ASSUME NEW i \in 1..(Len(h) + 1), NEW j \in 1..Len(rest) PROVE more[i] < Nr(rest)[j]
      BY <1>4, <1>5 DEF Below
    <2>1. CASE i = Len(h) + 1
      BY <1>2, <1>4, <1>5, <1>6, <1>7, <2>1, SMTT(20) DEF Rising
    <2>2. CASE i # Len(h) + 1
      BY <1>4, <1>5, <1>6, <1>7, <2>2 DEF Below
    <2> QED
      BY <2>1, <2>2
  <1>11. Below(more, Nr(q))
    <2> SUFFICES ASSUME NEW i \in 1..(Len(h) + 1), NEW j \in 1..Len(Nr(q)) PROVE more[i] < Nr(q)[j]
      BY <1>4 DEF Below
    <2>1. CASE i = Len(h) + 1
      BY <1>2, <1>4, <1>5, <1>6, <1>7, <2>1 DEF Below
    <2>2. CASE i # Len(h) + 1
      BY <1>4, <1>7, <2>2 DEF Below
    <2> QED
      BY <2>1, <2>2
  <1>12. Below(Nr(rest), Nr(q))
    BY <1>5, <1>6, <1>7 DEF Below
  <1>13. \A i \in 1..Len(more) : more[i] <= n
    BY <1>2, <1>4, <1>7
  <1>14. \A i \in 1..Len(rest) : rest[i].nr <= n
    BY <1>3, <1>7
  <1>15. PlaneOf(more, rest, q, n)
    BY <1>1, <1>3, <1>4, <1>7, <1>8, <1>9, <1>10, <1>11, <1>12, <1>13, <1>14 DEF PlaneOf
  <1> QED
    BY <1>15 DEF more, rest, x

LEMMA PlaneKeeps ==
    ASSUME PlaneInv, RegistryNext
    PROVE  PlaneInv'
  <1>1. ASSUME NEW p \in Members, NEW from \in Members, NEW to \in Members, QueueTransfer(p, from, to)
        PROVE  PlaneInv'
    <2> DEFINE x == [target |-> to, nr |-> requested[p] + 1]
    <2>1. /\ requested' = [requested EXCEPT ![p] = requested[p] + 1]
          /\ queue' = [queue EXCEPT ![p] = Append(queue[p], x)]
          /\ UNCHANGED <<taken, history>>
      BY <1>1 DEF QueueTransfer
    <2>2. PlaneOf(history[p], taken[p], Append(queue[p], x), requested[p] + 1)
      BY QueuedMore DEF PlaneInv
    <2> HIDE DEF x
    <2>3. ASSUME NEW q \in Members PROVE PlaneOf(history[q], taken[q], queue'[q], requested'[q])
      <3>1. CASE q = p
        <4>1. queue'[q] = Append(queue[p], x) /\ requested'[q] = requested[p] + 1
          BY <2>1, <3>1 DEF PlaneInv
        <4> QED
          BY <2>2, <3>1, <4>1
      <3>2. CASE q # p
        <4>1. queue'[q] = queue[q] /\ requested'[q] = requested[q]
          BY <2>1, <3>2 DEF PlaneInv
        <4> QED
          BY <4>1 DEF PlaneInv
      <3> QED
        BY <3>1, <3>2
    <2> QED
      BY <2>1, <2>3 DEF PlaneInv
  <1>2. ASSUME NEW p \in Members, TakeQueue(p)
        PROVE  PlaneInv'
    <2>1. /\ taken' = [taken EXCEPT ![p] = queue[p]] /\ queue' = [queue EXCEPT ![p] = <<>>]
          /\ UNCHANGED <<requested, history>>
      BY <1>2 DEF TakeQueue
    <2>2. PlaneOf(history[p], queue[p], <<>>, requested[p])
      BY AllTaken DEF PlaneInv
    <2>3. ASSUME NEW q \in Members PROVE PlaneOf(history[q], taken'[q], queue'[q], requested[q])
      <3>1. CASE q = p
        <4>1. taken'[q] = queue[p] /\ queue'[q] = <<>>
          BY <2>1, <3>1 DEF PlaneInv
        <4> QED
          BY <2>2, <3>1, <4>1
      <3>2. CASE q # p
        <4>1. taken'[q] = taken[q] /\ queue'[q] = queue[q]
          BY <2>1, <3>2 DEF PlaneInv
        <4> QED
          BY <4>1 DEF PlaneInv
      <3> QED
        BY <3>1, <3>2
    <2> QED
      BY <2>1, <2>3 DEF PlaneInv
  <1>3. ASSUME NEW p \in Members, CompleteTransfer(p)
        PROVE  PlaneInv'
    <2>1. taken[p] # <<>> /\ UNCHANGED <<requested, queue>>
      BY <1>3 DEF CompleteTransfer
    <2>2. CASE /\ history' = [history EXCEPT ![p] = Append(@, Head(taken[p]).nr)]
               /\ taken' = [taken EXCEPT ![p] = Tail(@)]
      <3>1. PlaneOf(Append(history[p], Head(taken[p]).nr), Tail(taken[p]), queue[p], requested[p])
        BY <2>1, OneCompleted DEF PlaneInv
      <3>2. ASSUME NEW q \in Members PROVE PlaneOf(history'[q], taken'[q], queue[q], requested[q])
        <4>1. CASE q = p
          <5>1. history'[q] = Append(history[p], Head(taken[p]).nr) /\ taken'[q] = Tail(taken[p])
            BY <2>2, <4>1 DEF PlaneInv
          <5> QED
            BY <3>1, <4>1, <5>1
        <4>2. CASE q # p
          <5>1. history'[q] = history[q] /\ taken'[q] = taken[q]
            BY <2>2, <4>2 DEF PlaneInv
          <5> QED
            BY <5>1 DEF PlaneInv
        <4> QED
          BY <4>1, <4>2
      <3>3. DOMAIN history' = Members /\ DOMAIN taken' = Members
        BY <2>2 DEF PlaneInv
      <3> QED
        BY <2>1, <3>2, <3>3 DEF PlaneInv
    <2>3. CASE taken' = [taken EXCEPT ![p] = <<>>] /\ UNCHANGED history
      <3>1. PlaneOf(history[p], <<>>, queue[p], requested[p])
        BY AllTaken DEF PlaneInv
      <3>2. ASSUME NEW q \in Members PROVE PlaneOf(history[q], taken'[q], queue[q], requested[q])
        <4>1. CASE q = p
          <5>1. taken'[q] = <<>>
            BY <2>3, <4>1 DEF PlaneInv
          <5> QED
            BY <3>1, <4>1, <5>1
        <4>2. CASE q # p
          <5>1. taken'[q] = taken[q]
            BY <2>3, <4>2 DEF PlaneInv
          <5> QED
            BY <5>1 DEF PlaneInv
        <4> QED
          BY <4>1, <4>2
      <3>3. DOMAIN taken' = Members
        BY <2>3 DEF PlaneInv
      <3> QED
        BY <2>1, <2>3, <3>2, <3>3 DEF PlaneInv
    <2> QED
      BY <1>3, <2>2, <2>3 DEF CompleteTransfer
  <1>4. CASE UNCHANGED planeVars
    BY <1>4 DEF PlaneInv, planeVars
  <1>5. ASSUME NEW p \in Members,
               Bootstrap(p) \/ Sync(p) \/ Apply(p) \/ Elected(p) \/ Learns(p) \/ AppendHere(p) \/ Forward(p)
               \/ Serve(p) \/ Reply(p) \/ Lost(p)
        PROVE  UNCHANGED planeVars
    BY <1>5 DEF Bootstrap, Sync, Apply, Elected, Learns, AppendHere, Forward, Serve, Reply, Lost
  <1>6. ASSUME NEW p \in Members, NEW payload \in Payloads, Mutate(p, payload)
        PROVE  UNCHANGED planeVars
    BY <1>6 DEF Mutate
  <1>7. ASSUME NEW p \in Members, NEW set \in SUBSET Members, SetPartition(p, set)
        PROVE  UNCHANGED planeVars
    BY <1>7 DEF SetPartition
  <1> QED
    BY <1>1, <1>2, <1>3, <1>4, <1>5, <1>6, <1>7 DEF RegistryNext

\* Three rising lists, each below the next, are one rising list.
LEMMA JoinRising ==
    ASSUME NEW a \in Seq(Nat), NEW b \in Seq(Nat), Rising(a), Rising(b), Below(a, b)
    PROVE  /\ a \o b \in Seq(Nat) /\ Rising(a \o b)
           /\ \A c : Below(a, c) /\ Below(b, c) => Below(a \o b, c)
  <1> DEFINE m == Len(a)
             n == Len(b)
             ab == a \o b
  <1>1. /\ ab \in Seq(Nat) /\ m \in Nat /\ n \in Nat /\ Len(ab) = m + n
        /\ \A i \in 1..m : ab[i] = a[i]
        /\ \A i \in 1..n : ab[m + i] = b[i]
    OBVIOUS
  <1> HIDE DEF ab, m, n
  <1>2. ASSUME NEW i \in 1..(m + n), i \notin 1..m
        PROVE  i - m \in 1..n /\ ab[i] = b[i - m] /\ m < i
    <2>1. i - m \in 1..n /\ m + (i - m) = i /\ m < i
      BY <1>1, <1>2
    <2> QED
      BY <1>1, <2>1
  <1>3. Rising(ab)
    <2> SUFFICES ASSUME NEW i \in 1..(m + n), NEW j \in 1..(m + n), i < j PROVE ab[i] < ab[j]
      BY <1>1 DEF Rising
    <2>1. CASE i \in 1..m /\ j \in 1..m
      BY <1>1, <2>1 DEF Rising, m
    <2>2. CASE i \in 1..m /\ j \notin 1..m
      BY <1>1, <1>2, <2>2 DEF Below, m, n
    <2>3. CASE i \notin 1..m /\ j \notin 1..m
      <3>1. i - m \in 1..n /\ j - m \in 1..n /\ i - m < j - m /\ ab[i] = b[i - m] /\ ab[j] = b[j - m]
        BY <1>1, <1>2, <2>3
      <3> QED
        BY <3>1 DEF Rising, n
    <2>4. ~(i \notin 1..m /\ j \in 1..m)
      BY <1>1
    <2> QED
      BY <2>1, <2>2, <2>3, <2>4
  <1>4. ASSUME NEW c, Below(a, c), Below(b, c) PROVE Below(ab, c)
    <2> SUFFICES ASSUME NEW i \in 1..(m + n), NEW j \in 1..Len(c) PROVE ab[i] < c[j]
      BY <1>1 DEF Below
    <2>1. CASE i \in 1..m
      BY <1>1, <1>4, <2>1 DEF Below, m
    <2>2. CASE i \notin 1..m
      BY <1>2, <1>4, <2>2 DEF Below, n
    <2> QED
      BY <2>1, <2>2
  <1> QED
    BY <1>1, <1>3, <1>4 DEF ab

LEMMA PlaneInOrder ==
    ASSUME PlaneInv
    PROVE  ReceiptsInOrder
  <1>1. ASSUME NEW p \in Members
        PROVE  LET all == history[p] \o [i \in DOMAIN taken[p] |-> taken[p][i].nr] \o [i \in DOMAIN queue[p] |-> queue[p][i].nr]
               IN  \A i, j \in DOMAIN all : i < j => all[i] < all[j]
    <2> DEFINE h == history[p]
               t == Nr(taken[p])
               q == Nr(queue[p])
               all == h \o t \o q
    <2>1. /\ h \in Seq(Nat) /\ taken[p] \in Seq(Transfer) /\ queue[p] \in Seq(Transfer)
          /\ Rising(h) /\ Rising(t) /\ Rising(q) /\ Below(h, t) /\ Below(h, q) /\ Below(t, q)
      BY DEF PlaneInv, PlaneOf
    <2>2. t \in Seq(Nat) /\ q \in Seq(Nat)
      BY <2>1, NrIs
    <2> HIDE DEF h, t, q
    <2>3. h \o t \in Seq(Nat) /\ Rising(h \o t) /\ Below(h \o t, q)
      BY <2>1, <2>2, JoinRising
    <2>4. all \in Seq(Nat) /\ Rising(all)
      BY <2>1, <2>2, <2>3, JoinRising
    <2>5. all = history[p] \o [i \in DOMAIN taken[p] |-> taken[p][i].nr] \o [i \in DOMAIN queue[p] |-> queue[p][i].nr]
      BY DEF h, t, q, Nr
    <2> HIDE DEF all
    <2>6. DOMAIN all = 1..Len(all)
      BY <2>4
    <2>7. \A i, j \in DOMAIN all : i < j => all[i] < all[j]
      BY <2>4, <2>6 DEF Rising
    <2> QED
      BY <2>5, <2>7
  <1> QED
    BY <1>1 DEF ReceiptsInOrder
-----------------------------------------------------------------------------
(* The invariant, and what follows from it.                                *)

RegistryInv == Counts /\ HeldInv /\ CallInv /\ BeliefInv /\ PlaneInv

LEMMA RegistryInitInv == RegistryInit => RegistryInv
  <1> SUFFICES ASSUME RegistryInit PROVE RegistryInv
    OBVIOUS
  <1>1. Len(entries) = 0 /\ entries = <<>> /\ entries \in Seq(Entry) /\ \A i \in 1..Len(entries) : FALSE
    BY DEF RegistryInit
  <1>2. Counts
    BY <1>1 DEF RegistryInit, Counts
  <1>3. HeldInv
    <2>1. 0 \in 0..Len(entries)
      BY <1>1
    <2>2. FoldOf(entries, Unknown, 0, 0) = Unknown
      BY <1>1, <2>1, UnknownTyped, FoldNothing
    <2>3. \A p \in Members : registry[p] = Unknown /\ seeded[p] = -1 /\ mark[p] = 0
      BY DEF RegistryInit
    <2> QED
      BY <2>2, <2>3 DEF HeldInv, Held
  <1>4. CallInv
    <2>1. DOMAIN calls = Members /\ \A p \in Members : calls[p] = Idle
      BY DEF RegistryInit
    <2>2. CallShape(Idle) /\ Idle.pc = "idle" /\ Idle.answer = "none"
      BY DEF Idle, CallShape
    <2>3. asked = 0
      BY DEF RegistryInit
    <2> QED
      BY <1>1, <2>1, <2>2, <2>3 DEF CallInv, Waiting
  <1>5. BeliefInv
    BY DEF RegistryInit, BeliefInv
  <1>6. PlaneInv
    <2>1. <<>> \in Seq(Nat) /\ Rising(<<>>) /\ \A s : Below(<<>>, s)
      BY DEF Rising, Below
    <2>2. PlaneOf(<<>>, <<>>, <<>>, 0)
      <3>1. Len(<<>>) = 0 /\ \A i \in 1..Len(<<>>) : FALSE
        OBVIOUS
      <3> QED
        BY <2>1, <3>1, NothingBelow DEF PlaneOf
    <2>3. \A p \in Members : history[p] = <<>> /\ taken[p] = <<>> /\ queue[p] = <<>> /\ requested[p] = 0
      BY DEF RegistryInit
    <2>4. DOMAIN requested = Members /\ DOMAIN history = Members /\ DOMAIN taken = Members /\ DOMAIN queue = Members
      BY DEF RegistryInit
    <2> QED
      BY <2>2, <2>3, <2>4 DEF PlaneInv
  <1> QED
    BY <1>2, <1>3, <1>4, <1>5, <1>6 DEF RegistryInv

\* What a step leaves alone keeps its part of the invariant.
LEMMA RegistryFrames ==
    /\ Counts /\ HeldInv /\ UNCHANGED <<entries, head, done, mark, seeded, registry>> => Counts' /\ HeldInv'
    /\ CallInv /\ UNCHANGED <<entries, asked, calls>> => CallInv'
    /\ BeliefInv /\ UNCHANGED belief => BeliefInv'
  <1>1. ASSUME Counts, HeldInv, UNCHANGED <<entries, head, done, mark, seeded, registry>> PROVE Counts' /\ HeldInv'
    BY <1>1 DEF Counts, HeldInv
  <1>2. ASSUME CallInv, UNCHANGED <<entries, asked, calls>> PROVE CallInv'
    BY <1>2 DEF CallInv
  <1>3. ASSUME BeliefInv, UNCHANGED belief PROVE BeliefInv'
    BY <1>3 DEF BeliefInv
  <1> QED
    BY <1>1, <1>2, <1>3

LEMMA RegistryStepInv == RegistryInv /\ [RegistryNext]_registryVars => RegistryInv'
  <1> SUFFICES ASSUME RegistryInv, [RegistryNext]_registryVars PROVE RegistryInv'
    OBVIOUS
  <1> USE DEF RegistryInv
  <1>0. CASE UNCHANGED registryVars
    <2>1. /\ UNCHANGED <<entries, head, done, mark, seeded, registry>> /\ UNCHANGED <<entries, asked, calls>>
          /\ UNCHANGED belief
      BY <1>0 DEF registryVars
    <2>2. PlaneInv'
      BY <1>0 DEF registryVars, PlaneInv
    <2> QED
      BY <2>1, <2>2, RegistryFrames
  <1>1. CASE RegistryNext
    <2>0. PlaneInv'
      BY <1>1, PlaneKeeps
    <2> SUFFICES Counts' /\ HeldInv' /\ CallInv' /\ BeliefInv'
      BY <2>0
    <2>1. ASSUME NEW p \in Members, Bootstrap(p) PROVE Counts' /\ HeldInv' /\ CallInv' /\ BeliefInv'
      <3>1. UNCHANGED <<entries, asked, calls>> /\ UNCHANGED belief
        BY <2>1 DEF Bootstrap, raftVars
      <3> QED
        BY <2>1, <3>1, BootstrapKeeps, RegistryFrames
    <2>2. ASSUME NEW p \in Members, Sync(p) PROVE Counts' /\ HeldInv' /\ CallInv' /\ BeliefInv'
      <3>1. Synced(p) /\ UNCHANGED <<entries, asked, calls>> /\ UNCHANGED belief /\ UNCHANGED <<entries, head, done, seeded>>
        BY <2>2 DEF Sync, raftVars
      <3> QED
        BY <3>1, SyncedKeeps, RegistryFrames
    <2>3. ASSUME NEW p \in Members, Apply(p) PROVE Counts' /\ HeldInv' /\ CallInv' /\ BeliefInv'
      <3>1. /\ UNCHANGED <<entries, asked, calls>> /\ UNCHANGED belief /\ UNCHANGED <<entries, mark, registry, seeded>>
            /\ head' = head /\ done' = [done EXCEPT ![p] = done[p] + 1] /\ done[p] < Len(entries)
        BY <2>3 DEF Apply
      <3>2. done[p] + 1 \in done[p]..Len(entries) /\ head' \in Members
        BY <3>1 DEF Counts
      <3>3. Counts' /\ HeldInv'
        BY <3>1, <3>2, AppliedMore
      <3> QED
        BY <3>1, <3>3, RegistryFrames
    <2>4. ASSUME NEW p \in Members, Elected(p) PROVE Counts' /\ HeldInv' /\ CallInv' /\ BeliefInv'
      <3>1. /\ UNCHANGED <<entries, asked, calls>> /\ UNCHANGED <<entries, mark, registry, seeded>>
            /\ head' = p /\ done' = [done EXCEPT ![p] = Len(entries)] /\ belief' = [belief EXCEPT ![p] = p]
        BY <2>4 DEF Elected
      <3>2. Len(entries) \in done[p]..Len(entries) /\ head' \in Members
        BY <3>1 DEF Counts
      <3>3. Counts' /\ HeldInv'
        BY <3>1, <3>2, AppliedMore
      <3>4. BeliefInv'
        BY <3>1 DEF BeliefInv
      <3> QED
        BY <3>1, <3>3, <3>4, RegistryFrames
    <2>5. ASSUME NEW p \in Members, Learns(p) PROVE Counts' /\ HeldInv' /\ CallInv' /\ BeliefInv'
      <3>1. /\ UNCHANGED <<entries, asked, calls>> /\ UNCHANGED <<entries, head, done, mark, seeded, registry>>
        BY <2>5 DEF Learns
      <3>2. PICK b \in {head, Nobody} : belief' = [belief EXCEPT ![p] = b]
        BY <2>5 DEF Learns
      <3>3. BeliefInv'
        BY <3>2 DEF BeliefInv, Counts
      <3> QED
        BY <3>1, <3>3, RegistryFrames
    <2>6. ASSUME NEW p \in Members, AppendHere(p) PROVE Counts' /\ HeldInv' /\ CallInv' /\ BeliefInv'
      <3>1. UNCHANGED belief
        BY <2>6 DEF AppendHere, ClientWrite, raftVars
      <3> QED
        BY <2>6, <3>1, AppendKeeps, RegistryFrames
    <2>7. ASSUME NEW p \in Members, Forward(p) PROVE Counts' /\ HeldInv' /\ CallInv' /\ BeliefInv'
      <3>1. UNCHANGED belief /\ UNCHANGED <<entries, head, done, mark, seeded, registry>>
        BY <2>7 DEF Forward, raftVars
      <3> QED
        BY <2>7, <3>1, ForwardKeeps, RegistryFrames
    <2>8. ASSUME NEW p \in Members, Serve(p) PROVE Counts' /\ HeldInv' /\ CallInv' /\ BeliefInv'
      <3>1. UNCHANGED belief
        BY <2>8 DEF Serve, ClientWrite, raftVars
      <3> QED
        BY <2>8, <3>1, ServeKeeps, RegistryFrames
    <2>9. ASSUME NEW p \in Members, Reply(p) PROVE Counts' /\ HeldInv' /\ CallInv' /\ BeliefInv'
      <3>1. UNCHANGED belief
        BY <2>9 DEF Reply, raftVars
      <3> QED
        BY <2>9, <3>1, ReplyKeeps, RegistryFrames
    <2>10. ASSUME NEW p \in Members, Lost(p) PROVE Counts' /\ HeldInv' /\ CallInv' /\ BeliefInv'
      <3>1. UNCHANGED belief /\ UNCHANGED <<entries, head, done, mark, seeded, registry>>
        BY <2>10 DEF Lost, raftVars
      <3> QED
        BY <2>10, <3>1, LostKeeps, RegistryFrames
    <2>11. ASSUME NEW p \in Members, TakeQueue(p) \/ CompleteTransfer(p) PROVE Counts' /\ HeldInv' /\ CallInv' /\ BeliefInv'
      <3>1. /\ UNCHANGED belief /\ UNCHANGED <<entries, head, done, mark, seeded, registry>>
            /\ UNCHANGED <<entries, asked, calls>>
        BY <2>11 DEF TakeQueue, CompleteTransfer, raftVars
      <3> QED
        BY <3>1, RegistryFrames
    <2>12. ASSUME NEW p \in Members, NEW payload \in Payloads, Mutate(p, payload)
           PROVE  Counts' /\ HeldInv' /\ CallInv' /\ BeliefInv'
      <3>1. UNCHANGED belief /\ UNCHANGED <<entries, head, done, mark, seeded, registry>>
        BY <2>12 DEF Mutate, raftVars
      <3> QED
        BY <2>12, <3>1, MutateCalls, RegistryFrames
    <2>13. ASSUME NEW p \in Members, NEW from \in Members, NEW to \in Members, QueueTransfer(p, from, to)
           PROVE  Counts' /\ HeldInv' /\ CallInv' /\ BeliefInv'
      <3>1. Synced(p) /\ UNCHANGED <<entries, asked, calls>> /\ UNCHANGED belief /\ UNCHANGED <<entries, head, done, seeded>>
        BY <2>13 DEF QueueTransfer, raftVars
      <3> QED
        BY <3>1, SyncedKeeps, RegistryFrames
    <2>14. ASSUME NEW p \in Members, NEW set \in SUBSET Members, SetPartition(p, set)
           PROVE  Counts' /\ HeldInv' /\ CallInv' /\ BeliefInv'
      <3>1. /\ UNCHANGED belief /\ UNCHANGED <<entries, head, done, mark, seeded, registry>>
            /\ UNCHANGED <<entries, asked, calls>>
        BY <2>14 DEF SetPartition, raftVars
      <3> QED
        BY <3>1, RegistryFrames
    <2> QED
      BY <1>1, <2>1, <2>2, <2>3, <2>4, <2>5, <2>6, <2>7, <2>8, <2>9, <2>10, <2>11, <2>12, <2>13, <2>14 DEF RegistryNext
  <1> QED
    BY <1>0, <1>1

\* Two processes that bootstrapped at the same entry and have folded equally many hold the same registry;
\* a mutation is committed once at most, and one answered ok was; receipts come in the order of the
\* requests.  However many processes, elections, retries and lost answers there are.
THEOREM RegistrySafeHolds == RegistrySpec => []RegistrySafe
  <1>1. RegistryInv => RegistrySafe
    <2> SUFFICES ASSUME RegistryInv PROVE RegistrySafe
      OBVIOUS
    <2>1. RegistriesAgree
      BY DEF RegistryInv, HeldInv, RegistriesAgree
    <2>2. CommittedOnce
      <3>1. DOMAIN entries = 1..Len(entries)
        BY DEF RegistryInv, Counts
      <3> QED
        BY <3>1 DEF RegistryInv, CallInv, CommittedOnce
    <2>3. ReceiptsInOrder
      BY PlaneInOrder DEF RegistryInv
    <2> QED
      BY <2>1, <2>2, <2>3 DEF RegistrySafe
  <1> QED
    BY <1>1, RegistryInitInv, RegistryStepInv, PTL DEF RegistrySpec
=============================================================================
