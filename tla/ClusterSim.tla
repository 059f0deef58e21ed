----------------------------- MODULE ClusterSim -----------------------------
(* The in-process cluster runtime, crates/ontolith-cluster/src/infrastructure/mod.rs with the types of  *)
(* domain/mod.rs.  All state is behind one RwLock, so a method is one step; `tick` takes the lock twice *)
(* and is two.  What the code reads in HashMap order is chosen freely here: the first reachable node of *)
(* a failover, the order in which healthy nodes are dealt to the shards, the follower of an eventual    *)
(* read.  A key stands for its slot (hash_slot may give any).  No caller registers a learner, so every  *)
(* node is a voter; addresses, regions and the histories kept for display are left out.                 *)
EXTENDS Integers, Sequences, FiniteSets, SequencesExt

CONSTANTS
    Nodes,          \* node ids
    Sessions,       \* session ids
    None,           \* no node, no pending tick
    Configs,        \* [shards, slots, bias]: the shard layouts a runtime may be started with
    SuspectAfter, DeadAfter,    \* suspect_after_ticks, dead_after_ticks
    MaxEventualLag,             \* max_eventual_lag
    MaxTick, MaxLog, MaxSyncs   \* bounds: clock values, log entries, transfers asked for

ASSUME ClusterAssumption ==
    /\ None \notin Nodes /\ IsFiniteSet(Nodes)
    /\ {SuspectAfter, DeadAfter, MaxEventualLag, MaxTick, MaxLog, MaxSyncs} \subseteq Nat
    /\ \A c \in Configs : {c.shards, c.slots, c.bias} \subseteq Nat

VARIABLES
    epoch, leader,      \* of the metadata group
    nodes,              \* registered id -> [status, role, beat]
    shards,             \* shard map: sequence of [start, end, leader, followers, lag]
    log,                \* sequence of [term, kind]
    commit,             \* commit_index
    applied,            \* registered id -> last applied index
    sessions,           \* session -> node of its last read, None when it has none
    isolated,           \* the injected partition
    pending, receipts,  \* transfers queued, and the receipts of those drained, in order
    ticking             \* the tick whose second half is still to come

clusterVars == <<epoch, leader, nodes, shards, log, commit, applied, sessions, isolated, pending, receipts, ticking>>

Ids == DOMAIN nodes
Reachable(n) == n \notin isolated
Votable(st) == st \in {"healthy", "suspect"}
Majority(set, of) == 2 * Cardinality(set) > Cardinality(of)

----------------------------------------------------------------------------
(* Slots.  A range is inclusive on both sides. *)

EvenAssignments(count, slots) ==
    LET per == slots \div count
    IN  [i \in 1..count |-> [start |-> (i - 1) * per, end |-> IF i = count THEN slots - 1 ELSE i * per - 1]]

\* The first form is a bug for the mutant of SlotsPartitioned: the boundary moves on one side only.
BiasedEndsOnly(ranges, bias) ==
    LET n == Len(ranges)
        b == IF bias <= ranges[n].end - ranges[n].start THEN bias ELSE ranges[n].end - ranges[n].start
    IN  [i \in 1..n |-> [start |-> ranges[i].start, end |-> IF i < n THEN ranges[i].end + b ELSE ranges[i].end]]

ApplyInitialSlotBias(ranges, bias) ==
    LET n == Len(ranges)
        b == IF bias <= ranges[n].end - ranges[n].start THEN bias ELSE ranges[n].end - ranges[n].start
    IN  [i \in 1..n |-> [start |-> IF i > 1 THEN ranges[i].start + b ELSE ranges[i].start,
                         end |-> IF i < n THEN ranges[i].end + b ELSE ranges[i].end]]

\* A layout has at least one shard, and a slot for each.
InitialRanges(c) ==
    LET count == IF c.shards > 0 THEN c.shards ELSE 1
        slots == IF c.slots > count THEN c.slots ELSE count
    IN  ApplyInitialSlotBias(EvenAssignments(count, slots), c.bias)

InRange(shard, slot) == shard.start <= slot /\ slot <= shard.end
SlotCount == shards[Len(shards)].end + 1
ShardForSlot(slot) == shards[CHOOSE i \in DOMAIN shards : InRange(shards[i], slot) /\ \A j \in 1..(i - 1) : ~InRange(shards[j], slot)]

----------------------------------------------------------------------------
(* The recomputations the handlers share, on the values they are given. *)

Lag(ap, n, length) == IF length > ap[n] THEN length - ap[n] ELSE 0

\* For the mutant of ClusterTypeOK: the leader before keeps its role.
RefreshRolesKeepingLeader(ns, l) == [n \in DOMAIN ns |-> [ns[n] EXCEPT !.role = IF n = l THEN "leader" ELSE @]]

\* refresh_roles: one leader, and everyone else a follower.
RefreshRoles(ns, l) == [n \in DOMAIN ns |-> [ns[n] EXCEPT !.role = IF n = l THEN "leader" ELSE "follower"]]

\* rebalance_replica_sets: the healthy, reachable nodes serve every shard, led by the leader of the
\* metadata group when it is one of them.  `order` is the order of the nodes' HashMap.
Serving(ns) == {n \in DOMAIN ns : ns[n].status = "healthy" /\ Reachable(n)}

ReplicaSets(sh, ns, l, ap, length, order) ==
    LET healthy == Serving(ns)
        Primary(i) == IF l \in healthy THEN l ELSE order[((i - 1) % Len(order)) + 1]
    IN  IF healthy = {} THEN sh
        ELSE [i \in DOMAIN sh |->
                [start |-> sh[i].start, end |-> sh[i].end, leader |-> Primary(i),
                 followers |-> healthy \ {Primary(i)},
                 lag |-> [f \in healthy \ {Primary(i)} |-> Lag(ap, f, length)]]]

Orders(ns) == SetToSeqs(Serving(ns))

RefreshLag(sh, ap, length) ==
    [i \in DOMAIN sh |-> [sh[i] EXCEPT !.lag = [f \in sh[i].followers |-> Lag(ap, f, length)]]]

\* recompute_commit_index: the highest index a majority of the reachable voters has applied; with no
\* such voter it stays.
Voters(ns, iso) == {n \in DOMAIN ns : Votable(ns[n].status) /\ n \notin iso}

HalfIsEnough(set, of) == 2 * Cardinality(set) >= Cardinality(of)

CommitIndexByHalf(ns, iso, ap, length, old) ==
    LET voters == Voters(ns, iso)
        Reached(k) == HalfIsEnough({n \in voters : ap[n] >= k}, voters)
    IN  IF length = 0 THEN 0
        ELSE IF voters = {} THEN old
        ELSE CHOOSE k \in 0..length : Reached(k) /\ (k = length \/ ~Reached(k + 1))

CommitIndex(ns, iso, ap, length, old) ==
    LET voters == Voters(ns, iso)
        Reached(k) == Majority({n \in voters : ap[n] >= k}, voters)
    IN  IF length = 0 THEN 0
        ELSE IF voters = {} THEN old
        ELSE CHOOSE k \in 0..length : Reached(k) /\ (k = length \/ ~Reached(k + 1))

\* update_liveness: the age of the last heartbeat decides alone, in both directions.
Live(ns, now) ==
    [n \in DOMAIN ns |->
        LET age == IF now > ns[n].beat THEN now - ns[n].beat ELSE 0
        IN  [ns[n] EXCEPT !.status = IF age >= DeadAfter THEN "dead" ELSE IF age >= SuspectAfter THEN "suspect" ELSE "healthy"]]

----------------------------------------------------------------------------
\* A runtime that has been given its layout and no nodes.
NoNodes ==
    /\ epoch = 0 /\ leader = None /\ nodes = <<>> /\ applied = <<>>
    /\ \E c \in Configs :
          LET ranges == InitialRanges(c)
          IN  shards = [i \in DOMAIN ranges |-> [start |-> ranges[i].start, end |-> ranges[i].end,
                                           leader |-> None, followers |-> {}, lag |-> <<>>]]
    /\ log = <<>> /\ commit = 0
    /\ sessions = [s \in Sessions |-> None]
    /\ isolated = {} /\ pending = <<>> /\ receipts = <<>> /\ ticking = None

\* bootstrap: every node registered, with a heartbeat at 0, and the first of them elected.
Bootstrapped ==
    /\ epoch = 1 /\ leader \in Nodes
    /\ nodes = [n \in Nodes |-> [status |-> "healthy", role |-> IF n = leader THEN "leader" ELSE "follower", beat |-> 0]]
    /\ applied = [n \in Nodes |-> IF n = leader THEN 1 ELSE 0]
    /\ \E c \in Configs :
          LET ranges == InitialRanges(c)
          IN  shards = [i \in DOMAIN ranges |-> [start |-> ranges[i].start, end |-> ranges[i].end, leader |-> leader,
                                               followers |-> Nodes \ {leader}, lag |-> [f \in Nodes \ {leader} |-> 0]]]
    /\ log = <<[term |-> 1, kind |-> "noop"]>> /\ commit = IF Cardinality(Nodes) = 1 THEN 1 ELSE 0
    /\ sessions = [s \in Sessions |-> None]
    /\ isolated = {} /\ pending = <<>> /\ receipts = <<>> /\ ticking = None

ClusterInit == NoNodes \/ Bootstrapped

\* A node that registers again starts over as a healthy follower, but keeps what it has applied.
RegisterNode(n) ==
    LET ns == [m \in Ids \union {n} |-> IF m = n THEN [status |-> "healthy", role |-> "follower", beat |-> 0] ELSE nodes[m]]
        ap == [m \in Ids \union {n} |-> IF m \in Ids THEN applied[m] ELSE 0]
    IN  /\ nodes' = ns /\ applied' = ap
        /\ \E order \in Orders(ns) : shards' = ReplicaSets(shards, ns, leader, ap, Len(log), order)
        /\ commit' = CommitIndex(ns, isolated, ap, Len(log), commit)
        /\ UNCHANGED <<epoch, leader, log, sessions, isolated, pending, receipts, ticking>>

\* A heartbeat does not bring a dead node back; the next update_liveness does.
Heartbeat(n, t) ==
    /\ n \in Ids
    /\ nodes' = [nodes EXCEPT ![n].beat = t, ![n].status = IF @ = "dead" THEN @ ELSE "healthy"]
    /\ UNCHANGED <<epoch, leader, shards, log, commit, applied, sessions, isolated, pending, receipts, ticking>>

SetNodeStatus(n, st) ==
    /\ n \in Ids
    /\ nodes' = [nodes EXCEPT ![n].status = st]
    /\ UNCHANGED <<epoch, leader, shards, log, commit, applied, sessions, isolated, pending, receipts, ticking>>

----------------------------------------------------------------------------
(* Elections.  Both paths bump the epoch, install the leader, deal the replica sets again and log a     *)
(* barrier that only the new leader has applied.                                                         *)

\* For the mutant of TermsAscend: a leader of an epoch that was used before.
ElectInOldEpoch(ns, c) ==
    /\ Len(log) < MaxLog
    /\ leader' = c /\ UNCHANGED epoch
    /\ nodes' = RefreshRoles(ns, c)
    /\ \E order \in Orders(ns) : shards' = ReplicaSets(shards, ns, c, applied, Len(log), order)
    /\ log' = Append(log, [term |-> epoch, kind |-> "noop"])
    /\ applied' = [applied EXCEPT ![c] = Len(log) + 1]
    /\ commit' = CommitIndex(ns, isolated, applied', Len(log'), commit)

\* For the mutant of LeaderHasWholeLog: the barrier is logged and not marked as applied.
ElectWithoutApplying(ns, c) ==
    /\ Len(log) < MaxLog
    /\ epoch' = epoch + 1 /\ leader' = c
    /\ nodes' = RefreshRoles(ns, c)
    /\ \E order \in Orders(ns) : shards' = ReplicaSets(shards, ns, c, applied, Len(log), order)
    /\ log' = Append(log, [term |-> epoch + 1, kind |-> "noop"])
    /\ UNCHANGED applied
    /\ commit' = CommitIndex(ns, isolated, applied', Len(log'), commit)

Elect(ns, c) ==
    /\ Len(log) < MaxLog
    /\ epoch' = epoch + 1 /\ leader' = c
    /\ nodes' = RefreshRoles(ns, c)
    /\ \E order \in Orders(ns) : shards' = ReplicaSets(shards, ns, c, applied, Len(log), order)
    /\ log' = Append(log, [term |-> epoch + 1, kind |-> "noop"])
    /\ applied' = [applied EXCEPT ![c] = Len(log) + 1]
    /\ commit' = CommitIndex(ns, isolated, applied', Len(log'), commit)

LeaderOk == leader # None /\ nodes[leader].status = "healthy" /\ Reachable(leader)

\* campaign: refused while another leader is healthy and reachable; the reachable voters must be a
\* majority of the voters.  A dead node is no voter.
Campaign(c) ==
    /\ c \in Ids /\ Votable(nodes[c].status) /\ Reachable(c)
    /\ ~LeaderOk \/ leader = c
    /\ Majority(Voters(nodes, isolated), Voters(nodes, {}))
    /\ Elect(nodes, c)
    /\ UNCHANGED <<sessions, isolated, pending, receipts, ticking>>

\* step_down gives up the metadata group only; the shards keep their leader.
StepDown ==
    /\ leader # None
    /\ leader' = None /\ nodes' = RefreshRoles(nodes, None)
    /\ UNCHANGED <<epoch, shards, log, commit, applied, sessions, isolated, pending, receipts, ticking>>

----------------------------------------------------------------------------
(* Failure detection.  `tick` updates the statuses under one lock and calls check_and_failover, which   *)
(* updates them again, under the next.                                                                  *)

Tick(t) ==
    /\ ticking = None
    /\ nodes' = Live(nodes, t) /\ ticking' = t
    /\ UNCHANGED <<epoch, leader, shards, log, commit, applied, sessions, isolated, pending, receipts>>

\* For the mutant of CheckLeavesServed: a partitioned leader is not noticed.
GoneIfDead(ns, n) == n = None \/ n \notin DOMAIN ns \/ ns[n].status = "dead"

Gone(ns, n) == n = None \/ n \notin DOMAIN ns \/ ns[n].status = "dead" \/ ~Reachable(n)

\* The metadata leader is gone: the reachable healthy nodes elect one of them if they are a majority of
\* the voters.
FailOverGroup(ns) ==
    LET reachable == Serving(ns)
    IN  IF Majority(reachable, Voters(ns, {})) /\ reachable # {}
        THEN \E c \in reachable : Elect(ns, c)
        ELSE nodes' = ns /\ UNCHANGED <<epoch, leader, shards, log, commit, applied>>

\* The metadata leader is there: a shard whose own leader is gone gets a serving follower, or any
\* serving node.  The lags stay as they are, and so does the epoch of the shard map.
Heirs(ns, shard) ==
    IF shard.followers \intersect Serving(ns) # {} THEN shard.followers \intersect Serving(ns) ELSE Serving(ns)

Promoted(ns, shard, heir) ==
    [shard EXCEPT !.leader = heir,
                  !.followers = {m \in (@ \union {shard.leader}) \ {heir} : m \in DOMAIN ns /\ ns[m].status # "dead"}]

FailOverShards(ns) ==
    LET lost == {i \in DOMAIN shards : Gone(ns, shards[i].leader) /\ Heirs(ns, shards[i]) # {}}
    IN  /\ \E heir \in [lost -> Serving(ns)] :
              /\ \A i \in lost : heir[i] \in Heirs(ns, shards[i])
              /\ shards' = [i \in DOMAIN shards |-> IF i \in lost THEN Promoted(ns, shards[i], heir[i]) ELSE shards[i]]
        /\ nodes' = ns
        /\ UNCHANGED <<epoch, leader, log, commit, applied>>

CheckAndFailover ==
    /\ ticking # None
    /\ LET ns == Live(nodes, ticking)
       IN  IF Gone(ns, leader) THEN FailOverGroup(ns) ELSE FailOverShards(ns)
    /\ ticking' = None
    /\ UNCHANGED <<sessions, isolated, pending, receipts>>

----------------------------------------------------------------------------
(* The replicated log.  A leader that steps down or dies may still be asked to append: only isolation   *)
(* is checked.                                                                                          *)

\* For the mutant of EventualMissesFew: the lags are not brought up to date by an append.
AppendEntryStaleLag ==
    /\ leader # None /\ Reachable(leader) /\ Len(log) < MaxLog
    /\ log' = Append(log, [term |-> epoch, kind |-> "data"])
    /\ applied' = [applied EXCEPT ![leader] = Len(log) + 1]
    /\ commit' = CommitIndex(nodes, isolated, applied', Len(log'), commit)
    /\ UNCHANGED <<epoch, leader, nodes, shards, sessions, isolated, pending, receipts, ticking>>

AppendEntry ==
    /\ leader # None /\ Reachable(leader) /\ Len(log) < MaxLog
    /\ log' = Append(log, [term |-> epoch, kind |-> "data"])
    /\ applied' = [applied EXCEPT ![leader] = Len(log) + 1]
    /\ shards' = RefreshLag(shards, applied', Len(log'))
    /\ commit' = CommitIndex(nodes, isolated, applied', Len(log'), commit)
    /\ UNCHANGED <<epoch, leader, nodes, sessions, isolated, pending, receipts, ticking>>

ReplicateToFollowers ==
    /\ applied' = [n \in Ids |-> IF n # leader /\ n \in Serving(nodes) THEN Len(log) ELSE applied[n]]
    /\ shards' = RefreshLag(shards, applied', Len(log))
    /\ commit' = CommitIndex(nodes, isolated, applied', Len(log), commit)
    /\ UNCHANGED <<epoch, leader, nodes, log, sessions, isolated, pending, receipts, ticking>>

\* rebalance: even ranges again, in a new epoch, with the replica sets dealt anew; logged as metadata.
Rebalance ==
    /\ Len(log) < MaxLog
    /\ LET even == EvenAssignments(Len(shards), SlotCount)
           moved == [i \in DOMAIN shards |-> [shards[i] EXCEPT !.start = even[i].start, !.end = even[i].end]]
       IN  \E order \in Orders(nodes) : shards' = ReplicaSets(moved, nodes, leader, applied, Len(log), order)
    /\ epoch' = epoch + 1
    /\ log' = Append(log, [term |-> epoch + 1, kind |-> "metadata"])
    /\ applied' = IF leader = None THEN applied ELSE [applied EXCEPT ![leader] = Len(log) + 1]
    /\ commit' = CommitIndex(nodes, isolated, applied', Len(log'), commit)
    /\ UNCHANGED <<leader, nodes, sessions, isolated, pending, receipts, ticking>>

----------------------------------------------------------------------------
(* Transfers, partitions, routing. *)

\* A transfer is named by the number of its snapshot; here the position in which it was asked for.
TransferSnapshot(source, target) ==
    /\ source # target /\ {source, target} \subseteq Ids
    /\ Len(pending) + Len(receipts) < MaxSyncs
    /\ pending' = Append(pending, Len(pending) + Len(receipts) + 1)
    /\ UNCHANGED <<epoch, leader, nodes, shards, log, commit, applied, sessions, isolated, receipts, ticking>>

DrainSyncsKeeping ==
    /\ pending # <<>>
    /\ receipts' = receipts \o pending
    /\ UNCHANGED <<epoch, leader, nodes, shards, log, commit, applied, sessions, isolated, pending, ticking>>

DrainSyncs ==
    /\ pending # <<>>
    /\ receipts' = receipts \o pending /\ pending' = <<>>
    /\ UNCHANGED <<epoch, leader, nodes, shards, log, commit, applied, sessions, isolated, ticking>>

Partition(iso) ==
    /\ isolated' = iso
    /\ commit' = CommitIndex(nodes, iso, applied, Len(log), commit)
    /\ UNCHANGED <<epoch, leader, nodes, shards, log, applied, sessions, pending, receipts, ticking>>

InjectPartition(iso) == iso # {} /\ Partition(iso)
HealPartition == isolated # {} /\ Partition({})

\* route_read_inner: the nodes a read of this slot may be sent to.
FollowersInBound(shard) ==
    {f \in shard.followers : /\ Reachable(f) /\ f \in Ids /\ nodes[f].status = "healthy"
                             /\ f \in DOMAIN shard.lag /\ shard.lag[f] <= MaxEventualLag}

EventualTargets(shard) == IF FollowersInBound(shard) = {} THEN {shard.leader} ELSE FollowersInBound(shard)

StillOk(shard, prev) ==
    /\ prev \in Ids /\ nodes[prev].status = "healthy"
    /\ prev \in shard.followers \union {shard.leader}

ReadTargets(slot, level, prev) ==
    LET shard == ShardForSlot(slot)
    IN  CASE shard.leader = None -> {}
          [] level = "strong" -> {shard.leader}
          [] level = "session" -> IF StillOk(shard, prev) THEN {prev} ELSE {shard.leader}
          [] OTHER -> EventualTargets(shard)

\* route_write is refused rather than sent to a leader that is dead or isolated.
WriteTargets(slot) == {n \in {ShardForSlot(slot).leader} : ~Gone(nodes, n)}

\* Whatever its level, a read in a session moves the session.
RouteReadSession(s, slot, level) ==
    /\ \E target \in ReadTargets(slot, level, sessions[s]) : sessions' = [sessions EXCEPT ![s] = target]
    /\ UNCHANGED <<epoch, leader, nodes, shards, log, commit, applied, isolated, pending, receipts, ticking>>

ClusterNext ==
    \/ \E n \in Nodes : RegisterNode(n) \/ Campaign(n)
    \/ \E n \in Nodes, t \in 0..MaxTick : Heartbeat(n, t)
    \/ \E n \in Nodes, st \in {"healthy", "suspect", "dead"} : SetNodeStatus(n, st)
    \/ StepDown \/ CheckAndFailover \/ AppendEntry \/ ReplicateToFollowers \/ Rebalance \/ DrainSyncs \/ HealPartition
    \/ \E t \in 0..MaxTick : Tick(t)
    \/ \E source, target \in Nodes : TransferSnapshot(source, target)
    \/ \E iso \in SUBSET Nodes : InjectPartition(iso)
    \/ \E s \in Sessions, slot \in 0..(SlotCount - 1), level \in {"strong", "session", "eventual"} : RouteReadSession(s, slot, level)

ClusterSpec == ClusterInit /\ [][ClusterNext]_clusterVars

----------------------------------------------------------------------------
(* What the runtime promises. *)

\* Every slot belongs to exactly one shard, whatever the layout, the bias at boot and the rebalances
\* since: even_assignments, apply_initial_slot_bias and rebalance move both sides of a boundary.
SlotsPartitioned ==
    \A slot \in 0..(SlotCount - 1) : Cardinality({i \in DOMAIN shards : InRange(shards[i], slot)}) = 1

\* The epochs of the log never go back, and no epoch has two election barriers: campaign, failover and
\* rebalance each open a new one.
TermsAscend ==
    /\ \A i \in DOMAIN log : log[i].term <= epoch /\ \A j \in 1..i : log[j].term <= log[i].term
    /\ \A i, j \in DOMAIN log : log[i].kind = "noop" /\ log[j].kind = "noop" /\ i # j => log[i].term # log[j].term

\* The leader of the metadata group has applied the whole log, however it came to lead (a node that
\* lags may be elected) and also after it registered again.
LeaderHasWholeLog == leader # None => applied[leader] = Len(log)

\* A step that moves the commit index moves it to an index that a majority of the voters it can reach
\* has applied (docs/L4-ontolith-cluster-consistency.md:123).
CommitIsReached ==
    [][commit' # commit =>
          Majority({n \in Voters(nodes', isolated') : applied'[n] >= commit'}, Voters(nodes', isolated'))]_clusterVars

\* After check_and_failover every shard is led by a node that is alive and reachable, unless there is no
\* serving node, or the leader of the group is gone and the serving nodes are not a majority.
CheckLeavesServed ==
    [][ticking # None /\ ticking' = None =>
          \/ \A i \in DOMAIN shards' : shards'[i].leader \in Voters(nodes', isolated)
          \/ Voters(nodes', isolated) = {}
          \/ Serving(nodes') = {}
          \/ ~Majority(Serving(nodes'), Voters(nodes', {})) /\ leader' \notin Voters(nodes', isolated)]_clusterVars

\* An eventual read that a follower answers misses at most max_eventual_lag of the entries clients
\* appended.  (Barriers and rebalances do not count: they are logged after the lags are computed.)
EventualMissesFew ==
    \A slot \in 0..(SlotCount - 1) : \A f \in FollowersInBound(ShardForSlot(slot)) :
        Cardinality({i \in (applied[f] + 1)..Len(log) : log[i].kind = "data"}) <= MaxEventualLag

\* Every transfer asked for is completed at most once and in order: the receipts and the queue are the
\* requests.
SyncsDrainOnce == receipts \o pending = [i \in 1..(Len(receipts) + Len(pending)) |-> i]

\* The nodes of the shard map and of the group are registered ones, and only the leader has that role.
ClusterTypeOK ==
    /\ leader \in Ids \union {None} /\ DOMAIN applied = Ids /\ commit \in 0..Len(log)
    /\ \A i \in DOMAIN shards : shards[i].leader \in Ids \union {None} /\ shards[i].followers \subseteq Ids \ {shards[i].leader}
    /\ \A n \in Ids : nodes[n].role = "leader" => n = leader
    /\ \A s \in Sessions : sessions[s] \in Ids \union {None}

\* Whatever elections, failures, partitions and rebalances happen in whatever order, the layout stays
\* whole and the leader's log is the log.
SimulatorSafe ==
    ClusterTypeOK /\ SlotsPartitioned /\ TermsAscend /\ LeaderHasWholeLog /\ EventualMissesFew /\ SyncsDrainOnce

\* No step moves the commit index to what a majority of the reachable voters does not hold, and no failure
\* check leaves a shard it could serve.
SimulatorSteps == CommitIsReached /\ CheckLeavesServed
=============================================================================
