----------------------------- MODULE MCCluster -----------------------------
(* The simulator, the raft store of a node and the raft-backed runtime, one at a time: a scene uses the  *)
(* operations of one of them, and the variables of the others keep their initial value.                 *)
EXTENDS ClusterSim, RaftStore, RaftRegistry, TLC

VARIABLE scene

\* No bias, one that moves the last slot it can, more than the last shard has, too few slots, no shard.
Layouts == {[shards |-> s, slots |-> k, bias |-> b] : s \in {0, 2, 3}, k \in {2, 5}, b \in {0, 1, 9}}
Usual == Len(shards) = 2 /\ shards[1].end = 2 /\ SlotCount = 5
NodeSymmetry == Permutations(Nodes)

SimScenes == {"elections", "layout", "time", "reads"}
RegistryScenes == {"registry", "forwarding", "plane"}
StoreScenes == {"store", "installs"}

Partitions == HealPartition \/ \E iso \in SUBSET Nodes : InjectPartition(iso)
CutOffOne == HealPartition \/ \E n \in Nodes : InjectPartition({n})
Writes == AppendEntry \/ ReplicateToFollowers
Statuses(set) == \E n \in Nodes, st \in set : SetNodeStatus(n, st)
Levels == {"strong", "session", "eventual"}

SimIdle == NoNodes /\ Usual
SimInit ==
    \/ scene = "layout" /\ NoNodes
    \/ scene = "elections" /\ SimIdle
    \/ scene \in {"time", "reads"} /\ Bootstrapped /\ Usual

SimNext ==
    \/ scene = "elections" /\ (Writes \/ Statuses({"suspect", "dead"}) \/ Partitions \/ StepDown
                                                       \/ \E n \in Nodes : RegisterNode(n) \/ Campaign(n))
                           /\ Len(log') < MaxLog
    \/ scene = "layout" /\ (Rebalance \/ DrainSyncs \/ \E n, m \in Nodes : RegisterNode(n) \/ Campaign(n) \/ TransferSnapshot(n, m))
    \/ scene = "time" /\ (Writes \/ CutOffOne \/ CheckAndFailover \/ \E n \in Nodes, t \in 0..MaxTick : Heartbeat(n, t) \/ Tick(t))
                       /\ Len(log') < MaxLog
    \/ scene = "reads" /\ (Writes \/ Partitions \/ Statuses({"healthy", "dead"}) \/ \E n \in Nodes : Campaign(n))
    \/ scene = "reads" /\ \E s \in Sessions, slot \in 0..(SlotCount - 1), level \in Levels : RouteReadSession(s, slot, level)

\* Registries: every order of bootstraps, entries and reads.  Forwarding: one entry, lost answers,
\* elections and partitions.  Plane: transfers and partitions.
First == CHOOSE p \in Members : TRUE
OneBeat(p) == [op |-> "beat", node |-> p, value |-> 1]
RaftNext ==
    \/ \E p \in Members : (scene = "plane" => p = First) /\ Bootstrap(p)
    \/ scene = "registry" /\ \E p \in Members : Sync(p) \/ Apply(p) \/ AppendHere(p) \/ \E payload \in Payloads : Mutate(p, payload)
    \/ scene = "forwarding" /\ \E p \in Members : \/ Apply(p) \/ Elected(p) \/ Learns(p) \/ Mutate(p, OneBeat(p)) \/ AppendHere(p)
                                                  \/ Forward(p) \/ Serve(p) \/ Reply(p) \/ Lost(p)
                                                  \/ \E set \in SUBSET Members : Cardinality(set) < 2 /\ SetPartition(p, set)
    \/ scene = "plane" /\ \E p \in {First} : \/ TakeQueue(p) \/ CompleteTransfer(p)
                                             \/ \E set \in SUBSET Members : Cardinality(set) < 2 /\ SetPartition(p, set)
                                             \/ \E from, to \in Members : QueueTransfer(p, from, to)

\* The store: every operation but the snapshots of others; and those too, whole or with the first entry alone, on
\* shorter logs.
Installs == \E i, m \in 0..2, t \in {vote} \ {0} : \E have \in {{0}, 0..i} : InstallSnapshot(i, t, have, m)
RaftStoreNext ==
    \/ scene = "store" /\ Operations
    \/ scene = "installs" /\ (Operations \/ Installs) /\ top' < 3

MCInit ==
    /\ scene \in SimScenes \union RegistryScenes \union StoreScenes
    /\ IF scene \in SimScenes THEN SimInit ELSE SimIdle
    /\ StoreInit /\ RegistryInit /\ (scene \notin RegistryScenes => head = First)

MCNext ==
    /\ UNCHANGED scene
    /\ \/ scene \in SimScenes /\ SimNext /\ UNCHANGED <<storeVars, registryVars>>
       \/ scene \in StoreScenes /\ RaftStoreNext /\ UNCHANGED <<clusterVars, registryVars>>
       \/ scene \in RegistryScenes /\ RaftNext /\ UNCHANGED <<clusterVars, storeVars>>

MCSpec == MCInit /\ [][MCNext]_<<clusterVars, storeVars, registryVars, scene>>
=============================================================================
