---------------------------- MODULE RaftRegistry ----------------------------
(* The raft-backed cluster runtime, crates/ontolith-cluster/src/infrastructure/raft/mod.rs and http.rs:  *)
(* the registry of nodes each process folds from the entries it has applied, metadata changes forwarded  *)
(* to the leader, and the transfers of the data plane.  openraft is external: a sequence of committed    *)
(* entries that only the leader extends, that every node applies in order at its own pace, and a leader  *)
(* each node believes in, perhaps one that no longer leads.  Reads of the registry fold first            *)
(* (sync_applied), so Sync stands for any of them.                                                       *)
EXTENDS Integers, Sequences, FiniteSets

CONSTANTS
    Members,        \* cluster nodes, each with a process
    Nobody,         \* no leader, no call
    MaxElections, MaxTransfers, MaxCalls      \* bounds

ASSUME RegistryAssumption ==
    Nobody \notin Members /\ {MaxElections, MaxTransfers, MaxCalls} \subseteq Nat

VARIABLES
    entries,        \* committed metadata entries: [op, node, value, call]
    head,           \* the leader
    belief,         \* process -> metrics.current_leader
    done,           \* process -> number of entries its store has applied
    mark,           \* process -> applied_watermark
    registry,       \* process -> node -> [status, beat]
    seeded,         \* process -> its watermark when it bootstrapped, -1 before
    cutOff,         \* process -> the nodes it refuses to exchange with
    calls,          \* process -> its metadata_mutation: [pc, entry, tries, answer]
    elections, asked,       \* leader changes and mutations so far
    requested, queue, taken, history   \* process -> transfers asked for; queued; being drained; receipts

registryVars == <<entries, head, belief, done, mark, registry, seeded, cutOff, calls, elections, asked, requested, queue, taken, history>>
raftVars == <<entries, head, belief, done, elections>>
planeVars == <<requested, queue, taken, history>>

Idle == [pc |-> "idle", entry |-> Nobody, peer |-> Nobody, tries |-> 0, answer |-> "none"]
Payloads == [op : {"register"}, node : Members, value : {0}] \union [op : {"beat"}, node : Members, value : {1}]
            \union [op : {"status"}, node : Members, value : {"dead", "healthy"}]

----------------------------------------------------------------------------
(* sync_applied: every applied entry past the watermark, once and in order.  A heartbeat or a status of *)
(* a node the registry does not know is dropped.                                                        *)

Folded(reg, e) ==
    CASE e.op = "register" -> [n \in DOMAIN reg \union {e.node} |->
                                  IF n = e.node THEN [status |-> "healthy", beat |-> 0] ELSE reg[n]]
      [] e.op = "beat" /\ e.node \in DOMAIN reg ->
            [reg EXCEPT ![e.node] = [beat |-> e.value, status |-> IF @.status = "dead" THEN "dead" ELSE "healthy"]]
      [] e.op = "status" /\ e.node \in DOMAIN reg -> [reg EXCEPT ![e.node].status = e.value]
      [] OTHER -> reg

Fold(reg, from, to) ==
    LET f[i \in from..to] == IF i = from THEN reg ELSE Folded(f[i - 1], entries[i]) IN f[to]

\* For the mutant of RegistriesAgree: the watermark moves past an entry that was not folded.
SyncedSkipping(p) ==
    /\ registry' = [registry EXCEPT ![p] = Fold(@, mark[p], done[p])]
    /\ mark' = [mark EXCEPT ![p] = IF done[p] > @ /\ done[p] < Len(entries) THEN done[p] + 1 ELSE done[p]]

Synced(p) ==
    /\ registry' = [registry EXCEPT ![p] = Fold(@, mark[p], done[p])]
    /\ mark' = [mark EXCEPT ![p] = done[p]]

Sync(p) ==
    /\ mark[p] < done[p]
    /\ Synced(p)
    /\ UNCHANGED <<raftVars, seeded, cutOff, calls, asked, planeVars>>

Unknown == [n \in {} |-> Nobody]

RegistryInit ==
    /\ entries = <<>> /\ head \in Members
    /\ belief = [p \in Members |-> head] /\ done = [p \in Members |-> 0] /\ mark = [p \in Members |-> 0]
    /\ registry = [p \in Members |-> Unknown] /\ seeded = [p \in Members |-> -1]
    /\ cutOff = [p \in Members |-> {}] /\ calls = [p \in Members |-> Idle]
    /\ elections = 0 /\ asked = 0
    /\ requested = [p \in Members |-> 0]
    /\ queue = [p \in Members |-> <<>>] /\ taken = [p \in Members |-> <<>>] /\ history = [p \in Members |-> <<>>]

\* bootstrap: what is applied by then is folded first, then every member the registry lacks is entered
\* as healthy, whatever the entries before said of it.
Bootstrap(p) ==
    /\ seeded[p] = -1 /\ belief[p] # Nobody
    /\ seeded' = [seeded EXCEPT ![p] = done[p]]
    /\ LET reg == Fold(registry[p], mark[p], done[p])
       IN  registry' = [registry EXCEPT ![p] = [n \in Members |-> IF n \in DOMAIN reg THEN reg[n] ELSE [status |-> "healthy", beat |-> 0]]]
    /\ mark' = [mark EXCEPT ![p] = done[p]]
    /\ UNCHANGED <<raftVars, cutOff, calls, asked, planeVars>>

----------------------------------------------------------------------------
(* openraft. *)

Apply(p) ==
    /\ done[p] < Len(entries)
    /\ done' = [done EXCEPT ![p] = @ + 1]
    /\ UNCHANGED <<entries, head, belief, elections, mark, registry, seeded, cutOff, calls, asked, planeVars>>

\* A leader has applied what was committed before.
Elected(p) ==
    /\ elections < MaxElections /\ p # head
    /\ head' = p /\ elections' = elections + 1
    /\ belief' = [belief EXCEPT ![p] = p]
    /\ done' = [done EXCEPT ![p] = Len(entries)]
    /\ UNCHANGED <<entries, mark, registry, seeded, cutOff, calls, asked, planeVars>>

Learns(p) ==
    /\ belief[p] # head
    /\ \E b \in {head, Nobody} : b # belief[p] /\ belief' = [belief EXCEPT ![p] = b]
    /\ UNCHANGED <<entries, head, done, elections, mark, registry, seeded, cutOff, calls, asked, planeVars>>

\* client_write: a process that leads commits the entry and has applied it; one that does not is refused.
ClientWrite(p, e) ==
    /\ p = head
    /\ entries' = Append(entries, e)
    /\ done' = [done EXCEPT ![p] = Len(entries) + 1]
    /\ UNCHANGED <<head, belief, elections>>

----------------------------------------------------------------------------
(* metadata_mutation: register_node, heartbeat and set_node_status. *)

Answered(p, answer) == calls' = [calls EXCEPT ![p] = [@ EXCEPT !.pc = "idle", !.answer = answer]]

Mutate(p, payload) ==
    /\ calls[p].pc = "idle" /\ seeded[p] >= 0 /\ asked < MaxCalls
    /\ asked' = asked + 1
    /\ LET e == [op |-> payload.op, node |-> payload.node, value |-> payload.value, call |-> asked + 1]
       IN  calls' = [calls EXCEPT ![p] = [pc |-> IF p \in cutOff[p] THEN "idle" ELSE IF belief[p] = p THEN "append" ELSE "forward",
                                          entry |-> e, peer |-> Nobody, tries |-> 0,
                                          answer |-> IF p \in cutOff[p] THEN "error" ELSE "none"]]
    /\ UNCHANGED <<raftVars, mark, registry, seeded, cutOff, planeVars>>

\* This process believes it leads: append through openraft, then fold.
AppendHere(p) ==
    /\ calls[p].pc = "append"
    /\ IF p = head /\ belief[p] = p
       THEN /\ ClientWrite(p, calls[p].entry)
            /\ registry' = [registry EXCEPT ![p] = Folded(Fold(@, mark[p], Len(entries)), calls[p].entry)]
            /\ mark' = [mark EXCEPT ![p] = Len(entries) + 1]
            /\ Answered(p, "ok")
       ELSE Answered(p, "error") /\ UNCHANGED <<raftVars, mark, registry>>
    /\ UNCHANGED <<seeded, cutOff, asked, planeVars>>

\* Otherwise the payload goes to the believed leader, if there is one and this process still exchanges
\* with it; at most three times.
Forward(p) ==
    /\ calls[p].pc = "forward"
    /\ IF calls[p].tries = 3 \/ belief[p] = Nobody \/ belief[p] \in cutOff[p]
       THEN Answered(p, "error")
       ELSE calls' = [calls EXCEPT ![p].pc = "sent", ![p].peer = belief[p], ![p].tries = @ + 1]
    /\ UNCHANGED <<raftVars, mark, registry, seeded, cutOff, asked, planeVars>>

\* handle_apply on the peer: 409 when it does not believe it leads, 400 when openraft refuses the write,
\* 200 once the entry is committed.  The peer answers whoever asks: it does not look at partitions.
Serve(p) ==
    LET peer == calls[p].peer
    IN  /\ calls[p].pc = "sent"
        /\ \/ belief[peer] # peer /\ calls' = [calls EXCEPT ![p].pc = "409"] /\ UNCHANGED raftVars
           \/ belief[peer] = peer /\ peer # head /\ calls' = [calls EXCEPT ![p].pc = "400"] /\ UNCHANGED raftVars
           \/ belief[peer] = peer /\ ClientWrite(peer, calls[p].entry) /\ calls' = [calls EXCEPT ![p].pc = "200"]
        /\ UNCHANGED <<mark, registry, seeded, cutOff, asked, planeVars>>

\* The answer.  409 is tried again; anything else that is not 200 is final.
Reply(p) ==
    /\ calls[p].pc \in {"200", "409", "400"}
    /\ IF calls[p].pc = "200" THEN Synced(p) /\ Answered(p, "ok")
       ELSE /\ UNCHANGED <<mark, registry>>
            /\ IF calls[p].pc = "409" THEN calls' = [calls EXCEPT ![p].pc = "forward"] ELSE Answered(p, "error")
    /\ UNCHANGED <<raftVars, seeded, cutOff, asked, planeVars>>

\* The request or the answer is lost, or late: the caller gives up with an error, committed or not.
\* For the mutant of CommittedOnce: it asks again.
LostRetried(p) ==
    /\ calls[p].pc \in {"sent", "200", "409", "400"}
    /\ calls' = [calls EXCEPT ![p].pc = "forward"]
    /\ UNCHANGED <<raftVars, mark, registry, seeded, cutOff, asked, planeVars>>

Lost(p) ==
    /\ calls[p].pc \in {"sent", "200", "409", "400"}
    /\ Answered(p, "error")
    /\ UNCHANGED <<raftVars, mark, registry, seeded, cutOff, asked, planeVars>>

----------------------------------------------------------------------------
(* Partitions of this process, and the data plane. *)

SetPartition(p, set) ==
    /\ cutOff[p] # set /\ cutOff' = [cutOff EXCEPT ![p] = set]
    /\ UNCHANGED <<raftVars, mark, registry, seeded, calls, asked, planeVars>>

\* transfer_snapshot: distinct nodes that the registry knows.  A transfer is named by its position.
QueueTransfer(p, source, target) ==
    /\ source # target
    /\ LET reg == Fold(registry[p], mark[p], done[p]) IN {source, target} \subseteq DOMAIN reg
    /\ Synced(p)
    /\ requested[p] < MaxTransfers /\ requested' = [requested EXCEPT ![p] = @ + 1]
    /\ queue' = [queue EXCEPT ![p] = Append(@, [target |-> target, nr |-> requested[p] + 1])]
    /\ UNCHANGED <<raftVars, seeded, cutOff, calls, asked, taken, history>>

\* For the mutant of ReceiptsInOrder: the queue is copied and stays.
CopyQueue(p) ==
    /\ taken[p] = <<>> /\ queue[p] # <<>>
    /\ taken' = [taken EXCEPT ![p] = queue[p]]
    /\ UNCHANGED <<raftVars, mark, registry, seeded, cutOff, calls, asked, requested, history, queue>>

\* drain_syncs takes the whole queue at once, then completes one transfer after the other.
TakeQueue(p) ==
    /\ taken[p] = <<>> /\ queue[p] # <<>>
    /\ taken' = [taken EXCEPT ![p] = queue[p]] /\ queue' = [queue EXCEPT ![p] = <<>>]
    /\ UNCHANGED <<raftVars, mark, registry, seeded, cutOff, calls, asked, requested, history>>

\* complete_transfer: exported here, imported by the target over HTTP.  A partitioned target, a target
\* that is not a member, or a failure on either side ends the drain, and with it what was still to come.
CompleteTransfer(p) ==
    /\ taken[p] # <<>>
    /\ \/ /\ Head(taken[p]).target \notin cutOff[p]
          /\ history' = [history EXCEPT ![p] = Append(@, Head(taken[p]).nr)]
          /\ taken' = [taken EXCEPT ![p] = Tail(@)]
       \/ taken' = [taken EXCEPT ![p] = <<>>] /\ UNCHANGED history
    /\ UNCHANGED <<raftVars, mark, registry, seeded, cutOff, calls, asked, requested, queue>>

RegistryNext ==
    \/ \E p \in Members : Bootstrap(p) \/ Sync(p) \/ Apply(p) \/ Elected(p) \/ Learns(p) \/ AppendHere(p) \/ Forward(p)
                          \/ Serve(p) \/ Reply(p) \/ Lost(p) \/ TakeQueue(p) \/ CompleteTransfer(p)
    \/ \E p \in Members, payload \in Payloads : Mutate(p, payload)
    \/ \E p, from, to \in Members : QueueTransfer(p, from, to)
    \/ \E p \in Members, set \in SUBSET Members : SetPartition(p, set)

RegistrySpec == RegistryInit /\ [][RegistryNext]_registryVars

----------------------------------------------------------------------------
\* Two processes that bootstrapped at the same entry and have folded equally many hold the same registry.
RegistriesAgree ==
    \A p, q \in Members :
        seeded[p] >= 0 /\ seeded[p] = seeded[q] /\ mark[p] = mark[q] => registry[p] = registry[q]

\* A mutation is committed at most once, however often it was forwarded, and one answered ok was.
CommittedOnce ==
    /\ \A i, j \in DOMAIN entries : entries[i].call = entries[j].call => i = j
    /\ \A p \in Members : calls[p].answer = "ok" => \E i \in DOMAIN entries : entries[i] = calls[p].entry

\* Receipts come in the order of the requests, none twice, and none for a transfer still queued.
ReceiptsInOrder ==
    \A p \in Members :
        LET all == history[p] \o [i \in DOMAIN taken[p] |-> taken[p][i].nr] \o [i \in DOMAIN queue[p] |-> queue[p][i].nr]
        IN  \A i, j \in DOMAIN all : i < j => all[i] < all[j]

\* Processes that bootstrapped and folded alike hold one registry, a mutation has one entry at most and a
\* transfer one receipt at most: those after one that failed have none, since the drain drops them.
RegistrySafe == RegistriesAgree /\ CommittedOnce /\ ReceiptsInOrder
=============================================================================
