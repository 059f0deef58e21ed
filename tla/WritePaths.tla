----------------------------- MODULE WritePaths -----------------------------
(***************************************************************************)
(* The three ways a write reaches the storage engine, composed with the    *)
(* transaction manager:                                                    *)
(*   service  TransactionalWriteService (ontolith-storage, application)    *)
(*   ingest   the data upload of the gateway (ontolith-server, app.rs)     *)
(*   update   execute_update, SPARQL Update (ontolith-query, execute.rs)   *)
(*                                                                         *)
(* A call holds no lock from one engine or manager operation to the next,  *)
(* so each of them is a step, and so is each read an update makes before   *)
(* it stages.  Updates number their transactions themselves and never ask  *)
(* the manager.  Snapshots, checkpoints and key deletes are not used on    *)
(* these paths, deadlines neither.                                         *)
(***************************************************************************)
EXTENDS StoreOps
LOCAL INSTANCE SequencesExt

CONSTANTS
    ServiceClients, IngestClients, UpdateClients,
    Batches,       \* what service and ingest clients write
    Requests,      \* update requests, sequences of update operations
    UpdateOffset,  \* first transaction id of updates
    MaxActive,     \* admission limit of the manager
    Retention,     \* version_retention of the engine
    WalMayFail,    \* whether an append of the log may fail
    MaxTxns,       \* bound: transactions begun at the manager
    MaxRejected,   \* bound: begins refused
    MaxUpdates,    \* bound: updates started
    MaxVersion, MaxWal, MaxStaged  \* bounds of the engine

ASSUME OffsetAssumption == UpdateOffset \in Nat /\ MaxTxns < UpdateOffset
ASSUME UpdatesAssumption == MaxUpdates \in Nat /\ MaxTxns \in Nat
ASSUME BatchesAssumption == Batches \subseteq Seq(WriteOperation)
ASSUME ClientsAssumption ==
    /\ ServiceClients \cap (IngestClients \cup UpdateClients) = {}
    /\ IngestClients \cap UpdateClients = {}

VARIABLES
    versions, next_version, spo_index, pending, wal,  \* the engine
    txns, next_id, metrics,                           \* the manager
    update_counter,  \* UPDATE_TXN_COUNTER
    call             \* [clients -> where its call stands]

engineVars  == <<versions, next_version, spo_index, pending, wal>>
managerVars == <<txns, next_id, metrics>>
vars        == <<engineVars, managerVars, update_counter, call>>

Clients == ServiceClients \cup IngestClients \cup UpdateClients
TxnIds  == 1..MaxTxns \cup UpdateOffset..(UpdateOffset + MaxUpdates - 1)

Engine == INSTANCE MemEngine WITH
    Txns <- TxnIds, Readers <- {}, Checkpointers <- {}, Retentions <- {}, Tails <- {},
    KeyDeletes <- FALSE, captured <- <<>>, pins <- <<>>, truncating <- <<>>

Manager == INSTANCE TxnManager WITH
    Timeouts <- {}, ClockMax <- 0, deadlines_ms <- <<>>, clock_ms <- 0

Latest == Engine!Latest

-----------------------------------------------------------------------------
(* Update operations.  A scan reads one graph and turns what it finds into *)
(* write operations; the scans of an operation run one after the other.    *)

\* A statement of the default graph is written as a triple, any other as a quad.
Put(t, g)    == IF g = DefaultGraph THEN [op |-> "PutTriple", t |-> t]
                ELSE [op |-> "PutQuad", q |-> [t |-> t, g |-> g]]
Delete(t, g) == IF g = DefaultGraph THEN [op |-> "DeleteTriple", t |-> t]
                ELSE [op |-> "DeleteQuad", q |-> [t |-> t, g |-> g]]

ForEach(Op(_), S) == LET s == SetToSeq(S) IN [i \in DOMAIN s |-> Op(s[i])]

\* The triples of a graph as the transaction sees them.
GraphInTxn(t, g) ==
    LET ops == Engine!StagedOf(t) IN
    IF g = DefaultGraph THEN TriplesInTxn(Latest.triples, ops, Subjects)
                        ELSE {q.t : q \in QuadsOfGraph(Latest, ops, g)}

\* named_graph_quads: the committed quads, without those of the transaction.
CommittedQuads == Latest.quads

Scan(kind, from, to) == [kind |-> kind, from |-> from, to |-> to]

\* COPY and MOVE empty the destination, MOVE reads its source a second time.
Transfer(how, from, to) ==
    IF from = to /\ how # "Load" THEN <<>>
    ELSE <<Scan("put", from, to)>>
         \o (IF how \in {"Copy", "Move"} THEN <<Scan("reset", to, to)>> ELSE <<>>)
         \o (IF how = "Move" THEN <<Scan("delete", from, from)>> ELSE <<>>)

ScansOf(op) ==
    CASE op.kind = "Data"     -> <<>>
      [] op.kind = "Create"   -> <<>>
      [] op.kind = "Modify"   -> <<Scan("modify", op.g, op.rename)>>
      [] op.kind = "DeleteWhere" -> <<Scan("delete", op.g, op.g)>>
      [] op.kind = "Transfer" -> Transfer(op.how, op.from, op.to)
      [] op.kind = "Clear" ->
            CASE op.target = "Named" -> <<Scan("named", DefaultGraph, DefaultGraph)>>
              [] op.target = "All"   -> <<Scan("delete", DefaultGraph, DefaultGraph),
                                          Scan("named", DefaultGraph, DefaultGraph)>>
              [] OTHER               -> <<Scan("delete", op.target, op.target)>>

GivenOps(op) == IF op.kind = "Data" THEN op.ops ELSE <<>>

\* A DELETE/INSERT template: for each solution its delete, then its insert.
ModifyOps(solutions, g, rename) ==
    FlattenSeq([i \in DOMAIN solutions |->
        <<Delete(solutions[i], g), Put([solutions[i] EXCEPT !.o = rename[@]], g)>>])

\* The batches transaction t can have after one more scan: more than one only
\* where the order of the vector the scan returned shows.
BatchAfter(batch, t, scan) ==
    LET found  == GraphInTxn(t, scan.from)
        put(x) == Put(x, scan.to)
        del(x) == Delete(x, scan.to)
        delQuad(q) == [op |-> "DeleteQuad", q |-> q]
    IN CASE scan.kind = "put"    -> {batch \o ForEach(put, found)}
         [] scan.kind = "reset"  -> {ForEach(del, found) \o batch}
         [] scan.kind = "delete" -> {batch \o ForEach(del, found)}
         [] scan.kind = "named"  -> {batch \o ForEach(delQuad, CommittedQuads)}
         [] scan.kind = "modify" -> {ModifyOps(s, scan.from, scan.to) : s \in SetToSeqs(found)}

-----------------------------------------------------------------------------
Idle == [pc |-> "idle", txn |-> 0, batch |-> <<>>, scans |-> <<>>, todo |-> <<>>,
         staged |-> FALSE, outcome |-> "none"]

Init ==
    /\ Engine!Init
    /\ Manager!Init
    /\ update_counter = 0
    /\ call = [c \in Clients |-> Idle]

At(c, pc)   == call[c].pc = pc
Goto(c, pc) == call' = [call EXCEPT ![c].pc = pc]
Return(c, outcome) ==
    call' = [call EXCEPT ![c] = [Idle EXCEPT !.txn = call[c].txn, !.staged = call[c].staged,
                                             !.outcome = outcome]]

\* The engine answers Ok when the log took the record.
Ok == wal' # wal

\* Slips a change of the code could make, for the mutation runs.
FailWithoutUndo(c)    == IF c \in ServiceClients THEN Goto(c, "giving up") ELSE Return(c, "error")
FailAtOnce(c)         == Return(c, "error")
LeaveStaged(c, outcome) == Return(c, outcome)
StartingAgain(record, todo) ==
    [record EXCEPT !.pc = "evaluating", !.scans = ScansOf(Head(todo)), !.batch = GivenOps(Head(todo)),
                   !.todo = IF @ = <<>> THEN todo ELSE @]
NextUpdateTxnNoOffset == 1 + update_counter
DoneWhenStored(c)     == Return(c, "ok")

\* service: undo both sides.  ingest: `?` leaves both as they are.
Fail(c) == IF c \in ServiceClients THEN Goto(c, "undoing") ELSE Return(c, "error")

\* The storage has committed, the manager has not.
Stored(c) == Goto(c, "stored")

-----------------------------------------------------------------------------
(* service and ingest                                                      *)

Begin(c, ops) ==
    /\ At(c, "idle")
    /\ Manager!BeginAccepted(Manager!None)
    /\ call' = [call EXCEPT ![c] = [Idle EXCEPT !.pc = "staging", !.txn = next_id, !.batch = ops]]
    /\ UNCHANGED <<engineVars, update_counter>>

BeginRefused(c) ==
    /\ At(c, "idle")
    /\ Manager!BeginRejected
    /\ call' = [call EXCEPT ![c] = [Idle EXCEPT !.outcome = "error"]]
    /\ UNCHANGED <<engineVars, update_counter>>

Stage(c) ==
    /\ At(c, "staging")
    /\ Engine!ApplyWriteBatch(call[c].txn, call[c].batch)
    /\ IF Ok THEN Goto(c, "committing") ELSE Fail(c)
    /\ UNCHANGED <<managerVars, update_counter>>

Commit(c) ==
    /\ At(c, "committing") /\ c \notin UpdateClients
    /\ Engine!CommitTransaction(call[c].txn)
    /\ IF Ok THEN Stored(c) ELSE Fail(c)
    /\ UNCHANGED <<managerVars, update_counter>>

\* The engine's abort fails when nothing is pending, which a failed commit
\* leaves behind; the error is ignored.
UndoStaged(c) ==
    /\ At(c, "undoing")
    /\ \/ Engine!AbortTransaction(call[c].txn)
       \/ call[c].txn \notin DOMAIN pending /\ UNCHANGED engineVars
    /\ Goto(c, "giving up")
    /\ UNCHANGED <<managerVars, update_counter>>

GiveUp(c) ==
    /\ At(c, "giving up")
    /\ Manager!Abort(call[c].txn)
    /\ Return(c, "error")
    /\ UNCHANGED <<engineVars, update_counter>>

Finish(c) ==
    /\ At(c, "stored")
    /\ Manager!Commit(call[c].txn)
    /\ Return(c, "ok")
    /\ UNCHANGED <<engineVars, update_counter>>

-----------------------------------------------------------------------------
(* update                                                                  *)

\* The call when it starts on the operations of todo.
Starting(record, todo) ==
    [record EXCEPT !.pc = "evaluating", !.todo = todo,
                   !.scans = ScansOf(Head(todo)), !.batch = GivenOps(Head(todo))]

NextUpdateTxn == UpdateOffset + update_counter

UpdateBegin(c, request) ==
    /\ At(c, "idle")
    /\ update_counter < MaxUpdates
    /\ update_counter' = update_counter + 1
    /\ call' = [call EXCEPT ![c] = Starting([Idle EXCEPT !.txn = NextUpdateTxn], request)]
    /\ UNCHANGED <<engineVars, managerVars>>

UpdateScan(c) ==
    /\ At(c, "evaluating") /\ call[c].scans # <<>>
    /\ \E b \in BatchAfter(call[c].batch, call[c].txn, Head(call[c].scans)) :
          call' = [call EXCEPT ![c].batch = b, ![c].scans = Tail(@)]
    /\ UNCHANGED <<engineVars, managerVars, update_counter>>

\* Leaving the operations early: abort if something was staged.
Leave(c, outcome) ==
    IF call[c].staged THEN call' = [call EXCEPT ![c].pc = "rolling back", ![c].outcome = outcome]
    ELSE Return(c, outcome)

UpdateStage(c) ==
    /\ At(c, "evaluating") /\ call[c].scans = <<>> /\ call[c].batch # <<>>
    /\ Engine!ApplyWriteBatch(call[c].txn, call[c].batch)
    /\ IF Ok THEN call' = [call EXCEPT ![c].pc = "checking", ![c].staged = TRUE]
       ELSE Leave(c, "error")
    /\ UNCHANGED <<managerVars, update_counter>>

\* A template or a pattern that cannot be evaluated.
UpdateRefused(c) ==
    /\ At(c, "evaluating") /\ Head(call[c].todo).kind \in {"Data", "Modify", "DeleteWhere"}
    /\ Leave(c, "error")
    /\ UNCHANGED <<engineVars, managerVars, update_counter>>

Operated(c) ==
    \/ At(c, "checking")
    \/ At(c, "evaluating") /\ call[c].scans = <<>> /\ call[c].batch = <<>>

\* ctx.check, after an operation and while a pattern is evaluated: the token
\* was cancelled or its time is up.
UpdatePreempted(c) ==
    /\ \/ Operated(c)
       \/ At(c, "evaluating") /\ call[c].scans # <<>>
          /\ Head(call[c].todo).kind \in {"Modify", "DeleteWhere"}
    /\ Leave(c, "stopped")
    /\ UNCHANGED <<engineVars, managerVars, update_counter>>

UpdateGoesOn(c) ==
    /\ Operated(c)
    /\ IF Len(call[c].todo) > 1
       THEN call' = [call EXCEPT ![c] = Starting(@, Tail(@.todo))]
       ELSE IF call[c].staged THEN Goto(c, "committing") ELSE Return(c, "ok")
    /\ UNCHANGED <<engineVars, managerVars, update_counter>>

\* No abort after a commit that failed.
UpdateCommit(c) ==
    /\ At(c, "committing") /\ c \in UpdateClients
    /\ Engine!CommitTransaction(call[c].txn)
    /\ Return(c, IF Ok THEN "ok" ELSE "error")
    /\ UNCHANGED <<managerVars, update_counter>>

UpdateAbort(c) ==
    /\ At(c, "rolling back")
    /\ Engine!AbortTransaction(call[c].txn)
    /\ Return(c, call[c].outcome)
    /\ UNCHANGED <<managerVars, update_counter>>

-----------------------------------------------------------------------------
\* What a call does once it has begun.
Step(c) ==
    \/ Stage(c) \/ Commit(c) \/ UndoStaged(c) \/ GiveUp(c) \/ Finish(c)
    \/ UpdateScan(c) \/ UpdateStage(c) \/ UpdateRefused(c) \/ UpdatePreempted(c)
    \/ UpdateGoesOn(c) \/ UpdateCommit(c) \/ UpdateAbort(c)

Next ==
    \/ \E c \in ServiceClients \cup IngestClients :
          BeginRefused(c) \/ \E ops \in Batches : Begin(c, ops)
    \/ \E c \in UpdateClients, request \in Requests : UpdateBegin(c, request)
    \/ \E c \in Clients : Step(c)

Spec == Init /\ [][Next]_vars

\* A thread that runs a call is scheduled again and again; nobody has to call.
FairSpec == Spec /\ \A c \in Clients : WF_vars(Step(c))

-----------------------------------------------------------------------------
Running == {c \in Clients : ~At(c, "idle")}

LoggedCommits == {wal[i].txn : i \in {j \in 1..Len(wal) : wal[j].phase = "Committed"}}

\* What a call commits is what it staged: nobody else adds to, commits or
\* drops the pending operations of a call that runs.  The manager and the
\* updates allocate ids independently (execute.rs 651-655), the engine tells
\* calls apart by nothing but the id.
StagedIntact ==
    \A c \in Running :
        /\ At(c, "committing") /\ c \notin UpdateClients
           => call[c].txn \in DOMAIN pending /\ pending[call[c].txn] = call[c].batch
        /\ c \in UpdateClients /\ call[c].staged => call[c].txn \in DOMAIN pending

\* No call that returned leaves staged operations behind, whether it
\* succeeded, was refused, was preempted or met a failing log: nothing else
\* would ever remove them.  An update leaves them behind when its first record
\* is refused (execute.rs 362, staged is set after the call), so updates are
\* excepted where the log may fail; ingest keeps this only while the log takes
\* all (app.rs 1628-1632).
NothingLeftStaged ==
    \A t \in DOMAIN pending :
        \/ \E c \in Running : call[c].txn = t
        \/ WalMayFail /\ t >= UpdateOffset

\* The active transactions of the manager are those of the calls that run,
\* one slot each: no way out of a call keeps a slot, none gives it back early.
SlotsAccounted ==
    /\ Manager!ActiveTxns = {call[c].txn : c \in Running \ UpdateClients}
    /\ \A c, d \in Running : c # d => call[c].txn # call[d].txn

\* However the log fails, a call that has ended holds neither a slot of the
\* manager nor, if it was a service's, operations of the engine
\* (commit_write_operations).
NothingLeftBehind == NothingLeftStaged /\ SlotsAccounted

\* The manager says Committed exactly for the transactions whose commit
\* record is in the log, but for the moment between the storage commit and
\* the manager commit; a call answers "ok" only for a logged commit, and a
\* refused or preempted one has none.
OutcomesAgree ==
    /\ \A t \in DOMAIN txns :
          t \in LoggedCommits <=> \/ txns[t] = "Committed"
                                 \/ \E c \in Clients : At(c, "stored") /\ call[c].txn = t
    /\ \A c \in Clients \ Running :
          /\ call[c].outcome = "ok" /\ (c \in UpdateClients => call[c].staged)
             => call[c].txn \in LoggedCommits
          /\ call[c].outcome \in {"error", "stopped"} => call[c].txn \notin LoggedCommits

\* Every call returns, whatever the other clients do: no step waits for
\* another call, and an update leaves its operations in the end.
CallsReturn == \A c \in Clients : c \in Running ~> c \notin Running

=============================================================================
