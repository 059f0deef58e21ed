------------------------------- MODULE Gateway -------------------------------
(* The gateway's handlers as concurrent requests: authorisation and counters, the graphs an ingest writes *)
(* to, the remote documents an update loads, and the semantic index, which follows the store after each   *)
(* commit under a lock of its own.  A statement is a triple in a graph; the store commits atomically.      *)
EXTENDS Access, FiniteSetsExt, SequencesExt

CONSTANTS
    Threads,        \* connections served at a time
    Traffic,        \* the requests they may bring
    Cap,            \* auto_index_cap
    MaxRequests,    \* bound on the requests
    MaxStarts        \* bound on the processes

VARIABLES
    enforced,       \* tenant_mode
    persistent,     \* the index has a column family of its own
    store,          \* the committed statements
    indexed,        \* the terms of the semantic index
    counted,        \* its length, as it counts
    holder,         \* who holds the lock of the index
    call,           \* the request of each thread and where it is
    metrics,        \* the counters of AppState, in this process
    boots,          \* counts the processes
    received,       \* history: counts the requests
    options,        \* history: preflight requests of this process
    left            \* history: terms of the store an indexing left out: it failed, the cap cut it, a start read less

gatewayVars == <<enforced, persistent, store, indexed, counted, holder, call, metrics, boots, received, options, left>>

NoThread == "no thread"
Resting == [pc |-> "resting"]
DefaultGraph == [tenant |-> None, name |-> "default"]
TenantGraph(tenant) == [tenant |-> tenant, name |-> "own"]
Codes == {200, 400, 401, 403, 500}

\* A request carries finitely much, and a graph parameter is an IRI, which the default graph has not.
IsRequest(request) ==
    /\ request.fault \in {0} \union Codes /\ DefaultGraph \notin request.graph
    /\ IsFiniteSet(request.terms)
    /\ IsFiniteSet(request.statements)
    /\ \A st \in request.statements : st = [graph |-> st.graph, triple |-> st.triple]
    /\ Len(request.ops) \in Nat /\ DOMAIN request.ops = 1..Len(request.ops)
    /\ \A i \in DOMAIN request.ops : IsFiniteSet(request.ops[i].statements)
ASSUME GatewayAssumption ==
    /\ IsFiniteSet(Threads) /\ NoThread \notin Threads
    /\ Cap \in Nat
    /\ \A request \in Traffic : IsRequest(request)

Zeroes == [requests |-> 0, sparql |-> 0, errors |-> 0, ingests |-> 0, answered |-> 0, audited |-> 0, statuses |-> [code \in Codes |-> 0]]

\* triple_index_terms: where statements show terms; blank subjects are left out.
Occurrences(statements) == {x \in statements \X {"s", "p", "o"} : x[2] = "s" => ~x[1].triple.blank}
TermAt(x) == x[1].triple[x[2]]
TermsAt(occurrences) == {TermAt(x) : x \in occurrences}
Terms(statements) == TermsAt(Occurrences(statements))
InDefault(statements) == {st \in statements : st.graph = DefaultGraph}

\* index_terms: the cap cuts the list of what is not held, in which a term may come again.
Room(length) == IF length < Cap THEN Cap - length ELSE 0
Fitting(statements, held, length) ==
    LET new == {x \in Occurrences(statements) : TermAt(x) \notin held}
    IN  IF Cardinality(new) <= Room(length) THEN {new} ELSE kSubset(Room(length), new)
\* An embedding or a write that fails: in memory what came before it stays, a column family takes nothing of the list.
Entering(terms, times) == [terms |-> terms, times |-> times]
Indexings(statements, held, length) ==
    UNION {IF persistent THEN {Entering(TermsAt(taken), Cardinality(taken)), Entering({}, 0)}
           ELSE {Entering(some, Cardinality(some)) : some \in SUBSET TermsAt(taken)} : taken \in Fitting(statements, held, length)}
\* The persistent index keeps a count, and counts a term as often as a list names it.
Holds(terms, count) == indexed' = terms /\ counted' = IF persistent THEN count ELSE Cardinality(terms)

GatewayInit ==
    /\ enforced \in BOOLEAN /\ persistent \in BOOLEAN
    /\ store = {} /\ indexed = {} /\ counted = 0 /\ holder = NoThread
    /\ call = [c \in Threads |-> Resting]
    /\ metrics = Zeroes /\ boots = 1 /\ received = 0 /\ options = 0
    /\ left = {}

Stays == UNCHANGED <<enforced, persistent, boots, received, options>>
At(c, pc) == call[c].pc = pc
Goes(c, pc) == call' = [call EXCEPT ![c].pc = pc]
Answers(c, status) == call' = [call EXCEPT ![c] = [pc |-> "answering", request |-> call[c].request, status |-> status]]
Count(counter) == metrics' = [metrics EXCEPT ![counter] = @ + 1]
Unindexed == UNCHANGED <<indexed, counted, holder, left>>

-----------------------------------------------------------------------------
(* handle *)

Arrive(c, request) ==
    /\ call[c] = Resting /\ received < MaxRequests
    /\ received' = received + 1
    /\ Count("requests")
    /\ IF request.kind = "options" THEN options' = options + 1 /\ UNCHANGED call
       ELSE call' = [call EXCEPT ![c] = [pc |-> "arrived", request |-> request]] /\ UNCHANGED options
    /\ Unindexed /\ UNCHANGED <<enforced, persistent, store, boots>>

Needed(request) ==
    CASE request.kind \in {"query", "update"} -> <<"sparql", "query">>
      [] request.kind = "ingest" -> <<"data", "write">>
      [] request.kind = "index" -> <<"semantic", "write">>
Permitted(request) == Can(request.context, Needed(request)[1], Needed(request)[2])
StatusOf(why) == IF why = "unauthorized" THEN 401 ELSE 403

Unauthenticated(c) ==
    /\ At(c, "arrived") /\ ~call[c].request.context.ok
    /\ Answers(c, StatusOf(call[c].request.context.why))
    /\ Stays /\ Unindexed /\ UNCHANGED <<store, metrics>>

\* authorize leaves an event either way; the handler's own counter comes after it.
Counted(request) == IF request.kind \in {"query", "update"} THEN {"sparql"} ELSE IF request.kind = "ingest" THEN {"ingests"} ELSE {}
Authorize(c) ==
    /\ At(c, "arrived") /\ call[c].request.context.ok
    /\ IF Permitted(call[c].request)
       THEN /\ Goes(c, "working")
            /\ metrics' = [name \in DOMAIN metrics |-> IF name \in Counted(call[c].request) \union {"audited"} THEN metrics[name] + 1 ELSE metrics[name]]
       ELSE Answers(c, 403) /\ Count("audited")
    /\ Stays /\ Unindexed /\ UNCHANGED store

\* The counters of an answer.
AnsweredAs(request, status, counters) ==
    [counters EXCEPT !.answered = @ + 1, !.statuses[status] = @ + 1,
                     !.errors = IF request.kind \in {"query", "update"} /\ status >= 400 THEN @ + 1 ELSE @]
Finish(c) ==
    /\ At(c, "answering")
    /\ metrics' = AnsweredAs(call[c].request, call[c].status, metrics)
    /\ call' = [call EXCEPT ![c] = Resting]
    /\ Stays /\ Unindexed /\ UNCHANGED store

\* A text that does not parse, an empty document, an update the planner refuses: nothing is written.
Fails(c) ==
    /\ At(c, "working") /\ call[c].request.fault # 0
    /\ Answers(c, call[c].request.fault)
    /\ Stays /\ Unindexed /\ UNCHANGED <<store, metrics>>
Works(c, kind) == At(c, "working") /\ call[c].request.fault = 0 /\ call[c].request.kind = kind

Query(c) ==
    /\ Works(c, "query")
    /\ Answers(c, 200) /\ Count("audited")
    /\ Stays /\ Unindexed /\ UNCHANGED store

-----------------------------------------------------------------------------
(* ingest *)

Tenant(request) == request.context.tenant
\* Where statements of the document's default graph go; a graph parameter must be the tenant's own when enforced.
TargetGraph(request) ==
    IF request.graph # {} THEN CHOOSE g \in request.graph : TRUE
    ELSE IF enforced \/ request.tenant_graph THEN TenantGraph(Tenant(request)) ELSE DefaultGraph
Placed(request) ==
    {[st EXCEPT !.graph = IF @ = DefaultGraph THEN TargetGraph(request) ELSE @] : st \in request.statements}
Foreign(request) ==
    enforced /\ \E g \in request.graph \union {st.graph : st \in request.statements} : g # DefaultGraph /\ ~IsOwned(Tenant(request), g)

IngestForbidden(c) ==
    /\ Works(c, "ingest") /\ Foreign(call[c].request)
    /\ Answers(c, 403)
    /\ Stays /\ Unindexed /\ UNCHANGED <<store, metrics>>

\* begin, apply_write_batch or commit_transaction fails; what the transaction leaves behind is WritePaths' matter.
StorageFails(c) ==
    /\ Works(c, "ingest") \/ Works(c, "update")
    /\ Answers(c, 500)
    /\ Stays /\ Unindexed /\ UNCHANGED <<store, metrics>>

Committed(c, new, put) ==
    /\ store' = new
    /\ call' = [call EXCEPT ![c] = [pc |-> "committed", request |-> call[c].request, put |-> put]]
    /\ Stays /\ Unindexed /\ UNCHANGED metrics

Ingest(c) ==
    /\ Works(c, "ingest") /\ ~Foreign(call[c].request)
    /\ LET put == Placed(call[c].request) IN Committed(c, store \union put, put)

-----------------------------------------------------------------------------
(* updates *)

IsLoad(op) == op.op = "load"
\* rewrite_remote_loads: a document becomes an insertion in its place, of nothing when it cannot be fetched and that is silent.
LoadFails(request, unreachable) == \E i \in DOMAIN request.ops : IsLoad(request.ops[i]) /\ ~request.ops[i].silent /\ request.ops[i].source \in unreachable
LoadedInto(op) == {[st EXCEPT !.graph = IF @ = DefaultGraph THEN op.into ELSE @] : st \in op.statements}
RewriteRemoteLoads(ops, unreachable) ==
    [i \in DOMAIN ops |-> IF ~IsLoad(ops[i]) THEN ops[i]
                          ELSE [op |-> "insert", statements |-> IF ops[i].source \in unreachable THEN {} ELSE LoadedInto(ops[i])]]
Inserted(ops) == UNION {ops[i].statements : i \in {j \in DOMAIN ops : ops[j].op = "insert"}}
\* The last operation about a statement decides.
Applied(ops, statements) ==
    {st \in statements \union Inserted(ops) :
        LET about == {i \in DOMAIN ops : st \in ops[i].statements}
        IN  about = {} \/ ops[CHOOSE i \in about : \A j \in about : j <= i].op = "insert"}
Sources(request) == {op.source : op \in {o \in Range(request.ops) : IsLoad(o)}}

RemoteLoadFails(c, unreachable) ==
    /\ Works(c, "update") /\ LoadFails(call[c].request, unreachable)
    /\ Answers(c, 500)
    /\ Stays /\ Unindexed /\ UNCHANGED <<store, metrics>>

SparqlUpdate(c, unreachable) ==
    /\ Works(c, "update") /\ ~LoadFails(call[c].request, unreachable)
    /\ LET ops == RewriteRemoteLoads(call[c].request.ops, unreachable)
       IN  Committed(c, Applied(ops, store), Inserted(ops))

-----------------------------------------------------------------------------
(* the semantic index *)

\* Slips a change of the code could make, for the mutation runs.
NoLock == TRUE
DefaultOnly(c) == InDefault(store)

LockFree == holder = NoThread

\* POST /semantic/index: term by term, up to the cap or the first that fails.
IndexTerms(c) ==
    /\ Works(c, "index") /\ LockFree
    /\ LET new == call[c].request.terms \ indexed
       IN  \E got \in SUBSET new :
              /\ Cardinality(got) <= Room(counted)
              /\ Holds(indexed \union got, counted + Cardinality(got))
              /\ Answers(c, IF got = new \/ Cardinality(got) = Room(counted) THEN 200 ELSE 500)
    /\ Stays /\ UNCHANGED <<store, metrics, holder, left>>

\* reconcile_semantic after an ingest, whose operations are all puts; what the indexing says is dropped.
ReconcilePuts(c) ==
    /\ At(c, "committed") /\ call[c].request.kind = "ingest" /\ LockFree
    /\ \E got \in Indexings(call[c].put, indexed, counted) : Holds(indexed \union got.terms, counted + got.times)
    /\ left' = (left \union Terms(call[c].put)) \ indexed'
    /\ Answers(c, 200) /\ Count("audited")
    /\ Stays /\ UNCHANGED <<store, holder>>

\* reconcile_semantic_from_store after an update: the default graph, the named graphs, then the difference.
ReadDefaultGraph(c) ==
    /\ At(c, "committed") /\ call[c].request.kind = "update" /\ LockFree
    /\ holder' = c
    /\ call' = [call EXCEPT ![c] = [pc |-> "half read", request |-> @.request, put |-> @.put, present |-> InDefault(store)]]
    /\ Stays /\ UNCHANGED <<store, metrics, indexed, counted, left>>

NamedRead(c) == store \ InDefault(store)
ReadNamedGraphs(c) ==
    /\ At(c, "half read")
    /\ call' = [call EXCEPT ![c].pc = "read", ![c].present = @ \union NamedRead(c)]
    /\ Stays /\ Unindexed /\ UNCHANGED <<store, metrics>>

\* New terms come in first, so the evicted ones still count against the cap; either half may fail unnoticed.
ReconcileFromStore(c) ==
    /\ At(c, "read")
    /\ LET present == Terms(call[c].present)
           gone == indexed \ present
       IN  \E got \in Indexings(call[c].present, indexed, counted), out \in IF persistent THEN {gone, {}} ELSE {gone} :
               /\ Holds((indexed \ out) \union got.terms, counted + got.times - Cardinality(out))
               /\ left' = present \ (indexed \union got.terms)
    /\ holder' = NoThread
    /\ Answers(c, 200) /\ Count("audited")
    /\ Stays /\ UNCHANGED store

\* A new process indexes the default graph only; a persistent index also keeps what it had.
GatewayRestart ==
    /\ boots < MaxStarts /\ boots' = boots + 1
    /\ call' = [c \in Threads |-> Resting] /\ holder' = NoThread /\ metrics' = Zeroes /\ options' = 0
    /\ LET kept == IF persistent THEN indexed ELSE {}
       IN  \E got \in Indexings(InDefault(store), kept, Cardinality(kept)) :
              Holds(kept \union got.terms, Cardinality(kept) + got.times)
    /\ left' = Terms(store) \ indexed'
    /\ UNCHANGED <<enforced, persistent, store, received>>

GatewayNext ==
    \/ \E c \in Threads : \/ \E request \in Traffic : Arrive(c, request)
                          \/ Unauthenticated(c) \/ Authorize(c) \/ Finish(c) \/ Fails(c) \/ StorageFails(c)
                          \/ Query(c) \/ IngestForbidden(c) \/ Ingest(c)
                          \/ At(c, "working") /\ \E unreachable \in SUBSET Sources(call[c].request) : RemoteLoadFails(c, unreachable) \/ SparqlUpdate(c, unreachable)
                          \/ IndexTerms(c) \/ ReconcilePuts(c) \/ ReadDefaultGraph(c) \/ ReadNamedGraphs(c) \/ ReconcileFromStore(c)
    \/ GatewayRestart

GatewaySpec == GatewayInit /\ [][GatewayNext]_gatewayVars
-----------------------------------------------------------------------------
(* properties *)

\* Every term of a committed statement can be found, whatever other commits and reconciliations came in
\* between, unless the request that wrote the statement is still at work or the last indexing of the term left
\* it out: it failed, the cap cut it, or a start read the default graph only (reconcile_semantic).
Pending(st) == \E c \in Threads : call[c].pc \in {"committed", "half read", "read"} /\ st \in call[c].put
IndexComplete == \A st \in store : Pending(st) \/ Terms({st}) \subseteq indexed \union left

\* The index never outgrows its cap, and never counts fewer terms than it holds.
CapHolds == Cardinality(indexed) <= counted /\ counted <= Cap

\* When no request is under way, every one but the preflights was answered with one status, and the counters agree.
CountersAgree ==
    /\ LET count == metrics.statuses IN metrics.answered = count[200] + count[400] + count[401] + count[403] + count[500]
    /\ (\A c \in Threads : call[c] = Resting) => metrics.requests = metrics.answered + options
    /\ metrics.requests >= metrics.answered + options

\* An enforced ingest writes to graphs of its tenant only.
IngestConfined ==
    enforced => \A c \in Threads : At(c, "committed") /\ call[c].request.kind = "ingest" => \A st \in call[c].put : IsOwned(Tenant(call[c].request), st.graph)

GatewaySafe == IndexComplete /\ CapHolds /\ CountersAgree /\ IngestConfined
=============================================================================
