---------------------------- MODULE SparqlUpdate ----------------------------
(* The update half of the executor (ontolith-query, infrastructure/execute.rs): the operations of a       *)
(* request are resolved one after the other on what their transaction sees, each as one batch of write    *)
(* operations; a tenant's request is checked first, then reads and writes through views of its own.        *)
(* Stores are views of SparqlEval, a graph reference is <<>> for the default graph or <<name>>.            *)
(* How the batches meet the engine and other clients is WritePaths' matter.                                 *)
EXTENDS SparqlEval
LOCAL INSTANCE SequencesExt

PutOp(g, t)    == [put |-> TRUE, g |-> g, t |-> t]
DeleteOp(g, t) == [put |-> FALSE, g |-> g, t |-> t]
PutAll(ts, g)    == [i \in DOMAIN ts |-> PutOp(g, ts[i])]
DeleteAll(ts, g) == [i \in DOMAIN ts |-> DeleteOp(g, ts[i])]
InGraph(view, g) == IF g = <<>> THEN view.all ELSE view.quads[g[1]]

(* ------------------------------- templates ------------------------------- *)
(* A template is a sequence of patterns, each with a graph: [g, t].           *)

\* mint is <<>> where labels are variables (DELETE), else <<n>>: every label is one new node of the operation.
TemplateValue(p, row, mint) ==
    CASE p[1] = "label" /\ mint # <<>> -> << <<"node", mint[1] + p[2]>> >>
      [] p[1] = "var" \/ (p[1] = "label" /\ mint = <<>>) -> IF Bound(row, p[2]) THEN <<row[p[2]]>> ELSE <<>>
      [] OTHER -> <<p>>

\* A pattern with an unbound variable, a literal subject or a predicate that is no IRI gives nothing.
MaterializeUpdate(template, row, mint) ==
    FlattenSeq([i \in DOMAIN template |->
        LET p == template[i].t
            s == TemplateValue(p[1], row, mint)
            q == IF p[2][1] = "label" /\ mint # <<>> THEN <<>> ELSE TemplateValue(p[2], row, <<>>)
            o == TemplateValue(p[3], row, mint)
        IN  IF <<>> \in {s, q, o} \/ IsLiteral(s[1]) \/ q[1][1] # "iri" THEN <<>>
            ELSE <<[g |-> template[i].g,
                    t |-> <<s[1][2], q[1][2], IF o[1][1] \in NodeKinds THEN NodeIdTerm(o[1][2]) ELSE o[1]>>]>>])

\* Statements without a graph of their own go where WITH says.
TargetOf(statement, with) == IF statement.g = <<>> THEN with ELSE statement.g
Insertions(statements, with) == [i \in DOMAIN statements |-> PutOp(TargetOf(statements[i], with), statements[i].t)]
Deletions(statements, with)  == [i \in DOMAIN statements |-> DeleteOp(TargetOf(statements[i], with), statements[i].t)]

(* ------------------------------- operations ------------------------------ *)

\* Slips a change of the code could make, for the mutation runs.
DestinationDeletesNone(to, view) == <<>>
UpdatePatternsAtOnce(patterns) == [op |-> "bgp", patterns |-> [i \in DOMAIN patterns |-> patterns[i].t]]
ScopedPutsOnly(ops, tenant) == [i \in DOMAIN ops |-> IF ops[i].g = <<>> /\ ops[i].put THEN [ops[i] EXCEPT !.g = <<tenant.graph>>] ELSE ops[i]]

\* A delete is staged once, however many solutions ask for it.
AppendNew(ops, w) == IF Contains(ops, w) THEN ops ELSE Append(ops, w)

\* DELETE/INSERT: for each solution its deletes, then its inserts.
ModifyBatch(op, rows, mint) ==
    FoldLeft(LAMBDA ops, row :
                 FoldLeft(AppendNew, ops, Deletions(MaterializeUpdate(op.delete, row, <<>>), op.with))
                     \o Insertions(MaterializeUpdate(op.insert, row, mint), op.with),
             <<>>, rows)

\* DELETE WHERE: the patterns as a group, those of one graph together.
UpdatePatternsAlgebra(patterns) ==
    LET graphs == FoldLeft(LAMBDA gs, p : IF p.g = <<>> \/ Contains(gs, p.g) THEN gs ELSE Append(gs, p.g), <<>>, patterns)
        within(g) == LET mine == SelectSeq(patterns, LAMBDA p : p.g = g) IN [op |-> "bgp", patterns |-> [i \in DOMAIN mine |-> mine[i].t]]
        parts == (IF within(<<>>).patterns = <<>> THEN <<>> ELSE <<within(<<>>)>>)
                 \o [i \in DOMAIN graphs |-> [op |-> "graph", g |-> <<"iri", graphs[i][1]>>, in |-> within(graphs[i])]]
    IN  IF parts = <<>> THEN [op |-> "identity"]
        ELSE FoldLeft(LAMBDA l, r : [op |-> "join", l |-> l, r |-> r], Head(parts), Tail(parts))

DestinationDeletes(to, view) == DeleteAll(InGraph(view, to), to)

\* ADD, COPY and MOVE; only references that are equal as they are written are the same graph.
TransferBatch(op, view) ==
    IF op.from = op.to THEN <<>>
    ELSE (IF op.how \in {"copy", "move"} THEN DestinationDeletes(op.to, view) ELSE <<>>)
         \o PutAll(InGraph(view, op.from), op.to)
         \o (IF op.how = "move" THEN DeleteAll(InGraph(view, op.from), op.from) ELSE <<>>)

\* CLEAR and DROP: the named graphs are listed without what the transaction has staged.
ClearBatch(op, view, committed) ==
    LET named == FlattenSeq([i \in DOMAIN committed.names |-> DeleteAll(InGraph(committed, <<committed.names[i]>>), <<committed.names[i]>>)])
        default == DeleteAll(view.all, <<>>)
    IN  CASE op.target = "default" -> default
          [] op.target = "named"   -> named
          [] op.target = "all"     -> default \o named
          [] op.target = "graph"   -> DeleteAll(InGraph(view, op.graph), op.graph)

DeleteWhereBatch(op, rows) ==
    FoldLeft(LAMBDA ops, row : FoldLeft(AppendNew, ops, Deletions(MaterializeUpdate(op.patterns, row, <<>>), op.with)), <<>>, rows)

UpdateBatch(op, view, committed, mint) ==
    CASE op.kind = "insert"      -> Insertions(MaterializeUpdate(op.patterns, Unit, mint), <<>>)
      [] op.kind = "delete"      -> Deletions(MaterializeUpdate(op.patterns, Unit, mint), <<>>)
      [] op.kind = "modify"      -> ModifyBatch(op, Eval(op.where, DatasetView(view, op.with, op.using, op.usingNamed), <<>>), mint)
      [] op.kind = "deletewhere" -> DeleteWhereBatch(op, Eval(UpdatePatternsAlgebra(op.patterns), DatasetView(view, op.with, op.using, op.usingNamed), <<>>))
      [] op.kind = "transfer"    -> TransferBatch(op, view)
      [] op.kind = "clear"       -> ClearBatch(op, view, committed)
      [] op.kind = "load"        -> PutAll(InGraph(view, op.source), op.into)
      [] op.kind = "create"      -> <<>>

(* --------------------------------- tenants -------------------------------- *)

\* The graphs an operation names; the patterns of a WHERE are checked apart.
GraphsNamed(op) ==
    LET ofPatterns(ps) == {ps[i].g : i \in DOMAIN ps}
        dataset == IF op.kind \in {"modify", "deletewhere"} THEN {<<g>> : g \in ToSet(op.using) \cup ToSet(op.usingNamed)} ELSE {}
        refs == CASE op.kind \in {"insert", "delete"} -> ofPatterns(op.patterns)
                  [] op.kind = "deletewhere" -> ofPatterns(op.patterns) \cup {op.with} \cup dataset
                  [] op.kind = "modify"      -> ofPatterns(op.delete) \cup ofPatterns(op.insert) \cup {op.with} \cup dataset
                  [] op.kind = "transfer"    -> {op.from, op.to}
                  [] op.kind = "clear"       -> IF op.target = "graph" THEN {op.graph} ELSE {}
                  [] op.kind = "load"        -> {op.source, op.into}
                  [] op.kind = "create"      -> {op.graph}
    IN  {g[1] : g \in refs \ {<<>>}}
ValidTenantUpdatePlan(ops, owned) ==
    \A i \in DOMAIN ops : /\ GraphsNamed(ops[i]) \subseteq owned
                          /\ ops[i].kind = "modify" => ValidTenantAlgebra(ops[i].where, owned)

\* TenantScopedRead, and the reads of TenantScopedWrite, which show the same graphs.
Seen(view, tenant) == IF tenant = <<>> THEN view ELSE TenantScopedRead(view, tenant[1])
\* Statements of the default graph are written to the tenant's graph.
ScopedBatch(ops, tenant) == [i \in DOMAIN ops |-> IF ops[i].g = <<>> THEN [ops[i] EXCEPT !.g = <<tenant.graph>>] ELSE ops[i]]

(* -------------------------------- execution ------------------------------- *)

\* What the transaction sees of the graphs after one more write operation.
Names(quads) == SelectSeq(SetToSeq(DOMAIN quads), LAMBDA g : quads[g] # <<>>)
After(view, w) ==
    LET changed(ts) == IF ~w.put THEN SelectSeq(ts, LAMBDA t : t # w.t) ELSE IF Contains(ts, w.t) THEN ts ELSE Append(ts, w.t)
    IN  IF w.g = <<>> THEN [view EXCEPT !.all = changed(@)]
        ELSE [view EXCEPT !.quads[w.g[1]] = changed(@), !.names = Names([view.quads EXCEPT ![w.g[1]] = changed(@)])]

BatchOf(op, tenant, txn, store, mint) ==
    IF tenant = <<>> THEN UpdateBatch(op, txn, store, mint)
    ELSE ScopedBatch(UpdateBatch(op, Seen(txn, tenant), Seen(store, tenant), mint), tenant[1])

\* A DATA block holds no variables; a request with one that does stages nothing that stays.
Concrete(op) == op.kind \in {"insert", "delete"} => Len(MaterializeUpdate(op.patterns, Unit, <<0>>)) = Len(op.patterns)

\* execute_update: the store after the commit of all batches, or after the abort.
ExecuteUpdate(ops, tenant, store) ==
    IF \E i \in DOMAIN ops : ~Concrete(ops[i]) THEN store
    ELSE FoldLeft(LAMBDA txn, i : FoldLeft(After, txn, BatchOf(ops[i], tenant, txn, store, <<2000 + 100 * i>>)),
                  store, [i \in DOMAIN ops |-> i])
=============================================================================
