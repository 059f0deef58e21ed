----------------------------- MODULE SparqlEval -----------------------------
(***************************************************************************)
(* The algebra evaluator of the query executor (ontolith-query,            *)
(* infrastructure/execute.rs): graph patterns, property paths, joins,      *)
(* filters, aggregates, result forms, and the read views that scope a      *)
(* query to a dataset, a graph or a tenant.                                *)
(*                                                                         *)
(* A triple is <<subject id, predicate id, object value>>; rows are        *)
(* sequences of solutions, a solution a function from the bound variables  *)
(* to values.  A view is the read service a query is given:                *)
(*   all     the triples of its default graph, in the order of the store   *)
(*   quads   for every graph name the triples of that graph                *)
(*   names   the graph names that GRAPH ?g enumerates                      *)
(* The dictionary interns every IRI under its own id, so the node of an    *)
(* IRI is the IRI's id.  Remote endpoints are external: Remote[u] is the   *)
(* sequence of rows the endpoint u answers with, <<>> when it is down.     *)
(***************************************************************************)
EXTENDS Integers, Sequences, FiniteSets, SparqlValues
LOCAL INSTANCE SequencesExt
LOCAL INSTANCE FiniteSetsExt

CONSTANTS
    Iris,       \* ids of IRIs
    Blanks,     \* ids of blank nodes
    Remote      \* answers of the remote endpoints

Unit == [x \in {} |-> x]                      \* the solution without bindings
Bound(row, x) == x \in DOMAIN row
Bind(row, x, v) == [y \in DOMAIN row \cup {x} |-> IF y = x THEN v ELSE row[y]]
Restriction(row, X) == [y \in DOMAIN row \cap X |-> row[y]]

LOCAL Each(seq, F(_)) == [i \in DOMAIN seq |-> F(seq[i])]
LOCAL FlatMap(seq, F(_)) == FlattenSeq(Each(seq, F))
LOCAL Listed(S) == FoldSet(LAMBDA v, out : Append(out, v), <<>>, S)
LOCAL Unique(seq) ==
    FoldLeft(LAMBDA out, v : IF Contains(out, v) THEN out ELSE Append(out, v), <<>>, seq)

(* ------------------------------- read views ----------------------------- *)

\* GRAPH <g>: the triples of g are the default graph, the rest shows through.
GraphScopedRead(view, g) == [view EXCEPT !.all = view.quads[g]]

\* FROM and FROM NAMED: the default graph is the concatenation of the listed
\* graphs, only the listed names are visible.
MergedGraphRead(view, from, named) ==
    [all   |-> FlatMap(from, LAMBDA g : view.quads[g]),
     quads |-> [g \in DOMAIN view.quads |->
                   IF Contains(named, g) THEN view.quads[g] ELSE <<>>],
     names |-> named]

\* Mutant: the default graph of the store shows through to a tenant.
TenantScopedReadLeaking(view, tenant) ==
    [all   |-> view.all,
     quads |-> [g \in DOMAIN view.quads |->
                   IF g \in tenant.owned THEN view.quads[g] ELSE <<>>],
     names |-> SelectSeq(view.names, LAMBDA g : g \in tenant.owned)]

\* A tenant sees its own graph as the default graph and the graphs it owns.
TenantScopedRead(view, tenant) ==
    [all   |-> view.quads[tenant.graph],
     quads |-> [g \in DOMAIN view.quads |->
                   IF g \in tenant.owned THEN view.quads[g] ELSE <<>>],
     names |-> SelectSeq(view.names, LAMBDA g : g \in tenant.owned)]

\* The dataset of an update's WHERE clause: USING wins over WITH.
DatasetView(view, with, using, usingNamed) ==
    IF using # <<>> \/ usingNamed # <<>> THEN MergedGraphRead(view, using, usingNamed)
    ELSE IF with # <<>> THEN GraphScopedRead(view, with[1])
    ELSE view

(* ----------------------------- graph patterns --------------------------- *)
(* A pattern position is a value or <<"var", x>>.                           *)

IsVar(p) == p[1] = "var"

\* The store's probe: exact equality on every bound position.
Matching(triples, s, p, o) ==
    SelectSeq(triples, LAMBDA t : /\ s # <<>> => t[1] = s[1]
                                  /\ p # <<>> => t[2] = p[1]
                                  /\ o # <<>> => t[3] = o[1])

\* What a position contributes to the probe, <<>> for nothing.
BoundNode(p, row) ==
    LET v == IF IsVar(p) /\ Bound(row, p[2]) THEN row[p[2]] ELSE p
    IN  CASE p[1] = "node" -> <<p[2]>>
          [] IsVar(p) /\ v[1] \in NodeKinds \cup {"iri"} -> <<v[2]>>
          [] OTHER -> <<>>

BoundIri(p, row) ==
    LET v == IF IsVar(p) /\ Bound(row, p[2]) THEN row[p[2]] ELSE p
    IN  IF v[1] = "iri" THEN <<v[2]>> ELSE <<>>

BoundTerm(p, row) ==
    LET v == IF IsVar(p) /\ Bound(row, p[2]) THEN row[p[2]] ELSE p
    IN  CASE IsVar(v) -> <<>>
          [] v[1] \in NodeKinds -> << <<"blank", v[2]>> >>
          [] OTHER -> <<v>>

\* Mutant: a variable that is bound already meets every value.
BindPatternUnchecked(p, v, row) ==
    IF IsVar(p) /\ ~Bound(row, p[2]) THEN <<Bind(row, p[2], v)>> ELSE <<row>>

\* A position meets a value: the rows that come of it, one or none.
BindPattern(p, v, row) ==
    LET meets == CASE p[1] = "var"  -> ~Bound(row, p[2]) \/ Compatible(row[p[2]], v)
                   [] p[1] = "node" -> SameNode(p, v)
                   [] p[1] = "iri"  -> p = v \/ IriIsNode(p, v)
                   [] OTHER         -> p = v
    IN  CASE ~meets -> <<>>
          [] IsVar(p) /\ ~Bound(row, p[2]) -> <<Bind(row, p[2], v)>>
          [] OTHER -> <<row>>

MatchTriple(pattern, t, row) ==
    FlatMap(BindPattern(pattern[1], <<"node", t[1]>>, row),
            LAMBDA r1 : FlatMap(BindPattern(pattern[2], <<"iri", t[2]>>, r1),
                                LAMBDA r2 : BindPattern(pattern[3], t[3], r2)))

FetchCandidates(triples, pattern, row) ==
    Matching(triples, BoundNode(pattern[1], row), BoundIri(pattern[2], row),
             BoundTerm(pattern[3], row))

EvalBgp(patterns, triples) ==
    FoldLeft(LAMBDA rows, pattern :
                 FlatMap(rows, LAMBDA row :
                     FlatMap(FetchCandidates(triples, pattern, row),
                             LAMBDA t : MatchTriple(pattern, t, row))),
             <<Unit>>, patterns)

(* ----------------------------- property paths --------------------------- *)
(* A path is <<"p", iri>>, <<"inv", iri>>, <<"seq", a, b>>, <<"alt", a, b>>, *)
(* <<"plus", a>>, <<"star", a>>, <<"opt", a>> or <<"nps", forward, reverse>>. *)

NormalizePathValue(v) == IF v[1] = "iri" THEN <<"node", v[2]>> ELSE v

SubjectNodes(v) == IF IsLiteral(v) THEN {} ELSE {v[2]}

EvalPredicateFrom(triples, v, p) ==
    {NormalizePathValue(triples[i][3]) :
        i \in {j \in DOMAIN triples : triples[j][1] \in SubjectNodes(v) /\ triples[j][2] = p}}

\* Mutant: the object of the triple is compared as it is stored.
EvalInverseUnnormalized(triples, v, p) ==
    {<<"node", triples[i][1]>> :
        i \in {j \in DOMAIN triples : triples[j][2] = p /\ triples[j][3] = v}}

EvalInversePredicateFrom(triples, v, p) ==
    {<<"node", triples[i][1]>> :
        i \in {j \in DOMAIN triples : /\ triples[j][2] = p
                                      /\ Compatible(NormalizePathValue(triples[j][3]), v)}}

\* Inside a path, a negated property set walks both ways whatever it lists.
\* The way back probes with the term of the value, which is never an IRI.
EvalNegatedPropertySet(triples, v, forward, reverse) ==
    {NormalizePathValue(triples[i][3]) :
        i \in {j \in DOMAIN triples : triples[j][1] \in SubjectNodes(v) /\ triples[j][2] \notin forward}}
    \cup
    {<<"node", triples[i][1]>> :
        i \in {j \in DOMAIN triples : /\ triples[j][3] = BoundTerm(v, Unit)[1]
                                      /\ triples[j][2] \notin reverse}}

RECURSIVE EvalPathFrom(_, _, _), Reached(_, _, _, _)
EvalPathFrom(triples, path, v) ==
    CASE path[1] = "p"    -> EvalPredicateFrom(triples, v, path[2])
      [] path[1] = "inv"  -> EvalInversePredicateFrom(triples, v, path[2])
      [] path[1] = "seq"  -> UNION {EvalPathFrom(triples, path[3], m) :
                                       m \in EvalPathFrom(triples, path[2], v)}
      [] path[1] = "alt"  -> EvalPathFrom(triples, path[2], v) \cup EvalPathFrom(triples, path[3], v)
      [] path[1] = "plus" -> Reached(triples, path[2], {v}, {})
      [] path[1] = "star" -> {v} \cup Reached(triples, path[2], {v}, {})
      [] path[1] = "opt"  -> {v} \cup EvalPathFrom(triples, path[2], v)
      [] path[1] = "nps"  -> EvalNegatedPropertySet(triples, v, path[2], path[3])

\* One or more steps: every value is expanded once.
Reached(triples, path, frontier, expanded) ==
    IF frontier = {} THEN {}
    ELSE LET next == UNION {EvalPathFrom(triples, path, v) : v \in frontier}
             done == expanded \cup frontier
         IN  next \cup Reached(triples, path, next \ done, done)

RECURSIVE PathAcceptsEmpty(_)
PathAcceptsEmpty(path) ==
    CASE path[1] \in {"star", "opt"} -> TRUE
      [] path[1] = "seq" -> PathAcceptsEmpty(path[2]) /\ PathAcceptsEmpty(path[3])
      [] path[1] = "alt" -> PathAcceptsEmpty(path[2]) \/ PathAcceptsEmpty(path[3])
      [] OTHER -> FALSE

\* A constant subject, or every subject and object of the graph.
EnumeratePathStarts(triples, subject) ==
    IF ~IsVar(subject) THEN {NormalizePathValue(subject)}
    ELSE UNION {{<<"node", triples[i][1]>>, NormalizePathValue(triples[i][3])} : i \in DOMAIN triples}

\* The ends of a path meet its pattern by denotation, unlike a triple's object.
BindPathPattern(p, v, row) ==
    LET meets == CASE p[1] = "var"  -> ~Bound(row, p[2]) \/ Compatible(row[p[2]], v)
                   [] p[1] = "lit"  -> p = v
                   [] OTHER         -> ~IsLiteral(v) /\ Compatible(p, v)
    IN  CASE ~meets -> <<>>
          [] IsVar(p) /\ ~Bound(row, p[2]) -> <<Bind(row, p[2], v)>>
          [] OTHER -> <<row>>

PathRows(subject, object, pairs) ==
    Unique(FlatMap(pairs, LAMBDA pair :
                FlatMap(BindPathPattern(subject, pair[1], Unit),
                        LAMBDA row : BindPathPattern(object, pair[2], row))))

\* At the top, a negated property set walks a direction only if it lists one.
EvalNpsPattern(subject, forward, reverse, object, triples) ==
    LET way(listed, Pair(_)) ==
            IF listed = {} THEN <<>>
            ELSE Each(SelectSeq(triples, LAMBDA t : t[2] \notin listed), Pair)
    IN  PathRows(subject, object,
            way(forward, LAMBDA t : << <<"node", t[1]>>, NormalizePathValue(t[3])>>)
              \o way(reverse, LAMBDA t : <<NormalizePathValue(t[3]), <<"node", t[1]>> >>))

EvalPathPattern(subject, path, object, triples) ==
    LET starts == EnumeratePathStarts(triples, subject)
        zero == IF PathAcceptsEmpty(path) /\ IsVar(subject) /\ ~IsVar(object)
                THEN <<<<NormalizePathValue(object), NormalizePathValue(object)>>>> ELSE <<>>
    IN  IF path[1] = "nps" THEN EvalNpsPattern(subject, path[2], path[3], object, triples)
        ELSE PathRows(subject, object,
                 Listed(UNION {{<<v, w>> : w \in EvalPathFrom(triples, path, v)} : v \in starts})
                   \o zero)

(* --------------------------------- joins -------------------------------- *)

Mergeable(l, r) == \A x \in DOMAIN l \cap DOMAIN r : Compatible(l[x], r[x])
Merged(l, r) == [x \in DOMAIN l \cup DOMAIN r |-> IF Bound(l, x) THEN l[x] ELSE r[x]]

HashJoin(left, right) ==
    FlatMap(left, LAMBDA l :
        Each(SelectSeq(right, LAMBDA r : Mergeable(l, r)), LAMBDA r : Merged(l, r)))

\* MINUS compares the bindings as they are represented, unlike the joins.
Removes(l, r) ==
    /\ DOMAIN l \cap DOMAIN r # {}
    /\ \A x \in DOMAIN l \cap DOMAIN r : l[x] = r[x]

MinusJoin(left, right) ==
    SelectSeq(left, LAMBDA l : \A i \in DOMAIN right : ~Removes(l, right[i]))

\* A SERVICE SILENT node: one call for every row it is fed, with the bindings
\* that can be sent; an endpoint that is unbound or down gives no row.
EvalServiceNode(endpoint, fed) ==
    LET bases == IF fed = <<>> THEN <<Unit>> ELSE fed
        sendable(base) == {x \in DOMAIN base : base[x][1] \in {"iri", "lit"}}
        url(base) == BoundIri(endpoint, base)
        answer(base) ==
            IF url(base) = <<>> \/ url(base)[1] \notin DOMAIN Remote THEN <<>>
            ELSE SelectSeq(Remote[url(base)[1]],
                           LAMBDA r : \A x \in DOMAIN r \cap sendable(base) : r[x] = base[x])
        strict(base, r) == \A x \in DOMAIN base \cap DOMAIN r : base[x] = r[x]
    IN  FlatMap(bases, LAMBDA base :
            Each(SelectSeq(answer(base), LAMBDA r : strict(base, r)), LAMBDA r : Merged(base, r)))

RECURSIVE HasService(_)
HasService(q) ==
    CASE q.op = "service" -> TRUE
      [] q.op \in {"join", "leftjoin", "union", "minus"} -> HasService(q.l) \/ HasService(q.r)
      [] q.op \in {"filter", "extend", "distinct", "project", "orderby", "slice", "aggregate", "graph"} ->
            HasService(q.in)
      [] OTHER -> FALSE

(* --------------------------- the evaluator itself ------------------------ *)
(* Expressions: <<"val", v>>, <<"var", x>>, <<"bound", x>>, <<"not", e>>,    *)
(* <<"and", e, f>>, <<"or", e, f>>, <<"=", e, f>>, <<"!=", e, f>>,           *)
(* <<"<", e, f>>, <<"<=", e, f>>, <<"isIri", e>>, <<"isBlank", e>>,          *)
(* <<"isLiteral", e>>, <<"arith", op, e, f>> and <<"exists", q>>.            *)

TestOps == {"bound", "not", "and", "or", "=", "!=", "<", "<=", "isIri", "isBlank", "isLiteral", "exists"}

RECURSIVE EvalBool(_, _, _), EvalExpr(_, _, _), Eval(_, _, _)

\* The value of an expression, Error where the executor has none.
EvalExpr(e, row, view) ==
    CASE e[1] = "val"    -> e[2]
      [] e[1] = "var"    -> IF Bound(row, e[2]) THEN row[e[2]] ELSE Error
      [] e[1] = "arith"  -> Arithmetic(e[2], EvalExpr(e[3], row, view), EvalExpr(e[4], row, view))
      [] e[1] \in TestOps -> LET b == EvalBool(e, row, view)
                             IN  IF b = "error" THEN Error ELSE Truth(b = "true")

\* "error" for a comparison of values that have none, or of kinds that differ.
Said(b) == IF b THEN "true" ELSE "false"
Negated(b) == IF b = "error" THEN b ELSE Said(b = "false")
Compared(sign, v, w) ==
    CASE v = Error \/ w = Error -> "error"
      [] sign = "="  -> Said(ValueEqual(v, w))
      [] sign = "!=" -> Said(~ValueEqual(v, w))
      [] CompareValues(v, w) = Incomparable -> "error"
      [] OTHER -> Said(CompareValues(v, w) \in IF sign = "<" THEN {-1} ELSE {-1, 0})

KindsOf == [isIri |-> {"iri"}, isBlank |-> NodeKinds, isLiteral |-> {"lit"}]
OfKind(test, v) == IF v = Error THEN "error" ELSE Said(v[1] \in KindsOf[test])

\* The effective boolean value of a value: numbers but zero, the booleans, and
\* any other value that is bound.
Effective(e, v) ==
    CASE v = Error -> "error"
      [] e[1] = "arith" -> Said(NumberOf(v) # 0)
      [] e[1] = "val" /\ IsLiteral(v) /\ TypeOf(v) = "boolean" -> Said(NumberOf(v))
      [] OTHER -> "true"

\* The effective boolean value: "true", "false" or "error".  Both connectives
\* give up at the first error, from the left; a bound variable is true.
EvalBool(e, row, view) ==
    CASE e[1] = "bound" -> Said(Bound(row, e[2]))
      [] e[1] = "not"   -> Negated(EvalBool(e[2], row, view))
      [] e[1] \in {"and", "or"} ->
            IF EvalBool(e[2], row, view) = IF e[1] = "and" THEN "true" ELSE "false"
            THEN EvalBool(e[3], row, view) ELSE EvalBool(e[2], row, view)
      [] e[1] \in {"=", "!=", "<", "<="} ->
            Compared(e[1], EvalExpr(e[2], row, view), EvalExpr(e[3], row, view))
      [] e[1] \in DOMAIN KindsOf -> OfKind(e[1], EvalExpr(e[2], row, view))
      [] e[1] = "exists" ->
            Said(HashJoin(<<[x \in DOMAIN row |->
                                IF row[x][1] = "blank" THEN <<"node", row[x][2]>> ELSE row[x]]>>,
                          Eval(e[2], view, <<>>)) # <<>>)
      [] OTHER -> Effective(e, EvalExpr(e, row, view))

Passes(e, row, view) == EvalBool(e, row, view) = "true"

\* Mutant: a row without an accepted partner is dropped.
LeftJoinRowDropping(l, right, condition, view) ==
    SelectSeq(HashJoin(<<l>>, right), LAMBDA m : Passes(condition, m, view))

\* OPTIONAL: a row without an accepted partner is kept as it is.
LeftJoinRow(l, right, condition, view) ==
    LET accepted == SelectSeq(HashJoin(<<l>>, right), LAMBDA m : Passes(condition, m, view))
    IN  IF accepted = <<>> THEN <<l>> ELSE accepted

\* An aggregate without a value leaves its variable unbound; a grouping
\* variable of the same name wins.
WithComputed(row, computed) ==
    LET known == {c \in computed : c.value # Error}
    IN  [x \in DOMAIN row \cup {c.output : c \in known} |->
            IF x \in DOMAIN row THEN row[x] ELSE (CHOOSE c \in known : c.output = x).value]

AggregateRow(group, q, view) ==
    WithComputed(
        IF group = <<>> \/ q.groups = {} THEN Unit
        ELSE Restriction(group[1], {g \in q.groups : Bound(group[1], g)}),
        {[output |-> s.output,
          value  |-> IF s.expr = <<"rows">> THEN Literal("integer", 10 * Len(group))
                     ELSE Aggregated(s.function, Each(group, LAMBDA row : EvalExpr(s.expr, row, view)), s.distinct)] :
            s \in q.aggregates})

\* HAVING is asked of the row of the group.
GroupRows(groups, q, view) ==
    SelectSeq(Each(groups, LAMBDA group : AggregateRow(group, q, view)), LAMBDA row : Passes(q.having, row, view))

\* Mutant: a group is made for every row.
EvalAggregatePerRow(q, rows, view) ==
    LET key(row) == Restriction(row, q.groups)
    IN  GroupRows(IF q.groups = {} THEN <<rows>>
                  ELSE Each(rows, LAMBDA k : SelectSeq(rows, LAMBDA row : key(row) = key(k))), q, view)

\* Groups are told apart by the representation of the grouping values.
EvalAggregate(q, rows, view) ==
    LET key(row) == Restriction(row, q.groups)
    IN  GroupRows(IF q.groups = {} THEN <<rows>>
                  ELSE Each(Unique(Each(rows, key)), LAMBDA k : SelectSeq(rows, LAMBDA row : key(row) = k)), q, view)

\* A stable sort by the keys <<variable, ascending>>; unbound sorts first.
RowBefore(keys, a, b) ==
    LET compare(x) ==
            CASE ~Bound(a, x) /\ ~Bound(b, x) -> 0
              [] ~Bound(a, x) -> -1
              [] ~Bound(b, x) -> 1
              [] OTHER -> SortOrder(a[x], b[x])
        way(k) == IF keys[k][2] THEN compare(keys[k][1]) ELSE -compare(keys[k][1])
    IN  \E k \in DOMAIN keys : way(k) = -1 /\ \A j \in 1..(k - 1) : way(j) = 0

InsertBefore(out, row, later) == IF later = {} THEN Append(out, row) ELSE InsertAt(out, Min(later), row)

\* Mutant: only the first key decides.
EvalOrderByFirstKey(rows, keys) ==
    FoldLeft(LAMBDA out, row : InsertBefore(out, row, {i \in DOMAIN out : RowBefore(<<keys[1]>>, row, out[i])}),
             <<>>, rows)

EvalOrderBy(rows, keys) ==
    FoldLeft(LAMBDA out, row : InsertBefore(out, row, {i \in DOMAIN out : RowBefore(keys, row, out[i])}), <<>>, rows)

EvalSlice(rows, offset, limit) ==
    LET rest == SubSeq(rows, offset + 1, Len(rows))
    IN  IF limit = <<>> THEN rest ELSE SubSeq(rest, 1, IF limit[1] < Len(rest) THEN limit[1] ELSE Len(rest))

\* GRAPH ?g: a row that binds ?g already is kept for that graph only, and only
\* if it binds it as an IRI.
GraphRows(x, g, rows) ==
    FlatMap(rows, LAMBDA row :
        CASE ~Bound(row, x) -> <<Bind(row, x, <<"iri", g>>)>>
          [] row[x] = <<"iri", g>> -> <<row>>
          [] OTHER -> <<>>)

\* A column whose expression has no value leaves its variable unbound.
ExtendRow(row, expr, x, view) ==
    LET v == EvalExpr(expr, row, view) IN IF v = Error THEN row ELSE Bind(row, x, v)

\* fed is the row a join hands to the SERVICE nodes below its right side.
Eval(q, view, fed) ==
    CASE q.op = "identity" -> <<Unit>>
      [] q.op = "bgp"      -> EvalBgp(q.patterns, view.all)
      [] q.op = "path"     -> EvalPathPattern(q.s, q.path, q.o, view.all)
      [] q.op = "values"   -> q.rows
      [] q.op = "join"     ->
            IF HasService(q.r)
            THEN FlatMap(Eval(q.l, view, fed), LAMBDA l : HashJoin(<<l>>, Eval(q.r, view, <<l>>)))
            ELSE HashJoin(Eval(q.l, view, fed), Eval(q.r, view, fed))
      [] q.op = "leftjoin" ->
            FlatMap(Eval(q.l, view, fed), LAMBDA l :
                LeftJoinRow(l, Eval(q.r, view, IF HasService(q.r) THEN <<l>> ELSE fed), q.cond, view))
      [] q.op = "union"    -> Eval(q.l, view, fed) \o Eval(q.r, view, fed)
      [] q.op = "minus"    -> MinusJoin(Eval(q.l, view, fed), Eval(q.r, view, fed))
      [] q.op = "filter"   -> SelectSeq(Eval(q.in, view, fed), LAMBDA row : Passes(q.cond, row, view))
      [] q.op = "extend"   ->
            Each(Eval(q.in, view, fed), LAMBDA row : ExtendRow(row, q.expr, q.var, view))
      [] q.op = "distinct" -> Unique(Eval(q.in, view, fed))
      [] q.op = "project"  ->
            Each(Eval(q.in, view, fed), LAMBDA row : IF q.vars = {} THEN row ELSE Restriction(row, q.vars))
      [] q.op = "orderby"  -> EvalOrderBy(Eval(q.in, view, fed), q.keys)
      [] q.op = "slice"    -> EvalSlice(Eval(q.in, view, fed), q.offset, q.limit)
      [] q.op = "aggregate" -> EvalAggregate(q, Eval(q.in, view, fed), view)
      [] q.op = "graph"    ->
            IF IsVar(q.g)
            THEN FlatMap(view.names, LAMBDA g :
                     GraphRows(q.g[2], g, Eval(q.in, GraphScopedRead(view, g), fed)))
            ELSE Eval(q.in, GraphScopedRead(view, q.g[2]), fed)
      [] q.op = "service"  -> EvalServiceNode(q.endpoint, fed)

(* ----------------------------- result forms ----------------------------- *)

RECURSIVE SelectVariables(_), StripSelectProjection(_)
SelectVariables(q) ==
    CASE q.op = "project" -> q.vars
      [] q.op \in {"slice", "orderby", "distinct", "filter", "extend", "aggregate"} -> SelectVariables(q.in)
      [] q.op = "path" -> {p[2] : p \in {r \in {q.s, q.o} : IsVar(r)}}
      [] OTHER -> {}

StripSelectProjection(q) ==
    CASE q.op = "project" -> StripSelectProjection(q.in)
      [] q.op \in {"slice", "distinct", "orderby"} -> [q EXCEPT !.in = StripSelectProjection(q.in)]
      [] OTHER -> q

\* SELECT: with (expression AS ?alias) columns the projection is taken out,
\* the columns are computed on the rows and the projection is applied last.
SelectRows(q, columns, view) ==
    Each(Eval(IF columns = <<>> THEN q ELSE StripSelectProjection(q), view, <<>>), LAMBDA row :
        LET computed == FoldLeft(LAMBDA r, c : ExtendRow(r, c[1], c[2], view), row, columns)
        IN  IF SelectVariables(q) = {} THEN computed ELSE Restriction(computed, SelectVariables(q)))

AskAnswer(q, view) == Eval(q, view, <<>>) # <<>>

\* The stored term of a node id.
NodeIdTerm(n) == IF n \in Iris THEN <<"iri", n>> ELSE <<"blank", n>>

\* CONSTRUCT: the subject position takes nodes only, a variable bound to an IRI
\* gives no triple; a label of the template that the row does not bind is a
\* fresh node of that row.
FreshNode(i, label) == 1000 * i + label
InstantiateNode(p, row, i) ==
    CASE p[1] \in {"node", "iri"} -> <<p[2]>>
      [] p[1] = "label" -> IF Bound(row, p[2]) /\ row[p[2]][1] \in NodeKinds
                           THEN <<row[p[2]][2]>> ELSE <<FreshNode(i, p[2])>>
      [] IsVar(p) /\ Bound(row, p[2]) -> IF row[p[2]][1] \in NodeKinds THEN <<row[p[2]][2]>> ELSE <<>>
      [] OTHER -> <<>>

InstantiateTerm(p, row, i) ==
    LET term(v) == IF v[1] \in NodeKinds THEN NodeIdTerm(v[2]) ELSE v
    IN  CASE p[1] \in {"iri", "lit"} -> <<p>>
          [] p[1] = "node" -> <<<<"blank", p[2]>>>>
          [] Bound(row, p[2]) -> <<term(row[p[2]])>>
          [] p[1] = "label" -> <<<<"blank", FreshNode(i, p[2])>>>>
          [] OTHER -> <<>>

MaterializeConstruct(template, rows) ==
    FlattenSeq([i \in DOMAIN rows |->
        FlatMap(template, LAMBDA p :
            LET s == InstantiateNode(p[1], rows[i], i)
                q == BoundIri(p[2], rows[i])
                o == InstantiateTerm(p[3], rows[i], i)
            IN  IF s = <<>> \/ q = <<>> \/ o = <<>> THEN <<>> ELSE <<<<s[1], q[1], o[1]>>>>)])

\* Mutant: a node is looked for among the objects as a blank node only.
DescribeProbeBlank(v) == [subject |-> v[2], object |-> IF v[1] = "iri" THEN v ELSE <<"blank", v[2]>>]

\* DESCRIBE: everything that mentions a described resource on either side.
DescribeProbe(v) == [subject |-> v[2], object |-> IF v[1] = "iri" THEN v ELSE NodeIdTerm(v[2])]

MaterializeDescribe(values, triples) ==
    {triples[i] : i \in {j \in DOMAIN triples :
        \E v \in values : /\ ~IsLiteral(v)
                          /\ \/ triples[j][1] = DescribeProbe(v).subject
                             \/ triples[j][3] = DescribeProbe(v).object}}

(* ------------------------------ tenant checks --------------------------- *)

RECURSIVE ValidTenantAlgebra(_, _)
ValidTenantAlgebra(q, owned) ==
    CASE q.op \in {"join", "leftjoin", "union", "minus"} ->
            ValidTenantAlgebra(q.l, owned) /\ ValidTenantAlgebra(q.r, owned)
      [] q.op \in {"filter", "extend", "distinct", "project", "orderby", "slice", "aggregate"} ->
            ValidTenantAlgebra(q.in, owned)
      [] q.op = "graph" -> /\ ~IsVar(q.g) => q.g[2] \in owned
                           /\ ValidTenantAlgebra(q.in, owned)
      [] OTHER -> TRUE

ValidTenantReadPlan(plan, owned) ==
    /\ ToSet(plan.from) \cup ToSet(plan.fromNamed) \subseteq owned
    /\ ValidTenantAlgebra(plan.algebra, owned)

\* The view a plan is evaluated on: the tenant's first, then the dataset's.
ReadView(base, plan, tenant) ==
    LET view == IF tenant = <<>> THEN base ELSE TenantScopedRead(base, tenant[1])
    IN  IF plan.from = <<>> /\ plan.fromNamed = <<>> THEN view
        ELSE MergedGraphRead(view, plan.from, plan.fromNamed)
=============================================================================
