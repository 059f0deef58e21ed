----------------------------- MODULE SparqlQuery -----------------------------
(***************************************************************************)
(* One query through the pipeline of ontolith-query: it arrives parsed,    *)
(* the optimizer rewrites it, the executor answers it on the view of its   *)
(* dataset or tenant, or is preempted on the way. An update's answer is    *)
(* the store it leaves.                                                    *)
(*                                                                         *)
(* request.algebra is the parsed algebra, planned the one the optimizer    *)
(* returned; store is the view of the whole store the request meets.       *)
(*                                                                         *)
(* First the rewriting of a query's algebra before it is evaluated         *)
(* (ontolith-query, infrastructure/optimize.rs): units are dropped,        *)
(* adjacent graph patterns merged, their triple patterns reordered by rule *)
(* or by estimated cardinality, filters moved below DISTINCT.              *)
(*                                                                         *)
(* The statistics are counts of the store: [total, subjects, predicates,   *)
(* objects]. Costs are compared as integers, scaled by total^3.            *)
(***************************************************************************)
EXTENDS SparqlUpdate
LOCAL INSTANCE Integers
LOCAL INSTANCE Sequences
LOCAL INSTANCE SequencesExt
LOCAL INSTANCE FiniteSetsExt

CONSTANT RuleBased      \* the value of "stats" that selects the rule-based optimizer

Unary == {"filter", "extend", "distinct", "project", "orderby", "slice", "aggregate"}
Fixed(p) == p[1] # "var"

\* Join(unit, x) and Join(x, unit) are x.
RECURSIVE EliminateIdentity(_)
EliminateIdentity(q) ==
    CASE q.op = "join" ->
            LET l == EliminateIdentity(q.l)
                r == EliminateIdentity(q.r)
            IN  IF l.op = "identity" THEN r ELSE IF r.op = "identity" THEN l
                ELSE [q EXCEPT !.l = l, !.r = r]
      [] q.op \in {"leftjoin", "union", "minus"} ->
            [q EXCEPT !.l = EliminateIdentity(q.l), !.r = EliminateIdentity(q.r)]
      [] q.op \in Unary -> [q EXCEPT !.in = EliminateIdentity(q.in)]
      [] OTHER -> q

\* 0 for a fixed subject, 1 for a fixed predicate, 2 for a fixed object.
PatternRank(p) ==
    CASE Fixed(p[1]) -> 0 [] Fixed(p[2]) -> 1 [] Fixed(p[3]) -> 2 [] OTHER -> 3

\* Mutant: patterns without a fixed position are lost.
ReorderBgpFixedOnly(patterns) ==
    LET ofRank(r) == SelectSeq(patterns, LAMBDA p : PatternRank(p) = r)
    IN  ofRank(0) \o ofRank(1) \o ofRank(2)

ReorderBgp(patterns) ==
    LET ofRank(r) == SelectSeq(patterns, LAMBDA p : PatternRank(p) = r)
    IN  ofRank(0) \o ofRank(1) \o ofRank(2) \o ofRank(3)

PatternVars(p) == {p[i][2] : i \in {j \in 1..3 : ~Fixed(p[j])}}

\* The selectivity of a pattern, times total^3 and at most 1.
PatternSelectivity(p, stats) ==
    LET atLeast1(n) == IF n < 1 THEN 1 ELSE n
        total == atLeast1(stats.total)
        factor(i, n) == IF Fixed(p[i]) THEN atLeast1(n) ELSE total
        sel == factor(1, stats.subjects) * factor(2, stats.predicates) * factor(3, stats.objects)
    IN  IF sel > total * total * total THEN total * total * total ELSE sel

\* The cheapest of the patterns that share a variable with those chosen, or
\* the cheapest of all; the first one of equals.
NextPattern(remaining, chosenVars, stats) ==
    LET connects(i) == PatternVars(remaining[i]) \cap chosenVars # {}
        pool == IF \E i \in DOMAIN remaining : connects(i)
                THEN {i \in DOMAIN remaining : connects(i)} ELSE DOMAIN remaining
        cost(i) == PatternSelectivity(remaining[i], stats)
    IN  CHOOSE i \in pool : \A j \in pool : cost(i) < cost(j) \/ (cost(i) = cost(j) /\ i <= j)

RECURSIVE ReorderBgpCost(_, _, _)
ReorderBgpCost(remaining, chosenVars, stats) ==
    IF Len(remaining) = 0 THEN <<>>
    ELSE LET i == NextPattern(remaining, chosenVars, stats)
         IN  <<remaining[i]>> \o ReorderBgpCost(RemoveAt(remaining, i),
                                                chosenVars \cup PatternVars(remaining[i]), stats)

Reordered(patterns, stats) ==
    IF stats = RuleBased THEN ReorderBgp(patterns) ELSE ReorderBgpCost(patterns, {}, stats)

\* Bottom-up: order every graph pattern, merge the two sides of a join when
\* both are graph patterns.  The cost-based variant leaves MINUS alone.
RECURSIVE ReorderAndMerge(_, _)
ReorderAndMerge(q, stats) ==
    CASE q.op = "bgp" -> [q EXCEPT !.patterns = Reordered(q.patterns, stats)]
      [] q.op = "join" ->
            LET l == ReorderAndMerge(q.l, stats)
                r == ReorderAndMerge(q.r, stats)
            IN  IF l.op = "bgp" /\ r.op = "bgp"
                THEN [l EXCEPT !.patterns = Reordered(l.patterns \o r.patterns, stats)]
                ELSE [q EXCEPT !.l = l, !.r = r]
      [] q.op \in {"leftjoin", "union"} \/ (q.op = "minus" /\ stats = RuleBased) ->
            [q EXCEPT !.l = ReorderAndMerge(q.l, stats), !.r = ReorderAndMerge(q.r, stats)]
      [] q.op \in Unary -> [q EXCEPT !.in = ReorderAndMerge(q.in, stats)]
      [] OTHER -> q

\* A filter above DISTINCT moves below it.
RECURSIVE PushFilters(_)
PushFilters(q) ==
    CASE q.op = "filter" ->
            LET in == PushFilters(q.in)
            IN  IF in.op = "distinct"
                THEN [in EXCEPT !.in = PushFilters([q EXCEPT !.in = in.in])]
                ELSE [q EXCEPT !.in = in]
      [] q.op \in {"join", "leftjoin", "union"} ->
            [q EXCEPT !.l = PushFilters(q.l), !.r = PushFilters(q.r)]
      [] q.op \in Unary -> [q EXCEPT !.in = PushFilters(q.in)]
      [] OTHER -> q

OptimizeAlgebra(q, stats) == PushFilters(ReorderAndMerge(EliminateIdentity(q), stats))

CONSTANTS
    Requests,       \* the requests to explore
    Stores,         \* the views of the stores they meet
    Statistics,     \* what the statistics of the store may say, and RuleBased
    NoAnswer

VARIABLES request, store, planned, answer, stage

queryVars == <<request, store, planned, answer, stage>>

QueryInit ==
    /\ request \in Requests
    /\ store \in Stores
    /\ planned = request.algebra
    /\ answer = NoAnswer
    /\ stage = "parsed"

Optimize ==
    /\ stage = "parsed"
    /\ \E stats \in Statistics : planned' = OptimizeAlgebra(planned, stats)
    /\ stage' = "planned"
    /\ UNCHANGED <<request, store, answer>>

RequestView == ReadView(store, request, request.tenant)

Answered(q) ==
    CASE request.kind = "select"    -> SelectRows(q, request.columns, RequestView)
      [] request.kind = "ask"       -> AskAnswer(q, RequestView)
      [] request.kind = "construct" -> MaterializeConstruct(request.template, Eval(q, RequestView, <<>>))
      [] request.kind = "describe"  ->
            LET rows == Eval(q, RequestView, <<>>)
            IN  MaterializeDescribe(UNION {{rows[i][x] : x \in DOMAIN rows[i]} : i \in DOMAIN rows},
                                    RequestView.all)
      [] request.kind = "update"    -> ExecuteUpdate(request.ops, request.tenant, store)

ValidTenantPlan(owned) ==
    IF request.kind = "update" THEN ValidTenantUpdatePlan(request.ops, owned) ELSE ValidTenantReadPlan(request, owned)

\* A tenant's plan is refused before anything is read.
Execute ==
    /\ stage = "planned"
    /\ IF \A i \in DOMAIN request.tenant : ValidTenantPlan(request.tenant[i].owned)
       THEN answer' = Answered(planned) /\ stage' = "answered"
       ELSE answer' = NoAnswer /\ stage' = "forbidden"
    /\ UNCHANGED <<request, store, planned>>

\* A cancellation or the deadline, seen at any of the checks of the evaluation:
\* the rows gathered so far are dropped.
Preempt ==
    /\ stage = "planned"
    /\ answer' = NoAnswer
    /\ stage' = "preempted"
    /\ UNCHANGED <<request, store, planned>>

QueryNext == Optimize \/ Execute \/ Preempt

QuerySpec == QueryInit /\ [][QueryNext]_queryVars

(* ----------------------- what the answers should be ---------------------- *)

\* The RDF term a value stands for.
Denoted(v) == IF v[1] \in NodeKinds THEN NodeIdTerm(v[2]) ELSE v
DenotedRow(row) == [x \in DOMAIN row |-> Denoted(row[x])]
BagOf(rows) ==
    LET denoted == [i \in DOMAIN rows |-> DenotedRow(rows[i])]
    IN  [r \in ToSet(denoted) |-> Cardinality({i \in DOMAIN denoted : denoted[i] = r})]
RowsOf(rows) == {DenotedRow(rows[i]) : i \in DOMAIN rows}

DenotedTriples == {<<NodeIdTerm(t[1]), <<"iri", t[2]>>, t[3]>> : t \in ToSet(RequestView.all)}
Nodes == {t[1] : t \in DenotedTriples} \cup {t[3] : t \in DenotedTriples}
PathConstants == {Denoted(p) : p \in {r \in {request.algebra.s, request.algebra.o} : ~IsVar(r)}}

\* Every assignment of terms to the variables that makes all patterns triples.
BgpSolutions(patterns) ==
    LET terms == Nodes \cup {t[2] : t \in DenotedTriples}
        vars == UNION {PatternVars(patterns[i]) : i \in DOMAIN patterns}
        at(p, row) == IF IsVar(p) THEN row[p[2]] ELSE Denoted(p)
    IN  {row \in [vars -> terms] : \A i \in DOMAIN patterns :
            <<at(patterns[i][1], row), at(patterns[i][2], row), at(patterns[i][3], row)>> \in DenotedTriples}

\* The variable is met as a subject first and as an object of a later pattern.
SubjectThenObject(patterns, x) ==
    LET v == <<"var", x>>
        occurs(i) == \E k \in 1..3 : patterns[i][k] = v
    IN  \E i, j \in DOMAIN patterns :
            /\ i < j /\ patterns[i][1] = v /\ patterns[j][3] = v
            /\ \A h \in 1..(i - 1) : ~occurs(h)

\* Solutions the evaluator misses: it probes for a blank node where the object
\* is an IRI it has met as a subject.
Missed(patterns, row) ==
    \E x \in DOMAIN row : SubjectThenObject(patterns, x) /\ row[x][1] = "iri"

RECURSIVE PathRelation(_)
PathRelation(path) ==
    LET step(p) == {<<t[1], t[3]>> : t \in {u \in DenotedTriples : u[2] = <<"iri", p>>}}
        flip(R) == {<<r[2], r[1]>> : r \in R}
        edges(listed) == {<<t[1], t[3]>> : t \in {u \in DenotedTriples :
                              listed # {} /\ u[2] \notin {<<"iri", p>> : p \in listed}}}
        all == Nodes \cup PathConstants
        through(z, R) == R \cup {<<e[1], f[2]>> : e \in {r \in R : r[2] = z}, f \in {r \in R : r[1] = z}}
        closure(R) == FoldSet(through, R, all)
        same == {<<n, n>> : n \in all}
    IN  CASE path[1] = "p"    -> step(path[2])
          [] path[1] = "inv"  -> flip(step(path[2]))
          [] path[1] = "seq"  -> {<<a, c>> \in all \X all : \E b \in all :
                                     <<a, b>> \in PathRelation(path[2]) /\ <<b, c>> \in PathRelation(path[3])}
          [] path[1] = "alt"  -> PathRelation(path[2]) \cup PathRelation(path[3])
          [] path[1] = "plus" -> closure(PathRelation(path[2]))
          [] path[1] = "star" -> same \cup closure(PathRelation(path[2]))
          [] path[1] = "opt"  -> same \cup PathRelation(path[2])
          [] path[1] = "nps"  -> edges(path[2]) \cup flip(edges(path[3]))

RECURSIVE NestedNps(_)
NestedNps(path) ==
    \E i \in 2..Len(path) :
        /\ path[1] \notin {"p", "inv", "nps"}
        /\ path[i][1] = "nps" \/ NestedNps(path[i])

PathSolutions(s, path, o) ==
    LET vars == {p[2] : p \in {r \in {s, o} : IsVar(r)}}
        at(p, row) == IF IsVar(p) THEN row[p[2]] ELSE Denoted(p)
    IN  {row \in [vars -> Nodes \cup PathConstants] : <<at(s, row), at(o, row)>> \in PathRelation(path)}

\* The statements of a store: a graph reference and a triple.
Statements(view) ==
    {<<<<>>, t>> : t \in ToSet(view.all)} \cup UNION {{<<<<g>>, t>> : t \in ToSet(view.quads[g])} : g \in DOMAIN view.quads}
Elsewhere(S, own) == {s \in S : s[1] = <<>> \/ s[1][1] \notin own}

(* -------------------------------- properties ----------------------------- *)

AnsweredSelect == stage = "answered" /\ request.kind = "select" /\ request.columns = <<>>

(* A basic graph pattern is answered with the assignments that make all its *)
(* patterns triples of the default graph, each once, in whatever order the  *)
(* optimizer joins them; all of them but those that reach an IRI as a       *)
(* subject first and as an object later (fetch_candidates, match_triple).   *)
BgpExact ==
    AnsweredSelect /\ planned.op = "bgp" =>
        /\ RowsOf(answer) = {row \in BgpSolutions(planned.patterns) : ~Missed(planned.patterns, row)}
        /\ Len(RequestView.all) = Cardinality(ToSet(RequestView.all)) =>
              Len(answer) = Cardinality(RowsOf(answer))

(* A property path relates the terms that the relation algebra says it      *)
(* relates, on graphs with cycles, for both ends variable, fixed or equal,  *)
(* and for paths of length zero (eval_path_pattern).  Negated property sets *)
(* inside another path are excepted.                                        *)
PathExact ==
    AnsweredSelect /\ planned.op = "path" /\ ~NestedNps(planned.path) =>
        RowsOf(answer) = PathSolutions(planned.s, planned.path, planned.o)

(* OPTIONAL answers the join, plus the left rows for which EXISTS of the    *)
(* right side is false: two code paths of the executor (left_join and       *)
(* exists_in_solution) that must agree on what a partner is.                *)
OptionalIsJoinOrAntijoin ==
    AnsweredSelect /\ planned.op = "leftjoin" /\ planned.cond = <<"val", Truth(TRUE)>> =>
        BagOf(answer) =
            BagOf(Eval([op |-> "join", l |-> planned.l, r |-> planned.r], RequestView, <<>>)
                  \o Eval([op |-> "filter", cond |-> <<"not", <<"exists", planned.r>>>>, in |-> planned.l],
                          RequestView, <<>>))

\* No IRI of the view is both a subject and an object.
NoIriChain == \A t, u \in DenotedTriples : t[1][1] = "iri" => u[3] # t[1]

(* The rewritten query answers what the parsed one does, as a bag, on       *)
(* stores where no IRI is both subject and object: reordering and merging   *)
(* patterns, dropping units and moving filters below DISTINCT change        *)
(* nothing (optimize_algebra, optimize_algebra_with_stats).                 *)
OptimizerSafe ==
    AnsweredSelect /\ NoIriChain =>
        BagOf(answer) = BagOf(SelectRows(request.algebra, <<>>, RequestView))

(* A tenant's answer is a function of the graphs it owns: on a store        *)
(* without the others, the same request has the same answer.  Its update    *)
(* leaves the default graph and the graphs of others as they are, and its   *)
(* own as it would on a store without them (validate_tenant_read_plan,      *)
(* TenantScopedRead, validate_tenant_update_plan, TenantScopedWrite).       *)
TenantIsolated ==
    stage = "answered" =>
        \A i \in DOMAIN request.tenant :
            LET own == request.tenant[i].owned
                alone == [all   |-> <<>>,
                          quads |-> [g \in DOMAIN store.quads |-> IF g \in own THEN store.quads[g] ELSE <<>>],
                          names |-> SelectSeq(store.names, LAMBDA g : g \in own)]
                view == ReadView(alone, request, request.tenant)
            IN  /\ request.kind = "select" => answer = SelectRows(planned, request.columns, view)
                /\ request.kind = "update" =>
                      /\ Elsewhere(Statements(answer), own) = Elsewhere(Statements(store), own)
                      /\ Statements(answer) \ Elsewhere(Statements(answer), own)
                            = Statements(ExecuteUpdate(request.ops, request.tenant, alone))

(* Grouping splits the rows: the counts of the groups add up to the rows,   *)
(* and no two groups have equal keys (eval_aggregate).                      *)
GroupsPartition ==
    AnsweredSelect /\ planned.op = "aggregate" /\ planned.having = <<"val", Truth(TRUE)>> =>
        LET rows == Eval(planned.in, RequestView, <<>>)
        IN  /\ \A s \in planned.aggregates : s.expr = <<"rows">> =>
                 FoldLeft(LAMBDA n, row : n + NumberOf(row[s.output]), 0, answer) = 10 * Len(rows)
            /\ \A i, j \in DOMAIN answer :
                 Restriction(answer[i], planned.groups) = Restriction(answer[j], planned.groups) => i = j

(* ORDER BY permutes the rows, and they come out in order when the values of *)
(* every key can be compared (compare_bound).                                *)
SortedPermutation ==
    AnsweredSelect /\ planned.op = "orderby" =>
        LET rows == Eval(planned.in, RequestView, <<>>)
            sortedBy == {k[1] : k \in ToSet(planned.keys)}
            comparable(v) == \A i, j \in {h \in DOMAIN answer : Bound(answer[h], v)} :
                                CompareValues(answer[i][v], answer[j][v]) # Incomparable
        IN  /\ BagOf(answer) = BagOf(rows)
            /\ (\A v \in sortedBy : comparable(v)) =>
                 \A i, j \in DOMAIN answer : i < j => ~RowBefore(planned.keys, answer[j], answer[i])

(* CONSTRUCT with the pattern as its template returns triples of the graph, *)
(* and DESCRIBE every triple that has a described resource on either side,  *)
(* however the solution represents the resource (materialize_construct,     *)
(* describe_probe).                                                         *)
GraphFormsSound ==
    /\ (stage = "answered" /\ request.kind = "construct" /\ request.template = request.algebra.patterns) =>
          ToSet(answer) \subseteq ToSet(RequestView.all)
    /\ (stage = "answered" /\ request.kind = "describe") =>
          LET rows == Eval(planned, RequestView, <<>>)
              described == {Denoted(v) : v \in UNION {{rows[i][x] : x \in DOMAIN rows[i]} : i \in DOMAIN rows}}
          IN  answer = {t \in ToSet(RequestView.all) :
                          {NodeIdTerm(t[1]), t[3]} \cap {v \in described : ~IsLiteral(v)} # {}}

(* ------------------------ what an update should do ----------------------- *)

\* What the algebra of updates says, on sets of statements <<graph, triple>>.
ResolvedRef(g) == IF g = <<>> /\ request.tenant # <<>> THEN <<request.tenant[1].graph>> ELSE g
Within(S, g) == {s \in S : s[1] = ResolvedRef(g)}
CopyOf(S, from, to) == {<<ResolvedRef(to), s[2]>> : s \in Within(S, from)}
TheirGraphs == IF request.tenant = <<>> THEN DOMAIN store.quads ELSE request.tenant[1].owned
NamedStatements(S) == {s \in S : s[1] # <<>> /\ s[1][1] \in TheirGraphs}

\* The statements a template asserts under an assignment of terms to variables.
Asserted(template, row, with) ==
    LET at(p) == IF IsVar(p) THEN row[p[2]] ELSE Denoted(p)
        sound(t) == /\ \A k \in 1..3 : t[k][1] # "label" /\ (IsVar(t[k]) => t[k][2] \in DOMAIN row)
                    /\ ~IsLiteral(at(t[1])) /\ at(t[2])[1] = "iri"
    IN  {<<ResolvedRef(IF p.g = <<>> THEN with ELSE p.g), <<at(p.t[1])[2], at(p.t[2])[2], at(p.t[3])>>>> :
            p \in {r \in ToSet(template) : sound(r.t)}}

TermsOf(S) == UNION {{NodeIdTerm(s[2][1]), <<"iri", s[2][2]>>, s[2][3]} : s \in S}
Matched(S, op) ==
    LET vars == UNION {PatternVars(op.patterns[i].t) : i \in DOMAIN op.patterns}
    IN  UNION {Asserted(op.patterns, row, op.with) :
                  row \in {r \in [vars -> TermsOf(S)] :
                              \A i \in DOMAIN op.patterns :
                                  LET one == Asserted(<<op.patterns[i]>>, r, op.with) IN one # {} /\ one \subseteq S}}

Expected(S, op) ==
    CASE op.kind = "insert" -> S \cup Asserted(op.patterns, Unit, <<>>)
      [] op.kind = "delete" -> S \ Asserted(op.patterns, Unit, <<>>)
      [] op.kind = "deletewhere" -> S \ Matched(S, op)
      [] op.kind = "load" -> S \cup CopyOf(S, op.source, op.into)
      [] op.kind = "create" -> S
      [] op.kind = "transfer" ->
            IF op.how = "add" \/ ResolvedRef(op.from) = ResolvedRef(op.to) THEN S \cup CopyOf(S, op.from, op.to)
            ELSE ((S \ Within(S, op.to)) \ (IF op.how = "move" THEN Within(S, op.from) ELSE {})) \cup CopyOf(S, op.from, op.to)
      [] op.kind = "clear" -> S \ (CASE op.target = "default" -> Within(S, <<>>)
                                     [] op.target = "named"   -> NamedStatements(S)
                                     [] op.target = "all"     -> NamedStatements(S) \cup Within(S, <<>>)
                                     [] op.target = "graph"   -> Within(S, op.graph))

\* Where the code is known to do something else: CLEAR NAMED and CLEAR ALL miss
\* what their own request has staged, and MOVE between the default graph of a
\* tenant and the graph that stands for it erases it.
Diverges(ops) ==
    \E i \in DOMAIN ops :
        \/ i > 1 /\ ops[i].kind = "clear" /\ ops[i].target \in {"named", "all"}
        \/ ops[i].kind = "transfer" /\ ops[i].how = "move"
              /\ ops[i].from # ops[i].to /\ ResolvedRef(ops[i].from) = ResolvedRef(ops[i].to)

KnownNodes(S) == {s \in S : s[2][1] \in Iris \cup Blanks /\ (s[2][3][1] = "blank" => s[2][3][2] \in Blanks)}

(* An update leaves the statements the algebra of updates says, whichever   *)
(* operations its request puts together: the later ones read what the       *)
(* earlier ones have staged.  DELETE/INSERT takes away every statement its  *)
(* solutions delete, but that one inserts as well may stay or go, and adds  *)
(* every statement they insert that none deletes (execute_update).          *)
UpdateExact ==
    stage = "answered" /\ request.kind = "update" /\ ~Diverges(request.ops) =>
        LET op == request.ops[1]
            S == Statements(store)
            rows == Eval(op.where, DatasetView(Seen(store, request.tenant), op.with, op.using, op.usingNamed), <<>>)
            all(template) == UNION {Asserted(template, DenotedRow(rows[i]), op.with) : i \in DOMAIN rows}
        IN  IF op.kind = "modify"
            THEN LET S2 == KnownNodes(Statements(answer)) D == all(op.delete) N == all(op.insert)
                 IN  (S \ D) \cup (N \ D) \subseteq S2 /\ S2 \subseteq (S \ D) \cup N
            ELSE Statements(answer) = FoldLeft(Expected, S, request.ops)

(* Without an optimizer or a tenant, patterns, paths, OPTIONAL, sorting and  *)
(* slices, the forms that answer with graphs, and updates mean what the     *)
(* algebra says (execute.rs); of GROUP BY only that groups are a partition. *)
AnswersExact ==
    /\ BgpExact /\ PathExact /\ OptionalIsJoinOrAntijoin
    /\ GroupsPartition /\ SortedPermutation /\ GraphFormsSound /\ UpdateExact
=============================================================================
