------------------------------ MODULE MCParsers ------------------------------
(* The readers of requests and of documents, one text at a time: what the   *)
(* requests say, how that is written, and what SPARQL 1.1 makes of it.      *)
EXTENDS SparqlSyntax, MCFormats, SequencesExt, FiniteSetsExt, TLC

Kw(w) == <<<<"kw", w>>>>
Op(w) == <<<<"op", w>>>>
V(x) == <<"var", x>>
I(x) == <<"iri", x>>
Number(n) == <<"val", Literal("integer", 10 * n)>>
Iri(x) == <<"iri", <<"", x>>>>
InParens(toks) == Op("(") \o toks \o Op(")")
InBraces(toks) == Op("{") \o toks \o Op("}")
Separated(parts, by) == FoldLeft(LAMBDA a, b : IF a = <<>> THEN b ELSE a \o by \o b, <<>>, parts)

Algebra == plan[1].v.algebra
Accepted == plan[1].ok

(* ------------------------------- expressions ----------------------------- *)

Level(e) ==
    CASE e[1] = "or" -> 1
      [] e[1] = "and" -> 2
      [] e[1] \in Comparisons \/ (e[1] = "call" /\ e[2] \in {"IN", "NOT IN"}) -> 3
      [] e[1] = "arith" /\ e[2] \in {"+", "-"} -> 4
      [] e[1] = "arith" -> 5
      [] e[1] \in {"not", "neg"} -> 6
      [] OTHER -> 7

\* With the parentheses an expression needs where level at least is asked for.
RECURSIVE WrittenExpr(_, _)
WrittenExpr(e, least) ==
    LET l == Level(e)
        list(args) == InParens(Separated([i \in DOMAIN args |-> WrittenExpr(args[i], 1)], Op(",")))
        both(op, left, x, y) == WrittenExpr(x, left) \o Op(op) \o WrittenExpr(y, l + 1)
        toks == CASE e[1] = "or" -> both("||", 1, e[2], e[3])
                  [] e[1] = "and" -> both("&&", 2, e[2], e[3])
                  [] e[1] \in Comparisons -> both(e[1], 4, e[2], e[3])
                  [] e[1] = "arith" -> both(e[2], l, e[3], e[4])
                  [] e[1] = "not" -> Op("!") \o WrittenExpr(e[2], 6)
                  [] e[1] = "neg" -> Op("-") \o WrittenExpr(e[2], 6)
                  [] l = 3 -> WrittenExpr(e[3], 4) \o (IF e[2] = "IN" THEN Kw("IN") ELSE Kw("NOT") \o Kw("IN"))
                                                   \o list(SubSeq(e, 4, Len(e)))
                  [] e[1] = "call" -> <<<<"fn", e[2]>>>> \o list(SubSeq(e, 3, Len(e)))
                  [] e[1] = "bound" -> Kw("BOUND") \o InParens(<<V(e[2])>>)
                  [] e[1] \in UnaryTests -> Kw(e[1]) \o InParens(WrittenExpr(e[2], 1))
                  [] e[1] = "agg" -> Kw(e[2]) \o InParens((IF e[4] THEN Kw("DISTINCT") ELSE <<>>) \o WrittenExpr(e[3], 1))
                  [] e[1] = "rows" -> Op("*")
                  [] e[1] = "val" -> <<e[2]>>
                  [] OTHER -> <<e>>
    IN  IF l < least THEN InParens(toks) ELSE toks

Pairs(X, Y) ==
    {<<op, a, b>> : op \in {"or", "and", "=", "<"}, a \in X, b \in Y}
    \cup {<<"arith", op, a, b>> : op \in {"+", "-", "*", "/"}, a \in X, b \in Y}
Singles(X) == {<<op, a>> : op \in {"not", "neg"}, a \in X}
Over(a, b) == Pairs({a}, {b}) \cup Singles({a})
Calls == {<<"call", "IN", V("x"), Number(1), V("y")>>, <<"call", "NOT IN", V("x")>>, <<"call", "STR", V("x")>>,
          <<"bound", "x">>, <<"isIri", V("x")>>}

Expressions ==
    Pairs({V("x")} \cup Over(V("x"), V("y")), {V("w")} \cup Over(V("z"), V("w")))
    \cup Singles(Over(V("x"), V("y")) \cup Calls)
    \cup {<<"call", "COALESCE", a, b>> : a \in Over(V("x"), V("y")), b \in Calls}

\* An expression written with no parenthesis it does not need is read back as
\* it was meant: the precedence and the association of every operator
\* (sparql_parse.rs parse_or to parse_unary).
ExpressionRoundTrip ==
    plan # <<>> /\ request[1] = "expr" => Accepted /\ Algebra = FilterWith(Identity, request[2])

(* ------------------------------ property paths --------------------------- *)
(* As they are parsed, and <<"^", path>> for the inverse of any path.        *)

PathLevel(path) == CASE path[1] = "alt" -> 1 [] path[1] = "seq" -> 2 [] path[1] = "^" -> 3 [] OTHER -> 4

RECURSIVE WrittenPath(_, _)
WrittenPath(path, least) ==
    LET l == PathLevel(path)
        mod == CASE path[1] = "plus" -> "+" [] path[1] = "star" -> "*" [] OTHER -> "?"
        listed == SetToSeq({<<<<"iri", i[2]>>>> : i \in path[2]}) \o SetToSeq({Op("^") \o <<<<"iri", i[2]>>>> : i \in path[3]})
        toks == CASE path[1] = "p" -> <<I(path[2][2])>>
                  [] path[1] = "alt" -> WrittenPath(path[2], 1) \o Op("|") \o WrittenPath(path[3], 2)
                  [] path[1] = "seq" -> WrittenPath(path[2], 2) \o Op("/") \o WrittenPath(path[3], 3)
                  [] path[1] = "^" -> Op("^") \o WrittenPath(path[2], 4)
                  [] path[1] = "nps" -> Op("!") \o InParens(Separated(listed, Op("|")))
                  [] OTHER -> WrittenPath(path[2], 5) \o <<<<"mod", mod>>>>
        tight == l < least /\ ~(least = 5 /\ path[1] \in {"p", "nps"})
    IN  IF tight THEN InParens(toks) ELSE toks

Nodes == {1, 2}
Flip(r) == {<<e[2], e[1]>> : e \in r}
After2(r, s) == {<<a, c>> \in Nodes \X Nodes : \E b \in Nodes : <<a, b>> \in r /\ <<b, c>> \in s}
Id == {<<n, n>> : n \in Nodes}

\* The pairs of nodes a path relates; edges gives those of a and of b.
RECURSIVE Related(_, _)
Related(path, edges) ==
    LET in == Related(path[2], edges)
        other(S) == UNION {edges[i] : i \in {"a", "b"} \ {s[2] : s \in S}}
    IN  CASE path[1] = "p" -> edges[path[2][2]]
          [] path[1] = "inv" -> Flip(edges[path[2][2]])
          [] path[1] = "^" -> Flip(in)
          [] path[1] = "seq" -> After2(in, Related(path[3], edges))
          [] path[1] = "alt" -> in \cup Related(path[3], edges)
          [] path[1] = "nps" -> (IF path[2] # {} THEN other(path[2]) ELSE {}) \cup (IF path[3] # {} THEN Flip(other(path[3])) ELSE {})
          [] path[1] = "plus" -> in \cup After2(in, in)
          [] path[1] = "star" -> Id \cup in \cup After2(in, in)
          [] OTHER -> Id \cup in

Graphs2 == [{"a", "b"} -> SUBSET (Nodes \X Nodes)]

Steps == {<<"p", <<"", "a">>>>, <<"p", <<"", "b">>>>}
NegatedSets == {<<"nps", {<<"", "a">>}, {}>>, <<"nps", {<<"", "a">>}, {<<"", "b">>}>>}
PathsOver(P) == {<<op, x, y>> : op \in {"seq", "alt"}, x \in P, y \in P} \cup {<<op, x>> : op \in {"^", "plus", "star", "opt"}, x \in P}
Paths1 == {<<"seq", <<"p", <<"", "a">>>>, <<"p", <<"", "b">>>>>>, <<"alt", <<"p", <<"", "a">>>>, <<"p", <<"", "b">>>>>>,
           <<"^", <<"p", <<"", "a">>>>>>, <<"plus", <<"p", <<"", "b">>>>>>} \cup NegatedSets
Paths2 == PathsOver(Paths1 \cup {<<"p", <<"", "b">>>>})
Paths == Paths2 \cup {<<"^", x>> : x \in Paths2} \cup {<<"seq", x, <<"p", <<"", "b">>>>>> : x \in Paths2}

\* A path relates the nodes it is written to relate, in every graph: the
\* precedence of its operators, the inverses of groups and negated sets
\* (parse_path_alternative, invert_path).
PathDenotes ==
    plan # <<>> /\ request[1] = "path" =>
        /\ Accepted /\ Algebra.op = "path"
        /\ \A edges \in Graphs2 : Related(Algebra.path, edges) = Related(request[2], edges)

(* ---------------------------------- groups ------------------------------- *)

WrittenTriples(triples) == Separated(triples, Op("."))
Pattern(t) == <<t[1], <<"iri", t[2]>>, t[3]>>

RECURSIVE WrittenGroup(_)
WrittenElement(e) ==
    CASE e[1] = "t" -> WrittenTriples([i \in DOMAIN e[2] |-> Pattern(e[2][i])])
      [] e[1] = "path" -> <<e[2]>> \o WrittenPath(e[3], 1) \o <<e[4]>>
      [] e[1] = "optional" -> Kw("OPTIONAL") \o WrittenGroup(e[2])
      [] e[1] = "minus" -> Kw("MINUS") \o WrittenGroup(e[2])
      [] e[1] = "union" -> Separated([i \in DOMAIN e[2] |-> WrittenGroup(e[2][i])], Kw("UNION"))
      [] e[1] = "filter" -> Kw("FILTER") \o InParens(WrittenExpr(e[2], 1))
      [] e[1] = "bind" -> Kw("BIND") \o InParens(WrittenExpr(e[2], 1) \o Kw("AS") \o <<V(e[3])>>)
      [] e[1] = "graph" -> Kw("GRAPH") \o <<e[2]>> \o WrittenGroup(e[3])
      [] e[1] = "values" -> Kw("VALUES") \o <<V(e[2])>> \o InBraces(<<e[3]>>)
      [] OTHER -> WrittenGroup(e[2])
WrittenGroup(g) ==
    LET dot(i) == IF i < Len(g) /\ g[i][1] \in {"t", "path"} /\ g[i + 1][1] \in {"t", "path"} THEN Op(".") ELSE <<>>
    IN  InBraces(FlattenSeq([i \in DOMAIN g |-> WrittenElement(g[i]) \o dot(i)]))

\* SPARQL 1.1, 18.2.2: the elements in turn, then the filters.  The filters of
\* an OPTIONAL speak of its own variables here.
RECURSIVE Translated(_)
Translated(g) ==
    LET element(acc, e) ==
            CASE e[1] = "t" -> JoinOf(acc, Bgp([i \in DOMAIN e[2] |-> <<e[2][i][1], <<"iri", <<"", e[2][i][2]>>>>, e[2][i][3]>>]))
              [] e[1] = "path" -> JoinOf(acc, [op |-> "path", s |-> e[2], path |-> e[3], o |-> e[4]])
              [] e[1] = "optional" -> [op |-> "leftjoin", l |-> acc, r |-> Translated(e[2]), cond |-> Always]
              [] e[1] = "minus" -> Both("minus", acc, Translated(e[2]))
              [] e[1] = "union" -> JoinOf(acc, FoldLeft(LAMBDA a, b : IF a = Identity THEN b ELSE Both("union", a, b), Identity,
                                                        [i \in DOMAIN e[2] |-> Translated(e[2][i])]))
              [] e[1] = "filter" -> acc
              [] e[1] = "bind" -> [op |-> "extend", var |-> e[3], expr |-> e[2], in |-> acc]
              [] e[1] = "graph" -> JoinOf(acc, [op |-> "graph", g |-> e[2], in |-> Translated(e[3])])
              [] e[1] = "values" -> JoinOf(acc, [op |-> "values", vars |-> {e[2]}, rows |-> <<[x \in {e[2]} |-> e[3]]>>])
              [] OTHER -> JoinOf(acc, Translated(e[2]))
        filters == SelectSeq(g, LAMBDA e : e[1] = "filter")
    IN  FoldLeft(FilterWith, FoldLeft(element, Identity, g), [i \in DOMAIN filters |-> filters[i][2]])

\* Joins are associative and commutative, and triples join to more triples.
RECURSIVE Normal(_)
Normal(q) ==
    LET l == Normal(q.l)
        r == Normal(q.r)
        one(x) == IF x.op = "joined" THEN x ELSE [op |-> "joined", triples |-> {}, parts |-> <<x>>]
        a == one(l)
        b == one(r)
    IN  CASE q.op = "bgp" -> [op |-> "joined", triples |-> ToSet(q.patterns), parts |-> <<>>]
          [] q.op = "join" -> [op |-> "joined", triples |-> a.triples \cup b.triples, parts |-> a.parts \o b.parts]
          [] q.op \in {"leftjoin", "union", "minus"} -> [q EXCEPT !.l = l, !.r = r]
          [] q.op \in {"filter", "extend", "graph"} -> [q EXCEPT !.in = Normal(q.in)]
          [] OTHER -> q

TA == <<"t", <<<<V("x"), "a", V("y")>>>>>>
TB == <<"t", <<<<V("y"), "b", V("z")>>, <<V("z"), "b", V("x")>>>>>>
Elements ==
    {TA, TB, <<"path", V("x"), <<"seq", <<"p", <<"", "a">>>>, <<"p", <<"", "b">>>>>>, V("z")>>,
     <<"optional", <<TB, <<"filter", <<"bound", "z">>>>>>>>,
     <<"minus", <<TB>>>>, <<"union", <<<<TA>>, <<TB>>>>>>,
     <<"filter", <<"=", V("x"), V("y")>>>>, <<"filter", <<"bound", "w">>>>,
     <<"bind", V("x"), "w">>, <<"bind", Number(1), "g">>,
     <<"graph", V("g"), <<TA>>>>, <<"group", <<TA, <<"filter", <<"bound", "x">>>>, TB>>>>,
     <<"values", "y", <<"iri", "c">>>>}
ElementsValue(e) == IF e[1] = "values" THEN <<"values", e[2], Iri(e[3][2])>> ELSE e

Groups == UNION {[1..n -> Elements] : n \in 1..3}

\* A group is the algebra SPARQL gives it: what an element applies to, where
\* the filters apply, what abandoned readings of a triple leave behind
\* (parse_group_graph_pattern).
GroupTranslated ==
    plan # <<>> /\ request[1] = "group" =>
        \/ ~Accepted /\ \E i \in DOMAIN request[2] : request[2][i][1] = "bind"
        \/ /\ Accepted
           /\ Normal(Algebra) = Normal(Translated([i \in DOMAIN request[2] |-> ElementsValue(request[2][i])]))

RECURSIVE Extends(_)
\* The BINDs of a pattern, each with what it extends.
Extends(q) ==
    CASE q.op \in {"join", "leftjoin", "union", "minus"} -> Extends(q.l) \cup Extends(q.r)
      [] q.op \in {"filter", "graph", "project"} -> Extends(q.in)
      [] q.op = "extend" -> {q} \cup Extends(q.in)
      [] OTHER -> {}

\* The variables in scope (SPARQL 1.1, 18.2.1).
RECURSIVE InScope(_)
InScope(q) ==
    CASE q.op = "bgp" -> {t[2] : t \in {u \in UNION {ToSet(q.patterns[i]) : i \in DOMAIN q.patterns} : u[1] = "var"}}
      [] q.op = "path" -> {t[2] : t \in {u \in {q.s, q.o} : u[1] = "var"}}
      [] q.op \in {"join", "leftjoin", "union"} -> InScope(q.l) \cup InScope(q.r)
      [] q.op = "minus" -> InScope(q.l)
      [] q.op = "filter" -> InScope(q.in)
      [] q.op = "extend" -> {q.var} \cup InScope(q.in)
      [] q.op = "graph" -> (IF q.g[1] = "var" THEN {q.g[2]} ELSE {}) \cup InScope(q.in)
      [] q.op \in {"values", "project"} -> q.vars
      [] OTHER -> {}

\* No BIND of an accepted request names a variable in scope before it, the
\* graph variable of a GRAPH included (bindings_in_algebra).
BindFresh ==
    plan # <<>> /\ request[1] = "group" /\ Accepted => \A e \in Extends(Algebra) : e.var \notin InScope(e.in)

(* ------------------- blank node lists and collections -------------------- *)
(* A term, <<"[]", properties>> or <<"()", items>>; a property is            *)
(* <<predicate, object>>, with <<"path", path>> for a path.                  *)

RECURSIVE WrittenTerm(_)
WrittenVerb(v) == IF v[1] = "path" THEN WrittenPath(v[2], 1) ELSE <<v>>
WrittenProperties(props) ==
    Separated([i \in DOMAIN props |-> WrittenVerb(props[i][1]) \o WrittenTerm(props[i][2])], Op(";"))
WrittenTerm(t) ==
    CASE t[1] = "[]" -> Op("[") \o WrittenProperties(t[2]) \o Op("]")
      [] t[1] = "()" -> InParens(FlattenSeq([i \in DOMAIN t[2] |-> WrittenTerm(t[2][i])]))
      [] OTHER -> <<t>>
WrittenSubject(s) == WrittenTerm(s[1]) \o WrittenProperties(s[2])

\* What a term stands for and says, with blank nodes named after its place.
TermValue(t) == IF t[1] = "iri" THEN Iri(t[2]) ELSE t
RECURSIVE Stands(_, _), Says(_, _)
Stands(t, place) ==
    CASE t[1] = "[]" -> <<"label", place>>
      [] t[1] = "()" -> IF t[2] = <<>> THEN Rdf("nil") ELSE <<"label", place \o "1">>
      [] OTHER -> TermValue(t)
SaysOf(node, props, place) ==
    FlattenSeq([i \in DOMAIN props |->
        LET o == props[i][2]
            at == place \o "o" \o ToString(i)
        IN  Says(o, at) \o (IF props[i][1][1] = "path" THEN <<<<"path", node, props[i][1][2], Stands(o, at)>>>>
                             ELSE <<<<"triple", node, TermValue(props[i][1]), Stands(o, at)>>>>)])
Says(t, place) ==
    LET cell(i) == IF i > Len(t[2]) THEN Rdf("nil") ELSE <<"label", place \o ToString(i)>>
    IN  CASE t[1] = "[]" -> SaysOf(<<"label", place>>, t[2], place)
          [] t[1] = "()" -> FlattenSeq([i \in DOMAIN t[2] |->
                Says(t[2][i], place \o "i" \o ToString(i))
                \o <<<<"triple", cell(i), Rdf("first"), Stands(t[2][i], place \o "i" \o ToString(i))>>,
                     <<"triple", cell(i), Rdf("rest"), cell(i + 1)>>>>])
          [] OTHER -> <<>>
AllSaid(subjects) ==
    FlattenSeq([i \in DOMAIN subjects |->
        LET at == "s" \o ToString(i)
        IN  Says(subjects[i][1], at) \o SaysOf(Stands(subjects[i][1], at), subjects[i][2], at \o "p")])

\* What a pattern without filters says.
RECURSIVE Parts(_)
Parts(q) ==
    CASE q.op = "bgp" -> [i \in DOMAIN q.patterns |-> <<"triple", q.patterns[i][1], q.patterns[i][2], q.patterns[i][3]>>]
      [] q.op = "path" -> <<<<"path", q.s, q.path, q.o>>>>
      [] q.op = "join" -> Parts(q.l) \o Parts(q.r)
      [] OTHER -> <<>>

LabelsOf(parts) == {t \in UNION {{parts[i][2], parts[i][4]} : i \in DOMAIN parts} : t[1] = "label"}
Times(parts) == [x \in ToSet(parts) |-> Cardinality({i \in DOMAIN parts : parts[i] = x})]
Renamed(parts, f) ==
    LET name(t) == IF t[1] = "label" THEN f[t] ELSE t
    IN  [i \in DOMAIN parts |-> <<parts[i][1], name(parts[i][2]), parts[i][3], name(parts[i][4])>>]
SameUpToNames(x, y) ==
    /\ Cardinality(LabelsOf(x)) = Cardinality(LabelsOf(y))
    /\ \E f \in [LabelsOf(x) -> LabelsOf(y)] : Times(Renamed(x, f)) = Times(y)

PathAB == <<"path", <<"alt", <<"p", <<"", "a">>>>, <<"p", <<"", "b">>>>>>>>
Terms ==
    {V("x"), <<"[]", <<<<I("a"), V("y")>>>>>>, <<"[]", <<<<I("a"), V("y")>>, <<PathAB, I("c")>>>>>>,
     <<"[]", <<<<I("b"), <<"[]", <<<<I("a"), V("z")>>>>>>>>>>>>, <<"()", <<>>>>, <<"()", <<V("x"), I("c")>>>>,
     <<"()", <<<<"[]", <<<<PathAB, V("z")>>>>>>>>>>}
Subjects ==
    {<<t, <<<<I("a"), o>>>>>> : t, o \in Terms}
    \cup {<<V("x"), <<<<I("a"), t>>, <<I("b"), o>>>>>> : t, o \in Terms}
Blocks == {<<s>> : s \in Subjects} \cup {<<s, <<o, <<<<I("b"), V("w")>>>>>>>> : s \in {<<V("x"), <<<<I("a"), t>>>>>> : t \in Terms}, o \in Terms}
          \cup {<<<<t, <<>>>>>> : t \in {u \in Terms : u[1] = "[]"}}

\* Every property of a blank node list and every cell of a collection is said
\* exactly once, about its own node, however often the text is read
\* (parse_bnode_property_list, parse_collection, restore).
SaidOnce ==
    plan # <<>> /\ request[1] = "triples" => Accepted /\ SameUpToNames(Parts(Algebra), AllSaid(request[2]))

(* -------------------------------- aggregates ----------------------------- *)

Agg(f, distinct) == <<"agg", f, V("y"), distinct, Literal("string", 0)>>
CountRows == <<"agg", "count", <<"rows">>, FALSE, Literal("string", 0)>>
AggregateCalls == {CountRows, Agg("count", FALSE), Agg("count", TRUE), Agg("sum", FALSE)}
Computing == {<<"arith", "+", Number(1), a>> : a \in AggregateCalls}
             \cup {<<"arith", "-", V("x"), <<"arith", "*", a, b>>>> : a \in {CountRows, Agg("sum", FALSE)}, b \in AggregateCalls}
Columns == AggregateCalls \cup Computing
Havings == {<<"<", Number(1), a>> : a \in AggregateCalls} \cup {<<"and", <<"bound", "x">>, <<"<", a, Number(2)>>>> : a \in {CountRows}}

\* The expression with the calls back in the place of their names.
RECURSIVE Unlifted(_, _)
Unlifted(e, specs) ==
    LET of == {s \in specs : e = V(s.output)}
        back(x, i) == [x EXCEPT ![i] = Unlifted(x[i], specs)]
        call(s) == <<"agg", s.function, s.expr, s.distinct, Literal("string", 0)>>
    IN  IF of # {} THEN call(CHOOSE s \in of : TRUE) ELSE FoldLeft(back, e, Operands(e))

\* Every aggregate call of the columns and of HAVING is computed, under one
\* name, and named where it stood (lift_aggregates).
AggregatesLifted ==
    plan # <<>> /\ request[1] = "aggregates" =>
        LET node == Algebra.in
            specs == node.aggregates
            column(i) == "n" \o ToString(i)
            computed == {c[1] : c \in {d \in ToSet(plan[1].v.columns) : TRUE}}
            result(i) == IF request[2][i][1] = "agg" THEN Unlifted(V(column(i)), specs)
                         ELSE Unlifted((CHOOSE c \in ToSet(plan[1].v.columns) : c[2] = column(i))[1], specs)
        IN  /\ Accepted /\ Algebra.op = "project" /\ node.op = "aggregate"
            /\ \A i \in DOMAIN request[2] : result(i) = request[2][i]
            /\ request[3] # <<>> => Unlifted(node.having, specs) = request[3][1]
            /\ \A s, t \in specs : s.output = t.output => s = t

WrittenAggregates(columns, having) ==
    Kw("SELECT")
    \o FlattenSeq([i \in DOMAIN columns |-> InParens(WrittenExpr(columns[i], 1) \o Kw("AS") \o <<V("n" \o ToString(i))>>)])
    \o WrittenGroup(<<TA>>) \o Kw("GROUP") \o Kw("BY") \o <<V("x")>>
    \o (IF having = <<>> THEN <<>> ELSE Kw("HAVING") \o InParens(WrittenExpr(having[1], 1)))

(* -------------------------------- subqueries ----------------------------- *)
(* A SELECT is <<variables, computed names, SELECTs inside>>.                *)

RECURSIVE WrittenSelect(_), ScopesKept(_)
WrittenSelect(q) ==
    Kw("SELECT") \o [i \in DOMAIN q[1] |-> V(q[1][i])]
    \o FlattenSeq([i \in DOMAIN q[2] |-> InParens(WrittenExpr(Number(1), 1) \o Kw("AS") \o <<V(q[2][i])>>)])
    \o InBraces(FlattenSeq([i \in DOMAIN q[3] |-> InBraces(WrittenSelect(q[3][i]))]))
ScopesKept(q) ==
    \A i \in DOMAIN q[3] :
        (ToSet(q[3][i][1]) \cup ToSet(q[3][i][2])) \cap ToSet(q[2]) = {} /\ ScopesKept(q[3][i])

Leaves == {<<v, c, <<>>>> : v \in {<<"x">>, <<"y", "z">>}, c \in {<<>>, <<"z">>}} \cup {<<<<>>, <<"x">>, <<>>>>}
LegalSelects == {q \in Leaves : q[2] = <<>> \/ ToSet(q[1]) \cap ToSet(q[2]) = {}}
Nested == LegalSelects \cup {<<<<"w">>, c, <<q>>>> : c \in {<<>>, <<"x">>}, q \in LegalSelects}
Selects == {<<<<"v">>, c, <<q, r>>>> : c \in {<<>>, <<"x">>, <<"z">>}, q, r \in Nested}

\* A request is refused exactly when a SELECT projects a name that the SELECT
\* around it computes, whatever its siblings compute (SPARQL 1.1 18.2.2 and
\* parse_subquery_select).
SubqueryScope ==
    plan # <<>> /\ request[1] = "select" => Accepted = ScopesKept(request[2])

(* --------------------------------- updates ------------------------------- *)
(* A block lists <<"t", triple>> and <<"g", name, block>>.                   *)

RECURSIVE WrittenBlock(_)
WrittenBlock(b) ==
    InBraces(FlattenSeq([i \in DOMAIN b |->
        (IF b[i][1] = "t" THEN Pattern(b[i][2]) ELSE Kw("GRAPH") \o <<I(b[i][2])>> \o WrittenBlock(b[i][3])) \o Op(".")]))

TripleValue(t) == <<t[1], Iri(t[2]), t[3]>>
RECURSIVE Flattened(_, _)
Flattened(b, g) ==
    FlattenSeq([i \in DOMAIN b |-> IF b[i][1] = "t" THEN <<[graph |-> g, triple |-> TripleValue(b[i][2])]>>
                                    ELSE Flattened(b[i][3], <<Iri(b[i][2])>>)])

L(x) == <<"label", x>>
XA == <<"t", <<V("x"), "a", V("y")>>>>
LA(x) == <<"t", <<L(x), "a", V("y")>>>>
NA == <<"t", <<<<"node", 1>>, "a", L("n")>>>>
MA == <<"t", <<<<"node", 1>>, "a", L("m")>>>>
CA == <<"t", <<<<"node", 1>>, "b", <<"node", 2>>>>>>
TheBlocks == {<<XA>>, <<CA>>, <<NA>>, <<CA, <<"g", "h", <<MA>>>>>>, <<<<"g", "h", <<CA, XA>>>>, XA>>, <<<<"g", "h", <<<<"g", "k", <<CA>>>>>>>>>>}

Deep(b) == \E i \in DOMAIN b : b[i][1] = "g" /\ \E j \in DOMAIN b[i][3] : b[i][3][j][1] = "g"
Quads(b) == {q.triple : q \in ToSet(Flattened(b, <<>>))}
Labelled(b) == {u[2] : u \in {t \in UNION {{q[1], q[3]} : q \in Quads(b)} : t[1] = "label"}}
Concrete(b) == \A q \in Quads(b) : q[1][1] # "var" /\ q[3][1] # "var"

UpdateOps ==
    {<<op, b>> : op \in {"insertdata", "deletedata", "deletewhere"}, b \in TheBlocks}
    \cup {<<"modify", g, d, i>> : g \in {<<>>, <<"h">>}, d \in {<<>>, <<XA>>, <<NA>>}, i \in {<<>>, <<NA>>}}
    \cup {<<"MOVE", f, t>> : f, t \in {<<>>, <<"h">>}}
Updates ==
    {<<a>> : a \in UpdateOps}
    \cup {<<a, b, c>> : a, b, c \in {<<"insertdata", <<NA>>>>, <<"insertdata", <<MA, CA>>>>, <<"modify", <<>>, <<XA>>, <<NA>>>>, <<"MOVE", <<>>, <<"h">>>>}}

WrittenRef(g) == IF g = <<>> THEN Kw("DEFAULT") ELSE Kw("GRAPH") \o <<I(g[1])>>
WrittenOp(op) ==
    CASE op[1] = "insertdata" -> Kw("INSERT") \o Kw("DATA") \o WrittenBlock(op[2])
      [] op[1] = "deletedata" -> Kw("DELETE") \o Kw("DATA") \o WrittenBlock(op[2])
      [] op[1] = "deletewhere" -> Kw("DELETE") \o Kw("WHERE") \o WrittenBlock(op[2])
      [] op[1] = "MOVE" -> Kw("MOVE") \o WrittenRef(op[2]) \o Kw("TO") \o WrittenRef(op[3])
      [] OTHER -> (IF op[2] = <<>> THEN <<>> ELSE Kw("WITH") \o <<I(op[2][1])>>)
                  \o (IF op[3] = <<>> THEN <<>> ELSE Kw("DELETE") \o WrittenBlock(op[3]))
                  \o (IF op[4] = <<>> /\ op[3] # <<>> THEN <<>> ELSE Kw("INSERT") \o WrittenBlock(op[4]))
                  \o Kw("WHERE") \o WrittenGroup(<<TA>>)

Legal(op) ==
    CASE op[1] = "insertdata" -> ~Deep(op[2]) /\ Concrete(op[2])
      [] op[1] = "deletedata" -> ~Deep(op[2]) /\ Concrete(op[2]) /\ Labelled(op[2]) = {}
      [] op[1] = "deletewhere" -> ~Deep(op[2]) /\ Labelled(op[2]) = {}
      [] op[1] = "modify" -> Labelled(op[3]) = {}
      [] OTHER -> TRUE
DataLabels(op) == IF op[1] \in {"insertdata", "deletedata"} THEN Labelled(op[2]) ELSE {}
Meant(op) ==
    LET graph(g) == IF g = <<>> THEN <<>> ELSE <<Iri(g[1])>>
    IN  CASE op[1] \in {"insertdata", "deletedata"} -> [op |-> op[1], patterns |-> Flattened(op[2], <<>>)]
          [] op[1] = "deletewhere" -> [op |-> op[1], graph |-> <<>>, patterns |-> Flattened(op[2], <<>>)]
          [] op[1] = "MOVE" -> [op |-> op[1], silent |-> FALSE, from |-> graph(op[2]), to |-> graph(op[3])]
          [] OTHER -> [op |-> op[1], graph |-> graph(op[2]), using |-> <<>>, usingNamed |-> <<>>,
                       delete |-> Flattened(op[3], <<>>), insert |-> Flattened(op[4], <<>>), where |-> Translated(<<TA>>)]

\* An update is what is written, each triple in its own graph; it is refused
\* exactly when a block nests graphs, DATA has a variable or what is deleted a
\* blank node, or two DATA operations share a label (parse_update_ops).
UpdateAsWritten ==
    plan # <<>> /\ request[1] = "update" =>
        LET ops == request[2]
            legal == /\ \A i \in DOMAIN ops : Legal(ops[i])
                     /\ \A i, j \in DOMAIN ops : i # j => DataLabels(ops[i]) \cap DataLabels(ops[j]) = {}
        IN  Accepted = legal /\ (legal => plan[1].v.ops = [i \in DOMAIN ops |-> Meant(ops[i])])

(* --------------------------- modifiers and hints ------------------------- *)

Modified ==
    [vars : {<<>>, <<"x">>, <<"y", "x">>}, keys : {<<>>, <<<<"x", TRUE>>, <<"y", FALSE>>>>}, limit : {<<>>, <<2>>}, offset : {0, 3},
     limitFirst : BOOLEAN, distinct : BOOLEAN]

WrittenModified(m) ==
    LET limit == IF m.limit = <<>> THEN <<>> ELSE Kw("LIMIT") \o <<Number(m.limit[1])[2]>>
        offset == IF m.offset = 0 THEN <<>> ELSE Kw("OFFSET") \o <<Number(m.offset)[2]>>
        key(k) == IF k[2] THEN <<V(k[1])>> ELSE Kw("DESC") \o InParens(<<V(k[1])>>)
    IN  Kw("SELECT") \o (IF m.distinct THEN Kw("DISTINCT") ELSE <<>>)
        \o (IF m.vars = <<>> THEN Op("*") ELSE [i \in DOMAIN m.vars |-> V(m.vars[i])]) \o WrittenGroup(<<TA>>)
        \o (IF m.keys = <<>> THEN <<>> ELSE Kw("ORDER") \o Kw("BY") \o FlattenSeq([i \in DOMAIN m.keys |-> key(m.keys[i])]))
        \o (IF m.limitFirst THEN limit \o offset ELSE offset \o limit)

\* Order, projection and DISTINCT, then LIMIT and OFFSET, which may be written
\* in either order; DISTINCT over all the variables of the pattern commutes
\* with the projection (parse_query).
ModifiersAsWritten ==
    plan # <<>> /\ request[1] = "modified" =>
        LET m == request[2]
            ordered == IF m.keys = <<>> THEN Translated(<<TA>>) ELSE [op |-> "orderby", keys |-> m.keys, in |-> Translated(<<TA>>)]
            rows == IF m.distinct THEN [op |-> "distinct", in |-> ordered] ELSE ordered
            columns == IF m.vars = <<>> THEN rows ELSE [op |-> "project", vars |-> ToSet(m.vars), in |-> rows]
        IN  /\ Accepted
            /\ Algebra = IF m.limit = <<>> /\ m.offset = 0 THEN columns
                         ELSE [op |-> "slice", offset |-> m.offset, limit |-> m.limit, in |-> columns]

RECURSIVE SubjectsIn(_)
SubjectsIn(q) ==
    CASE q.op = "bgp" -> [i \in DOMAIN q.patterns |-> q.patterns[i][1]]
      [] q.op = "path" -> <<q.s>>
      [] q.op \in {"join", "leftjoin", "union", "minus"} -> SubjectsIn(q.l) \o SubjectsIn(q.r)
      [] q.op \in {"filter", "extend", "graph"} -> SubjectsIn(q.in)
      [] OTHER -> <<>>

\* A `subject=` marker specialises at most one subject, an unbound one, and it
\* does where the group begins with one (docs/L3-ontolith-parser-query.md:254);
\* a MINUS hides what it subtracts from (apply_subject_hint).
HintSpecialisesOne ==
    plan # <<>> /\ request[1] = "hinted" /\ Accepted =>
        LET before == SubjectsIn(Translated([i \in DOMAIN request[2] |-> ElementsValue(request[2][i])]))
            after == SubjectsIn(Algebra)
            changed == {i \in DOMAIN before : before[i] # after[i]}
        IN  /\ Len(before) = Len(after) /\ Cardinality(changed) <= 1
            /\ \A i \in changed : before[i][1] = "var" /\ after[i] = <<"node", 9>>
            /\ request[2][1][1] \in {"t", "path", "optional", "union", "graph", "group"} /\ request[2][2][1] # "minus" => changed # {}

(* -------------------------------- requests ------------------------------- *)

Query(group) == Kw("SELECT") \o Op("*") \o Kw("WHERE") \o group
Tokens(s) ==
    CASE s[1] = "expr" -> Query(InBraces(Kw("FILTER") \o InParens(WrittenExpr(s[2], 1))))
      [] s[1] = "path" -> Query(InBraces(<<V("x")>> \o WrittenPath(s[2], 1) \o <<V("y")>>))
      [] s[1] \in {"group", "hinted"} -> Query(WrittenGroup(s[2]))
      [] s[1] = "triples" -> Query(InBraces(Separated([i \in DOMAIN s[2] |-> WrittenSubject(s[2][i])], Op("."))))
      [] s[1] = "aggregates" -> WrittenAggregates(s[2], s[3])
      [] s[1] = "select" -> WrittenSelect(s[2])
      [] s[1] = "modified" -> WrittenModified(s[2])
      [] OTHER -> Separated([i \in DOMAIN s[2] |-> WrittenOp(s[2][i])], Op(";"))

MCWritten(s) == [toks |-> Tokens(s), hint |-> IF s[1] = "hinted" THEN <<9>> ELSE <<>>]

MCSources ==
    {<<"expr", e>> : e \in Expressions} \cup {<<"path", p>> : p \in Paths} \cup {<<"group", g>> : g \in Groups}
    \cup {<<"triples", b>> : b \in Blocks}
    \cup {<<"aggregates", <<c, d>>, h>> : c, d \in Columns, h \in {<<>>} \cup {<<x>> : x \in Havings}}
    \cup {<<"select", q>> : q \in Selects} \cup {<<"update", u>> : u \in Updates}
    \cup {<<"modified", m>> : m \in {n \in Modified : n.distinct => Len(n.vars) # 1}}
    \cup {<<"hinted", <<a, b>>>> : a, b \in Elements}

\* What is nested keeps to its scope: the filters, binds, aggregates and
\* subqueries of a group are translated where SPARQL 1.1 places them
\* (parse_group_graph_pattern and what it calls).
ScopesRespected == GroupTranslated /\ BindFresh /\ AggregatesLifted /\ SubqueryScope

\* What is written is what is planned, no more and no less: expressions, paths,
\* triples, updates, modifiers and hints, each in its scope (plan_query).
ParsedAsWritten ==
    /\ ScopesRespected
    /\ ExpressionRoundTrip /\ PathDenotes /\ SaidOnce
    /\ UpdateAsWritten /\ ModifiersAsWritten /\ HintSpecialisesOne

\* <<kind of document>>, then <<kind, what the document says>>.
VARIABLE document

ParsersInit ==
    \/ PlanInit /\ document = <<>>
    \/ request = <<>> /\ plan = <<>> /\ document \in {<<kind>> : kind \in Kinds}

ParseRequest == document = <<>> /\ PlanRequest /\ UNCHANGED document
ReadDocument ==
    /\ Len(document) = 1
    /\ \E d \in DocumentsOf(document[1]) : document' = Append(document, d)
    /\ UNCHANGED <<request, plan>>

ParsersSpec == ParsersInit /\ [][ParseRequest \/ ReadDocument]_<<request, plan, document>>

\* What is written in a format and read back says what it said, and what is no
\* document is refused: N-Triples to RDF/XML, and results in each of their
\* formats (parse_document_streaming, serialize_dataset_with,
\* parse_results_document, sparql_results_tsv and their like).
FormatsExact == Len(document) = 2 => Exact(document[1], document[2])
=============================================================================
