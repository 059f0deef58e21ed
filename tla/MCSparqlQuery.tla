---------------------------- MODULE MCSparqlQuery ----------------------------
(* Stores and requests for model checking the query pipeline: 1 to 4 are   *)
(* IRIs of resources, 5 and 6 of predicates, 7 and 8 blank nodes, 9 and 10 *)
(* graph names.                                                             *)
EXTENDS SparqlQuery, TLC

\* The triples a store may have, in the order it lists them: a cycle of blank
\* nodes, an IRI on both sides, numbers of two types that are equal, a string.
Pool == <<<<7, 5, <<"blank", 8>>>>, <<8, 5, <<"blank", 7>>>>, <<1, 5, <<"blank", 7>>>>,
          <<1, 5, <<"iri", 2>>>>, <<2, 5, <<"iri", 3>>>>,
          <<2, 6, Literal("integer", 10)>>, <<1, 6, Literal("decimal", 10)>>,
          <<8, 6, Literal("string", 3)>>>>

Graph9  == <<<<7, 5, <<"blank", 8>>>>, <<2, 6, Literal("integer", 20)>>>>
Graph10 == <<<<7, 5, <<"blank", 8>>>>, <<1, 5, <<"iri", 4>>>>>>

MCStores ==
    {[all   |-> LET kept == {i \in 1..8 : i \in S}
                    nth[i \in 0..8] == IF i = 0 THEN <<>>
                                       ELSE IF i \in kept THEN Append(nth[i - 1], Pool[i]) ELSE nth[i - 1]
                IN  nth[8],
      quads |-> 9 :> Graph9 @@ 10 :> Graph10,
      names |-> <<9, 10>>] : S \in SUBSET (1..8)}

V(x) == <<"var", x>>
I(x) == <<"iri", x>>
x == V(1)   y == V(2)   z == V(3)   w == V(4)

Bgp(patterns) == [op |-> "bgp", patterns |-> patterns]
Path(s, path, o) == [op |-> "path", s |-> s, path |-> path, o |-> o]
Join(l, r) == [op |-> "join", l |-> l, r |-> r]
Union(l, r) == [op |-> "union", l |-> l, r |-> r]
Minus(l, r) == [op |-> "minus", l |-> l, r |-> r]
LeftJoin(l, r, cond) == [op |-> "leftjoin", l |-> l, r |-> r, cond |-> cond]
Filter(cond, in) == [op |-> "filter", cond |-> cond, in |-> in]
Distinct(in) == [op |-> "distinct", in |-> in]
Project(vars, in) == [op |-> "project", vars |-> vars, in |-> in]
Graph(g, in) == [op |-> "graph", g |-> g, in |-> in]
OrderBy(keys, in) == [op |-> "orderby", keys |-> keys, in |-> in]
Slice(offset, limit, in) == [op |-> "slice", offset |-> offset, limit |-> limit, in |-> in]
Extend(var, expr, in) == [op |-> "extend", var |-> var, expr |-> expr, in |-> in]
Service(endpoint) == [op |-> "service", endpoint |-> endpoint]
Spec1(function, expr, distinct, output) ==
    [function |-> function, expr |-> expr, distinct |-> distinct, output |-> output]
Aggregate(groups, aggregates, having, in) ==
    [op |-> "aggregate", groups |-> groups, aggregates |-> aggregates, having |-> having, in |-> in]
Identity == [op |-> "identity"]
Always == <<"val", Truth(TRUE)>>
One == <<"val", Literal("integer", 10)>>

P5 == Bgp(<<<<x, I(5), y>>>>)
P6 == Bgp(<<<<x, I(6), z>>>>)

Bgps == {Bgp(<<<<x, I(5), y>>, <<y, I(5), z>>>>),
         Bgp(<<<<y, I(5), z>>, <<x, I(5), y>>>>),
         Bgp(<<<<y, I(6), z>>, <<x, I(5), y>>, <<I(1), I(5), y>>>>),
         Bgp(<<<<x, I(5), x>>>>),
         Bgp(<<<<x, w, y>>, <<I(1), w, I(2)>>>>)}

Paths == {Path(x, path, y) :
             path \in {<<"plus", <<"p", 5>>>>, <<"star", <<"inv", 5>>>>,
                       <<"seq", <<"p", 5>>, <<"opt", <<"p", 6>>>>>>,
                       <<"alt", <<"inv", 6>>, <<"plus", <<"p", 5>>>>>>,
                       <<"nps", {5}, {}>>, <<"nps", {5}, {6}>>}}
         \cup {Path(I(1), <<"plus", <<"p", 5>>>>, y), Path(x, <<"star", <<"p", 5>>>>, I(3)),
               Path(I(4), <<"star", <<"p", 5>>>>, y), Path(x, <<"plus", <<"p", 5>>>>, x),
               Path(I(2), <<"seq", <<"inv", 5>>, <<"p", 5>>>>, y)}

Others ==
    {LeftJoin(P5, P6, Always),
     LeftJoin(P6, Bgp(<<<<y, I(5), x>>>>), Always),
     LeftJoin(P6, P5, <<"isBlank", y>>),
     Join(Identity, Join(P5, Bgp(<<<<z, I(5), y>>>>))),
     Join(P6, Path(x, <<"plus", <<"p", 5>>>>, y)),
     Union(P5, Filter(<<"<", One, z>>, P6)),
     Minus(P5, P6),
     Filter(<<"and", <<"not", <<"exists", P5>>>>, <<"=", z, One>>>>, P6),
     Filter(<<"or", <<"<=", z, One>>, <<"bound", 2>>>>, P6),
     Filter(<<"isBlank", y>>, Distinct(Project({2}, P5))),
     Aggregate({1}, {Spec1("count", <<"rows">>, FALSE, 5), Spec1("max", y, FALSE, 6)}, Always, P5),
     Aggregate({}, {Spec1("count", <<"rows">>, FALSE, 5), Spec1("sum", z, TRUE, 6),
                    Spec1("avg", z, FALSE, 7), Spec1("sample", z, FALSE, 8)}, Always, P6),
     Aggregate({3}, {Spec1("count", <<"rows">>, TRUE, 5), Spec1("min", x, FALSE, 6)},
               <<"<", One, V(5)>>, P6),
     OrderBy(<<<<3, TRUE>>>>, LeftJoin(P5, P6, Always)),
     OrderBy(<<<<3, TRUE>>, <<4, FALSE>>>>, Bgp(<<<<x, w, y>>, <<x, I(6), z>>>>)),
     Slice(1, <<2>>, P5), Slice(0, <<>>, P6),
     Extend(4, <<"arith", "/", z, One>>, P6),
     Graph(V(4), P5), Graph(I(9), P6), Join(Graph(V(4), P6), P5),
     Join(P5, Service(I(3))), LeftJoin(P6, Service(x), Always),
     Join([op |-> "values", rows |-> <<[u \in {1} |-> I(1)], [u \in {1} |-> I(8)]>>], P5)}

Query(kind, algebra) ==
    [kind |-> kind, algebra |-> algebra, columns |-> <<>>, from |-> <<>>, fromNamed |-> <<>>,
     tenant |-> <<>>, template |-> <<>>, ops |-> <<>>]

Tenant == [graph |-> 9, owned |-> {9}]

\* Updates: <<>> and <<9>> and <<10>> are graph references.
At(g, t) == [g |-> g, t |-> t]
InsertData(ps) == [kind |-> "insert", patterns |-> ps]
DeleteData(ps) == [kind |-> "delete", patterns |-> ps]
Modify(with, delete, insert, where) ==
    [kind |-> "modify", with |-> with, using |-> <<>>, usingNamed |-> <<>>, delete |-> delete, insert |-> insert, where |-> where]
DeleteWhere(with, ps) == [kind |-> "deletewhere", with |-> with, using |-> <<>>, usingNamed |-> <<>>, patterns |-> ps]
Transfer(how, from, to) == [kind |-> "transfer", how |-> how, from |-> from, to |-> to]
Clear(target, g) == [kind |-> "clear", target |-> target, graph |-> g]
Load(source, into) == [kind |-> "load", source |-> source, into |-> into]
Create(g) == [kind |-> "create", graph |-> g]

Swap == Modify(<<>>, <<At(<<>>, <<x, I(5), y>>)>>, <<At(<<>>, <<y, I(5), x>>), At(<<9>>, <<x, I(5), <<"label", 4>>>>)>>, P5)
Updates ==
    {<<InsertData(<<At(<<>>, <<I(1), I(5), I(2)>>), At(<<9>>, <<<<"node", 8>>, I(5), I(2)>>)>>), DeleteData(<<At(<<9>>, <<I(2), I(6), Literal("integer", 20)>>)>>)>>,
     <<Swap>>,
     <<Modify(<<9>>, <<At(<<>>, <<x, I(6), z>>)>>, <<At(<<9>>, <<x, I(5), z>>), At(<<>>, <<z, I(5), x>>)>>, P6)>>,
     <<[Modify(<<>>, <<>>, <<At(<<>>, <<x, w, y>>)>>, Bgp(<<<<x, w, y>>>>)) EXCEPT !.using = <<9>>]>>,
     <<Modify(<<>>, <<At(<<10>>, <<x, I(5), y>>)>>, <<>>, Graph(I(10), P5))>>,
     <<DeleteWhere(<<>>, <<At(<<>>, <<x, I(5), y>>), At(<<9>>, <<x, I(5), z>>)>>)>>,
     <<DeleteWhere(<<9>>, <<At(<<>>, <<x, I(6), z>>)>>), Transfer("add", <<>>, <<9>>)>>,
     <<InsertData(<<At(<<9>>, <<I(1), I(5), I(2)>>)>>), Clear("all", <<>>)>>,
     <<Transfer("move", <<>>, <<9>>)>>,
     <<InsertData(<<At(<<10>>, <<I(1), I(5), x>>)>>)>>,
     <<Transfer("copy", <<9>>, <<>>), Clear("graph", <<9>>), Transfer("add", <<>>, <<9>>)>>,
     <<Transfer("copy", <<9>>, <<10>>), Clear("default", <<>>), Transfer("move", <<10>>, <<>>)>>,
     <<Clear("named", <<>>), Create(<<9>>), Load(<<9>>, <<>>)>>, <<Clear("all", <<>>), Load(<<10>>, <<9>>)>>}
Update(ops, tenant) == [Query("update", Identity) EXCEPT !.ops = ops, !.tenant = tenant]

MCRequests ==
    {Query("select", q) : q \in Bgps \cup Paths \cup Others}
    \cup {[Query("select", q) EXCEPT !.from = <<9>>, !.fromNamed = <<10>>] : q \in {Bgp(<<<<x, w, y>>>>), Graph(V(4), P5)}}
    \cup {[Query("select", q) EXCEPT !.tenant = <<Tenant>>] :
             q \in {P5, Graph(V(4), P5), Graph(I(10), P5), Join(Graph(I(9), P6), Graph(V(4), P5))}}
    \cup {[Query("select", Graph(V(4), P5)) EXCEPT !.tenant = <<Tenant>>, !.from = <<9>>, !.fromNamed = f] : f \in {<<>>, <<9>>, <<10>>}}
    \cup {[Query("construct", q) EXCEPT !.template = q.patterns] : q \in {P5, P6}}
    \cup {[Query("construct", P6) EXCEPT !.template = <<<<x, I(5), <<"label", 4>>>>, <<<<"label", 4>>, I(6), z>>>>]}
    \cup {Query("describe", Project({2}, P5)), Query("describe", Project({1}, P6)), Query("describe", [op |-> "values", rows |-> <<[u \in {1} |-> I(2)]>>]),
          Query("ask", Minus(P5, P6))}
    \cup {Update(ops, tenant) : ops \in Updates, tenant \in {<<>>, <<Tenant>>}}

MCStatistics == {RuleBased, [total |-> 8, subjects |-> 4, predicates |-> 2, objects |-> 6],
                            [total |-> 3, subjects |-> 3, predicates |-> 1, objects |-> 1]}

MCRemote == 3 :> <<[u \in {1, 4} |-> IF u = 1 THEN I(1) ELSE I(3)], [u \in {4} |-> I(2)]>>
=============================================================================
