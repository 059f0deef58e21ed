----------------------------- MODULE MCKnowledge -----------------------------
(***************************************************************************)
(* Requests to the reasoner and to the SHACL validator for model checking. *)
(* A behaviour is one request to one of them.                              *)
(***************************************************************************)
EXTENDS Reasoner, Shacl, TLC, Integers, Sequences, SequencesExt, FiniteSets, FiniteSetsExt

VARIABLE scene
knowledgeVars == <<scene, reasonerVars, shaclVars>>

NoTask == [dataset |-> <<>>, mode |-> "off", kind |-> "none"]

KnowledgeInit ==
    \/ /\ scene = "reason" /\ ReasonerInit /\ request = <<>> /\ report = <<>>
    \/ /\ scene = "validate" /\ ShaclInit
       /\ task = NoTask /\ closure = <<>> /\ seeded = {} /\ rounds = 0
       /\ inconsistent = FALSE /\ timedOut = FALSE /\ stage = "none"
KnowledgeNext ==
    \/ scene = "reason" /\ ReasonerNext /\ UNCHANGED <<scene, shaclVars>>
    \/ scene = "validate" /\ ShaclNext /\ UNCHANGED <<scene, reasonerVars>>
KnowledgeSpec == KnowledgeInit /\ [][KnowledgeNext]_knowledgeVars

(* ------------------------------ reasoning tasks -------------------------- *)

I(n) == <<"iri", n>>
B(n) == <<"blank", n>>
L(l) == <<"lit", l>>
Is(s, class) == <<s, "type", I(class)>>
Task(kind, input, limit, about) ==
    [kind |-> kind, dataset |-> "default" :> input, scope |-> <<>>, ontology |-> <<>>,
     mode |-> "forward", limit |-> limit, budget |-> FALSE, about |-> about]

MCLiteralKey == "one" :> "1" @@ "uno" :> "1" @@ "zero" :> "0" @@ "bad" :> "none"

List1(c1, c2, m1, m2) == <<<<c1, "first", I(m1)>>, <<c1, "rest", B(c2)>>, <<c2, "first", I(m2)>>>>
On(r, p) == <<r, "onProperty", I(p)>>

\* Premises and conclusion of the rules, as the tables of the OWL 2 profile
\* give them; each premise is needed.
Lessons == {
    <<<<<<"p", "domain", I("C")>>, <<"x", "p", I("y")>>>>, Is("x", "C")>>,
    <<<<<<"p", "range", I("C")>>, <<"x", "p", I("y")>>>>, Is("y", "C")>>,
    <<<<Is("p", "FunctionalProperty"), <<"x", "p", I("y")>>, <<"x", "p", I("z")>>>>, <<"z", "sameAs", I("y")>>>>,
    <<<<Is("p", "InverseFunctionalProperty"), <<"x", "p", I("z")>>, <<"y", "p", I("z")>>>>, <<"y", "sameAs", I("x")>>>>,
    <<<<Is("p", "SymmetricProperty"), <<"x", "p", I("y")>>>>, <<"y", "p", I("x")>>>>,
    <<<<Is("p", "TransitiveProperty"), <<"x", "p", I("y")>>, <<"y", "p", I("z")>>>>, <<"x", "p", I("z")>>>>,
    <<<<<<"p", "subPropertyOf", I("q")>>, <<"x", "p", I("y")>>>>, <<"x", "q", I("y")>>>>,
    <<<<<<"p", "equivalentProperty", I("q")>>, <<"x", "q", I("y")>>>>, <<"x", "p", I("y")>>>>,
    <<<<<<"p", "inverseOf", I("q")>>, <<"x", "q", I("y")>>>>, <<"y", "p", I("x")>>>>,
    <<List1("_l1", "_l2", "q", "r") \o
      <<<<"p", "propertyChainAxiom", B("_l1")>>, <<"x", "q", I("y")>>, <<"y", "r", I("z")>>>>, <<"x", "p", I("z")>>>>,
    <<<<<<"_l1", "first", I("q")>>, <<"C", "hasKey", B("_l1")>>, Is("x", "C"), Is("y", "C"),
        <<"x", "q", I("z")>>, <<"y", "q", I("z")>>>>, <<"x", "sameAs", I("y")>>>>,
    <<<<<<"C", "subClassOf", I("D")>>, <<"D", "equivalentClass", I("E")>>, Is("x", "C")>>, Is("x", "E")>>,
    <<List1("_l1", "_l2", "C", "D") \o
      <<<<"E", "intersectionOf", B("_l1")>>, Is("x", "E")>>, Is("x", "D")>>,
    <<<<<<"_l1", "first", I("C")>>, <<"E", "intersectionOf", B("_l1")>>, Is("x", "C")>>, Is("x", "E")>>,
    <<List1("_l1", "_l2", "C", "D") \o
      <<<<"E", "unionOf", B("_l1")>>, Is("x", "D")>>, Is("x", "E")>>,
    <<List1("_l1", "_l2", "x", "y") \o <<<<"E", "oneOf", B("_l1")>>>>, Is("y", "E")>>,
    <<<<On("_r", "p"), <<"_r", "someValuesFrom", I("C")>>, <<"x", "p", I("y")>>, Is("y", "C")>>, <<"x", "type", B("_r")>>>>,
    <<<<On("_r", "p"), <<"_r", "allValuesFrom", I("C")>>, <<"x", "p", I("y")>>, <<"x", "type", B("_r")>>>>, Is("y", "C")>>,
    <<<<On("_r", "p"), <<"_r", "hasValue", I("y")>>, <<"x", "type", B("_r")>>>>, <<"x", "p", I("y")>>>>,
    <<<<On("_r", "p"), <<"_r", "hasValue", L("one")>>, <<"x", "p", L("uno")>>>>, <<"x", "type", B("_r")>>>>,
    <<<<On("_r", "p"), <<"_r", "maxCardinality", L("one")>>, <<"x", "type", B("_r")>>,
        <<"x", "p", I("y")>>, <<"x", "p", I("z")>>>>, <<"y", "sameAs", I("z")>>>>,
    <<<<On("_r", "p"), <<"_r", "maxQualifiedCardinality", L("one")>>, <<"_r", "onClass", I("C")>>, <<"x", "type", B("_r")>>,
        <<"x", "p", I("y")>>, <<"x", "p", I("z")>>, Is("y", "C"), Is("z", "C")>>, <<"y", "sameAs", I("z")>>>>,
    <<<<On("_r", "p"), On("_s", "q"), <<"p", "subPropertyOf", I("q")>>, <<"_r", "hasValue", I("y")>>,
        <<"_s", "hasValue", I("y")>>>>, <<"_r", "subClassOf", B("_s")>>>>,
    <<<<On("_r", "p"), On("_s", "p"), <<"C", "subClassOf", I("D")>>, <<"_r", "someValuesFrom", I("C")>>,
        <<"_s", "someValuesFrom", I("D")>>>>, <<"_r", "subClassOf", B("_s")>>>>,
    <<<<On("_r", "p"), On("_s", "q"), <<"p", "subPropertyOf", I("q")>>, <<"_r", "allValuesFrom", I("C")>>,
        <<"_s", "allValuesFrom", I("C")>>>>, <<"_s", "subClassOf", B("_r")>>>>,
    <<<<<<"C", "domain", I("D")>>, <<"p", "subPropertyOf", I("C")>>, <<"D", "subClassOf", I("E")>>>>, <<"p", "domain", I("E")>>>>,
    <<<<<<"p", "subPropertyOf", I("q")>>, <<"q", "subPropertyOf", I("p")>>>>, <<"q", "equivalentProperty", I("p")>>>> }

Absurdities == {
    <<<<"C", "subClassOf", I("Nothing")>>, Is("x", "C")>>,
    <<<<"C", "disjointWith", I("D")>>, Is("x", "C"), Is("x", "D")>>,
    <<<<"C", "complementOf", I("D")>>, <<"E", "subClassOf", I("D")>>, Is("x", "C"), Is("x", "E")>>,
    List1("_l1", "_l2", "C", "D") \o <<<<"_n", "members", B("_l1")>>, Is("_n", "AllDisjointClasses"), Is("x", "C"), Is("x", "D")>>,
    <<<<"x", "sameAs", I("y")>>, <<"y", "sameAs", I("z")>>, <<"z", "differentFrom", I("x")>>>>,
    List1("_l1", "_l2", "x", "y") \o <<<<"_n", "distinctMembers", B("_l1")>>, Is("_n", "AllDifferent"), <<"y", "sameAs", I("x")>>>>,
    <<Is("p", "IrreflexiveProperty"), <<"x", "q", I("x")>>, <<"q", "subPropertyOf", I("p")>>>>,
    <<Is("p", "AsymmetricProperty"), <<"x", "p", I("y")>>, <<"y", "p", I("x")>>>>,
    <<<<"p", "propertyDisjointWith", I("q")>>, <<"x", "p", I("y")>>, <<"x", "q", I("y")>>>>,
    List1("_l1", "_l2", "p", "q") \o <<<<"_n", "members", B("_l1")>>, Is("_n", "AllDisjointProperties"),
                                       <<"x", "p", I("y")>>, <<"x", "q", I("y")>>>>,
    <<<<"_n", "sourceIndividual", I("x")>>, <<"_n", "assertionProperty", I("p")>>, <<"_n", "targetIndividual", I("y")>>, <<"x", "p", I("y")>>>>,
    <<On("_r", "p"), <<"_r", "maxCardinality", L("zero")>>, <<"x", "type", B("_r")>>, <<"x", "p", I("y")>>>>,
    <<On("_r", "p"), <<"_r", "maxQualifiedCardinality", L("zero")>>, <<"_r", "onClass", I("C")>>, <<"x", "type", B("_r")>>,
      <<"x", "p", I("y")>>, Is("y", "C")>>,
    <<<<"x", "p", L("bad")>>>> }

\* Each lesson with all its premises, and without one of them; a restriction
\* without a class qualifies every value.
Whole(input) ==
    {<<input, TRUE>>}
    \cup {<<RemoveAt(input, i), FALSE>> : i \in {j \in DOMAIN input : input[j][2] # "onClass"}}
LessonTasks == UNION {{Task("lesson", w[1], 6, <<l[2], w[2]>>) : w \in Whole(l[1])} : l \in Lessons}
AbsurdTasks == UNION {{Task("absurd", w[1], limit, w[2]) : w \in Whole(a)} : a \in Absurdities, limit \in {1, 6}}

\* Class hierarchies, with and without equivalence and a cycle.
Hierarchy == <<<<"A", "subClassOf", I("B")>>, <<"B", "subClassOf", I("C")>>, <<"C", "subClassOf", I("A")>>,
               <<"D", "equivalentClass", I("B")>>, Is("x", "A"), Is("y", "D")>>
Chosen(list, S) == SelectSeq([i \in DOMAIN list |-> <<i, list[i]>>], LAMBDA e : e[1] \in S)
Part(list, S) == LET c == Chosen(list, S) IN [i \in DOMAIN c |-> c[i][2]]
HierarchyTasks == {Task("classes", Part(Hierarchy, S), 9, {}) : S \in SUBSET (1..6)}

\* Equal individuals, one equal to a property.
Equalities == <<<<"x", "sameAs", I("y")>>, <<"z", "sameAs", I("y")>>, <<"x", "p", I("w")>>, <<"w", "q", I("z")>>, <<"w", "sameAs", B("_b")>>>>
EqualityTasks == {Task("equal", Part(Equalities, S), limit, {}) : S \in SUBSET (1..5), limit \in {9}}

\* Two tenants, one shared ontology graph and a default graph of neither.
TenantData == "default" :> <<<<"u", "secret", I("v")>>, <<"secret", "domain", I("S")>>>>
    @@ "mine" :> <<Is("x", "C"), <<"x", "p", I("y")>>>>
    @@ "mineToo" :> <<<<"y", "p", I("z")>>, Is("x", "C")>>
    @@ "theirs" :> <<<<"v", "p", I("w")>>, <<"C", "subClassOf", I("Theirs")>>>>
    @@ "tbox" :> <<<<"C", "subClassOf", I("D")>>, Is("p", "TransitiveProperty"), Is("x", "C")>>
TenantTasks ==
    {[kind |-> "tenant", dataset |-> TenantData, scope |-> s, ontology |-> o, mode |-> m,
      limit |-> limit, budget |-> TRUE, about |-> {}] :
        s \in {<<>>, <<<<"mine">>>>, <<<<"mine", "mineToo">>>>}, o \in {<<>>, <<"tbox">>},
        m \in {"off", "forward"}, limit \in {1, 9}}

(* Worlds: what is true of two individuals, and axioms true in the world.    *)
Worlds == [C : SUBSET {"a", "b"}, D : SUBSET {"a", "b"}, p : SUBSET {<<"a", "b">>, <<"b", "a">>, <<"b", "b">>}]
Members(w, class) == IF class = "C" THEN w.C ELSE w.D
Objects(w, x) == {y \in {"a", "b"} : <<x, y>> \in w.p}

\* Axioms with the reading that makes them true, and the extension of _r.
WorldAxioms(w) ==
    LET r(ext) == {<<x, "type", B("_r")>> : x \in ext}
        all == {x \in {"a", "b"} : Objects(w, x) \subseteq w.D}
        one == {x \in {"a", "b"} : Cardinality(Objects(w, x)) <= 1}
        value == {x \in {"a", "b"} : "b" \in Objects(w, x)}
    IN  {e \in {<<w.C \subseteq w.D, <<<<"C", "subClassOf", I("D")>>>>, {}>>,
                <<w.C = w.D, <<<<"C", "equivalentClass", I("D")>>>>, {}>>,
                <<\A e \in w.p : e[1] \in w.C, <<<<"p", "domain", I("C")>>>>, {}>>,
                <<\A e \in w.p : e[2] \in w.D, <<<<"p", "range", I("D")>>>>, {}>>,
                <<\A e \in w.p : <<e[2], e[1]>> \in w.p, <<Is("p", "SymmetricProperty")>>, {}>>,
                <<\A e, f \in w.p : e[2] = f[1] => <<e[1], f[2]>> \in w.p, <<Is("p", "TransitiveProperty")>>, {}>>,
                <<\A e, f \in w.p : e[1] = f[1] => e[2] = f[2], <<Is("p", "FunctionalProperty")>>, {}>>,
                <<\A e, f \in w.p : e[2] = f[2] => e[1] = f[1], <<Is("p", "InverseFunctionalProperty")>>, {}>>,
                <<\A e \in w.p : e[1] # e[2], <<Is("p", "IrreflexiveProperty")>>, {}>>,
                <<\A e \in w.p : <<e[2], e[1]>> \notin w.p, <<Is("p", "AsymmetricProperty")>>, {}>>,
                <<w.C \cap w.D = {}, <<<<"C", "disjointWith", I("D")>>>>, {}>>,
                <<TRUE, <<On("_r", "p"), <<"_r", "allValuesFrom", I("D")>>>>, r(all)>>,
                <<TRUE, <<On("_r", "p"), <<"_r", "maxCardinality", L("one")>>>>, r(one)>>,
                <<TRUE, <<On("_r", "p"), <<"_r", "hasValue", I("b")>>>>, r(value)>>,
                <<TRUE, List1("_l1", "_l2", "C", "D") \o <<<<"_r", "intersectionOf", B("_l1")>>>>, r(w.C \cap w.D)>>,
                <<TRUE, List1("_l1", "_l2", "C", "D") \o <<<<"_r", "unionOf", B("_l1")>>>>, r(w.C \cup w.D)>>,
                <<w.D = {"a", "b"}, List1("_l1", "_l2", "a", "b") \o <<<<"D", "oneOf", B("_l1")>>>>, {}>>}
        : e[1]}
Facts(w) == {Is(x, "C") : x \in w.C} \cup {Is(x, "D") : x \in w.D} \cup {<<e[1], "p", I(e[2])>> : e \in w.p}
\* The input leaves out what the world says of D.
WorldTask(w, e) ==
    Task("world", e[2] \o SetToSeq({t \in Facts(w) \cup e[3] : t[3] # I("D")}), 6, Facts(w) \cup e[3])
WorldTasks == UNION {{WorldTask(w, e) : e \in WorldAxioms(w)} : w \in Worlds}

MCTasks == LessonTasks \cup AbsurdTasks \cup HierarchyTasks \cup EqualityTasks \cup TenantTasks \cup WorldTasks

(* ---------------------------- validation requests ------------------------ *)

X == I("x")  Y == I("y")  Z == I("z")
S == I("S")  P == B("P")  P2 == B("P2")  M == I("M")  N == I("N")
Says(s, p, o) == <<s, p, o>>
List2(c1, c2, m1, m2) == <<Says(c1, "first", m1), Says(c1, "rest", c2), Says(c2, "first", m2)>>
Request(kind, shapes, data, about) ==
    [kind |-> kind, shapes |-> shapes, data |-> data, limit |-> 50, about |-> about]

Number(type, n) == [datatype |-> type, valid |-> TRUE, family |-> "number", order |-> n, text |-> <<"1">>, lang |-> <<>>]
Word(chars, lang) == [datatype |-> IF lang = <<>> THEN "string" ELSE "langString", valid |-> TRUE,
                      family |-> IF lang = <<>> THEN "string" ELSE "none", order |-> Len(chars), text |-> chars, lang |-> lang]
Truth == [datatype |-> "boolean", valid |-> TRUE, family |-> "none", order |-> 1, text |-> <<>>, lang |-> <<>>]
Pattern(tokens, start, end) ==
    [datatype |-> "string", valid |-> TRUE, family |-> "none", order |-> 0, lang |-> <<>>,
     text |-> [tokens |-> tokens, start |-> start, end |-> end]]

MCLiteralInfo ==
    "n1" :> Number("integer", 1) @@ "n2" :> Number("integer", 2) @@ "d2" :> Number("decimal", 2)
    @@ "true" :> Truth @@ "i" :> Word(<<"i">>, <<>>) @@ "en" :> Word(<<"en">>, <<>>)
    @@ "aEn" :> Word(<<"a">>, <<"en", "NZ">>) @@ "bEn" :> Word(<<"b">>, <<"en", "NZ">>)
    @@ "e" :> Word(<<>>, <<>>) @@ "a" :> Word(<<"a">>, <<>>) @@ "aa" :> Word(<<"a", "a">>, <<>>)
    @@ "ab" :> Word(<<"a", "b">>, <<>>) @@ "b1" :> Word(<<"b", "1">>, <<>>) @@ "aba" :> Word(<<"a", "b", "a">>, <<>>)
    @@ "A" :> Word(<<"A">>, <<>>)
    @@ "any" :> Pattern(<<<<<<"any", {}>>, 0, -1>>>>, TRUE, TRUE)
    @@ "a+b" :> Pattern(<<<<<<"literal", "a">>, 1, -1>>, <<<<"literal", "b">>, 1, 1>>>>, FALSE, FALSE)
    @@ "^a?b" :> Pattern(<<<<<<"literal", "a">>, 0, 1>>, <<<<"literal", "b">>, 1, 1>>>>, TRUE, FALSE)
    @@ "a{1,2}$" :> Pattern(<<<<<<"class", {"a"}>>, 1, 2>>>>, FALSE, TRUE)
    @@ "^.{2}a$" :> Pattern(<<<<<<"any", {}>>, 2, 2>>, <<<<"literal", "a">>, 1, 1>>>>, TRUE, TRUE)
    @@ "digit" :> Pattern(<<<<<<"digit", {}>>, 1, 1>>>>, FALSE, FALSE)
    @@ "^.*a$" :> Pattern(<<<<<<"any", {}>>, 0, -1>>, <<<<"literal", "a">>, 1, 1>>>>, TRUE, TRUE)
    @@ "^a*$" :> Pattern(<<<<<<"literal", "a">>, 0, -1>>>>, TRUE, TRUE)
Words == {"e", "a", "aa", "ab", "b1", "aba", "A"}
Patterns == {"any", "a+b", "^a?b", "a{1,2}$", "^.{2}a$", "digit", "^.*a$", "^a*$"}
MCIriText == [n \in {"x", "y", "z", "C", "D"} |-> <<"a", "b">>]
MCLowerCase == [c \in {"a", "b", "1", "i", "A"} |-> IF c = "A" THEN "a" ELSE c]

\* A shape that refers to itself along knows, over data with cycles.
Recursive == <<Says(S, "targetSubjectsOf", I("knows")), Says(S, "property", P), Says(S, "class", I("C")),
               Says(P, "path", I("knows")), Says(P, "node", S)>>
Network == <<Says(X, "knows", Y), Says(Y, "knows", Z), Says(Z, "knows", X), Says(X, "type", I("C")),
             Says(Y, "type", I("C")), Says(Z, "type", I("D")), Says(I("D"), "subClassOf", I("E")),
             Says(I("E"), "subClassOf", I("C"))>>
RecursiveRequests == {Request("recursive", Recursive, Part(Network, K), {}) : K \in SUBSET (1..8)}

\* Every instance is reported, as it is no literal.
TargetRequests ==
    {Request("target", <<Says(S, "targetClass", I("C")), Says(S, "nodeKind", I("Literal"))>>, Part(Network, K), {}) :
        K \in {J \in SUBSET (1..8) : {1, 2} \subseteq J}}

\* Paths as triples and as what they mean; every value of the path is reported.
pKnows == <<"pred", "knows">>  pType == <<"pred", "type">>
PathCases == {
    <<<<Says(P, "path", I("knows"))>>, pKnows>>,
    <<<<Says(P, "path", B("_a")), Says(B("_a"), "inversePath", I("knows"))>>, <<"inversePath", pKnows>>>>,
    <<<<Says(P, "path", B("_a"))>> \o List2(B("_a"), B("_b"), I("knows"), I("type")), <<"seq", <<pKnows, pType>>>>>>,
    <<<<Says(P, "path", B("_c")), Says(B("_c"), "inversePath", B("_a"))>> \o List2(B("_a"), B("_b"), I("knows"), I("type")),
      <<"inversePath", <<"seq", <<pKnows, pType>>>>>>>>,
    <<<<Says(P, "path", B("_c")), Says(B("_c"), "alternativePath", B("_a"))>> \o List2(B("_a"), B("_b"), I("knows"), I("type")),
      <<"alternativePath", <<pKnows, pType>>>>>>,
    <<<<Says(P, "path", B("_c")), Says(B("_c"), "zeroOrMorePath", B("_a")), Says(B("_a"), "inversePath", I("knows"))>>,
      <<"zeroOrMorePath", <<"inversePath", pKnows>>>>>>,
    <<<<Says(P, "path", B("_c")), Says(B("_c"), "oneOrMorePath", I("knows"))>>, <<"oneOrMorePath", pKnows>>>>,
    <<<<Says(P, "path", B("_c")), Says(B("_c"), "zeroOrOnePath", I("knows"))>>, <<"zeroOrOnePath", pKnows>>>> }
PathRequests ==
    {Request("path", <<Says(S, "targetNode", X), Says(S, "targetNode", I("C")), Says(S, "property", P), Says(P, "class", I("Never"))>> \o c[1],
             Part(Network, K), c[2]) : c \in PathCases, K \in SUBSET (1..4)}

\* Two sibling property shapes that count values of different shapes, in the shape of the target itself, in a
\* shape its values are to have, and nested in its property shape.
Counted(owner) ==
    <<Says(owner, "property", P), Says(owner, "property", P2)>>
    \o FlattenSeq([i \in 1..2 |->
          LET q == <<P, P2>>[i]  k == <<M, N>>[i]  c == <<"C", "D">>[i]
          IN  <<Says(q, "path", I("knows")), Says(q, "qualifiedValueShape", k), Says(q, "qualifiedMinCount", L("n1")),
                Says(q, "qualifiedValueShapesDisjoint", L("true")), Says(k, "class", I(c))>>])
Holder == <<Says(S, "targetNode", Z), Says(S, "property", B("_q")), Says(B("_q"), "path", I("holds"))>>
Siblings == {<<"own", <<Says(S, "targetNode", X)>> \o Counted(S)>>,
             <<"shared", Holder \o <<Says(B("_q"), "node", B("_t"))>> \o Counted(B("_t"))>>,
             <<"nested", Holder \o Counted(B("_q"))>>}
SiblingRequests ==
    {Request("siblings", c[2], <<Says(Z, "holds", X), Says(X, "knows", Y), Says(X, "knows", Z)>> \o SetToSeq(K), c[1]) :
        c \in Siblings,
        K \in SUBSET {Says(Y, "type", I("C")), Says(Y, "type", I("D")), Says(Z, "type", I("C")), Says(Z, "type", I("D"))}}

PatternRequests ==
    {Request("pattern", <<Says(S, "targetObjectsOf", I("name")), Says(S, "pattern", L(p))>> \o flags,
             SetToSeq({Says(X, "name", L(w)) : w \in Words}), <<p, flags # <<>>>>) :
        p \in Patterns, flags \in {<<>>, <<Says(S, "flags", L("i"))>>}}

\* The values of p meet exactly one of a shape and its negation.
Middle(constraint) ==
    <<Says(S, "targetNode", X), Says(S, "property", P), Says(P, "path", I("p")), Says(P, "xone", B("_a"))>>
    \o List2(B("_a"), B("_b"), M, N) \o <<Says(N, "not", M)>> \o constraint
MiddleRequests ==
    {Request("middle", Middle(c), <<Says(X, "p", L("n1")), Says(X, "p", L("d2")), Says(X, "p", L("aEn")), Says(X, "p", L("bEn")), Says(X, "p", Y),
                                    Says(X, "p", B("_b")), Says(Y, "p", L("n2")), Says(Y, "q", L("n1"))>>, {}) :
        c \in {<<Says(M, "minInclusive", L("n2"))>>, <<Says(M, "maxExclusive", L("n2"))>>, <<Says(M, "datatype", I("integer"))>>,
               <<Says(M, "in", B("_d")), Says(B("_d"), "first", Y)>>, <<Says(M, "nodeKind", I("BlankNodeOrIRI"))>>,
               <<Says(M, "maxLength", L("n1"))>>, <<Says(M, "languageIn", B("_c")), Says(B("_c"), "first", L("en"))>>,
               <<Says(M, "hasValue", Y), Says(M, "class", I("C"))>>, <<Says(M, "closed", L("true")), Says(M, "property", P2), Says(P2, "path", I("p"))>>,
               <<Says(M, "property", P2), Says(P2, "path", I("p")), Says(P2, "lessThan", I("q"))>>,
               <<Says(M, "path", I("p")), Says(M, "minCount", L("n1")), Says(M, "uniqueLang", L("true"))>>,
               <<Says(M, "equals", I("p"))>>, <<Says(M, "disjoint", I("q")), Says(M, "deactivated", L("true"))>>}}

MCValidations == RecursiveRequests \cup TargetRequests \cup PathRequests \cup SiblingRequests \cup PatternRequests \cup MiddleRequests

(* -------------------------- properties: reasoning ------------------------ *)

Reasoned(kind) == task.kind = kind /\ stage = "done" /\ ~timedOut
RECURSIVE Reach(_, _)
Reach(E, from) ==
    LET next == from \cup {e[2] : e \in {f \in E : f[1] \in from}}
    IN  IF next = from THEN from ELSE Reach(E, next)

\* Every premise of a rule is needed and together they are enough: the
\* conclusion is in the closure exactly when none is missing.
LessonsLearnt == Reasoned("lesson") => (task.about[1] \in Knowledge.all <=> task.about[2])

\* The individuals of a hierarchy get exactly the classes that lead up from
\* their own along subClassOf and equivalentClass, whatever cycles there are.
HierarchyExact ==
    Reasoned("classes") =>
        LET input == ToSet(ReasoningInput(task))
            same == IriPairs(input, "equivalentClass")
            up == IriPairs(input, "subClassOf") \cup same \cup Flipped(same)
        IN  \A v \in {"x", "y"} :
                {c \in {"A", "B", "C", "D"} : Is(v, c) \in Knowledge.all}
                = Reach(up, {c \in {"A", "B", "C", "D"} : Is(v, c) \in input})

\* sameAs comes out as the equivalence the input generates, and a statement
\* holds of every individual equal to the one it was made of.
EqualityIsCongruence ==
    Reasoned("equal") =>
        LET input == ToSet(ReasoningInput(task))
            pairs == NodePairs(input, "sameAs")
            classOf(n) == Reach(pairs \cup Flipped(pairs), {n})
            involved == {e[1] : e \in pairs} \cup {e[2] : e \in pairs}
        IN  /\ NodePairs(Knowledge.all, "sameAs") = {e \in involved \X involved : e[2] \in classOf(e[1])}
            /\ \A r \in {"p", "q"} :
                  NodePairs(Knowledge.all, r) = UNION {classOf(e[1]) \X classOf(e[2]) : e \in NodePairs(input, r)}

\* The verdict is about the closure that is returned, after one round as well
\* as at the end, and every absurdity is found once its premises are there.
VerdictMatchesClosure ==
    /\ stage = "done" /\ ~timedOut /\ task.mode # "off" => (inconsistent <=> Clash(Knowledge.all, Knowledge))
    /\ Reasoned("absurd") /\ task.limit > 1 => (inconsistent <=> task.about)

\* The report counts the triples of the closure that neither the input nor
\* the background knowledge holds, also where the input repeats itself.
CountIsDerived ==
    stage = "done" /\ task.mode # "off" =>
        LET input == ToSet(ReasoningInput(task))
        IN  Inferred = Cardinality({t \in Knowledge.all \ (input \cup Axioms) :
                           ~IsResourceTyping(t) \/ <<t[1], "type", I("Resource")>> \in input})

\* Inference for a tenant never observes what only other graphs say: no name
\* of theirs comes up in the closure or in an overlaid graph of the tenant.
Names(list) == UNION {{list[i][1], list[i][2], list[i][3][2]} : i \in DOMAIN list}
TenantInferenceIsolated ==
    task.kind = "tenant" /\ task.scope # <<>> =>
        LET visible == ToSet(task.scope[1]) \cup ToSet(task.ontology)
            hidden == UNION {Names(TenantData[g]) : g \in (DOMAIN TenantData) \ visible}
            known == UNION {Names(TenantData[g]) : g \in visible}
                     \cup {"type", "subClassOf", "domain", "Resource"}
        IN  \A g \in ToSet(task.scope[1]) : Names(closure \o Overlay(g)) \cap (hidden \ known) = {}

\* What is derived of the individuals of a world is true in it, and a world
\* is no contradiction.
InferenceSound ==
    task.kind = "world" =>
        /\ \A t \in Knowledge.all :
              t[1] \in {"a", "b"} /\ (t[2] = "p" \/ (t[2] = "type" /\ t[3] \in {I("C"), I("D"), B("_r")})) => t \in task.about
        /\ \A e \in NodePairs(Knowledge.all, "sameAs") : e[1] \in {"a", "b"} => e[1] = e[2]
        /\ ~inconsistent

(* -------------------------- properties: validation ----------------------- *)

Reported(kind) == report # <<>> /\ request.kind = kind
Sample == Sampled(request)

\* A shape that refers to itself is met by the largest set of nodes that is
\* closed under what the shape asks, also along a cycle of nodes.
RecursionIsGreatestFixpoint ==
    Reported("recursive") =>
        LET local == {v \in {X, Y, Z} : IsInstanceOf(Sample, v, I("C"))}
            closed(V) == \A v \in V : EvalPath(Sample, pKnows, {v}, FALSE) \subseteq V
            greatest == UNION {V \in SUBSET local : closed(V)}
        IN  report[1].conforms <=> \A t \in Sample : t[2] = "knows" => t[1] \in greatest

\* The targets of a class are the subjects whose type leads up to it.
ClassTargetsExact ==
    Reported("target") =>
        {r.focus : r \in report[1].results} =
            {t[1] : t \in {u \in Sample : u[2] = "type" /\ I("C") \in
                Reach({<<v[1], v[3]>> : v \in {w \in Sample : w[2] = "subClassOf"}}, {u[3]})}}

\* The relation a path stands for, on the nodes of the data.
RECURSIVE Related(_, _)
Related(D, path) ==
    LET nodes == {t[1] : t \in D} \cup {t[3] : t \in D} \cup {X, I("C")}
        arg == path[2]
        identity == {<<n, n>> : n \in nodes}
        plus(R) == UNION {{n} \X Reach(R, {e[2] : e \in {f \in R : f[1] = n}}) : n \in nodes}
    IN  CASE path[1] = "pred" -> {<<t[1], t[3]>> : t \in {u \in D : u[2] = arg}}
          [] path[1] = "inversePath" -> Flipped(Related(D, arg))
          [] path[1] = "seq" -> Composed(Related(D, arg[1]), Related(D, arg[2]))
          [] path[1] = "alternativePath" -> UNION {Related(D, arg[i]) : i \in DOMAIN arg}
          [] path[1] = "zeroOrOnePath" -> identity \cup Related(D, arg)
          [] path[1] = "oneOrMorePath" -> plus(Related(D, arg))
          [] path[1] = "zeroOrMorePath" -> identity \cup plus(Related(D, arg))

\* A path, however it nests inverses, sequences and closures, leads from a
\* focus node to the nodes its relation pairs with it.
PathValuesExact ==
    Reported("path") =>
        {<<r.focus, r.value[1]>> : r \in report[1].results} =
            {e \in Related(Sample, request.about) : e[1] \in {X, I("C")}}

\* A value counts for at most one of two sibling shapes that exclude each other, and each sibling without one is
\* reported, or the value whose shape owns it; those nested in a property shape count nothing, and nothing is
\* reported of them (qualified_value_context).
SiblingsCountApart ==
    Reported("siblings") =>
        LET in(c) == {v \in {Y, Z} : <<v, "type", I(c)>> \in Sample}
            short == (IF in("C") \subseteq in("D") THEN {P} ELSE {}) \cup (IF in("D") \subseteq in("C") THEN {P2} ELSE {})
        IN  {r.shape : r \in report[1].results} =
                CASE request.about = "own" -> short
                  [] request.about = "shared" -> IF short = {} THEN {} ELSE {B("_q")}
                  [] request.about = "nested" -> {}

\* The ends of the matches of tokens from each of the places in from.
RECURSIVE Ends(_, _, _)
Ends(tokens, text, from) ==
    IF tokens = <<>> THEN from
    ELSE LET t == tokens[1]
             most == IF t[3] = -1 THEN Len(text) ELSE t[3]
         IN  Ends(Tail(tokens), text,
                  UNION {{i + k : k \in {n \in t[2]..most : /\ i + n <= Len(text) + 1
                                                          /\ \A m \in i..(i + n - 1) : AtomMatches(t[1], text[m])}} : i \in from})

\* A pattern accepts the texts in which its tokens match somewhere, between
\* the anchors it has; ignoring case does not change that for lower case.
PatternExact ==
    Reported("pattern") =>
        LET pattern == MCLiteralInfo[request.about[1]].text
            ends(text) == Ends(pattern.tokens, text, IF pattern.start THEN {1} ELSE 1..(Len(text) + 1))
            accepted(text) == IF pattern.end THEN Len(text) + 1 \in ends(text) ELSE ends(text) # {}
            read(w) == IF request.about[2] THEN LowerText(MCLiteralInfo[w].text) ELSE MCLiteralInfo[w].text
        IN  {r.value[1] : r \in report[1].results} = {L(w) : w \in {v \in Words : ~accepted(read(v))}}

\* Exactly one of a shape and its negation is met, whatever the constraint:
\* nothing offends a value without the value failing the shape.
ExcludedMiddle == Reported("middle") => report[1].conforms

\* The reasoner concludes what its rules entail, no more, for no other tenant
\* and with the verdict and the count of what it derived (run_owl_rl).
ReasonerExact ==
    /\ LessonsLearnt /\ HierarchyExact /\ EqualityIsCongruence /\ VerdictMatchesClosure
    /\ CountIsDerived /\ TenantInferenceIsolated /\ InferenceSound

\* A validation reports what the shapes say of the sampled graph, recursive,
\* qualified and negated ones too (ShaclEngine::validate).
ValidationExact ==
    /\ RecursionIsGreatestFixpoint /\ ClassTargetsExact /\ PathValuesExact
    /\ SiblingsCountApart /\ PatternExact /\ ExcludedMiddle
=============================================================================
