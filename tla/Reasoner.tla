------------------------------ MODULE Reasoner -------------------------------
(***************************************************************************)
(* The forward chaining reasoner as the gateway runs it (ontolith-         *)
(* reasoner, infrastructure/mod.rs, materialize; ontolith-server,          *)
(* reasoning.rs and app.rs, execute_sparql_with_inference): the input is   *)
(* assembled from the graphs the caller may read and the graphs of the     *)
(* configured ontology, the background axioms are seeded, rounds of all    *)
(* rules run until nothing is new or a guard stops them, and what is new   *)
(* overlays every read of the query.                                       *)
(*                                                                         *)
(* The triples that one round derives are appended in one fixed order; the *)
(* code appends them rule by rule.                                         *)
(*                                                                         *)
(* The RDFS and OWL 2 RL rules (apply_rules) come first: each operator is  *)
(* the set of triples one rule, or a family of rules, pushes for a         *)
(* closure; the clashes are the rules whose conclusion is a contradiction. *)
(*                                                                         *)
(* A node is its name; a triple is <<node, property, term>> with terms     *)
(* <<"iri", n>>, <<"blank", n>> and <<"lit", l>>. A closure g is the       *)
(* record of the list g.seq, which decides what a first match finds, and   *)
(* its set g.all. Vocabulary names drop their prefixes.                    *)
(***************************************************************************)
LOCAL INSTANCE Integers
LOCAL INSTANCE Sequences
LOCAL INSTANCE SequencesExt
LOCAL INSTANCE FiniteSetsExt
LOCAL INSTANCE FiniteSets

CONSTANTS
    BlankNodes,             \* names of blank nodes
    LiteralKey,             \* the data value of each literal, "none" without
    InvalidLiterals,        \* literals outside the value space of their type
    AnnotationProperties,   \* built-in annotation properties
    Datatypes               \* supported datatypes

Iri(n) == <<"iri", n>>
NodeTerm(n) == IF n \in BlankNodes THEN <<"blank", n>> ELSE Iri(n)
IsIri(t) == t[1] = "iri"
IsNode(t) == t[1] # "lit"

\* The name of every node is taken for an IRI, a blank node's as well: the
\* label _:b has the separator that Iri::parse asks for.
IriPairs(T, p) == {<<t[1], t[3][2]>> : t \in {u \in T : u[2] = p /\ IsIri(u[3])}}
NodePairs(T, p) == {<<t[1], t[3][2]>> : t \in {u \in T : u[2] = p /\ IsNode(u[3])}}
Instances(T, class) == {t[1] : t \in {u \in T : u[2] = "type" /\ u[3] = class}}
HasType(T, x, class) == <<x, "type", class>> \in T

FirstObject(g, s, p, Test(_)) ==
    LET hits == SelectSeq(g.seq, LAMBDA t : t[1] = s /\ t[2] = p /\ Test(t[3]))
    IN  IF hits = <<>> THEN <<>> ELSE <<hits[1][3]>>

\* What the restriction r says under p: the first statement counts.
Restricts(g, r, p, Test(_)) ==
    IF IsNode(r) /\ r = NodeTerm(r[2]) THEN FirstObject(g, r[2], p, Test) ELSE <<>>
AnyTerm(t) == TRUE
OnProperty(g, r) == Restricts(g, r, "onProperty", IsIri)
Restrictions(g, p) == {NodeTerm(t[1]) : t \in {u \in g.all : u[2] = p}}

\* The members of an RDF list, as far as its cells are well formed.
RECURSIVE ListFrom(_, _, _)
ListFrom(g, cell, seen) ==
    LET first == FirstObject(g, cell[2], "first", AnyTerm)
        rest == FirstObject(g, cell[2], "rest", AnyTerm)
    IN  IF cell \in seen \/ ~IsNode(cell) \/ first = <<>> THEN <<>>
        ELSE first \o (IF rest = <<>> THEN <<>> ELSE ListFrom(g, rest[1], seen \cup {cell}))
ListTerms(g, start) == ListFrom(g, start, {})
ListMembers(g, start) == SelectSeq(ListTerms(g, start), IsIri)

\* The pairs <<owner, members>> of the lists under p that have IRI members.
ListsOf(g, p) ==
    {l \in {<<t[1], ListMembers(g, t[3])>> : t \in {u \in g.all : u[2] = p}} : l[2] # <<>>}

\* Pairwise equality of the nodes hits[i], in the order they were met.
PairwiseSame(hits) ==
    {<<hits[ij[1]], "sameAs", NodeTerm(hits[ij[2]])>> :
        ij \in {p \in (DOMAIN hits) \X (DOMAIN hits) : p[1] < p[2]}}

Composed(P, Q) == {<<e[1][1], e[2][2]>> : e \in {f \in P \X Q : f[1][2] = f[2][1]}}
Flipped(P) == {<<e[2], e[1]>> : e \in P}
Edges(P, p) == {<<e[1], p, Iri(e[2])>> : e \in P}

(* -------------------------- schema and hierarchy ------------------------- *)

\* rdfs5, rdfs11.
Transitivity(g, p) == Edges(Composed(IriPairs(g.all, p), IriPairs(g.all, p)), p)

\* A statement under p holds under every property paired with p.
Restated(g, P) == {<<e[1][1], e[2][2], e[1][3]>> : e \in {f \in g.all \X P : f[1][2] = f[2][1]}}

\* prp-eqp, scm-eqp, scm-eqc: equivalence is mutual inclusion, both ways.
MutualInclusion(g, equivalent, inclusion) ==
    LET E == IriPairs(g.all, equivalent)
        I == IriPairs(g.all, inclusion)
    IN  Edges(E \cup Flipped(E), inclusion) \cup Edges(I \cap Flipped(I), equivalent)

\* scm-op, scm-dp.
PropertySchema(g) ==
    LET declared == UNION {Instances(g.all, Iri(c)) : c \in {"ObjectProperty", "DatatypeProperty", "Property"}}
    IN  {<<p, q, Iri(p)>> : p \in declared, q \in {"subPropertyOf", "equivalentProperty"}}

\* scm-cls.
ClassSchema(g) ==
    LET classes == Instances(g.all, Iri("Class"))
    IN  {<<c, p, Iri(c)>> : c \in classes, p \in {"subClassOf", "equivalentClass"}}
        \cup {<<c, "subClassOf", Iri("Thing")>> : c \in classes}
        \cup {<<"Nothing", "subClassOf", Iri(c)>> : c \in classes}

\* Mutant: the pairs are followed against their direction.
RetypedDownwards(g, P) == Edges(Composed(IriPairs(g.all, "type"), Flipped(P)), "type")

\* cax-eqc, cax-sco: the instances of a class along pairs of classes.
Retyped(g, P) == Edges(Composed(IriPairs(g.all, "type"), P), "type")

EquivalentTypes(g) ==
    LET E == IriPairs(g.all, "equivalentClass") IN Retyped(g, E \cup Flipped(E))

\* scm-dom2, scm-rng2 along subPropertyOf; scm-dom1, scm-rng1 along subClassOf.
DomainRangeSchema(g) ==
    LET down == IriPairs(g.all, "subPropertyOf")
        up == IriPairs(g.all, "subClassOf")
    IN  UNION {{<<e[1][1], p, e[2][3]>> :
                    e \in {f \in down \X {t \in g.all : t[2] = p} : f[1][2] = f[2][1]}}
               \cup Edges(Composed(IriPairs(g.all, p), up), p) : p \in {"domain", "range"}}

\* rdfs6, rdfs8, rdfs10, rdfs12, rdfs13.
RdfsSchema(g) ==
    {<<p, "subPropertyOf", Iri(p)>> : p \in Instances(g.all, Iri("Property"))}
    \cup {<<p, "subPropertyOf", Iri("member")>> : p \in Instances(g.all, Iri("ContainerMembershipProperty"))}
    \cup {<<c, "subClassOf", Iri("Resource")>> : c \in Instances(g.all, Iri("RdfsClass"))}
    \cup {<<c, "subClassOf", Iri(c)>> : c \in Instances(g.all, Iri("RdfsClass"))}
    \cup {<<d, "subClassOf", Iri("Literal")>> : d \in Instances(g.all, Iri("Datatype"))}

\* rdfs4a, rdfs4b, for the statements whose object is a node.
ResourceTypes(g) ==
    {<<x, "type", Iri("Resource")>> :
        x \in UNION {{t[1], t[3][2]} : t \in {u \in g.all : IsNode(u[3])}}}

(* -------------------------------- properties ----------------------------- *)

\* prp-inv1, prp-inv2, prp-symp: the subject comes back as an IRI.
InverseApplied(g) ==
    LET inverse == IriPairs(g.all, "inverseOf")
        symmetric == {<<p, p>> : p \in Instances(g.all, Iri("SymmetricProperty"))}
    IN  UNION {Edges(Flipped(IriPairs(g.all, e[1])), e[2]) :
                  e \in inverse \cup Flipped(inverse) \cup symmetric}

\* prp-trp.
TransitiveApplied(g) ==
    UNION {Transitivity(g, p) : p \in Instances(g.all, Iri("TransitiveProperty"))}

\* Mutant: values of an inverse functional property are taken for equal.
FunctionalAppliedSwapped(g) ==
    LET values(p, x) ==
            LET of == SelectSeq(g.seq, LAMBDA t : t[1] = x /\ t[2] = p /\ IsNode(t[3]))
            IN  [i \in DOMAIN of |-> of[i][3][2]]
        kinds == Instances(g.all, Iri("FunctionalProperty")) \cup Instances(g.all, Iri("InverseFunctionalProperty"))
    IN  UNION {PairwiseSame(values(px[1], px[2])) : px \in kinds \X {t[1] : t \in g.all}}

\* prp-fp and prp-ifp: values of one subject, subjects of one value, are equal.
FunctionalApplied(g) ==
    LET uses(p) == SelectSeq(g.seq, LAMBDA t : t[2] = p /\ IsNode(t[3]))
        values(p, x) == LET of == SelectSeq(uses(p), LAMBDA t : t[1] = x) IN [i \in DOMAIN of |-> of[i][3][2]]
        owners(p, y) == LET of == SelectSeq(uses(p), LAMBDA t : t[3][2] = y) IN [i \in DOMAIN of |-> of[i][1]]
    IN  UNION {PairwiseSame(values(px[1], px[2])) :
                  px \in Instances(g.all, Iri("FunctionalProperty")) \X {t[1] : t \in g.all}}
        \cup UNION {PairwiseSame(owners(py[1], py[2])) :
                  py \in Instances(g.all, Iri("InverseFunctionalProperty"))
                         \X {t[3][2] : t \in {u \in g.all : IsNode(u[3])}}}

\* prp-dom, prp-rng: of several domains or ranges the first is applied.
DomainRangeTypes(g) ==
    UNION {LET class(p) == FirstObject(g, t[2], p, IsIri)
           IN  {<<t[1], "type", c>> : c \in ToSet(class("domain"))}
               \cup {<<t[3][2], "type", c>> : c \in IF IsIri(t[3]) THEN ToSet(class("range")) ELSE {}}
           : t \in g.all}

\* prp-spo2: a chain of properties, from subject to last object.
ChainApplied(g) ==
    UNION {LET members == l[2]
               path == FoldLeft(LAMBDA P, p : Composed(P, NodePairs(g.all, p[2])),
                                NodePairs(g.all, members[1][2]), Tail(members))
           IN  {<<e[1], l[1], NodeTerm(e[2])>> : e \in path}
           : l \in ListsOf(g, "propertyChainAxiom")}

\* prp-key: instances of a class that share a value of every key property.
KeysApplied(g) ==
    LET agree(x, y, keys) ==
            \A i \in DOMAIN keys : \E t \in g.all :
                t[1] = x /\ t[2] = keys[i][2] /\ <<y, t[2], t[3]>> \in g.all
        members(l) == SelectSeq(g.seq, LAMBDA t : t[2] = "type" /\ t[3] = NodeTerm(l[1]))
    IN  UNION {{same \in PairwiseSame([i \in DOMAIN members(l) |-> members(l)[i][1]]) :
                   same[1] # same[3][2] /\ agree(same[1], same[3][2], l[2])}
               : l \in ListsOf(g, "hasKey")}

\* dt-eq: literals of the closure with one value stand in for each other.
LiteralsExchanged(g) ==
    LET literals == {t[3] : t \in {u \in g.all : ~IsNode(u[3])}}
    IN  {<<e[1][1], e[1][2], e[2]>> : e \in {f \in g.all \X literals :
            /\ ~IsNode(f[1][3])
            /\ LiteralKey[f[2][2]] # "none" /\ LiteralKey[f[1][3][2]] = LiteralKey[f[2][2]]}}

(* ----------------------------- class expressions ------------------------- *)

\* The nodes that x has under p.
Values(g, x, p) == {t[3][2] : t \in {u \in g.all : u[1] = x /\ u[2] = p /\ IsNode(u[3])}}

\* cls-svf1, cls-avf: from a typing with the restriction to its values.
ValuesTyped(g, from) ==
    UNION {LET p == OnProperty(g, t[3])
               c == Restricts(g, t[3], from, IsIri)
           IN  IF p = <<>> \/ c = <<>> THEN {}
               ELSE {<<y, "type", c[1]>> : y \in Values(g, t[1], p[1][2])}
           : t \in {u \in g.all : u[2] = "type"}}

\* cls-svf2.
SomeValuesOf(g) ==
    UNION {LET p == t[3][2]
               restriction == NodeTerm(t[1])
               c == Restricts(g, restriction, "someValuesFrom", IsIri)
           IN  IF c = <<>> THEN {}
               ELSE {<<e[1], "type", restriction>> :
                        e \in {f \in NodePairs(g.all, p) : HasType(g.all, f[2], c[1])}}
           : t \in {u \in g.all : u[2] = "onProperty" /\ IsIri(u[3])}}

\* cls-hv1, cls-hv2.
HasValueApplied(g) ==
    UNION {LET p == OnProperty(g, t[3])
               v == Restricts(g, t[3], "hasValue", AnyTerm)
           IN  IF p = <<>> \/ v = <<>> THEN {} ELSE {<<t[1], p[1][2], v[1]>>}
           : t \in {u \in g.all : u[2] = "type"}}
    \cup UNION {LET restriction == NodeTerm(h[1])
                    p == OnProperty(g, restriction)
                IN  {<<t[1], "type", restriction>> :
                        t \in {u \in g.all : p # <<>> /\ u[2] = p[1][2] /\ u[3] = h[3]}}
                : h \in {u \in g.all : u[2] = "hasValue"}}

\* Restrictions <<node, property, class>> to at most n values, of the class
\* "Thing" when the cardinality is not qualified.
AtMost(g, n) ==
    LET limit(p) == {r \in {NodeTerm(t[1]) : t \in {u \in g.all : u[2] = p /\ u[3] = <<"lit", n>>}} :
                        OnProperty(g, r) # <<>>}
        class(r) == LET c == Restricts(g, r, "onClass", IsIri) IN IF c = <<>> THEN Iri("Thing") ELSE c[1]
    IN  {<<r, OnProperty(g, r)[1][2], Iri("Thing")>> : r \in limit("maxCardinality")}
        \cup {<<r, OnProperty(g, r)[1][2], class(r)>> : r \in limit("maxQualifiedCardinality")}

Qualifies(T, y, class) == class = Iri("Thing") \/ HasType(T, y, class)

\* Mutant: the class of a qualified cardinality is not looked at.
AtMostOneUnqualified(g) ==
    UNION {LET hits(x) == SelectSeq(g.seq, LAMBDA t : t[1] = x /\ t[2] = r[2] /\ IsNode(t[3]))
           IN  UNION {PairwiseSame([i \in DOMAIN hits(x) |-> hits(x)[i][3][2]]) : x \in Instances(g.all, r[1])}
           : r \in AtMost(g, "one")}

\* cls-maxc2, cls-maxqc3, cls-maxqc4.
AtMostOneApplied(g) ==
    UNION {LET hits(x) == SelectSeq(g.seq, LAMBDA t : /\ t[1] = x /\ t[2] = r[2] /\ IsNode(t[3])
                                                     /\ Qualifies(g.all, t[3][2], r[3]))
           IN  UNION {PairwiseSame([i \in DOMAIN hits(x) |-> hits(x)[i][3][2]]) : x \in Instances(g.all, r[1])}
           : r \in AtMost(g, "one")}

\* cls-int1, cls-int2, cls-uni, scm-int, scm-uni, cls-oo.
SetExpressions(g) ==
    LET ints == ListsOf(g, "intersectionOf")
        unions == ListsOf(g, "unionOf")
        firstInt(r) ==
            LET hits == SelectSeq(g.seq, LAMBDA t : /\ t[2] = "intersectionOf" /\ NodeTerm(t[1]) = r
                                                   /\ ListMembers(g, t[3]) # <<>>)
            IN  IF hits = <<>> THEN <<>> ELSE ListMembers(g, hits[1][3])
        typings == {u \in g.all : u[2] = "type"}
    IN  UNION {{<<t[1], "type", c>> : c \in ToSet(firstInt(t[3]))} : t \in typings}
        \cup UNION {{<<x, "type", NodeTerm(l[1])>> :
                        x \in {y \in Instances(g.all, l[2][1]) :
                                  \A i \in DOMAIN l[2] : HasType(g.all, y, l[2][i])}} : l \in ints}
        \cup UNION {{<<t[1], "type", NodeTerm(l[1])>> :
                        t \in {u \in typings : u[3] \in ToSet(l[2])}} : l \in unions}
        \cup UNION {{<<l[1], "subClassOf", c>> : c \in ToSet(l[2])} : l \in ints}
        \cup UNION {{<<c[2], "subClassOf", NodeTerm(l[1])>> : c \in ToSet(l[2])} : l \in unions}
        \cup UNION {{<<m[2], "type", NodeTerm(t[1])>> : m \in {n \in ToSet(ListTerms(g, t[3])) : IsNode(n)}}
                    : t \in {u \in g.all : u[2] = "oneOf"}}

\* scm-hv, scm-svf1, scm-svf2, scm-avf1, scm-avf2: restrictions compared by
\* their properties and by their fillers.
RestrictionSchema(g) ==
    LET props == IriPairs(g.all, "subPropertyOf")
        classes == IriPairs(g.all, "subClassOf")
        below(p, r1, r2) ==
            /\ OnProperty(g, r1) # <<>> /\ OnProperty(g, r2) # <<>>
            /\ <<OnProperty(g, r1)[1][2], OnProperty(g, r2)[1][2]>> \in props
            /\ OnProperty(g, r1) # OnProperty(g, r2)
        owners(p) == Restrictions(g, p)
        filler(r, p) == Restricts(g, r, p, IsIri)
        sameFiller(p, Test(_)) ==
            {e \in owners(p) \X owners(p) :
                /\ below(p, e[1], e[2])
                /\ \E t \in g.all : /\ t[2] = p /\ NodeTerm(t[1]) = e[1] /\ Test(t[3])
                                    /\ <<e[2][2], p, t[3]>> \in g.all}
        sameProperty(p) ==
            {e \in owners(p) \X owners(p) :
                /\ filler(e[1], p) # <<>> /\ filler(e[2], p) # <<>>
                /\ filler(e[1], p) # filler(e[2], p)
                /\ <<filler(e[1], p)[1][2], filler(e[2], p)[1][2]>> \in classes
                /\ \E t \in g.all : /\ t[2] = "onProperty" /\ NodeTerm(t[1]) = e[1] /\ IsIri(t[3])
                                    /\ <<e[2][2], "onProperty", t[3]>> \in g.all}
    IN  {<<e[1][2], "subClassOf", e[2]>> :
            e \in sameFiller("hasValue", AnyTerm) \cup sameFiller("someValuesFrom", IsIri)
                  \cup sameProperty("someValuesFrom") \cup sameProperty("allValuesFrom")
                  \cup Flipped(sameFiller("allValuesFrom", IsIri))}

(* --------------------------------- equality ------------------------------ *)

\* eq-ref on the nodes of sameAs statements, eq-sym, eq-trans.
SameAsClosed(g) ==
    LET S == NodePairs(g.all, "sameAs")
        edges == {<<x, x>> : x \in {e[1] : e \in S} \cup {e[2] : e \in S}} \cup Flipped(S) \cup Composed(S, S)
    IN  {<<e[1], "sameAs", NodeTerm(e[2])>> : e \in edges}

\* Mutant: no replacement of objects.
SameAsReplacedSubjects(g) ==
    {<<e[2][2], e[1][2], e[1][3]>> :
        e \in {f \in g.all \X NodePairs(g.all, "sameAs") : f[1][1] = f[2][1]}}

\* eq-rep-s, eq-rep-o, eq-rep-p.
SameAsReplaced(g) ==
    LET S == NodePairs(g.all, "sameAs")
    IN  {<<e[2][2], e[1][2], e[1][3]>> : e \in {f \in g.all \X S : f[1][1] = f[2][1]}}
        \cup {<<e[1][1], e[1][2], NodeTerm(e[2][2])>> :
                  e \in {f \in g.all \X S : IsNode(f[1][3]) /\ f[1][3][2] = f[2][1]}}
        \cup Restated(g, IriPairs(g.all, "sameAs"))

\* One round of all rules.
ApplyRules(g) ==
    UNION {Transitivity(g, "subClassOf"), Transitivity(g, "subPropertyOf"),
           Restated(g, IriPairs(g.all, "subPropertyOf")),
           MutualInclusion(g, "equivalentProperty", "subPropertyOf"), PropertySchema(g), ClassSchema(g),
           MutualInclusion(g, "equivalentClass", "subClassOf"), EquivalentTypes(g),
           DomainRangeSchema(g), InverseApplied(g), TransitiveApplied(g), FunctionalApplied(g),
           DomainRangeTypes(g), ResourceTypes(g), RdfsSchema(g), LiteralsExchanged(g),
           Retyped(g, IriPairs(g.all, "subClassOf")), ValuesTyped(g, "someValuesFrom"), SomeValuesOf(g),
           ValuesTyped(g, "allValuesFrom"), HasValueApplied(g), AtMostOneApplied(g), SetExpressions(g),
           RestrictionSchema(g), KeysApplied(g), ChainApplied(g), SameAsClosed(g), SameAsReplaced(g)}

(* ------------------------------ contradictions --------------------------- *)
(* T is the closure with what the current round has derived; restrictions    *)
(* and lists are looked up in the closure only.                              *)

\* cls-nothing1, cls-nothing2, cax-dw, cls-com, cax-adc.
ClassClash(T, g) ==
    LET types == IriPairs(T, "type")
        apart == IriPairs(T, "disjointWith") \cup IriPairs(T, "complementOf")
        groups == {ToSet(ListMembers(g, t[3])) : t \in {u \in T : u[2] = "members" /\ HasType(T, u[1], Iri("AllDisjointClasses"))}}
    IN  \/ \E e \in types : e[2] = "Nothing" \/ <<e[2], "Nothing">> \in IriPairs(T, "subClassOf")
        \/ \E e \in types, d \in apart : e[2] = d[1] /\ <<e[1], d[2]>> \in types
        \/ \E e \in types, c \in groups : \E d \in c :
              Iri(e[2]) \in c /\ d # Iri(e[2]) /\ <<e[1], d[2]>> \in types

\* eq-diff1, eq-diff2, eq-diff3.
EqualityClash(T, g) ==
    LET same == NodePairs(T, "sameAs")
        lists == {ListTerms(g, t[3]) : t \in {u \in T : u[2] \in {"members", "distinctMembers"}
                                                      /\ HasType(T, u[1], Iri("AllDifferent"))}}
    IN  \/ \E e \in NodePairs(T, "differentFrom") : e[1] = e[2] \/ e \in same
        \/ \E l \in lists : \E i, j \in DOMAIN l :
              /\ i < j /\ IsNode(l[i]) /\ IsNode(l[j])
              /\ {<<l[i][2], l[j][2]>>, <<l[j][2], l[i][2]>>} \cap same # {}

\* prp-irp, prp-asyp, prp-pdw, prp-adp, prp-npa1, prp-npa2.
PropertyClash(T, g) ==
    LET uses(p) == NodePairs(T, p)
        both(p, q) == \E t \in T : t[2] = p /\ <<t[1], q, t[3]>> \in T
        groups == {ToSet(ListMembers(g, t[3])) : t \in {u \in T : u[2] = "members" /\ HasType(T, u[1], Iri("AllDisjointProperties"))}}
    IN  \/ \E p \in Instances(T, Iri("IrreflexiveProperty")) : \E e \in uses(p) : e[1] = e[2]
        \/ \E p \in Instances(T, Iri("AsymmetricProperty")) : \E e \in uses(p) : e[1] # e[2] /\ <<e[2], e[1]>> \in uses(p)
        \/ \E e \in IriPairs(T, "propertyDisjointWith") : both(e[1], e[2])
        \/ \E c \in groups : \E p, q \in c : p # q /\ both(p[2], q[2])
        \/ \E a \in NodePairs(T, "sourceIndividual"), p \in IriPairs(T, "assertionProperty") : \E t \in T :
              /\ p[1] = a[1] /\ t[1] = a[1] /\ t[2] \in {"targetIndividual", "targetValue"}
              /\ <<a[2], p[2], t[3]>> \in T

\* cls-maxc1, cls-maxqc1, cls-maxqc2.
CardinalityClash(T, g) ==
    \E r \in AtMost(g, "zero") : \E t \in T :
        /\ t[2] = r[2] /\ HasType(T, t[1], r[1])
        /\ r[3] = Iri("Thing") \/ (IsNode(t[3]) /\ HasType(T, t[3][2], r[3]))

\* dt-not-type.
LiteralClash(T) == \E t \in T : ~IsNode(t[3]) /\ t[3][2] \in InvalidLiterals

Clash(T, g) ==
    \/ ClassClash(T, g) \/ EqualityClash(T, g) \/ PropertyClash(T, g)
    \/ CardinalityClash(T, g) \/ LiteralClash(T)

\* The background knowledge that is seeded before the first round.
Axioms ==
    {<<p, "type", Iri("AnnotationProperty")>> : p \in AnnotationProperties}
    \cup {<<c, "type", Iri("Class")>> : c \in {"Thing", "Nothing"}}
    \cup {<<c, p, Iri(c)>> : c \in {"Thing", "Nothing"}, p \in {"subClassOf", "equivalentClass"}}
    \cup {<<"Nothing", "subClassOf", Iri("Thing")>>}
    \cup {<<d, "type", Iri("Datatype")>> : d \in Datatypes}
    \cup {<<d, "subClassOf", Iri("Literal")>> : d \in Datatypes}

CONSTANTS
    Tasks               \* reasoning requests, as records

\* A task: dataset maps "default" and graph names to lists of triples, scope
\* is <<>> or <<owned graphs>>, ontology lists the role graphs, mode is off,
\* forward or hybrid, limit is max_iterations, budget says that the time is
\* bounded.
VARIABLES task, closure, seeded, rounds, inconsistent, timedOut, stage
reasonerVars == <<task, closure, seeded, rounds, inconsistent, timedOut, stage>>

Inputs(list) == FlattenSeq(list)
AppendAll(seq, S) == FoldSet(LAMBDA t, s : Append(s, t), seq, S)

\* Mutant: the default graph is read for every caller.
TenantScopedInputAll(t) ==
    t.dataset["default"]
    \o (IF t.scope = <<>> THEN <<>> ELSE Inputs([i \in DOMAIN t.scope[1] |-> t.dataset[t.scope[1][i]]]))

\* Without a scope the default graph, else the graphs the tenant owns.
TenantScopedInput(t) ==
    IF t.scope = <<>> THEN t.dataset["default"]
    ELSE Inputs([i \in DOMAIN t.scope[1] |-> t.dataset[t.scope[1][i]]])

\* The role graphs in their fixed order, duplicates preserved.
OntologyPayload(t) == Inputs([i \in DOMAIN t.ontology |-> t.dataset[t.ontology[i]]])
ReasoningInput(t) == TenantScopedInput(t) \o OntologyPayload(t)

Knowledge == [seq |-> closure, all |-> ToSet(closure)]

ReasonerInit ==
    /\ task \in Tasks
    /\ closure = ReasoningInput(task)
    /\ seeded = {} /\ rounds = 0 /\ inconsistent = FALSE /\ timedOut = FALSE
    /\ stage = "new"

\* Inference that is off answers with the input; else the axioms are seeded.
Begin ==
    /\ stage = "new"
    /\ IF task.mode = "off"
       THEN stage' = "done" /\ UNCHANGED <<closure, seeded>>
       ELSE /\ seeded' = Axioms \ ToSet(closure)
            /\ closure' = AppendAll(closure, seeded')
            /\ stage' = "rounds"
    /\ UNCHANGED <<task, rounds, inconsistent, timedOut>>

AbsorbNew(frontier) == AppendAll(closure, frontier \ ToSet(closure))

\* Mutant: the closure is examined before the round's triples join it.
IterateExaminingFirst ==
    /\ stage = "rounds"
    /\ inconsistent' = (inconsistent \/ Clash(Knowledge.all, Knowledge))
    /\ closure' = AbsorbNew(ApplyRules(Knowledge))
    /\ rounds' = rounds + 1
    /\ stage' = IF closure' = closure \/ rounds' >= task.limit THEN "done" ELSE "rounds"
    /\ UNCHANGED <<task, seeded, timedOut>>

Iterate ==
    /\ stage = "rounds"
    /\ LET frontier == ApplyRules(Knowledge)
       IN  /\ inconsistent' = (inconsistent \/ Clash(Knowledge.all \cup frontier, Knowledge))
           /\ closure' = AbsorbNew(frontier)
    /\ rounds' = rounds + 1
    /\ stage' = IF closure' = closure \/ rounds' >= task.limit THEN "done" ELSE "rounds"
    /\ UNCHANGED <<task, seeded, timedOut>>

TimeOut ==
    /\ stage = "rounds" /\ task.budget
    /\ timedOut' = TRUE /\ stage' = "done"
    /\ UNCHANGED <<task, closure, seeded, rounds, inconsistent>>

ReasonerNext == Begin \/ Iterate \/ TimeOut

(* --------------------------------- outcome ------------------------------- *)

IsResourceTyping(t) == t[2] = "type" /\ t[3] = Iri("Resource")

\* Mutant: repeated triples of the input are counted once in the closure.
InferredDistinct ==
    LET input == ReasoningInput(task)
        resources == {t[1] : t \in {u \in ToSet(input) : IsResourceTyping(u)}}
        background == {t \in ToSet(closure) : IsResourceTyping(t) /\ t[1] \notin resources}
        counted == Cardinality(ToSet(closure)) - Len(input) - Cardinality(seeded) - Cardinality(background)
    IN  IF stage = "done" /\ task.mode # "off" /\ counted > 0 THEN counted ELSE 0

\* inferred_triples of the report: the seeded axioms and the typings with
\* rdfs:Resource of subjects the input does not type so are background.
Inferred ==
    LET input == ReasoningInput(task)
        resources == {t[1] : t \in {u \in ToSet(input) : IsResourceTyping(u)}}
        background == Len(SelectSeq(closure, LAMBDA t : IsResourceTyping(t) /\ t[1] \notin resources))
        counted == Len(closure) - Len(input) - Cardinality(seeded) - background
    IN  IF stage = "done" /\ task.mode # "off" /\ counted > 0 THEN counted ELSE 0

\* What the query reads: every graph followed by the increment.
InferredOnly == SelectSeq(closure, LAMBDA t : t \notin ToSet(ReasoningInput(task)))
Overlay(graph) == task.dataset[graph] \o InferredOnly
=============================================================================
