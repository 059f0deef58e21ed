------------------------------- MODULE RdfXml -------------------------------
(***************************************************************************)
(* The RDF/XML writer (ontolith-parser, domain/serialize.rs) and reader    *)
(* (infrastructure/rdf_xml.rs).                                            *)
(*                                                                         *)
(* An element is [name, decl, attrs, children]: a name is <<prefix, local  *)
(* part>>, decl gives the namespaces it declares, attrs is a sequence of   *)
(* <<name, value>> and a child is <<"text", characters>> or <<"elem",      *)
(* element>>.  Entities and the well-formedness of tags are quick_xml's.   *)
(*                                                                         *)
(* The reader's state is the base in force, the number of the next blank   *)
(* node it names, the labels the dictionary knows and the triples so far;  *)
(* the base outlives the element that set it.                              *)
(***************************************************************************)
EXTENDS RdfTerms
LOCAL INSTANCE SequencesExt
LOCAL INSTANCE TLC

RdfSpace == <<"rdf:">>
XmlSpace == <<"xml:">>
Predeclared == [x \in {"rdf", "xml"} |-> IF x = "rdf" THEN RdfSpace ELSE XmlSpace]

(* --------------------------------- reading ------------------------------- *)

\* <<the namespace>> of a prefix, or <<>>; the default one names attributes too.
SpaceOf(env, name) == [i \in {1} \cap {IF name[1] \in DOMAIN env THEN 1 ELSE 0} |-> env[name[1]]]
QName(env, name) == IF SpaceOf(env, name) = <<>> THEN <<>> ELSE <<SpaceOf(env, name)[1] \o <<name[2]>>>>

\* <<the value>> of the attribute, or <<>>.
AttrOf(el, env, space, local) ==
    LET found == SelectInSeq(el.attrs, LAMBDA a : a[1][2] = local /\ SpaceOf(env, a[1]) = <<space>>)
    IN  [i \in {1} \cap {IF found = 0 THEN 0 ELSE 1} |-> el.attrs[found][2]]
RdfAttr(el, env, local) == AttrOf(el, env, RdfSpace, local)

Special == {"about", "ID", "nodeID", "resource", "datatype", "parseType", "aboutEach", "bagID"}
IsSpecial(env, a) == SpaceOf(env, a[1]) = <<XmlSpace>> \/ (SpaceOf(env, a[1]) = <<RdfSpace>> /\ a[1][2] \in Special)

Or(found, otherwise) == IF found = <<>> THEN otherwise ELSE found[1]
ElementBase(el, env, base) == ResolveAgainstBase(base, Or(AttrOf(el, env, XmlSpace, "base"), <<>>))
ElementLang(el, env, lang) == Or(AttrOf(el, env, XmlSpace, "lang"), lang)

ResolveRef(base, ref) == IF ref # <<>> /\ (IsAbsolute(ref) \/ base = <<>>) THEN ref ELSE ResolveAgainstBase(base, ref)
ResolveFragment(base, id) == base \o <<"#">> \o id   \* the base has no fragment

\* The language is a sequence of one tag, or empty.
BuildLiteral(text, datatype, lang) ==
    CASE datatype # <<>> -> CoerceTypedLiteral(text, datatype[1], TurtleIntegers)
      [] datatype = <<>> /\ lang # <<>> -> Value("lang", text, lang)
      [] OTHER -> Value("string", text, <<>>)

Blanks == {" ", "LF", "CR", "TAB"}
\* The state is <<the words so far with one space between, whether a word ended>>.
CollapseStep(s, c) ==
    CASE c \in Blanks -> <<s[1], s[1] # <<>>>>
      [] s[2] -> <<s[1] \o <<" ", c>>, FALSE>>
      [] OTHER -> <<Append(s[1], c), FALSE>>
CollapseWhitespace(text) == FoldLeft(CollapseStep, <<<<>>, FALSE>>, text)[1]

CollectText(el) == FlattenSeq([i \in DOMAIN el.children |-> IF el.children[i][1] = "text" THEN el.children[i][2] ELSE <<>>])
ElementsOf(el) == FlattenSeq([i \in DOMAIN el.children |-> IF el.children[i][1] = "elem" THEN <<el.children[i][2]>> ELSE <<>>])

Say(s, pred, o, c) == [c EXCEPT !.out = Append(@, QuadIn(<<>>, <<s, pred, o>>))]
Encoded(node, c) == Given(node, [c EXCEPT !.known = @ \cup {node}])

XmlBlank(n) == BlankOf(<<"rdfxml", ToString(n)>>)
\* Mutant: whether the dictionary has the label already is not asked.
FreshAnyway(c) == Encoded(XmlBlank(c.seq), [c EXCEPT !.seq = @ + 1])
FreshBlank(c) ==
    LET n == CHOOSE m \in c.seq..(c.seq + Cardinality(c.known)) :
                 XmlBlank(m) \notin c.known /\ \A l \in c.seq..(m - 1) : XmlBlank(l) \in c.known
    IN  Encoded(XmlBlank(n), [c EXCEPT !.seq = n + 1])

SubjectOf(el, env, c) ==
    LET about == RdfAttr(el, env, "about")
        id == RdfAttr(el, env, "ID")
        nodeId == RdfAttr(el, env, "nodeID")
    IN  CASE about # <<>> -> Encoded(ResolveRef(c.base, about[1]), c)
          [] about = <<>> /\ id # <<>> -> Encoded(ResolveFragment(c.base, id[1]), c)
          [] about = <<>> /\ id = <<>> /\ nodeId # <<>> -> Encoded(BlankOf(nodeId[1]), c)
          [] OTHER -> FreshBlank(c)

RECURSIVE ProcessNode(_, _, _, _), ProcessProperty(_, _, _, _, _, _), ProcessProperties(_, _, _, _, _, _), ProcessItems(_, _, _, _, _)

\* What the elements say of a subject; li counts its members.
ProcessProperties(s, els, env, lang, li, c) ==
    IF els = <<>> THEN Given(<<>>, c)
    ELSE AndThen(ProcessProperty(s, Head(els), env, lang, li, c), LAMBDA n, d : ProcessProperties(s, Tail(els), env, lang, n, d))

\* An element for a node: its type, what its attributes say, its properties.
ProcessNode(el, outerEnv, outerLang, outer) ==
    LET env == el.decl @@ outerEnv
        lang == ElementLang(el, env, outerLang)
        type == QName(env, el.name)
        typed(s, c) == IF type = <<RdfIri("Description")>> THEN c ELSE Say(s, RdfIri("type"), <<"iri", type[1]>>, c)
        says(s, c, a) ==
            IF IsSpecial(env, a) \/ QName(env, a[1]) = <<>> THEN c
            ELSE Say(s, QName(env, a[1])[1], <<"literal", BuildLiteral(a[2], RdfAttr(el, env, "datatype"), lang)>>, c)
    IN  AndThen(SubjectOf(el, env, [outer EXCEPT !.base = ElementBase(el, env, @)]), LAMBDA s, c :
            IF type = <<>> THEN NotGiven(c)
            ELSE AndThen(ProcessProperties(s, ElementsOf(el), env, lang, 0,
                          FoldLeft(LAMBDA d, a : says(s, d, a), typed(s, c), el.attrs)),
                      LAMBDA none, d : Given(s, d)))

\* The cells of a collection, whose last rest is a node of its own.
ProcessItems(cell, items, env, lang, c) ==
    LET last == Encoded(BlankOf(<<"rdf_nil">>), c)
        rest(at) == IF Len(items) = 1 THEN Encoded(BlankOf(<<"rdf_nil">>), at) ELSE FreshBlank(at)
    IN  IF items = <<>> THEN last
        ELSE AndThen(ProcessNode(Head(items), env, lang, c), LAMBDA item, d :
             AndThen(rest(Say(cell, RdfIri("first"), <<"blank", item>>, d)), LAMBDA next, e :
                LET f == Say(cell, RdfIri("rest"), <<"blank", next>>, e)
                IN  IF Len(items) = 1 THEN Given(<<>>, f) ELSE ProcessItems(next, Tail(items), env, lang, f)))

\* A property, by what it has first: a resource, a node, a parse type, elements
\* or text.  The result is the count of members.
ProcessProperty(s, el, outerEnv, outerLang, li, outer) ==
    LET env == el.decl @@ outerEnv
        lang == ElementLang(el, env, outerLang)
        isMember == QName(env, el.name) = <<RdfIri("li")>>
        n == IF isMember THEN li + 1 ELSE li
        pred == IF isMember THEN <<RdfIri("_" \o ToString(n))>> ELSE QName(env, el.name)
        c == [outer EXCEPT !.base = ElementBase(el, env, @)]
        resource == RdfAttr(el, env, "resource")
        nodeId == RdfAttr(el, env, "nodeID")
        parseType == RdfAttr(el, env, "parseType")
        datatype == RdfAttr(el, env, "datatype")
        says(o, d) == Given(n, Say(s, pred[1], o, d))
        \* A blank node that the elements inside describe.
        nested == AndThen(FreshBlank(c), LAMBDA b, d :
                  AndThen(ProcessProperties(b, ElementsOf(el), env, lang, 0, Say(s, pred[1], <<"blank", b>>, d)), LAMBDA none, e : Given(n, e)))
        collection == AndThen(FreshBlank(c), LAMBDA head, d :
            LET e == Say(s, pred[1], <<"blank", head>>, d)
            IN  IF ElementsOf(el) = <<>>
                THEN Given(n, Say(head, RdfIri("rest"), <<"blank", BlankOf(<<"rdf_nil">>)>>, e))
                ELSE AndThen(ProcessItems(head, ElementsOf(el), env, lang, e), LAMBDA none, f : Given(n, f)))
        byParseType ==
            CASE parseType[1] = <<"Resource">> -> nested
              [] parseType[1] = <<"Collection">> -> collection
              [] parseType[1] = <<"Literal">> /\ ElementsOf(el) = <<>> -> says(<<"literal", Value("string", CollectText(el), <<>>)>>, c)
              [] OTHER -> NotGiven(c)
    IN  CASE pred = <<>> -> NotGiven(c)
          [] pred # <<>> /\ resource # <<>> -> says(<<"iri", ResolveRef(c.base, resource[1])>>, c)
          [] pred # <<>> /\ resource = <<>> /\ nodeId # <<>> ->
                AndThen(Encoded(BlankOf(nodeId[1]), c), LAMBDA b, d : says(<<"blank", b>>, d))
          [] pred # <<>> /\ resource = <<>> /\ nodeId = <<>> /\ parseType # <<>> -> byParseType
          [] pred # <<>> /\ resource = <<>> /\ nodeId = <<>> /\ parseType = <<>> ->
                IF ElementsOf(el) # <<>> THEN nested
                ELSE says(<<"literal", BuildLiteral(CollapseWhitespace(CollectText(el)), datatype, lang)>>, c)

RECURSIVE ProcessNodes(_, _, _)
ProcessNodes(els, env, c) ==
    IF els = <<>> THEN Given(<<>>, c)
    ELSE AndThen(ProcessNode(Head(els), env, <<>>, c), LAMBDA s, d : ProcessNodes(Tail(els), env, d))

\* rdf:RDF holds nodes, any other root is one; what the dictionary has counts
\* the blank nodes from there.  Nothing reaches the sink on an error.
ParseRdfXml(root, base, known) ==
    LET env == root.decl @@ Predeclared
        wraps == QName(env, root.name) = <<RdfIri("RDF")>>
    IN  ProcessNodes(IF wraps THEN ElementsOf(root) ELSE <<root>>, IF wraps THEN env ELSE Predeclared,
                     [base |-> base, seq |-> Cardinality(known), known |-> known, out |-> <<>>])

(* --------------------------------- writing ------------------------------- *)

NotNames == {"1st"}                  \* local parts that are no XML names
Separating == AfterSlash \cup AfterHash \cup Schemes
\* The namespace and the local name of a predicate, if it has one.
Expressible(pred) == Last(pred) \notin Separating \cup NotNames

IsSafeNcName(label) == label # <<>> /\ label[1] \notin Digits \cup {"-", "."} /\ ToSet(label) \subseteq LabelChars \cup {".", "n"}
SubjectLabel(node, number) ==
    IF IsBlank(node) /\ IsSafeNcName(LabelOf(node)) THEN LabelOf(node) ELSE <<"n", ToString(number[node])>>

Element(name, attrs, children) == [name |-> name, decl |-> <<>>, attrs |-> attrs, children |-> children]

WritePropertyElement(t, spaces, number) ==
    LET name == <<"ns" \o ToString(SelectInSeq(spaces, LAMBDA x : x = Front(t[2]))), Last(t[2])>>
        o == t[3]
        typed == o[2].kind \notin {"string", "lang"}
    IN  CASE o[1] = "iri" -> Element(name, <<<<<<"rdf", "resource">>, o[2]>>>>, <<>>)
          [] o[1] = "blank" -> Element(name, <<<<<<"rdf", "nodeID">>, SubjectLabel(o[2], number)>>>>, <<>>)
          [] OTHER -> Element(name,
                IF o[2].kind = "lang" THEN <<<<<<"xml", "lang">>, o[2].of>>>>
                ELSE IF typed THEN <<<<<<"rdf", "datatype">>, DatatypeOf(o[2])>>>> ELSE <<>>,
                IF o[2].text = <<>> THEN <<>> ELSE <<<<"text", o[2].text>>>>)

WriteSubject(s, triples, spaces, number) ==
    LET attr == IF IsBlank(s) THEN <<<<"rdf", "nodeID">>, SubjectLabel(s, number)>> ELSE <<<<"rdf", "about">>, s>>
        own == SelectSeq(triples, LAMBDA t : t[1] = s)
    IN  Element(<<"rdf", "Description">>, <<attr>>, [i \in DOMAIN own |-> <<"elem", WritePropertyElement(own[i], spaces, number)>>])

\* <<the document>>, one description for each subject and one prefix for each
\* namespace; <<>> if a predicate cannot be written.
SerializeRdfXml(d, number) ==
    LET subjects == DedupTriples([i \in DOMAIN d.default |-> d.default[i][1]])
        spaces == DedupTriples([i \in DOMAIN d.default |-> Front(d.default[i][2])])
        declared == [x \in {"ns" \o ToString(i) : i \in DOMAIN spaces} |-> spaces[CHOOSE i \in DOMAIN spaces : x = "ns" \o ToString(i)]]
    IN  IF \E i \in DOMAIN d.default : ~Expressible(d.default[i][2]) THEN <<>>
        ELSE <<[Element(<<"rdf", "RDF">>, <<>>, [i \in DOMAIN subjects |-> <<"elem", WriteSubject(subjects[i], d.default, spaces, number)>>])
                EXCEPT !.decl = declared]>>
=============================================================================
