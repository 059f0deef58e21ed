----------------------------- MODULE MCFormats -----------------------------
(* Documents for model checking the readers and writers: what they say, how *)
(* that is written in each syntax, and what comes back.                     *)
EXTENDS Exchange, JsonLd
LOCAL INSTANCE SequencesExt
LOCAL INSTANCE FiniteSetsExt
LOCAL INSTANCE TLC

Space == <<"http://", "h/", "d/", "v#">>
DocBase == <<"http://", "h/", "d/", "doc">>
Name(x) == Space \o <<x>>
Lit(text) == <<"literal", Value("string", text, <<>>)>>
Label(l) == <<"blank", BlankOf(l)>>

(* ------------------------------ blank nodes ------------------------------ *)

RenamedQuads(quads, from, to) ==
    LET node(n) == IF n = from THEN to ELSE n
        term(t) == IF t[1] = "blank" THEN <<"blank", node(t[2])>> ELSE t
    IN  [i \in DOMAIN quads |-> QuadIn(quads[i].graph, <<node(quads[i].triple[1]), quads[i].triple[2], term(quads[i].triple[3])>>)]

\* What is said of a blank node that has no label, whatever it is called.
RECURSIVE Unfolded(_, _, _)
Unfolded(node, quads, labelled) ==
    IF ~IsBlank(node) \/ node \in labelled THEN <<"node", node>>
    ELSE <<"about", {<<q.triple[2], IF q.triple[3][1] = "blank" THEN Unfolded(q.triple[3][2], quads, labelled \cup {node}) ELSE q.triple[3]>> :
                        q \in {r \in ToSet(quads) : r.triple[1] = node}}>>
Shape(quads, labelled) ==
    <<Cardinality({n \in {quads[i].triple[1] : i \in DOMAIN quads} : IsBlank(n)}),
      Occurrences([i \in DOMAIN quads |->
          LET t == quads[i].triple
          IN  <<quads[i].graph, Unfolded(t[1], quads, labelled), t[2], IF t[3][1] = "blank" THEN Unfolded(t[3][2], quads, labelled) ELSE t[3]>>])>>

(* -------------------------------- datasets ------------------------------- *)

S1 == Name("s")
S2 == BlankOf(<<"b", ".", "1">>)
S3 == BlankOf(<<"a">>)
Texts == {<<>>, <<"x">>, <<"\\", "n">>, <<"QUOTE", "LF">>, <<"x", " ", "x">>}
SomeLiterals ==
    {<<"literal", v>> : v \in {Value("string", t, <<>>) : t \in Texts} \cup
        {Value("lang", <<"x">>, <<"en">>), Value("integer", <<"-", "7">>, <<>>), Value("boolean", <<"true">>, <<>>),
         Value("typed", <<"0", "7">>, Xsd("date")), Value("typed", <<"x">>, Xsd("integer")), Value("typed", <<"x", "\\">>, Name("t"))}}
SomeObjects == {<<"iri", S1>>, Label(<<"a">>), Label(<<"b", ".", "1">>), Label(<<"1", "-">>)} \cup SomeLiterals
SomeTriples == {<<s, Name("p"), o>> : s \in {S1, S3}, o \in SomeObjects} \cup {<<S1, <<"http://", "h/", "q">>, <<"iri", S1>>>>, <<S2, Name("p"), Lit(<<"x">>)>>, <<S1, Name("1st"), Lit(<<"x">>)>>}
FewTriples == {<<S1, Name("p"), Lit(<<"x">>)>>, <<S3, Name("p"), Lit(<<"x">>)>>, <<S3, Name("q"), <<"iri", S1>>>>}
Graphs3 == {<<>>, <<Name("g")>>, <<Name("h")>>}

\* Pairs of any triples, and datasets of up to four quads in three graphs.
Datasets ==
    {Collected(<<QuadIn(<<>>, t), QuadIn(g, u)>>) : t, u \in SomeTriples, g \in {<<>>, <<Name("g")>>}}
    \cup {Collected(q) : q \in UNION {[1..n -> {QuadIn(g, t) : g \in Graphs3, t \in FewTriples}] : n \in 0..3}}

Numbers == [n \in {S1, S2, S3} \cup {BlankOf(<<"1", "-">>)} |-> 9]
AllQuads(d) == ToSet(DatasetQuads(d))
Dotted(d) == \E q \in AllQuads(d) : q.triple[1] = S2 \/ q.triple[3] = Label(<<"b", ".", "1">>)

Read(p) == ParseDocument(p)
BackFrom(r) == Collected(r.v)

\* A dataset written as N-Quads or TriG is read back as it was, and as N-Triples
\* or Turtle its default graph; labels with a dot are not read by the line
\* formats (serialize_dataset_with, parse_document_streaming, parse_trig).
LineGives(read, d, dotted) == IF dotted THEN ~read.ok ELSE read.ok /\ Collected(read.quads) = d
TurtleGives(read, d) == read.ok /\ Collected(read.v) = d
LinesSurvive(d) ==
    \A whole \in BOOLEAN :
        LET lines == IF whole THEN SerializeQuads(d, Numbers) ELSE SerializeTriples(d, Numbers)
            carried == IF whole THEN d ELSE [d EXCEPT !.named = <<>>]
        IN  /\ LineGives(ParseLines(lines, IF whole THEN 4 ELSE 3), carried, Dotted(carried))
            /\ TurtleGives(Read(Reader(IF whole THEN SerializeTriG(d, Numbers) ELSE FlattenSeq(lines), <<>>, whole)), carried)

\* What RDF/XML can say of the default graph is read back, in any order, and
\* what it cannot is refused; labels that are no names get others
\* (serialize_rdf_xml, parse_rdf_xml).
Known(d, quads) ==
    LET plain == [i \in DOMAIN d.default |-> QuadIn(<<>>, d.default[i])]
    IN  Occurrences(RenamedQuads(plain, BlankOf(<<"1", "-">>), BlankOf(<<"n", "9">>))) = Occurrences(quads)
Collapsed(d) == \A i \in DOMAIN d.default : d.default[i][3][1] = "literal" => CollapseWhitespace(d.default[i][3][2].text) = d.default[i][3][2].text
KnownAgain(d, read) == read.ok /\ (Collapsed(d) => Known(d, read.at.out))
SurvivesIn(d, doc) ==
    /\ (doc # <<>>) = (\A i \in DOMAIN d.default : d.default[i][2] # Name("1st"))
    /\ doc # <<>> => KnownAgain(d, ParseRdfXml(doc[1], <<>>, {XmlBlank(0)}))
XmlSurvives(d) == SurvivesIn(d, SerializeRdfXml(d, Numbers))

(* ----------------------------- sets of triples --------------------------- *)

\* <<"in", quad>>, <<"out", quad>> and <<"join", dataset>>.
SetOps == {<<k, QuadIn(g, t)>> : k \in {"in", "out"}, g \in {<<>>, <<Name("g")>>}, t \in FewTriples}
          \cup {<<"join", Collected(<<QuadIn(g, t), QuadIn(g, t), QuadIn(<<>>, t)>>)>> : g \in {<<>>, <<Name("g")>>}, t \in FewTriples}
Applied(d, op) ==
    CASE op[1] = "in" -> InsertQuadUnique(d, op[2])
      [] op[1] = "out" -> RemoveQuad(d, op[2])
      [] OTHER -> MergeSet(d, op[2])
SetAfter(q, op) ==
    CASE op[1] = "in" -> q \cup {op[2]}
      [] op[1] = "out" -> q \ {op[2]}
      [] OTHER -> q \cup AllQuads(op[2])

\* With set semantics a dataset is the set of its quads and has no graph that
\* is empty; removing duplicates leaves what the set operations would have made,
\* and the canonical encoding forgets their order (insert_quad_unique,
\* remove_quad, merge_set, dedup, write_canonical).
ActsAsSet(ops) ==
    LET d == FoldLeft(Applied, EmptyDataset, ops)
        appended == FoldLeft(LAMBDA e, op : IF op[1] = "join" THEN Merge(e, op[2]) ELSE InsertQuad(e, op[2]), EmptyDataset, ops)
        united == FoldLeft(LAMBDA e, op : IF op[1] = "join" THEN MergeSet(e, op[2]) ELSE InsertQuadUnique(e, op[2]), EmptyDataset, ops)
    IN  /\ AllQuads(d) = FoldLeft(SetAfter, {}, ops) /\ TripleCount(d) = Cardinality(AllQuads(d))
        /\ \A i \in DOMAIN d.named : d.named[i].triples # <<>> /\ NamedGraph(d, d.named[i].name) = <<d.named[i]>>
        /\ Dedup(appended) = united
        /\ (\A i \in DOMAIN ops : ops[i][1] # "out") => Canonical(united) = Canonical(FoldLeft(Applied, EmptyDataset, Reverse(ops)))

(* -------------------------------- spellings ------------------------------ *)
(* What is said: blocks <<graph, subject, <<predicate, object>>...>>, where a *)
(* term is a name, a label, a literal, <<"[]", ...>> or <<"()", items>>.      *)

N(x) == <<"name", x>>
NodeStands(t, at) ==
    CASE t[1] = "name" -> <<"iri", Name(t[2])>>
      [] t[1] = "label" -> Label(t[2])
      [] t[1] = "lit" -> Lit(t[2])
      [] t[1] = "said" -> <<"literal", Value("lang", t[2], <<"en">>)>>
      [] t[1] = "()" /\ t[2] = <<>> -> <<"blank", RdfIri("nil")>>
      [] OTHER -> <<"blank", BlankOf(<<at>>)>>
PredicateOf(x) ==
    CASE x = "a" -> RdfIri("type")
      [] x \in {"_1", "_2"} -> RdfIri(x)
      [] OTHER -> Name(x)
RECURSIVE NodeSays(_, _, _), NodeSaysOf(_, _, _, _)
NodeSaysOf(g, s, pos, at) ==
    FlattenSeq([i \in DOMAIN pos |->
        LET there == at \o "." \o ToString(i)
        IN  NodeSays(g, pos[i][2], there)
            \o <<QuadIn(g, <<s, PredicateOf(pos[i][1]), NodeStands(pos[i][2], there)>>)>>])
NodeSays(g, t, at) ==
    CASE t[1] = "[]" -> NodeSaysOf(g, BlankOf(<<at>>), t[2], at)
      [] t[1] = "()" ->
            LET there(i) == at \o "i" \o ToString(i)
                cell(i) == BlankOf(<<IF i = 1 THEN at ELSE at \o "c" \o ToString(i)>>)
            IN  FlattenSeq([i \in DOMAIN t[2] |->
                    NodeSays(g, t[2][i], there(i))
                    \o <<QuadIn(g, <<cell(i), RdfIri("first"), NodeStands(t[2][i], there(i))>>),
                         QuadIn(g, <<cell(i), RdfIri("rest"), IF i = Len(t[2]) THEN <<"iri", RdfIri("nil")>> ELSE <<"blank", cell(i + 1)>>>>)>>])
      [] OTHER -> <<>>
SaidInAll(blocks) ==
    FlattenSeq([i \in DOMAIN blocks |->
        LET b == blocks[i]
            at == ToString(i)
        IN  NodeSays(b[1], b[2], at) \o NodeSaysOf(b[1], NodeStands(b[2], at)[2], b[3], at \o "p")])

\* How names are written, and whether what shares a subject, or a predicate
\* too, is written once.
Spellings == [names : {"full", "prefixed", "relative"}, short : BOOLEAN]
WrittenName(x, sp) ==
    CASE sp.names = "full" -> <<"iri", Name(x)>>
      [] sp.names = "prefixed" -> <<"pn", "v", <<x>>>>
      [] OTHER -> <<"iri", <<"v#", x>>>>

RECURSIVE TurtleTerm(_, _), WrittenPos(_, _)
WrittenPos(pos, sp) ==
    FlattenSeq([i \in DOMAIN pos |->
        (IF sp.short /\ i > 1 /\ pos[i][1] = pos[i - 1][1] THEN <<<<",">>>>
         ELSE (IF i > 1 THEN <<<<";">>>> ELSE <<>>) \o <<IF pos[i][1] = "a" THEN <<"a">> ELSE WrittenName(pos[i][1], sp)>>)
        \o TurtleTerm(pos[i][2], sp)])
TurtleTerm(t, sp) ==
    CASE t[1] = "name" -> <<WrittenName(t[2], sp)>>
      [] t[1] = "label" -> <<<<"label", t[2]>>>>
      [] t[1] = "lit" -> <<<<"str", EscapeLiteral(t[2]), <<>>, <<>>>>>>
      [] t[1] = "[]" -> <<<<"[">>>> \o WrittenPos(t[2], sp) \o (IF sp.short /\ t[2] # <<>> THEN <<<<";">>>> ELSE <<>>) \o <<<<"]">>>>
      [] OTHER -> <<<<"(">>>> \o FlattenSeq([i \in DOMAIN t[2] |-> TurtleTerm(t[2][i], sp)]) \o <<<<")">>>>

TurtleBlock(b, sp) ==
    LET triples == TurtleTerm(b[2], sp) \o WrittenPos(b[3], sp) \o (IF sp.short /\ b[1] # <<>> THEN <<>> ELSE <<<<".">>>>)
    IN  IF b[1] = <<>> THEN (IF sp.short THEN triples ELSE <<<<"{">>>> \o triples \o <<<<"}">>>>)
        ELSE (IF sp.short THEN <<>> ELSE <<<<"graph">>>>) \o <<WrittenName("g", sp), <<"{">>>> \o triples \o <<<<"}">>>>
WrittenTrig(blocks, sp) ==
    <<<<"prefix">>, <<"pn", "v", <<>>>>, <<"iri", <<"ex:", "old">>>>, <<".">>, <<"prefix">>, <<"pn", "v", <<>>>>, <<"iri", Space>>,
      <<"base">>, <<"iri", DocBase>>>>
    \o FlattenSeq([i \in DOMAIN blocks |-> TurtleBlock(blocks[i], sp)])

TheTerms ==
    {N("x"), <<"label", <<"a">>>>, <<"[]", <<>>>>, <<"[]", <<<<"p", N("y")>>, <<"q", <<"[]", <<<<"p", <<"lit", <<"QUOTE">>>>>>>>>>>>>>>>,
     <<"()", <<>>>>, <<"()", <<N("x"), <<"[]", <<<<"p", <<"label", <<"a">>>>>>>>>>, <<"lit", <<"x">>>>>>>>, <<"()", <<<<"()", <<N("x")>>>>>>>>}
TurtleBlocks ==
    {<<g, t, <<<<"p", o>>>>>> : g \in {<<>>, <<Name("g")>>}, t, o \in TheTerms}
    \cup {<<<<>>, N("s"), <<<<"p", o>>, <<"p", u>>, <<"a", N("C")>>>>>> : o, u \in TheTerms}
    \cup {<<<<>>, <<"[]", <<<<"p", o>>>>>>, <<>>>> : o \in TheTerms}
SaidDocs == {<<b>> : b \in TurtleBlocks} \cup {<<b, c>> : b \in {x \in TurtleBlocks : x[2] = N("x")}, c \in {x \in TurtleBlocks : x[3] # <<>> /\ x[3][1][2] = N("x")}}

\* However it is spelled a document says the same, each triple in the graph it
\* stands in, each bracket one node and each collection one list
\* (parse_trig, mint_blank, parse_collection).
SaysThat(read, quads, QuadsOf(_), labels) == read.ok /\ Shape(QuadsOf(read), labels) = Shape(quads, labels)
SpellingIrrelevant(blocks) ==
    \A sp \in Spellings : SaysThat(Read(Reader(WrittenTrig(blocks, sp), <<>>, TRUE)), SaidInAll(blocks), LAMBDA r : r.v, {S3})

(* ---------------------------- spellings in XML --------------------------- *)

\* What has no label or name may be said inside; a property may be an attribute
\* and a type the element's name; the language may be set once; the prefix may
\* be declared again.
XmlSpellings == [relative : BOOLEAN, short : BOOLEAN, inherit : BOOLEAN, local : BOOLEAN]

Reference(x, sp) == IF sp.relative THEN <<"v#", x>> ELSE Name(x)
RdfName(x) == <<"rdf", x>>
LangIs(tag) == <<<<"xml", "lang">>, tag>>
XmlElements(els) == [i \in DOMAIN els |-> <<"elem", els[i]>>]
Text(chars) == IF chars = <<>> THEN <<>> ELSE <<<<"text", chars>>>>

RECURSIVE XmlProperties(_, _), XmlNode(_, _, _)
\* The properties as elements; members are numbered by their place.
XmlProperties(pos, sp) ==
    [i \in DOMAIN pos |->
        LET o == pos[i][2]
            name == CASE pos[i][1] = "a" -> RdfName("type")
                      [] pos[i][1] \in {"_1", "_2"} -> RdfName(IF sp.short THEN "li" ELSE pos[i][1])
                      [] OTHER -> <<"v", pos[i][1]>>
        IN  CASE o[1] = "name" -> Element(name, <<<<RdfName("resource"), Reference(o[2], sp)>>>>, <<>>)
              [] o[1] = "label" -> Element(name, <<<<RdfName("nodeID"), o[2]>>>>, <<>>)
              [] o[1] = "lit" -> Element(name, IF sp.inherit THEN <<LangIs(<<>>)>> ELSE <<>>, Text(o[2]))
              [] o[1] = "said" -> Element(name, IF sp.inherit THEN <<>> ELSE <<LangIs(<<"en">>)>>, Text(o[2]))
              [] o[1] = "[]" -> Element(name, IF sp.short /\ o[2] # <<>> THEN <<>> ELSE <<<<RdfName("parseType"), <<"Resource">>>>>>,
                                        XmlElements(XmlProperties(o[2], sp)))
              [] OTHER -> Element(name, <<<<RdfName("parseType"), <<"Collection">>>>>>, XmlElements([j \in DOMAIN o[2] |-> XmlNode(o[2][j], <<>>, sp)]))]
XmlNode(t, said, sp) ==
    LET all == (IF t[1] = "[]" THEN t[2] ELSE <<>>) \o said
        once(i) == \A j \in DOMAIN all : all[j][1] = all[i][1] => j = i
        asAttr(i) == sp.short /\ once(i) /\ all[i][1] \notin {"a", "_1", "_2"} /\ all[i][2][1] = (IF sp.inherit THEN "said" ELSE "lit")
        asName(i) == sp.short /\ once(i) /\ all[i][1] = "a" /\ all[i][2][1] = "name"
        chosen(Test(_)) == LET at == SetToSortSeq({i \in DOMAIN all : Test(i)}, <) IN [i \in DOMAIN at |-> all[at[i]]]
        attrs == chosen(asAttr)
        names == chosen(asName)
        subject == CASE t[1] = "name" -> <<<<RdfName("about"), Reference(t[2], sp)>>>>
                     [] t[1] = "label" -> <<<<RdfName("nodeID"), t[2]>>>>
                     [] OTHER -> <<>>
    IN  [name |-> IF names = <<>> THEN RdfName("Description") ELSE <<"v", names[1][2][2]>>,
         decl |-> IF sp.local THEN [x \in {"v"} |-> Space] ELSE <<>>,
         attrs |-> subject \o (IF sp.inherit THEN <<LangIs(<<"en">>)>> ELSE <<>>) \o [i \in DOMAIN attrs |-> <<<<"v", attrs[i][1]>>, attrs[i][2][2]>>],
         children |-> XmlElements(XmlProperties(chosen(LAMBDA i : ~asAttr(i) /\ ~asName(i)), sp))]
\* The only block of a document may be its root.
WrittenXml(blocks, sp) ==
    LET nodes == [i \in DOMAIN blocks |-> XmlNode(blocks[i][2], blocks[i][3], sp)]
    IN  IF Len(blocks) = 1 /\ sp.local THEN nodes[1]
        ELSE [Element(RdfName("RDF"), <<>>, XmlElements(nodes)) EXCEPT !.decl = [x \in {"v"} |-> IF sp.local THEN <<"ex:", "old">> ELSE Space]]

XmlObjects ==
    {N("x"), <<"label", <<"a">>>>, <<"lit", <<"QUOTE">>>>, <<"said", <<"x">>>>, <<"[]", <<>>>>,
     <<"[]", <<<<"p", N("y")>>, <<"q", <<"[]", <<<<"p", <<"said", <<"x">>>>>>, <<"p", <<"lit", <<"x">>>>>>>>>>>>>>>>,
     <<"()", <<N("x"), <<"[]", <<<<"p", <<"label", <<"a">>>>>>>>>>, <<"label", <<"a">>>>>>>>, <<"()", <<<<"[]", <<<<"p", <<"()", <<N("x")>>>>>>>>>>>>>>}
XmlDocs ==
    {<<<<<<>>, s, <<<<p, o>>, <<q, u>>>>>>>> : s \in {N("s"), <<"label", <<"a">>>>, <<"[]", <<<<"a", N("C")>>>>>>}, p \in {"p", "a"}, q \in {"p", "q"}, o, u \in XmlObjects}
    \cup {<<<<<<>>, <<"label", <<"rdfxml", "0">>>>, <<<<"p", o>>>>>>, <<<<>>, N("s"), <<<<"_1", u>>, <<"q", N("y")>>, <<"_2", o>>>>>>>> : o, u \in XmlObjects}

\* Collections end in a node of their own, and what is in them is a blank node
\* whatever it is called.
AsListed(quads) ==
    LET term(t) == IF t[1] # "blank" THEN t
                   ELSE IF t[2] = BlankOf(<<"rdf_nil">>) THEN <<"iri", RdfIri("nil")>>
                   ELSE IF IsBlank(t[2]) THEN t ELSE <<"iri", t[2]>>
    IN  [i \in DOMAIN quads |-> [quads[i] EXCEPT !.triple[3] = term(@)]]

\* However it is spelled a document says the same; nodes inside a property are
\* read as its properties (process_node_element, process_property_element,
\* fresh_blank).
XmlSpellingIrrelevant(blocks) ==
    \A sp \in XmlSpellings :
        LET labels == {S3} \cup {BlankOf(t[2]) : t \in {blocks[i][2] : i \in {j \in DOMAIN blocks : blocks[j][2][1] = "label"}}}
        IN  SaysThat(ParseRdfXml(WrittenXml(blocks, sp), DocBase, {}), SaidInAll(blocks), LAMBDA r : AsListed(r.at.out), labels)

(* --------------------------- spellings in JSON --------------------------- *)

\* Names in full, cut at a prefix, as words of a vocabulary or as terms; where
\* the context is; whether English is the default; whether a triple is said of
\* its object, properties stand in a nest, and nodes in the first node.
JsonSpellings ==
    {[names |-> n, context |-> c, english |-> f = "turned", reverse |-> f = "turned", nest |-> f = "nested", included |-> f # "plain"] :
        n \in {"full", "compact", "vocab", "term"}, c \in {"inline", "listed", "remote", "import", "node"}, f \in {"plain", "turned", "nested"}}
    \cup {[names |-> "compact", context |-> "scoped", english |-> FALSE, reverse |-> b, nest |-> ~b, included |-> b] : b \in BOOLEAN}

PlainJson == [names |-> "full", context |-> "inline", english |-> FALSE, reverse |-> FALSE, nest |-> FALSE, included |-> FALSE]

Str(pieces) == <<"str", pieces>>
Obj(entries) == <<"obj", entries>>
Entry(word, value) == <<<<word>>, value>>
Ctx == <<"http://", "ctx">>
TermsOf(set) == Obj([i \in DOMAIN set |-> <<<<set[i][1]>>, Obj([j \in DOMAIN set[i][2] |-> <<<<set[i][2][j][1]>>, Str(set[i][2][j][2])>>])>>])

JsonName(x, sp) == IF sp.names = "full" \/ sp.context = "scoped" THEN Name(x) ELSE <<"v:", x>>
\* Keys of a property by what it holds, each with a definition in term spelling.
KeyOf(pred, o, sp) ==
    CASE o[1] = "()" -> <<"listed " \o pred>>
      [] o[1] # "()" /\ sp.names = "term" /\ o[1] \in {"name", "label"} -> <<"named " \o pred>>
      [] o[1] # "()" /\ sp.names = "term" /\ o[1] = "said" -> <<"said " \o pred>>
      [] o[1] # "()" /\ sp.names \in {"vocab", "term"} /\ ~(sp.names = "term" /\ o[1] \in {"name", "label", "said"}) -> <<pred>>
      [] sp.names = "full" -> Name(pred)
      [] OTHER -> <<"v:", pred>>
Preds == <<"p", "q">>
Definitions ==
    FlattenSeq([i \in DOMAIN Preds |->
        LET x == Preds[i]
        IN  <<<<"listed " \o x, <<<<"@id", <<"v:", x>>>>, <<"@container", <<"@list">>>>>>>>,
              <<"named " \o x, <<<<"@id", <<"v:", x>>>>, <<"@type", <<"@id">>>>>>>>,
              <<"said " \o x, <<<<"@id", <<"v:", x>>>>, <<"@container", <<"@language">>>>>>>>,
              <<"by " \o x, <<<<"@reverse", <<"v:", x>>>>>>>>>>])
    \o <<<<"nest", <<<<"@id", <<"@nest">>>>>>>>, <<"in", <<<<"@id", <<"@included">>>>>>>>>>
Context(sp) ==
    Obj(<<Entry("@vocab", Str(Space)), Entry("@base", Str(DocBase)), Entry("v", Str(Space))>>
        \o (IF sp.english THEN <<Entry("@language", Str(<<"en">>))>> ELSE <<>>)
        \o (IF sp.context = "scoped" THEN <<Entry("@propagate", <<"bool", "false">>)>> ELSE <<>>)
        \o TermsOf(Definitions)[2])
Wrong == Obj(<<Entry("v", Str(<<"ex:", "old">>)), Entry("p", Str(<<"ex:", "p">>)), Entry("@language", Str(<<"fr">>))>>)
\* What the document says for its context, and what there is to load.
ContextEntry(sp) ==
    CASE sp.context = "listed" -> <<Entry("@context", <<"arr", <<Wrong, <<"null">>, Context(sp)>>>>)>>
      [] sp.context = "remote" -> <<Entry("@context", <<"arr", <<Obj(<<Wrong[2][1]>>), Str(Ctx), Str(Ctx)>>>>)>>
      [] sp.context = "import" -> <<Entry("@context", Obj(<<Entry("@import", Str(Ctx)), Entry("p", Str(<<"v:", "p">>))>>))>>
      [] OTHER -> <<Entry("@context", Context(sp))>>
Loadable(sp) ==
    CASE sp.context = "remote" -> (Ctx :> Context(sp))
      [] sp.context = "import" -> (Ctx :> Obj(Append(Context(sp)[2], Entry("p", Str(<<"ex:", "old">>)))))
      [] OTHER -> <<"ex:", "import">> :> Obj(<<Entry("@import", Str(Ctx))>>)

RECURSIVE JsonValue(_, _), JsonNode(_, _, _)
JsonValue(o, sp) ==
    CASE o[1] = "name" -> IF sp.names = "term" THEN Str(JsonName(o[2], sp)) ELSE Obj(<<Entry("@id", Str(JsonName(o[2], sp)))>>)
      [] o[1] = "label" -> IF sp.names = "term" THEN Str(BlankOf(o[2])) ELSE Obj(<<Entry("@id", Str(BlankOf(o[2])))>>)
      [] o[1] = "lit" -> IF sp.english THEN Obj(<<Entry("@value", Str(o[2]))>>) ELSE Str(o[2])
      [] o[1] = "said" ->
            IF sp.names = "term" THEN Obj(<<Entry("en", Str(o[2]))>>)
            ELSE IF sp.english THEN Str(o[2]) ELSE Obj(<<Entry("@value", Str(o[2])), Entry("@language", Str(<<"en">>))>>)
      [] o[1] = "[]" -> JsonNode(o, <<>>, sp)
      [] OTHER -> <<"arr", [i \in DOMAIN o[2] |-> IF o[2][i][1] \in {"name", "label", "said"} THEN JsonValue(o[2][i], [sp EXCEPT !.names = "compact"]) ELSE JsonValue(o[2][i], sp)]>>

\* Values with the same key stand in one array.
JsonEntries(pos, sp) ==
    LET keys == DedupTriples([i \in DOMAIN pos |-> KeyOf(pos[i][1], pos[i][2], sp)])
        under(key) == SelectSeq(pos, LAMBDA x : KeyOf(x[1], x[2], sp) = key)
        values(key) == [i \in DOMAIN under(key) |-> JsonValue(under(key)[i][2], sp)]
        \* A language map has one entry for all.
        merged(key) == IF values(key)[1][1] = "obj" /\ under(key)[1][2][1] = "said" /\ sp.names = "term"
                       THEN Obj(<<Entry("en", <<"arr", [i \in DOMAIN under(key) |-> values(key)[i][2][1][2]]>>)>>)
                       ELSE <<"arr", values(key)>>
    IN  [i \in DOMAIN keys |-> <<keys[i], IF Len(under(keys[i])) = 1 THEN values(keys[i])[1] ELSE merged(keys[i])>>]
JsonNode(t, said, sp) ==
    LET all == (IF t[1] = "[]" THEN t[2] ELSE <<>>) \o said
        types == SelectSeq(all, LAMBDA x : x[1] = "a")
        entries == JsonEntries(SelectSeq(all, LAMBDA x : x[1] # "a"), sp)
    IN  Obj((IF sp.context \in {"node", "scoped"} THEN ContextEntry(sp) ELSE <<>>)
            \o (CASE t[1] = "name" -> <<Entry("@id", Str(JsonName(t[2], sp)))>>
                  [] t[1] = "label" -> <<Entry("@id", Str(BlankOf(t[2])))>>
                  [] OTHER -> <<>>)
            \o (IF types = <<>> THEN <<>> ELSE <<Entry("@type", <<"arr", [i \in DOMAIN types |-> Str(JsonName(types[i][2][2], sp))]>>)>>)
            \o (IF sp.nest THEN <<Entry(IF sp.names = "term" THEN "nest" ELSE "@nest", Obj(entries))>> ELSE entries))

\* A block that says one thing of a name may be said of that name instead.
JsonBlock(b, sp) ==
    LET o == b[3][1][2]
        turned == sp.reverse /\ b[2][1] = "name" /\ Len(b[3]) = 1 /\ b[3][1][1] # "a" /\ o[1] \in {"name", "label"}
        key == IF sp.names = "term" THEN <<"by " \o b[3][1][1]>> ELSE KeyOf(b[3][1][1], o, sp)
        subject == Obj(<<Entry("@id", Str(JsonName(b[2][2], sp)))>>)
    IN  IF ~turned THEN JsonNode(b[2], b[3], sp)
        ELSE Obj(JsonNode(o, <<>>, [sp EXCEPT !.nest = FALSE])[2]
                 \o (IF sp.names = "term" THEN <<<<key, subject>>>> ELSE <<Entry("@reverse", Obj(<<<<key, subject>>>>))>>))
\* In the default graph or all in one graph; in a list of nodes the first says
\* nothing in a context of its own.
JsonListed(nodes, sp) ==
    LET more == Entry(IF sp.names = "term" THEN "in" ELSE "@included", <<"arr", Tail(nodes)>>)
    IN  IF sp.included /\ Len(nodes) > 1 THEN <<Obj(Append(nodes[1][2], more))>> ELSE nodes
Bundled(listed, graph, sp) ==
    LET g == IF graph = <<>> THEN <<>> ELSE <<Entry("@id", Str(JsonName("g", sp)))>>
        own == IF sp.context \in {"node", "scoped"} /\ g = <<>> THEN <<>> ELSE ContextEntry(sp)
        silent == Obj(<<Entry("@context", Wrong), Entry("@id", Str(Name("s")))>>)
    IN  CASE g = <<>> /\ own = <<>> -> <<"arr", <<silent>> \o listed>>
          [] g = <<>> /\ own # <<>> /\ Len(listed) = 1 -> Obj(own \o listed[1][2])
          [] OTHER -> Obj(own \o g \o <<Entry("@graph", <<"arr", listed>>)>>)
JsonDoc(blocks, sp) == Bundled(JsonListed([i \in DOMAIN blocks |-> JsonBlock(blocks[i], sp)], sp), blocks[1][1], sp)

JsonObjects ==
    {N("x"), <<"label", <<"a">>>>, <<"lit", <<"x">>>>, <<"said", <<"x">>>>, <<"[]", <<>>>>, <<"()", <<>>>>,
     <<"[]", <<<<"p", N("y")>>, <<"q", <<"[]", <<<<"p", <<"said", <<"x">>>>>>, <<"p", <<"lit", <<"x">>>>>>>>>>>>>>>>,
     <<"()", <<N("x"), <<"[]", <<<<"p", <<"()", <<N("x")>>>>>>>>>>, <<"lit", <<"x">>>>, <<"said", <<"x">>>>>>>>}
JsonDocs ==
    {<<<<g, s, <<<<"p", o>>, <<q, u>>>>>>>> : g \in {<<>>, <<Name("g")>>}, s \in {N("s"), <<"[]", <<<<"a", N("C")>>>>>>}, q \in {"p", "q"},
        o \in JsonObjects, u \in {N("x"), <<"said", <<"x">>>>, <<"[]", <<<<"p", <<"lit", <<"x">>>>>>>>>>}}
    \cup {<<<<g, N("s"), <<<<"p", o>>>>>>, <<g, <<"label", <<"a">>>>, <<<<"a", N("C")>>, <<"q", o>>>>>>>> : g \in {<<>>, <<Name("g")>>}, o \in JsonObjects}

\* What is no triple refuses the document: a literal for a subject, a label or
\* a literal for a predicate or a graph, an unknown prefix, a brace left open;
\* in JSON what has not the type its place asks for, an unknown context, and an
\* import in what is imported.
BrokenTurtle ==
    {<<<<"str", <<"x">>, <<>>, <<>>>>, <<"iri", Name("p")>>, <<"iri", Name("x")>>, <<".">>>>,
     <<<<"iri", Name("s")>>, <<"label", <<"a">>>>, <<"iri", Name("x")>>, <<".">>>>,
     <<<<"iri", Name("s")>>, <<"pn", "w", <<"p">>>>, <<"iri", Name("x")>>, <<".">>>>,
     <<<<"graph">>, <<"label", <<"a">>>>, <<"{">>, <<"}">>>>,
     <<<<"iri", Name("g")>>, <<"{">>, <<"iri", Name("s")>>, <<"a">>, <<"iri", Name("x")>>, <<".">>>>,
     <<<<"iri", Name("s")>>, <<"a">>, <<"(">>, <<"iri", Name("x")>>, <<".">>>>,
     <<<<"iri", Name("s")>>, <<"a">>, <<"[">>, <<"a">>, <<"iri", Name("x")>>, <<".">>>>,
     <<<<"iri", Name("s")>>, <<"a">>, <<".">>>>, <<<<"prefix">>, <<"iri", Space>>, <<"iri", Space>>>>,
     <<<<"{">>, <<"prefix">>, <<"pn", "v", <<>>>>, <<"iri", Space>>, <<"}">>>>,
     <<<<"iri", Name("s")>>, <<"bare", "p">>, <<"iri", Name("x")>>, <<".">>>>}
BrokenJson ==
    LET about(entries) == Obj(<<Entry("@id", Str(Name("s")))>> \o entries)
        inContext(entry) == Obj(<<Entry("@context", Obj(<<entry>>))>>)
        seven == <<"num", <<"7">>>>
    IN  {seven, Obj(<<Entry("@context", seven)>>), Obj(<<Entry("@context", Str(Ctx))>>), Obj(<<Entry("@context", Str(<<"ex:", "import">>))>>),
         inContext(Entry("@vocab", seven)), inContext(Entry("@import", seven)), inContext(Entry("@propagate", seven)), inContext(Entry("p", seven)),
         inContext(Entry("p", Obj(<<Entry("@id", seven)>>))),
         about(<<Entry("@type", seven)>>), about(<<Entry("@nest", seven)>>), about(<<Entry("@reverse", seven)>>), about(<<Entry("@included", seven)>>),
         about(<<Entry("p", <<"arr", <<<<"arr", <<>>>>>>>>)>>), about(<<Entry("p", Obj(<<Entry("@value", seven), Entry("@language", Str(<<"en">>))>>))>>),
         about(<<Entry("p", Obj(<<Entry("@value", seven), Entry("@type", seven)>>))>>),
         <<"arr", <<seven>>>>}
        \cup {about(<<Entry("@context", TermsOf(<<<<"p", <<<<"@container", c>>>>>>>>)), Entry("p", seven)>>) : c \in {<<"@list">>, <<"@language">>, <<"@index">>}}
Refused(broken) == \A graphs \in BOOLEAN : ~Read(Reader(broken, <<>>, graphs)).ok
\* <<"said", blocks>> or <<"broken", JSON>>.
ReadRight(read, x) ==
    IF x[1] = "broken" THEN ~read.ok ELSE SaysThat(read, AsListed(SaidInAll(x[2])), LAMBDA r : AsListed(r.at.out), {S3})
JsonSpellingIrrelevant(x) ==
    \A sp \in IF x[1] = "broken" THEN {PlainJson} ELSE JsonSpellings :
        ReadRight(ParseJsonLd(IF x[1] = "broken" THEN x[2] ELSE JsonDoc(x[2], sp), <<>>, Loadable(sp)), x)

(* --------------------------------- results ------------------------------- *)

ResultTerms == {<<"node", S1>>, <<"node", S3>>, <<"iri", S1>>} \cup {t \in SomeLiterals : TRUE}
               \cup {Lit(<<"TAB", ",">>), Lit(<<"QUOTE", ",", "QUOTE">>), Lit(<<"true">>), Lit(<<"7">>), Lit(<<"\\">>), Lit(<<" ", "x">>)}
SomeRows == [{"x"} -> ResultTerms] \cup [{"y"} -> {<<"node", S1>>}] \cup [{"x", "y"} -> {<<"node", S3>>, Lit(<<"x">>)}] \cup {<<>>}
Results ==
    {[boolean |-> <<b>>, variables |-> <<>>, rows |-> <<>>] : b \in BOOLEAN}
    \cup {[boolean |-> <<>>, variables |-> v, rows |-> r] : v \in {<<"x", "y">>}, r \in {<<>>} \cup [1..2 -> SomeRows]}
    \cup {[boolean |-> <<>>, variables |-> <<"x">>, rows |-> r] : r \in [1..2 -> [{"x"} -> ResultTerms] \cup {<<>>}]}

\* A result is read back from each document, row by row, with the same terms;
\* in text documents a row without values is no row, and in XML spaces at the
\* ends of a text are not kept (sparql_results_tsv and the like, parse_results_document).
Comes(read, table) == read.ok /\ read.at = table
ResultsSurvive(r) ==
    LET row(f) == [v \in DOMAIN f |-> Shown(f[v], Numbers)]
        rows == SelectSeq(r.rows, LAMBDA f : f # <<>>)
        table == [r EXCEPT !.rows = [i \in DOMAIN rows |-> row(rows[i])]]
        tight == \A i \in DOMAIN r.rows : \A v \in DOMAIN r.rows[i] : r.rows[i][v][1] = "literal" => Trimmed(r.rows[i][v][2].text) = r.rows[i][v][2].text
    IN  /\ Comes(ParseTsv(WriteTsv(r, Numbers)), table)
        /\ r.boolean = <<>> => Comes(ParseCsv(WriteCsv(r, Numbers)), table)
        /\ tight => Comes(ParseSrx(WriteSrx(r, Numbers)), [r EXCEPT !.rows = [i \in DOMAIN @ |-> row(@[i])]])

(* ------------------------------- exchange -------------------------------- *)

Url(ending) == [scheme |-> "http", ending |-> ending]
Named(name) == <<Media(name, ToSet(<<name>>))>>
FewDatasets == {Collected(q) : q \in UNION {[1..n -> {QuadIn(g, t) : g \in Graphs3, t \in FewTriples \cup {<<S3, Name("p"), <<"blank", S3>>>>}}] : n \in 0..2}}
PeerFormats == {<<>>} \cup {Named(f) : f \in {"nquads", "nt", "turtle", "trig", "rdfxml"}}
Peers ==
    [d : FewDatasets, owned : {<<>>, <<{Name("g")}>>}, format : PeerFormats, into : {<<>>, <<Name("h")>>}, silent : BOOLEAN, fault : {"none", "cut"}]
    \cup [d : {Collected(<<QuadIn(<<>>, <<S1, Name("p"), Lit(<<"x">>)>>)>>)}, owned : {<<>>}, format : PeerFormats, into : {<<>>}, silent : BOOLEAN,
          fault : {"untyped", "down", "error", "unreadable", "local"}]
WholeDatasets == {<<>>, Named("nquads"), Named("trig")}     \* formats with names of graphs

\* What a peer may see of its dataset.
Visible(x) ==
    LET all == DatasetQuads(x.d)
        own == SelectSeq(all, LAMBDA q : x.owned # <<>> /\ q.graph # <<>> /\ q.graph[1] \in x.owned[1])
    IN  IF x.owned = <<>> THEN all ELSE own \o [i \in DOMAIN own |-> [own[i] EXCEPT !.graph = <<>>]]
Patterns(quads, into) ==
    [i \in DOMAIN quads |->
        LET t == quads[i].triple
        IN  QuadIn(IF quads[i].graph = <<>> THEN into ELSE quads[i].graph, <<<<"node", t[1]>>, t[2], IF t[3][1] = "blank" THEN <<"node", t[3][2]>> ELSE t[3]>>)]
Endings == [nquads |-> "nq", nt |-> "nt", turtle |-> "ttl", trig |-> "trig", rdfxml |-> "rdf"]
EndingOf(format) == IF format = <<>> THEN "nq" ELSE Endings[format[1].whole]
WebOf(x, a) ==
    LET sent == [status |-> 200, type |-> a.type, body |-> a.body]
    IN  CASE x.fault = "untyped" -> Url(EndingOf(x.format)) :> [sent EXCEPT !.type = <<>>]
          [] x.fault = "error" -> Url(EndingOf(x.format)) :> [sent EXCEPT !.status = 503]
          [] x.fault = "unreadable" -> Url(EndingOf(x.format)) :> [sent EXCEPT !.body = <<"lines", <<<<<<"str", <<>>, <<>>, <<>>>>>>>>>>]
          [] x.fault \in {"down", "local"} -> <<>>
          [] OTHER -> Url(EndingOf(x.format)) :> sent
PeerWeb(x) == WebOf(x, ExportData(x.d, x.owned, [format |-> x.format, accept |-> <<LoadAccept>>], Numbers))
PeerOps(x) ==
    <<<<"clear", x.into>>, <<"load", IF x.fault = "local" THEN [Url("nt") EXCEPT !.scheme = "file"] ELSE Url(EndingOf(x.format)), x.into, x.silent>>, <<"clear", <<>>>>>>

\* What a LOAD from a peer makes of the update: the triples that the caller may
\* see there, in the default graph those of its default graph and the rest under
\* their names where the format has them; nothing of a peer that fails, if
\* SILENT (rewrite_remote_loads, export_data).
LoadedRight(x, got) ==
    LET carried == IF x.format \in WholeDatasets THEN Visible(x) ELSE SelectSeq(Visible(x), LAMBDA q : q.graph = <<>>)
    IN  CASE x.fault \in {"none", "cut", "untyped"} ->
                /\ got.ok /\ Len(got.v) = 3 /\ got.v[1] = PeerOps(x)[1] /\ got.v[3] = PeerOps(x)[3]
                /\ got.v[2][1] = "insert" /\ Occurrences(got.v[2][2]) = Occurrences(Patterns(carried, x.into))
          [] x.fault \in {"down", "error"} -> IF x.silent THEN got.ok /\ got.v = <<PeerOps(x)[1], PeerOps(x)[3]>> ELSE ~got.ok
          [] x.fault = "unreadable" -> ~got.ok
          [] OTHER -> got.ok /\ got.v = PeerOps(x)

\* Of N-Quads that are cut off between two terms a prefix is loaded, of which
\* the last triple may have lost its graph (http_get, parse_nquads_line).
LoadedPart(got, sent, x, terms) ==
    got.ok => \A q \in ToSet(got.v[2][2]) : q \in ToSet(sent) \/ (q.graph = x.into /\ q.triple \in {sent[i].triple : i \in DOMAIN sent} /\ terms = 3)
\* <<>> for the whole, or <<the line, its terms>> that arrive last.
Cuts(x, web) ==
    {<<>>} \cup (IF x.fault = "cut" /\ x.format = <<>>
                 THEN UNION {{<<l, j>> : j \in 1..(Len(web[Url("nq")].body[2][l]) - 1)} : l \in DOMAIN web[Url("nq")].body[2]} ELSE {})
Arriving(web, cut) ==
    IF cut = <<>> THEN web ELSE [web EXCEPT ![Url("nq")].body[2] = Append(SubSeq(@, 1, cut[1] - 1), SubSeq(@[cut[1]], 1, cut[2]))]
LoadedFrom(x, web) ==
    \A cut \in Cuts(x, web) :
        LET judged(got) == IF cut = <<>> THEN LoadedRight(x, got) ELSE LoadedPart(got, Patterns(Visible(x), x.into), x, cut[2])
        IN  judged(RewriteRemoteLoads(PeerOps(x), Arriving(web, cut)))
PeerLoads(x) == LoadedFrom(x, PeerWeb(x))

\* What is exported is taken in again by the type it came with, at any path, or
\* by the name of its format.
TakenIn(x, a, how) ==
    LET carried == IF x.format \in WholeDatasets \ {<<>>} THEN Visible(x) ELSE SelectSeq(Visible(x), LAMBDA q : q.graph = <<>>)
        req == IF how = "named" THEN [format |-> IF x.format = <<>> THEN Named("ttl") ELSE x.format, type |-> <<>>] ELSE [format |-> <<>>, type |-> a.type]
        same(again) == again # <<>> /\ Occurrences(DatasetQuads(again[1])) = Occurrences(DatasetQuads(Collected(carried)))
    IN  a.ok /\ same(ParseAs(DetectIngestFormat(req, how)[1], a.body))
IngestsAgain(x) ==
    \A how \in {"/data", "/data/trig", "named"} : TakenIn(x, ExportData(x.d, x.owned, [format |-> x.format, accept |-> <<>>], Numbers), how)

Asked == {FederationAccept} \cup {Media(f, {f}) : f \in {"tsv", "csv", "srx", "json"}}
Answers ==
    {[kind |-> IF r.boolean = <<>> THEN "select" ELSE "ask", boolean |-> r.boolean, variables |-> r.variables, rows |-> r.rows] :
        r \in {q \in Results : Len(q.rows) < 2 \/ q.rows[2] \in {<<>>, [y \in {"y"} |-> <<"node", S1>>]}}}
    \cup {[kind |-> "construct", boolean |-> <<>>, variables |-> <<>>, rows |-> <<>>]}
\* A federated query gets the rows of the peer, whatever format they come in
\* (evaluate, sparql_results_json); JSON names blank nodes by their number, text
\* has no row without values and XML no spaces at the ends of a text.
AnsweredRight(r, format, got) ==
    LET seen(t) == LET u == IF format = "json" /\ (t[1] = "blank" \/ (t[1] = "node" /\ IsBlank(t[2]))) THEN <<"blank", <<"n", "9">>>> ELSE Shown(t, Numbers)
                   IN  CASE u[1] = "blank" -> <<"blank", BlankOf(u[2])>>
                         [] u[1] = "literal" /\ format = "srx" -> <<"literal", [u[2] EXCEPT !.text = Trimmed(@)]>>
                         [] OTHER -> u
        rows == IF format \in {"tsv", "csv"} THEN SelectSeq(r.rows, LAMBDA f : f # <<>>) ELSE r.rows
    IN  CASE r.kind = "construct" -> ~got.ok
          [] r.kind = "ask" -> got.ok /\ got.v = <<>>
          [] OTHER -> got.ok /\ got.v = [i \in DOMAIN rows |-> [v \in DOMAIN rows[i] |-> seen(rows[i][v])]]
AnswerArrives(r, sent) ==
    LET url == Url("sparql")
    IN  AnsweredRight(r, sent.body[1], Evaluate(HttpGet(url, url :> [status |-> 200, type |-> sent.type, body |-> sent.body])))
PeerAnswers(r) == \A asked \in Asked : AnswerArrives(r, SparqlResponse(r, asked, Numbers))

Bound == {<<>>} \cup {<<<<"x", t>>>> : t \in {<<"iri", S1>>} \cup SomeLiterals} \cup {<<<<"x", t>>, <<"y", <<"iri", S1>>>>>> : t \in SomeLiterals}
Queries ==
    {[pattern |-> <<"x">>, bound |-> b, endpoint |-> <<"h", "/", "sparql">>] : b \in Bound}
    \cup {[pattern |-> p, bound |-> <<>>, endpoint |-> e] : e \in {<<"h", "/", "sparql">>, <<"h", "/", "sparql", "?", "to", "=", "1">>},
        p \in UNION {[1..n -> {"x", "?", " ", "%", "&", "=", "+", "#", "LF"}] : n \in 0..2}}
\* The endpoint reads the query that was asked, from the target or from a form,
\* and in it the terms that were bound (append_query, split_target,
\* extract_sparql_query, values_term).
Requests(endpoint, asked, encoded) ==
    {[query |-> ParseQuery(AppendQuery(endpoint, encoded)), type |-> "", body |-> <<>>],
     [query |-> <<>>, type |-> "form", body |-> <<"to", "=", "1", "&", "query", "=">> \o encoded],
     [query |-> <<>>, type |-> "text", body |-> asked]}
AskedRight(x, asked) == \A req \in Requests(x.endpoint, asked, PercentEncode(asked)) : ExtractSparqlQuery(req) = <<asked>>
QueryArrives(x) ==
    /\ AskedRight(x, BuildFederatedQuery(x.pattern, x.bound))
    /\ \A i \in DOMAIN x.bound : ParseTsvCell(ValuesTerm(x.bound[i][2])[1]) = <<x.bound[i][2]>>

(* -------------------------------- documents ------------------------------ *)

Kinds == {"dataset", "set", "spelling", "xml", "json", "broken", "result", "peer", "answer", "query"}
DocumentsOf(kind) ==
    CASE kind = "dataset" -> Datasets
      [] kind = "set" -> [1..3 -> SetOps]
      [] kind = "spelling" -> SaidDocs
      [] kind = "xml" -> XmlDocs
      [] kind = "json" -> {<<"said", d>> : d \in JsonDocs} \cup {<<"broken", b>> : b \in BrokenJson}
      [] kind = "broken" -> BrokenTurtle
      [] kind = "result" -> Results
      [] kind = "peer" -> Peers
      [] kind = "answer" -> Answers
      [] OTHER -> Queries
Exact(kind, doc) ==
    CASE kind = "dataset" -> LinesSurvive(doc) /\ XmlSurvives(doc)
      [] kind = "set" -> ActsAsSet(doc)
      [] kind = "spelling" -> SpellingIrrelevant(doc)
      [] kind = "xml" -> XmlSpellingIrrelevant(doc)
      [] kind = "json" -> JsonSpellingIrrelevant(doc)
      [] kind = "broken" -> Refused(doc)
      [] kind = "result" -> ResultsSurvive(doc)
      [] kind = "peer" -> PeerLoads(doc) /\ (doc.fault = "none" => IngestsAgain(doc))
      [] kind = "answer" -> PeerAnswers(doc)
      [] OTHER -> QueryArrives(doc)
=============================================================================
