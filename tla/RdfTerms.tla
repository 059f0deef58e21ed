------------------------------ MODULE RdfTerms -------------------------------
(***************************************************************************)
(* RDF terms in documents (ontolith-parser, term_lex.rs, nt.rs and         *)
(* domain/serialize.rs) and the dataset that documents are read into and   *)
(* written from (ontolith-rdf, domain/graph.rs): IRIs and their bases,     *)
(* typed literals, escapes, and the line formats N-Triples and N-Quads.    *)
(*                                                                         *)
(* An IRI is a sequence of pieces cut after every '/' and '#'; a node of   *)
(* the dictionary is an IRI or <<"_:">> followed by the characters of a    *)
(* label. A term is <<"iri", i>>, <<"blank", node>> or <<"literal", [kind, *)
(* text, of]>>, where text is a sequence of characters and of the language *)
(* or the datatype. Decimals and floats are left out: they differ from     *)
(* integers in how a number is printed. Triples are <<node, IRI, term>>.   *)
(*                                                                         *)
(* A token is <<"iri", pieces>>, <<"label", characters>>, <<"str", written *)
(* characters, language, datatype>> or a mark; a line is a sequence of     *)
(* tokens.                                                                 *)
(*                                                                         *)
(* A dataset is lists of triples, one for the default graph and one under  *)
(* each name. Triples are compared by their canonical bytes, which is      *)
(* equality here. A quad is [graph, triple] where graph is <<>> or         *)
(* <<name>>.                                                               *)
(***************************************************************************)
EXTENDS Naturals, Sequences
LOCAL INSTANCE SequencesExt
LOCAL INSTANCE FiniteSets
LOCAL INSTANCE Functions
LOCAL INSTANCE TLC

EmptyDataset == [default |-> <<>>, named |-> <<>>]
QuadIn(g, t) == [graph |-> g, triple |-> t]

NamedQuads(d) ==
    FlattenSeq([i \in DOMAIN d.named |-> [j \in DOMAIN d.named[i].triples |-> QuadIn(<<d.named[i].name>>, d.named[i].triples[j])]])
\* Every quad: those of the default graph, then graph by graph.
DatasetQuads(d) == [i \in DOMAIN d.default |-> QuadIn(<<>>, d.default[i])] \o NamedQuads(d)

TripleCount(d) == Len(DatasetQuads(d))
PositionOf(d, g) == {i \in DOMAIN d.named : d.named[i].name = g}
NamedGraph(d, g) == [i \in {1} \cap {Cardinality(PositionOf(d, g))} |-> d.named[CHOOSE j \in PositionOf(d, g) : TRUE]]

(* ----------------------------- lists of triples -------------------------- *)

InsertUnique(triples, t) == IF Contains(triples, t) THEN triples ELSE Append(triples, t)
RemoveTriple(triples, t) ==
    IF Contains(triples, t) THEN RemoveAt(triples, SelectInSeq(triples, LAMBDA u : u = t)) ELSE triples
\* The first of each stays, in order.
DedupTriples(triples) == FoldLeft(InsertUnique, <<>>, triples)

(* ------------------------------ operations ------------------------------- *)

\* The triples of graph g become changed(them); a graph is made on first use.
WithGraph(d, g, changed(_)) ==
    IF g = <<>> THEN [d EXCEPT !.default = changed(@)]
    ELSE IF PositionOf(d, g[1]) = {} THEN [d EXCEPT !.named = Append(@, [name |-> g[1], triples |-> changed(<<>>)])]
    ELSE [d EXCEPT !.named = [i \in DOMAIN @ |-> IF @[i].name = g[1] THEN [@[i] EXCEPT !.triples = changed(@)] ELSE @[i]]]

InsertQuad(d, q) == WithGraph(d, q.graph, LAMBDA triples : Append(triples, q.triple))
InsertQuadUnique(d, q) == WithGraph(d, q.graph, LAMBDA triples : InsertUnique(triples, q.triple))
ContainsQuad(d, q) == Contains(DatasetQuads(d), q)

\* Mutant: a named graph that is left empty stays.
RemoveKeeping(d, q) ==
    IF ~ContainsQuad(d, q) THEN d ELSE WithGraph(d, q.graph, LAMBDA triples : RemoveTriple(triples, q.triple))
\* A named graph that is left empty goes.
RemoveQuad(d, q) ==
    IF ~ContainsQuad(d, q) THEN d
    ELSE LET left == WithGraph(d, q.graph, LAMBDA triples : RemoveTriple(triples, q.triple))
         IN  [left EXCEPT !.named = SelectSeq(@, LAMBDA g : <<g.name>> # q.graph \/ g.triples # <<>>)]

Dedup(d) ==
    [default |-> DedupTriples(d.default),
     named |-> [i \in DOMAIN d.named |-> [d.named[i] EXCEPT !.triples = DedupTriples(@)]]]

\* What is appended again stays twice; with set semantics it does not.
Merge(d, other) == FoldLeft(InsertQuad, d, DatasetQuads(other))
MergeSet(d, other) == FoldLeft(InsertQuadUnique, d, DatasetQuads(other))
Collected(quads) == FoldLeft(InsertQuad, EmptyDataset, quads)   \* DatasetSink

(* --------------------------- canonical encoding -------------------------- *)

Occurrences(s) == [x \in ToSet(s) |-> Cardinality({i \in DOMAIN s : s[i] = x})]
\* The canonical encoding sorts the triples of a graph and the graphs by name.
Canonical(d) ==
    <<Occurrences(d.default),
      {<<d.named[i].name, Occurrences(d.named[i].triples)>> : i \in DOMAIN d.named}>>

Schemes == {"http://", "ex:", "rdf:", "xsd:"}        \* pieces of absolute IRIs with a colon
AfterSlash == {"http://", "h/", "d/", "e/"}          \* pieces that end with '/'
AfterHash == {"v#"}

RdfIri(name) == <<"rdf:", name>>
Xsd(name) == <<"xsd:", name>>
BlankOf(label) == <<"_:">> \o label
IsBlank(node) == node[1] = "_:"
LabelOf(node) == Tail(node)

\* What a reader gives: a value and its state after it, or a failure.
Given(v, p) == [ok |-> TRUE, v |-> v, at |-> p]
NotGiven(p) == [ok |-> FALSE, v |-> <<>>, at |-> p]
AndThen(r, K(_, _)) == IF r.ok THEN K(r.v, r.at) ELSE r

(* ---------------------------------- IRIs --------------------------------- *)

\* Mutant: the base is always extended.
ResolveByAppending(base, rel) == base \o rel
ResolveAgainstBase(base, rel) ==
    LET slashes == {i \in DOMAIN base : base[i] \in AfterSlash}
        last == CHOOSE i \in slashes : \A j \in slashes : j <= i
    IN  IF rel = <<>> \/ slashes = {} \/ Last(base) \in AfterSlash \cup AfterHash THEN base \o rel
        ELSE SubSeq(base, 1, last) \o rel

IsAbsolute(iri) == iri # <<>> /\ iri[1] \in Schemes

\* The base, if any, is a sequence of one IRI.
ExpandIriRef(base, iri) == IF IsAbsolute(iri) \/ base = <<>> THEN iri ELSE ResolveAgainstBase(base[1], iri)

(* -------------------------------- literals ------------------------------- *)

Digits == {"0", "1", "2", "3", "4", "5", "6", "7", "8", "9"}
IsNumeral(text) ==
    LET unsigned == IF text # <<>> /\ text[1] \in {"-", "+"} THEN Tail(text) ELSE text
    IN  unsigned # <<>> /\ ToSet(unsigned) \subseteq Digits
\* The number as it is printed: no leading zeros, no plus, no negative zero.
Printed(text) ==
    LET unsigned == IF text[1] \in {"-", "+"} THEN Tail(text) ELSE text
        from == SelectInSeq(unsigned, LAMBDA c : c # "0")
    IN  IF from = 0 THEN <<"0">>
        ELSE (IF text[1] = "-" THEN <<"-">> ELSE <<>>) \o SubSeq(unsigned, from, Len(unsigned))

Value(kind, text, of) == [kind |-> kind, text |-> text, of |-> of]
CoerceTypedLiteral(text, datatype, integers) ==
    CASE datatype = Xsd("string") -> Value("string", text, <<>>)
      [] datatype[1] = "xsd:" /\ datatype[2] \in integers /\ IsNumeral(text) -> Value("integer", Printed(text), <<>>)
      [] datatype = Xsd("boolean") /\ text \in {<<"true">>, <<"false">>} -> Value("boolean", text, <<>>)
      [] OTHER -> Value("typed", text, datatype)

TurtleIntegers == {"integer", "int", "long", "byte", "nonNegativeInteger"}
NTriplesIntegers == {"integer", "int", "long"}

DatatypeOf(v) ==
    CASE v.kind = "typed" -> v.of
      [] v.kind = "lang" -> RdfIri("langString")
      [] OTHER -> Xsd(v.kind)

Escapes == [n |-> "LF", r |-> "CR", t |-> "TAB"]     \* the letters after a backslash
Escaped(c) ==
    IF c \in Range(Escapes) THEN <<"\\", CHOOSE l \in DOMAIN Escapes : Escapes[l] = c>>
    ELSE IF c \in {"\\", "QUOTE"} THEN <<"\\", c>> ELSE <<c>>
\* Mutant: a backslash is written as it is.
EscapeQuotes(text) == FlattenSeq([i \in DOMAIN text |-> IF text[i] = "\\" THEN <<"\\">> ELSE Escaped(text[i])])
EscapeLiteral(text) == FlattenSeq([i \in DOMAIN text |-> Escaped(text[i])])

\* The state is <<what is read, whether a backslash was just read>>.
UnescapeStep(s, c) ==
    CASE s[2] /\ c \in DOMAIN Escapes -> <<Append(s[1], Escapes[c]), FALSE>>
      [] ~s[2] /\ c = "\\" -> <<s[1], TRUE>>
      [] OTHER -> <<Append(s[1], c), FALSE>>
Unescape(written) == FoldLeft(UnescapeStep, <<<<>>, FALSE>>, written)[1]

(* --------------------------------- writing ------------------------------- *)

LabelStart == Digits \cup {"a", "b", "n", "_"}
LabelChars == LabelStart \cup {"-"}

IsSafeBlankLabel(label) ==
    /\ label # <<>> /\ label[1] \in LabelStart
    /\ ToSet(label) \subseteq LabelChars \cup {"."}
    /\ Last(label) # "."

\* Numbers of nodes, for those whose label cannot be written.
RenderNode(node, number) ==
    CASE ~IsBlank(node) -> <<"iri", node>>
      [] IsSafeBlankLabel(LabelOf(node)) -> <<"label", LabelOf(node)>>
      [] OTHER -> <<"label", <<"n", ToString(number[node])>>>>

\* The object term for a blank node always is a label, whatever its node says.
RenderBlank(node, number) ==
    IF IsBlank(node) THEN RenderNode(node, number) ELSE <<"label", <<"n", ToString(number[node])>>>>

RenderLiteral(v) ==
    CASE v.kind = "string" -> <<"str", EscapeLiteral(v.text), <<>>, <<>>>>
      [] v.kind = "lang" -> <<"str", EscapeLiteral(v.text), v.of, <<>>>>
      [] OTHER -> <<"str", EscapeLiteral(v.text), <<>>, <<DatatypeOf(v)>>>>

RenderTerm(t, number) ==
    CASE t[1] = "iri" -> t
      [] t[1] = "blank" -> RenderBlank(t[2], number)
      [] OTHER -> RenderLiteral(t[2])

SerializeTriple(t, number) == <<RenderNode(t[1], number), <<"iri", t[2]>>, RenderTerm(t[3], number), <<".">>>>
SerializeQuad(q, number) ==
    Front(SerializeTriple(q.triple, number)) \o [i \in DOMAIN q.graph |-> <<"iri", q.graph[i]>>] \o <<<<".">>>>

\* Mutant: the triples of every graph.
SerializeAllTriples(d, number) == [i \in DOMAIN DatasetQuads(d) |-> SerializeTriple(DatasetQuads(d)[i].triple, number)]
\* N-Triples, and Turtle too: one line for each triple of the default graph.
SerializeTriples(d, number) == [i \in DOMAIN d.default |-> SerializeTriple(d.default[i], number)]
SerializeQuads(d, number) == [i \in DOMAIN DatasetQuads(d) |-> SerializeQuad(DatasetQuads(d)[i], number)]

\* TriG: the default graph, then <name> { ... } for each graph.
SerializeTriG(d, number) ==
    FlattenSeq(SerializeTriples(d, number))
    \o FlattenSeq([i \in DOMAIN d.named |->
          <<<<"iri", d.named[i].name>>, <<"{">>>>
          \o FlattenSeq([j \in DOMAIN d.named[i].triples |-> SerializeTriple(d.named[i].triples[j], number)]) \o <<<<"}">>>>])

(* ------------------------- reading N-Triples lines ----------------------- *)

\* What reads ends at a dot, so a label that has one does not read.
NtTerm(tok) ==
    CASE tok[1] = "iri" -> <<<<"iri", tok[2]>>>>
      [] tok[1] = "label" /\ "." \notin ToSet(tok[2]) -> <<<<"blank", BlankOf(tok[2])>>>>
      [] tok[1] = "str" /\ tok[3] # <<>> -> <<<<"literal", Value("lang", Unescape(tok[2]), tok[3])>>>>
      [] tok[1] = "str" /\ tok[4] # <<>> -> <<<<"literal", CoerceTypedLiteral(Unescape(tok[2]), tok[4][1], NTriplesIntegers)>>>>
      [] tok[1] = "str" -> <<<<"literal", Value("string", Unescape(tok[2]), <<>>)>>>>
      [] OTHER -> <<>>

\* A line of terms that may end with a dot is <<a quad>>, or <<>> if it is not
\* one: subject, predicate, object and, in N-Quads, a graph.
ParseLine(line, most) ==
    LET body == IF line # <<>> /\ Last(line) = <<".">> THEN Front(line) ELSE line
        terms == FlattenSeq([i \in DOMAIN body |-> NtTerm(body[i])])
    IN  IF \/ Len(body) \notin 3..most \/ Len(terms) # Len(body)
           \/ terms[1][1] = "literal" \/ terms[2][1] # "iri" \/ \E g \in {4} \cap DOMAIN terms : terms[g][1] # "iri"
        THEN <<>>
        ELSE <<QuadIn([g \in {1} \cap {Len(terms) - 3} |-> terms[4][2]], <<terms[1][2], terms[2][2], terms[3]>>)>>

\* The quads of a document, or a failure; a line in error ends the reading.
AllRead(quads, lines) == [ok |-> Len(quads) = Len(lines), quads |-> quads]
ParseLines(lines, most) == AllRead(FlattenSeq([i \in DOMAIN lines |-> ParseLine(lines[i], most)]), lines)
=============================================================================
