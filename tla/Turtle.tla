------------------------------- MODULE Turtle -------------------------------
(***************************************************************************)
(* The Turtle and TriG reader (ontolith-parser, infrastructure/turtle.rs). *)
(*                                                                         *)
(* Beside those of RdfTerms the tokens are <<"pn", prefix, pieces>>,       *)
(* <<"bare", word>> and the marks; <<"iri", pieces>> may be relative.  A   *)
(* number or a boolean is a <<"str", ...>> with its datatype, as the lexer *)
(* makes it.                                                               *)
(*                                                                         *)
(* The reader's state is what is left of the text with the prefixes, the   *)
(* base, how many blank nodes it has named, the graph it is in, whether    *)
(* the syntax has graphs, and the quads it has handed to the sink.  A      *)
(* result is [ok, v, at] as in SparqlSyntax.                               *)
(***************************************************************************)
EXTENDS RdfTerms
LOCAL INSTANCE SequencesExt
LOCAL INSTANCE TLC

PeekTok(p) == IF p.toks = <<>> THEN <<"eof">> ELSE Head(p.toks)
Bump(p) == [p EXCEPT !.toks = Tail(@)]
AtTok(p, mark) == PeekTok(p) = <<mark>>
PastTok(p, mark) == IF AtTok(p, mark) THEN Bump(p) ELSE p
ExpectTok(p, mark, K(_)) == IF AtTok(p, mark) THEN K(Bump(p)) ELSE NotGiven(p)

Reader(toks, base, graphs) ==
    [toks |-> toks, base |-> base, graphs |-> graphs, minted |-> 0, graph |-> <<>>, out |-> <<>>,
     prefixes |-> [x \in {"rdf", "xsd"} |-> IF x = "rdf" THEN <<"rdf:">> ELSE <<"xsd:">>]]

Minted(n) == BlankOf(<<"b", ToString(n)>>)
Emit(s, pred, o, p) == [p EXCEPT !.out = Append(@, QuadIn(p.graph, <<s, pred, o>>))]

(* ---------------------------------- terms -------------------------------- *)

\* <<the IRI>>, or <<>> for what is not one or has an unknown prefix.
TermIri(p, tok) ==
    CASE tok[1] = "iri" -> <<ExpandIriRef(p.base, tok[2])>>
      [] tok[1] = "pn" /\ tok[2] \in DOMAIN p.prefixes -> <<p.prefixes[tok[2]] \o tok[3]>>
      [] tok[1] = "bare" -> <<ExpandIriRef(p.base, <<tok[2]>>)>>
      [] OTHER -> <<>>
Checked(iri) == IF iri # <<>> /\ IsAbsolute(iri[1]) THEN iri ELSE <<>>

PredicateIri(p, tok) == IF tok = <<"a">> THEN <<RdfIri("type")>> ELSE Checked(TermIri(p, tok))

SubjectNode(p, tok) == IF tok[1] = "label" THEN <<BlankOf(tok[2])>> ELSE TermIri(p, tok)

ObjectTerm(p, tok) ==
    CASE tok[1] = "label" -> <<<<"blank", BlankOf(tok[2])>>>>
      [] tok[1] = "str" /\ tok[3] # <<>> -> <<<<"literal", Value("lang", Unescape(tok[2]), tok[3])>>>>
      [] tok[1] = "str" /\ tok[4] # <<>> ->
            <<<<"literal", CoerceTypedLiteral(Unescape(tok[2]), ExpandIriRef(p.base, tok[4][1]), TurtleIntegers)>>>>
      [] tok[1] = "str" -> <<<<"literal", Value("string", Unescape(tok[2]), <<>>)>>>>
      [] tok[1] = "iri" -> <<<<"iri", TermIri(p, tok)[1]>>>>
      [] OTHER -> LET iri == Checked(TermIri(p, tok)) IN [i \in DOMAIN iri |-> <<"iri", iri[i]>>]

Taken(found, p) == IF found = <<>> THEN NotGiven(p) ELSE Given(found[1], Bump(p))

(* --------------------------------- triples ------------------------------- *)

StatementEnds == {<<".">>, <<"}">>, <<"]">>, <<"eof">>}

RECURSIVE ParseNode(_), ParseObject(_), ParsePredicateObjectList(_, _), ParseObjectList(_, _, _), ParseCollection(_, _)

\* The node is named before what is said about it is read.
\* Mutant: after it.
ParseBlankListLate(p) ==
    LET node == Minted(p.minted + 1)
        named(q) == [q EXCEPT !.minted = @ + 1]
    IN  IF AtTok(p, "]") THEN Given(node, named(Bump(p)))
        ELSE AndThen(ParsePredicateObjectList(node, p), LAMBDA none, q : ExpectTok(q, "]", LAMBDA r : Given(node, named(r))))
ParseBlankNodePropertyList(p) ==
    LET node == Minted(p.minted + 1)
        q == [p EXCEPT !.minted = @ + 1]
    IN  IF AtTok(p, "]") THEN Given(node, Bump(q))
        ELSE AndThen(ParsePredicateObjectList(node, q), LAMBDA none, r : ExpectTok(r, "]", LAMBDA s : Given(node, s)))

\* The cells are named after the items; each links to the next before it is
\* given its own item.
ListCells(items, p) ==
    LET cell(i) == Minted(p.minted + i)
        item(i, q) == Emit(cell(i), RdfIri("first"), items[i], q)
        step(q, i) == item(i, Emit(cell(i - 1), RdfIri("rest"), <<"blank", cell(i)>>, q))
        linked == FoldLeft(step, item(1, p), [i \in 1..(Len(items) - 1) |-> i + 1])
    IN  [Emit(cell(Len(items)), RdfIri("rest"), <<"iri", RdfIri("nil")>>, linked) EXCEPT !.minted = @ + Len(items)]

ParseCollection(items, p) ==
    CASE AtTok(p, ")") /\ items = <<>> -> Given(RdfIri("nil"), Bump(p))
      [] AtTok(p, ")") -> Given(Minted(p.minted + 1), ListCells(items, Bump(p)))
      [] p.toks = <<>> -> NotGiven(p)
      [] OTHER -> AndThen(ParseObject(p), LAMBDA item, q : ParseCollection(Append(items, item), q))

ParseNode(p) ==
    CASE AtTok(p, "[") -> ParseBlankNodePropertyList(Bump(p))
      [] AtTok(p, "(") -> ParseCollection(<<>>, Bump(p))
      [] OTHER -> Taken(SubjectNode(p, PeekTok(p)), p)

ParseObject(p) ==
    IF AtTok(p, "[") \/ AtTok(p, "(") THEN AndThen(ParseNode(p), LAMBDA node, q : Given(<<"blank", node>>, q))
    ELSE Taken(ObjectTerm(p, PeekTok(p)), p)

ParseObjectList(s, pred, p) ==
    AndThen(ParseObject(p), LAMBDA o, q :
        LET r == Emit(s, pred, o, q)
        IN  IF AtTok(r, ",") THEN ParseObjectList(s, pred, Bump(r)) ELSE Given(<<>>, r))

\* A semicolon may trail.
ParsePredicateObjectList(s, p) ==
    AndThen(Taken(PredicateIri(p, PeekTok(p)), p), LAMBDA pred, q : AndThen(ParseObjectList(s, pred, q), LAMBDA none, r :
        IF AtTok(r, ";") /\ PeekTok(Bump(r)) \notin StatementEnds THEN ParsePredicateObjectList(s, Bump(r)) ELSE Given(<<>>, PastTok(r, ";"))))

\* [ ... ] may stand alone; the dot is optional.
ParseTriples(p) ==
    IF AtTok(p, ".") THEN Given(<<>>, Bump(p))
    ELSE AndThen(ParseNode(p), LAMBDA s, q :
         AndThen(IF AtTok(p, "[") /\ PeekTok(q) \in StatementEnds THEN Given(<<>>, q) ELSE ParsePredicateObjectList(s, q),
              LAMBDA none, r : Given(<<>>, PastTok(r, "."))))

(* ---------------------------------- graphs ------------------------------- *)

\* Inside braces there are triples only.
RECURSIVE ParseGraphTriples(_, _)
ParseGraphTriples(before, p) ==
    IF AtTok(p, "}") THEN Given(<<>>, [Bump(p) EXCEPT !.graph = before])
    ELSE IF p.toks = <<>> THEN NotGiven(p)
    ELSE AndThen(ParseTriples(p), LAMBDA none, q : ParseGraphTriples(before, q))
\* Mutant: the graph goes on after its brace.
ParseGraphBodyOn(g, p) == ParseGraphTriples(g, [p EXCEPT !.graph = g])
ParseGraphBody(g, p) == ParseGraphTriples(p.graph, [p EXCEPT !.graph = g])

IsGraphStart(p) ==
    \/ AtTok(p, "graph")
    \/ PeekTok(p)[1] \in {"iri", "pn", "bare"} /\ AtTok(Bump(p), "{")

ParseNamedGraph(p) ==
    LET q == PastTok(p, "graph")
    IN  AndThen(Taken(PredicateIri(q, PeekTok(q)), q), LAMBDA g, r : ExpectTok(r, "{", LAMBDA s : ParseGraphBody(<<g>>, s)))

(* -------------------------------- documents ------------------------------ *)

\* The last declaration counts; neither is resolved against a base.
ParsePrefixDecl(p) ==
    LET name == PeekTok(Bump(p))
        iri == PeekTok(Bump(Bump(p)))
    IN  IF name[1] # "pn" \/ iri[1] # "iri" THEN NotGiven(p)
        ELSE Given(<<>>, PastTok([Bump(Bump(Bump(p))) EXCEPT !.prefixes = (name[2] :> iri[2]) @@ p.prefixes], "."))
ParseBaseDecl(p) ==
    LET iri == PeekTok(Bump(p))
    IN  IF iri[1] # "iri" THEN NotGiven(p) ELSE Given(<<>>, PastTok([Bump(Bump(p)) EXCEPT !.base = <<iri[2]>>], "."))

ParseStatement(p) ==
    CASE AtTok(p, "prefix") -> ParsePrefixDecl(p)
      [] AtTok(p, "base") -> ParseBaseDecl(p)
      [] AtTok(p, "{") /\ p.graphs -> ParseGraphBody(<<>>, Bump(p))
      [] p.graphs /\ IsGraphStart(p) -> ParseNamedGraph(p)
      [] OTHER -> ParseTriples(p)
RECURSIVE ParseDocument(_)
ParseDocument(p) == IF p.toks = <<>> THEN Given(p.out, p) ELSE AndThen(ParseStatement(p), LAMBDA none, q : ParseDocument(q))
=============================================================================
