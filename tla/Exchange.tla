------------------------------ MODULE Exchange -------------------------------
(***************************************************************************)
(* What two servers send each other: datasets, exported by one (ontolith-  *)
(* server, app.rs GET /data) and ingested or LOADed by another, and the    *)
(* answers to federated queries (federation.rs, POST /sparql).             *)
(*                                                                         *)
(* A header or parameter is [whole, holds]: its text, and which of the     *)
(* words that the code looks for are in it. The body of a dataset is       *)
(* <<"lines", lines>>, <<"tokens", tokens>> or <<"xml", document>>; a JSON *)
(* result is [vars, boolean, bindings], each of the last two a sequence of *)
(* at most one. A response is [ok, type, body] where type is <<a text>> or *)
(* <<>>. The transport and the dictionary's numbers are parameters.        *)
(*                                                                         *)
(* Documents with the results of a query: the writers of the gateway       *)
(* (ontolith-server, results.rs) and the readers of the parser crate       *)
(* (infrastructure/sparql_results.rs) for TSV, CSV and SPARQL XML.         *)
(*                                                                         *)
(* A result is [boolean, variables, rows]: boolean is <<b>> for ASK, a row *)
(* maps some of the variables to terms, where <<"node", node>> is a node   *)
(* of the dictionary bound as such. A text document is a sequence of       *)
(* characters, the pieces of an IRI counting as characters; an XML one is  *)
(* [boolean, variables, results], a result being a sequence of bindings    *)
(* <<variable, element, text, attribute>>.                                 *)
(***************************************************************************)
EXTENDS RdfTerms, Turtle, RdfXml
LOCAL INSTANCE SequencesExt
LOCAL INSTANCE TLC

Spaces == {" ", "LF", "CR", "TAB"}
\* Without the spaces at either end.
Trimmed(s) ==
    LET solid == {i \in DOMAIN s : s[i] \notin Spaces}
        first == CHOOSE i \in solid : \A j \in solid : i <= j
        last == CHOOSE i \in solid : \A j \in solid : j <= i
    IN  IF solid = {} THEN <<>> ELSE SubSeq(s, first, last)

Joined(parts, by) == FoldLeft(LAMBDA a, i : (IF i = 1 THEN <<>> ELSE Append(a, by)) \o parts[i], <<>>, [i \in DOMAIN parts |-> i])
\* The parts of s between occurrences of by.
SplitAt(s, by) == FoldLeft(LAMBDA parts, c : IF c = by THEN Append(parts, <<>>) ELSE [parts EXCEPT ![Len(parts)] = Append(@, c)], <<<<>>>>, s)
Lines(text) == LET parts == SplitAt(text, "LF") IN IF Last(parts) = <<>> THEN Front(parts) ELSE parts

(* --------------------------------- writing ------------------------------- *)

BnodeLabel(node, number) == IF IsBlank(node) THEN LabelOf(node) ELSE <<"n", ToString(number[node])>>
\* A node shows as what it is called; the term a reader should get.
Shown(t, number) ==
    CASE t[1] = "node" /\ ~IsBlank(t[2]) -> <<"iri", t[2]>>
      [] t[1] \in {"node", "blank"} -> <<"blank", BnodeLabel(t[2], number)>>
      [] OTHER -> t

CellText(text) == FlattenSeq([i \in DOMAIN text |-> Escaped(text[i])])
TsvCell(t, number) ==
    LET u == Shown(t, number)
    IN  CASE u[1] = "iri" -> <<"<">> \o u[2] \o <<">">>
          [] u[1] = "blank" -> <<"_:">> \o u[2]
          [] OTHER -> <<"QUOTE">> \o CellText(u[2].text) \o <<"QUOTE">>
                      \o (CASE u[2].kind = "lang" -> <<"@">> \o u[2].of
                            [] u[2].kind = "string" -> <<>>
                            [] OTHER -> <<"^^<">> \o DatatypeOf(u[2]) \o <<">">>)

\* Mutant: quotes are not doubled.
CsvFieldOnce(cell) ==
    IF ToSet(cell) \cap {",", "QUOTE", "LF", "CR"} = {} THEN cell ELSE <<"QUOTE">> \o cell \o <<"QUOTE">>
CsvField(cell) ==
    IF ToSet(cell) \cap {",", "QUOTE", "LF", "CR"} = {} THEN cell
    ELSE <<"QUOTE">> \o FlattenSeq([i \in DOMAIN cell |-> IF cell[i] = "QUOTE" THEN <<"QUOTE", "QUOTE">> ELSE <<cell[i]>>]) \o <<"QUOTE">>

\* A header and a line for each row, an empty cell where a variable is unbound.
WriteTable(r, by, cell(_)) ==
    LET line(row) == Joined([i \in DOMAIN r.variables |-> IF r.variables[i] \in DOMAIN row THEN cell(row[r.variables[i]]) ELSE <<>>], by)
        header == Joined([i \in DOMAIN r.variables |-> <<"?", r.variables[i]>>], by)
    IN  IF r.boolean # <<>> THEN <<IF r.boolean[1] THEN "true" ELSE "false", "LF">>
        ELSE (IF r.variables = <<>> THEN <<>> ELSE Append(header, "LF"))
             \o FlattenSeq([i \in DOMAIN r.rows |-> Append(line(r.rows[i]), "LF")])

WriteTsv(r, number) == WriteTable(r, "TAB", LAMBDA t : TsvCell(t, number))
WriteCsv(r, number) == WriteTable(r, ",", LAMBDA t : CsvField(TsvCell(t, number)))

SrxTerm(t, number) ==
    LET u == Shown(t, number)
    IN  CASE u[1] = "iri" -> <<"uri", u[2], <<>>>>
          [] u[1] = "blank" -> <<"bnode", u[2], <<>>>>
          [] u[1] = "literal" /\ u[2].kind = "lang" -> <<"literal", u[2].text, <<"lang", u[2].of>>>>
          [] u[1] = "literal" /\ u[2].kind = "string" -> <<"literal", u[2].text, <<>>>>
          [] OTHER -> <<"literal", u[2].text, <<"datatype", DatatypeOf(u[2])>>>>
WriteSrx(r, number) ==
    LET bindings(row) == FlattenSeq([i \in DOMAIN r.variables |->
            IF r.variables[i] \in DOMAIN row THEN <<<<r.variables[i]>> \o SrxTerm(row[r.variables[i]], number)>> ELSE <<>>])
    IN  [boolean |-> r.boolean, variables |-> IF r.boolean = <<>> THEN r.variables ELSE <<>>,
         results |-> IF r.boolean = <<>> THEN [i \in DOMAIN r.rows |-> bindings(r.rows[i])] ELSE <<>>]

(* --------------------------------- reading ------------------------------- *)

NoResults == [boolean |-> <<>>, variables |-> <<>>, rows |-> <<>>]

ParseLiteral(text, datatype, lang) ==
    CASE lang # <<>> -> <<"literal", Value("lang", text, lang)>>
      [] lang = <<>> /\ datatype # <<>> -> <<"literal", CoerceTypedLiteral(text, datatype, TurtleIntegers)>>
      [] OTHER -> <<"literal", Value("string", text, <<>>)>>

\* Where the quotation ends: at the first quote that nothing escapes.
Closing(cell) ==
    CHOOSE i \in 2..(Len(cell) + 1) :
        /\ i > Len(cell) \/ (cell[i] = "QUOTE" /\ FoldLeft(LAMBDA e, c : ~e /\ c = "\\", FALSE, SubSeq(cell, 2, i - 1)) = FALSE)
        /\ \A j \in 2..(i - 1) : cell[j] = "QUOTE" => FoldLeft(LAMBDA e, c : ~e /\ c = "\\", FALSE, SubSeq(cell, 2, j - 1))

\* <<the term>> of a cell that is not empty, or <<>>: a text that nothing
\* quotes is a number, a truth value or a string.
QuotedCell(cell) ==
    LET inner == SubSeq(cell, 2, Closing(cell) - 1)
        suffix == SubSeq(cell, Closing(cell) + 1, Len(cell))
        lex == Unescape(inner)
    IN  CASE Closing(cell) > Len(cell) -> <<>>
          [] Closing(cell) <= Len(cell) /\ suffix = <<>> -> <<ParseLiteral(lex, <<>>, <<>>)>>
          [] Len(suffix) > 1 /\ suffix[1] = "@" -> <<ParseLiteral(lex, <<>>, Tail(suffix))>>
          [] Len(suffix) > 1 /\ suffix[1] = "^^<" /\ Last(suffix) = ">" -> <<ParseLiteral(lex, SubSeq(suffix, 2, Len(suffix) - 1), <<>>)>>
          [] OTHER -> <<>>
ParseTsvCell(cell) ==
    CASE cell[1] = "<" /\ Last(cell) = ">" -> <<<<"iri", SubSeq(cell, 2, Len(cell) - 1)>>>>
      [] cell[1] = "_:" -> <<<<"blank", Tail(cell)>>>>
      [] cell[1] = "QUOTE" -> QuotedCell(cell)
      [] IsNumeral(cell) -> <<ParseLiteral(cell, Xsd("integer"), <<>>)>>
      [] cell \in {<<"true">>, <<"false">>} -> <<ParseLiteral(cell, Xsd("boolean"), <<>>)>>
      [] OTHER -> <<ParseLiteral(cell, <<>>, <<>>)>>

HeaderOf(cells) == [i \in DOMAIN cells |-> Last(Trimmed(cells[i]))]

\* The bound cells of a line as a row; a cell that is none refuses the document.
RowOf(variables, cells, p) ==
    LET bound == {i \in DOMAIN variables \cap DOMAIN cells : Trimmed(cells[i]) # <<>>}
        terms == [i \in bound |-> ParseTsvCell(Trimmed(cells[i]))]
        row == [v \in {variables[i] : i \in bound} |-> terms[CHOOSE i \in bound : variables[i] = v][1]]
    IN  IF \E i \in bound : terms[i] = <<>> THEN NotGiven(p) ELSE Given(<<>>, [p EXCEPT !.rows = Append(@, row)])

RowsOf(variables, tables) ==
    FoldLeft(LAMBDA r, cells : AndThen(r, LAMBDA none, p : RowOf(variables, cells, p)), Given(<<>>, [NoResults EXCEPT !.variables = variables]), tables)

\* An empty line is no row.
ParseTsv(text) ==
    LET lines == Lines(text)
        rows == SelectSeq(Tail(lines), LAMBDA l : Trimmed(l) # <<>>)
        tables == [i \in DOMAIN rows |-> SplitAt(rows[i], "TAB")]
        header == HeaderOf(SplitAt(lines[1], "TAB"))
    IN  CASE lines = <<>> -> Given(<<>>, NoResults)
          [] Len(lines) = 1 /\ Trimmed(lines[1]) \in {<<"true">>, <<"false">>} ->
                Given(<<>>, [NoResults EXCEPT !.boolean = <<Trimmed(lines[1]) = <<"true">>>>])
          [] lines # <<>> /\ (Len(lines) > 1 \/ Trimmed(lines[1]) \notin {<<"true">>, <<"false">>}) ->
                IF \E i \in DOMAIN tables : Len(tables[i]) # Len(header) THEN NotGiven(NoResults)
                ELSE RowsOf(header, tables)

\* The state is [table, row, field, quoted, skip]; a quote written twice inside
\* quotes is one.
SplitCsvStep(text, s, i) ==
    LET c == text[i]
        twice == i < Len(text) /\ text[i + 1] = "QUOTE"
    IN  CASE s.skip -> [s EXCEPT !.skip = FALSE]
          [] ~s.skip /\ s.quoted /\ c = "QUOTE" -> IF twice THEN [s EXCEPT !.field = Append(@, c), !.skip = TRUE] ELSE [s EXCEPT !.quoted = FALSE]
          [] ~s.skip /\ s.quoted /\ c # "QUOTE" -> [s EXCEPT !.field = Append(@, c)]
          [] ~s.skip /\ ~s.quoted /\ c = "QUOTE" -> [s EXCEPT !.quoted = TRUE]
          [] ~s.skip /\ ~s.quoted /\ c = "," -> [s EXCEPT !.row = Append(@, s.field), !.field = <<>>]
          [] ~s.skip /\ ~s.quoted /\ c = "LF" -> [s EXCEPT !.table = Append(@, Append(s.row, s.field)), !.row = <<>>, !.field = <<>>]
          [] ~s.skip /\ ~s.quoted /\ c = "CR" -> s
          [] OTHER -> [s EXCEPT !.field = Append(@, c)]
SplitCsv(text) ==
    LET end == FoldLeft(LAMBDA s, i : SplitCsvStep(text, s, i), [table |-> <<>>, row |-> <<>>, field |-> <<>>, quoted |-> FALSE, skip |-> FALSE],
                        [i \in DOMAIN text |-> i])
    IN  IF end.field = <<>> /\ end.row = <<>> THEN end.table ELSE Append(end.table, Append(end.row, end.field))

\* A record of empty cells is no row.
ParseCsv(text) ==
    LET records == SelectSeq(SplitCsv(text), LAMBDA r : \E i \in DOMAIN r : Trimmed(r[i]) # <<>>)
    IN  IF records = <<>> THEN NotGiven(NoResults) ELSE RowsOf(HeaderOf(records[1]), Tail(records))

\* The reader trims every text.
SrxValue(b) ==
    LET text == Trimmed(b[3])
    IN  CASE b[2] = "uri" -> <<"iri", text>>
          [] b[2] = "bnode" -> <<"blank", text>>
          [] OTHER -> ParseLiteral(text, IF b[4] # <<>> /\ b[4][1] = "datatype" THEN b[4][2] ELSE <<>>, IF b[4] # <<>> /\ b[4][1] = "lang" THEN b[4][2] ELSE <<>>)
ParseSrx(doc) ==
    LET row(bindings) == [v \in {bindings[i][1] : i \in DOMAIN bindings} |-> SrxValue(bindings[CHOOSE i \in DOMAIN bindings : bindings[i][1] = v])]
    IN  Given(<<>>, [boolean |-> doc.boolean, variables |-> doc.variables, rows |-> [i \in DOMAIN doc.results |-> row(doc.results[i])]])

Media(whole, holds) == [whole |-> whole, holds |-> holds]
Holds(raw, words) == raw.holds \cap words # {}
\* <<the first format>> whose words the text holds, or <<>>.
FirstHeld(order, raw) ==
    LET i == SelectInSeq(order, LAMBDA e : Holds(raw, e[2])) IN [j \in {1} \cap {IF i = 0 THEN 0 ELSE 1} |-> order[i][1]]

(* ----------------------------- RDF formats ------------------------------- *)

RdfTypes ==
    <<<<"trig", {"trig"}>>, <<"turtle", {"turtle"}>>, <<"nquads", {"n-quads", "nquads"}>>, <<"ntriples", {"n-triples", "ntriples"}>>,
      <<"jsonld", {"json-ld", "ld+json"}>>, <<"rdfxml", {"rdf+xml", "rdf/xml", "rdfxml"}>>>>

ParseFormatName(name) ==
    CASE name \in {"nt", "ntriples", "n-triples"} -> <<"ntriples">>
      [] name \in {"nq", "nquads", "n-quads"} -> <<"nquads">>
      [] name \in {"ttl", "turtle"} -> <<"turtle">>
      [] name = "trig" -> <<"trig">>
      [] name \in {"jsonld", "json-ld", "json"} -> <<"jsonld">>
      [] name \in {"rdf", "rdfxml", "rdf-xml", "rdf/xml"} -> <<"rdfxml">>
      [] OTHER -> <<>>

\* The parameter, then the content type, then the path decide; a parameter
\* that names no format is refused.
DetectIngestFormat(req, path) ==
    CASE req.format # <<>> -> ParseFormatName(req.format[1].whole)
      [] req.format = <<>> /\ req.type # <<>> /\ FirstHeld(RdfTypes, req.type[1]) # <<>> -> FirstHeld(RdfTypes, req.type[1])
      [] OTHER -> <<CASE path = "/data/turtle" -> "turtle"
                      [] path = "/data/trig" -> "trig"
                      [] path = "/data/nq" -> "nquads"
                      [] path \in {"/data/jsonld", "/data/json-ld"} -> "jsonld"
                      [] path \in {"/data/rdfxml", "/data/rdf-xml", "/data/rdf"} -> "rdfxml"
                      [] OTHER -> "ntriples">>

\* For a document that was fetched: its type, then the end of its path.
DetectRemoteRdfFormat(ending, type) ==
    CASE type # <<>> /\ FirstHeld(RdfTypes, type[1]) # <<>> -> FirstHeld(RdfTypes, type[1])[1]
      [] ending \in {"nt", "ntriples"} -> "ntriples"
      [] ending \in {"nq", "nquads"} -> "nquads"
      [] ending = "trig" -> "trig"
      [] ending \in {"jsonld", "json"} -> "jsonld"
      [] ending \in {"rdf", "xml", "rdfxml"} -> "rdfxml"
      [] OTHER -> "turtle"

ExportFormats ==
    <<<<"nquads", {"n-quads", "nquads"}>>, <<"trig", {"trig"}>>, <<"ntriples", {"n-triples", "ntriples"}>>,
      <<"rdfxml", {"rdf+xml", "rdf-xml", "rdfxml"}>>, <<"turtle", {"turtle"}>>>>
\* The order of the code, not that of the request, decides between formats.
DetectExportFormat(req) ==
    LET raw == IF req.format # <<>> THEN req.format[1] ELSE IF req.accept # <<>> THEN req.accept[1] ELSE Media("turtle", {"turtle"})
    IN  CASE raw.whole = "nq" -> <<"nquads">>
          [] raw.whole = "nt" -> <<"ntriples">>
          [] raw.whole = "ttl" -> <<"turtle">>
          [] OTHER -> FirstHeld(ExportFormats, raw)

(* ------------------------------ datasets --------------------------------- *)

Answer(type, body) == [ok |-> TRUE, type |-> <<type>>, body |-> body]
NoAnswer == [ok |-> FALSE, type |-> <<>>, body |-> <<>>]

\* What comes back from a URL in a web of [status, type, body]; nothing but the
\* status says whether it is all there.
RemoteScheme(url) == url.scheme \in {"http", "https"}
HttpGet(url, web) ==
    IF RemoteScheme(url) /\ url \in DOMAIN web /\ web[url].status \in 200..299
    THEN [ok |-> TRUE, type |-> web[url].type, body |-> web[url].body]
    ELSE NoAnswer

\* Mutant: the graphs of every tenant are exported.
ExportAnyone(d, owned) == IF owned = <<>> THEN d ELSE Collected(NamedQuads(d) \o [i \in DOMAIN NamedQuads(d) |-> QuadIn(<<>>, NamedQuads(d)[i].triple)])
\* All there is, or, for a tenant who owns the graphs in owned[1], those graphs
\* and in the default graph their triples again.
Exported(d, owned) ==
    IF owned = <<>> THEN d
    ELSE LET own == SelectSeq(NamedQuads(d), LAMBDA q : q.graph[1] \in owned[1])
         IN  Collected(FlattenSeq([i \in DOMAIN own |-> <<own[i], QuadIn(<<>>, own[i].triple)>>]))

Export(e, format, number) ==
    LET xml == SerializeRdfXml(e, number)
    IN  CASE format = <<"ntriples">> -> Answer(Media("application/n-triples", {"n-triples"}), <<"lines", SerializeTriples(e, number)>>)
          [] format = <<"nquads">> -> Answer(Media("application/n-quads", {"n-quads"}), <<"lines", SerializeQuads(e, number)>>)
          [] format = <<"turtle">> -> Answer(Media("text/turtle", {"turtle"}), <<"lines", SerializeTriples(e, number)>>)
          [] format = <<"trig">> -> Answer(Media("application/trig", {"trig"}), <<"tokens", SerializeTriG(e, number)>>)
          [] format = <<"rdfxml">> /\ xml # <<>> -> Answer(Media("application/rdf+xml", {"rdf+xml"}), <<"xml", xml[1]>>)
          [] OTHER -> NoAnswer
ExportData(d, owned, req, number) == Export(Exported(d, owned), DetectExportFormat(req), number)

\* <<the dataset>> that a body says in a format, or <<>> if it is not of it; no
\* server here answers in JSON-LD.
Parsed(read, QuadsOf(_)) == IF read.ok THEN <<Collected(QuadsOf(read))>> ELSE <<>>
ParseAs(format, body) ==
    CASE format \in {"ntriples", "nquads"} /\ body[1] = "lines" -> Parsed(ParseLines(body[2], IF format = "nquads" THEN 4 ELSE 3), LAMBDA r : r.quads)
      [] format \in {"turtle", "trig"} /\ body[1] \in {"lines", "tokens"} ->
            Parsed(ParseDocument(Reader(IF body[1] = "lines" THEN FlattenSeq(body[2]) ELSE body[2], <<>>, format = "trig")), LAMBDA r : r.v)
      [] format = "rdfxml" /\ body[1] = "xml" -> Parsed(ParseRdfXml(body[2], <<>>, {}), LAMBDA r : r.at.out)
      [] OTHER -> <<>>

\* What the nodes of a triple become in an INSERT DATA.
RemotePattern(t) == <<<<"node", t[1]>>, t[2], IF t[3][1] = "blank" THEN <<"node", t[3][2]>> ELSE t[3]>>

\* Mutant: the triples of every graph go where the default graph's go.
LoadAllInto(d, into) == [i \in DOMAIN DatasetQuads(d) |-> QuadIn(into, RemotePattern(DatasetQuads(d)[i].triple))]
\* The default graph goes into the graph named, others keep their names.
RemoteLoadPatterns(d, into) ==
    [i \in DOMAIN DatasetQuads(d) |-> QuadIn(IF DatasetQuads(d)[i].graph = <<>> THEN into ELSE DatasetQuads(d)[i].graph, RemotePattern(DatasetQuads(d)[i].triple))]

LoadAccept == Media("any of them", {"rdf+xml", "turtle", "trig", "n-triples", "n-quads", "ld+json", "json"})

\* The operations of an update with each remote LOAD made an INSERT DATA, or a
\* failure.  SILENT skips what cannot be fetched, not what cannot be read.
\* An operation is <<"load", source, into, silent>> or another.
Rewritten(read, into) == [i \in DOMAIN read |-> <<<<"insert", RemoteLoadPatterns(read[i], into)>>>>]
RewriteRemoteLoad(op, answer) ==
    CASE op[1] # "load" \/ ~RemoteScheme(op[2]) -> <<<<op>>>>
      [] op[1] = "load" /\ RemoteScheme(op[2]) /\ ~answer.ok -> IF op[4] THEN <<<<>>>> ELSE <<>>
      [] OTHER -> Rewritten(ParseAs(DetectRemoteRdfFormat(op[2].ending, answer.type), answer.body), op[3])
\* The operations rewritten, each <<operations>>, or <<>> of one that failed.
InOrder(parts) == IF \E i \in DOMAIN parts : parts[i] = <<>> THEN NotGiven(<<>>) ELSE Given(FlattenSeq([i \in DOMAIN parts |-> parts[i][1]]), <<>>)
RewriteRemoteLoads(ops, web) == InOrder([i \in DOMAIN ops |-> RewriteRemoteLoad(ops[i], HttpGet(IF ops[i][1] = "load" THEN ops[i][2] ELSE [scheme |-> "none"], web))])

(* ------------------------------- results --------------------------------- *)

DetectResultFormat(raw) ==
    CASE Holds(raw, {"sparql-results+xml"}) \/ raw.whole \in {"srx", "xml"} -> "srx"
      [] ~Holds(raw, {"sparql-results+xml"}) /\ raw.whole \notin {"srx", "xml"} /\ (Holds(raw, {"tab-separated"}) \/ raw.whole = "tsv") -> "tsv"
      [] ~Holds(raw, {"sparql-results+xml", "tab-separated"}) /\ raw.whole \notin {"srx", "xml", "tsv"}
         /\ (Holds(raw, {"text/csv"}) \/ raw.whole = "csv") -> "csv"
      [] OTHER -> "json"
ContentType(format) ==
    CASE format = "srx" -> Media("application/sparql-results+xml", {"sparql-results+xml"})
      [] format = "tsv" -> Media("text/tab-separated-values", {"tab-separated"})
      [] format = "csv" -> Media("text/csv", {"csv", "text/csv"})
      [] OTHER -> Media("application/json", {"json"})

NodeJson(node, number) == IF IsBlank(node) THEN <<"bnode", <<"n", ToString(number[node])>>, <<>>, <<>>>> ELSE <<"uri", node, <<>>, <<>>>>
BoundValueJson(t, number) ==
    CASE t[1] = "iri" -> <<"uri", t[2], <<>>, <<>>>>
      [] t[1] = "node" -> NodeJson(t[2], number)
      [] t[1] = "blank" -> <<"bnode", <<"n", ToString(number[t[2]])>>, <<>>, <<>>>>
      [] t[1] = "literal" /\ t[2].kind = "lang" -> <<"literal", t[2].text, <<>>, t[2].of>>
      [] t[1] = "literal" /\ t[2].kind = "string" -> <<"literal", t[2].text, <<>>, <<>>>>
      [] OTHER -> <<"literal", t[2].text, <<DatatypeOf(t[2])>>, <<>>>>
\* What is not a SELECT or an ASK has neither boolean nor bindings.
WriteSrj(r, number) ==
    LET binding(row) == [v \in IF r.variables = <<>> THEN DOMAIN row ELSE DOMAIN row \cap ToSet(r.variables) |-> BoundValueJson(row[v], number)]
    IN  [vars |-> IF r.boolean = <<>> /\ r.kind = "select" THEN r.variables ELSE <<>>, boolean |-> r.boolean,
         bindings |-> IF r.kind = "select" THEN <<[i \in DOMAIN r.rows |-> binding(r.rows[i])]>> ELSE <<>>]

SrjValue(b) ==
    CASE b[1] \in {"uri", "iri"} -> <<"iri", b[2]>>
      [] b[1] \in {"bnode", "blank"} -> <<"blank", b[2]>>
      [] OTHER -> ParseLiteral(b[2], IF b[3] = <<>> THEN <<>> ELSE b[3][1], b[4])
ParseSrj(doc) ==
    CASE doc.boolean # <<>> -> Given(<<>>, [NoResults EXCEPT !.boolean = doc.boolean, !.variables = doc.vars])
      [] doc.boolean = <<>> /\ doc.bindings = <<>> -> NotGiven(NoResults)
      [] OTHER -> LET rows == doc.bindings[1]
                  IN  Given(<<>>, [NoResults EXCEPT !.variables = doc.vars,
                                                   !.rows = [i \in DOMAIN rows |-> [v \in DOMAIN rows[i] |-> SrjValue(rows[i][v])]]])

\* The response to a query: only a SELECT and an ASK come in another format.
SparqlResponse(r, asked, number) ==
    LET format == IF r.kind \in {"select", "ask"} THEN DetectResultFormat(asked) ELSE "json"
    IN  Answer(ContentType(format),
               <<format, CASE format = "srx" -> WriteSrx(r, number)
                           [] format = "tsv" -> WriteTsv(r, number)
                           [] format = "csv" -> WriteCsv(r, number)
                           [] OTHER -> WriteSrj(r, number)>>)

FromContentType(raw) ==
    CASE Holds(raw, {"sparql-results+xml"}) -> <<"srx">>
      [] ~Holds(raw, {"sparql-results+xml"}) /\ Holds(raw, {"sparql-results+json", "json"}) -> <<"json">>
      [] ~Holds(raw, {"sparql-results+xml", "sparql-results+json", "json"}) /\ Holds(raw, {"tab-separated"}) -> <<"tsv">>
      [] ~Holds(raw, {"sparql-results+xml", "sparql-results+json", "json", "tab-separated"}) /\ Holds(raw, {"csv"}) -> <<"csv">>
      [] OTHER -> <<>>
\* A body that is not of the format it says to be is refused.
ParseResults(answer) ==
    LET format == FromContentType(answer.type[1])
        doc == answer.body[2]
    IN  CASE format = <<>> \/ format # <<answer.body[1]>> -> NotGiven(NoResults)
          [] format = <<"srx">> /\ answer.body[1] = "srx" -> ParseSrx(doc)
          [] format = <<"tsv">> /\ answer.body[1] = "tsv" -> ParseTsv(doc)
          [] format = <<"csv">> /\ answer.body[1] = "csv" -> ParseCsv(doc)
          [] OTHER -> ParseSrj(doc)

(* -------------------------- federated queries ---------------------------- *)

\* The characters of a query that a URL cannot hold, and the codes they get.
Codes == (" " :> "%20") @@ ("QUOTE" :> "%22") @@ ("#" :> "%23") @@ ("%" :> "%25") @@ ("&" :> "%26") @@ ("+" :> "%2B") @@ ("/" :> "%2F")
         @@ ("<" :> "%3C") @@ ("=" :> "%3D") @@ (">" :> "%3E") @@ ("?" :> "%3F") @@ ("\\" :> "%5C") @@ ("@" :> "%40")
         @@ ("^^<" :> "%5E%5E%3C") @@ ("LF" :> "%0A") @@ ("http://" :> "http%3A%2F%2F") @@ ("h/" :> "h%2F") @@ ("d/" :> "d%2F")
         @@ ("v#" :> "v%23") @@ ("xsd:" :> "xsd%3A") @@ ("," :> "%2C") @@ ("TAB" :> "%09") @@ ("CR" :> "%0D") @@ ("(" :> "%28") @@ (")" :> "%29") @@ ("{" :> "%7B") @@ ("}" :> "%7D")

\* Mutant: only spaces are encoded.
EncodeSpaces(text) == [i \in DOMAIN text |-> IF text[i] = " " THEN "%20" ELSE text[i]]
PercentEncode(text) == [i \in DOMAIN text |-> IF text[i] \in DOMAIN Codes THEN Codes[text[i]] ELSE text[i]]
UrlDecode(text) ==
    [i \in DOMAIN text |-> IF text[i] = "+" THEN " "
                           ELSE IF text[i] \in Range(Codes) THEN CHOOSE c \in DOMAIN Codes : Codes[c] = text[i] ELSE text[i]]

LiteralTerm(v) ==
    <<"QUOTE">> \o EscapeLiteral(v.text) \o <<"QUOTE">>
    \o (CASE v.kind = "lang" -> <<"@">> \o v.of
          [] v.kind = "string" -> <<>>
          [] OTHER -> <<"^^<">> \o DatatypeOf(v) \o <<">">>)
\* Nodes have no spelling and are left out.
ValuesTerm(t) ==
    CASE t[1] = "iri" -> <<<<"<">> \o t[2] \o <<">">>>>
      [] t[1] = "literal" -> <<LiteralTerm(t[2])>>
      [] OTHER -> <<>>

\* The pattern as it is written, and as VALUES what is known already.
BuildFederatedQuery(pattern, bound) ==
    LET vars == Joined([i \in DOMAIN bound |-> <<"?", bound[i][1]>>], " ")
        terms == Joined(FlattenSeq([i \in DOMAIN bound |-> ValuesTerm(bound[i][2])]), " ")
        values == IF bound = <<>> THEN <<>>
                  ELSE <<" ", "VALUES", " ", "(">> \o vars \o <<")", " ", "{", " ", "(">> \o terms \o <<")", " ", "}">>
    IN  <<"SELECT", " ", "*", " ", "WHERE", " ", "{", " ">> \o pattern \o values \o <<" ", "}">>

AppendQuery(endpoint, encoded) == endpoint \o <<IF "?" \in ToSet(endpoint) THEN "&" ELSE "?", "query", "=">> \o encoded

\* The parameters of a request target; a later one of a name replaces an earlier.
ParseQuery(target) ==
    LET mark == SelectInSeq(target, LAMBDA c : c = "?")
        pairs == IF mark = 0 THEN <<>> ELSE SelectSeq(SplitAt(SubSeq(target, mark + 1, Len(target)), "&"), LAMBDA p : p # <<>>)
        cut(p) == SelectInSeq(p, LAMBDA c : c = "=")
        name(p) == UrlDecode(IF cut(p) = 0 THEN p ELSE SubSeq(p, 1, cut(p) - 1))
        value(p) == UrlDecode(IF cut(p) = 0 THEN <<>> ELSE SubSeq(p, cut(p) + 1, Len(p)))
    IN  FoldLeft(LAMBDA map, p : (name(p) :> value(p)) @@ map, <<>>, pairs)

\* The parameter, then the body, a form's as its field; <<>> if there is none.
ExtractSparqlQuery(req) ==
    LET fields == SelectSeq(SplitAt(req.body, "&"), LAMBDA p : Len(p) > 1 /\ p[1] = "query" /\ p[2] = "=")
    IN  CASE <<"query">> \in DOMAIN req.query -> <<req.query[<<"query">>]>>
          [] <<"query">> \notin DOMAIN req.query /\ req.type = "form" /\ fields # <<>> -> <<UrlDecode(SubSeq(fields[1], 3, Len(fields[1])))>>
          [] <<"query">> \notin DOMAIN req.query /\ (req.type # "form" \/ fields = <<>>) /\ req.body # <<>> -> <<req.body>>
          [] OTHER -> <<>>

FederationAccept ==
    Media("any of them", {"sparql-results+json", "json", "sparql-results+xml", "tab-separated", "csv", "text/csv"})
ResultsToRows(rows) ==
    LET bound(t) == IF t[1] = "blank" THEN <<"blank", BlankOf(t[2])>> ELSE t
    IN  [i \in DOMAIN rows |-> [v \in DOMAIN rows[i] |-> bound(rows[i][v])]]
\* What the endpoint answers as rows, or a failure; without a type it is JSON.
Evaluate(answer) ==
    IF ~answer.ok THEN NotGiven(NoResults)
    ELSE LET typed == IF answer.type = <<>> THEN [answer EXCEPT !.type = <<Media("application/sparql-results+json", {"sparql-results+json", "json"})>>] ELSE answer
         IN  AndThen(ParseResults(typed), LAMBDA none, r : Given(ResultsToRows(r.rows), r))
=============================================================================
