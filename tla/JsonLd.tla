------------------------------- MODULE JsonLd -------------------------------
(***************************************************************************)
(* The JSON-LD reader (ontolith-parser, infrastructure/json_ld.rs).        *)
(*                                                                         *)
(* A JSON value is <<"str", pieces>>, <<"num", characters>>, <<"bool",     *)
(* word>>, <<"null">>, <<"arr", values>> or <<"obj", entries>>, where an   *)
(* entry is <<key, value>> and a key is a sequence of pieces, as IRIs are: *)
(* a piece of JsonKeywords, one that ends with a colon, or a name.         *)
(*                                                                         *)
(* The reader's state is the context in force, how many blank nodes it has *)
(* named, what it can load and has loaded, and the quads so far.  What may *)
(* be absent is a sequence of at most one.                                 *)
(***************************************************************************)
EXTENDS RdfTerms
LOCAL INSTANCE SequencesExt
LOCAL INSTANCE TLC

JsonKeywords == {"@id", "@type", "@graph", "@context", "@value", "@language", "@list", "@set", "@index", "@json", "@vocab", "@base",
             "@propagate", "@import", "@container", "@reverse", "@nest", "@included"}
TermOfPrefix == [x \in {"v:"} |-> <<"v">>]      \* pieces of compact IRIs, which may name a term
IsKeyword(s) == s # <<>> /\ s[1] \in JsonKeywords
HasColon(s) == s # <<>> /\ s[1] \in Schemes \cup DOMAIN TermOfPrefix

Get(obj, key) == LET i == SelectInSeq(obj[2], LAMBDA e : e[1] = <<key>>) IN [j \in {1} \cap {IF i = 0 THEN 0 ELSE 1} |-> obj[2][i][2]]
StringOf(found) == IF found # <<>> /\ found[1][1] = "str" THEN <<found[1][2]>> ELSE <<>>
ItemsOf(value) == IF value[1] = "arr" THEN value[2] ELSE <<value>>
OrElse(found, other) == IF found # <<>> THEN found ELSE other

\* One reading after the other, each from the state before; a failure ends them.
Each(items, p, Read(_, _)) == FoldLeft(LAMBDA r, item : AndThen(r, LAMBDA none, q : Read(item, q)), Given(<<>>, p), items)

(* -------------------------------- contexts ------------------------------- *)

EmptyContext(base) == [terms |-> <<>>, vocab |-> <<>>, base |-> base, language |-> <<>>, propagate |-> TRUE]
EmptyDef == [id |-> <<>>, type |-> <<>>, language |-> <<>>, container |-> <<>>, reverse |-> <<>>, nest |-> <<>>]
DefOf(ctx, key) == IF key \in DOMAIN ctx.terms THEN ctx.terms[key] ELSE EmptyDef

\* Mutant: what was there stays.
MergeUnder(c, other) ==
    [terms |-> c.terms @@ other.terms, vocab |-> OrElse(c.vocab, other.vocab), base |-> OrElse(other.base, c.base),
     language |-> OrElse(other.language, c.language), propagate |-> c.propagate /\ other.propagate]
MergeContext(c, other) ==
    [terms |-> other.terms @@ c.terms, vocab |-> OrElse(other.vocab, c.vocab), base |-> OrElse(other.base, c.base),
     language |-> OrElse(other.language, c.language), propagate |-> c.propagate /\ other.propagate]

ExpandJson(ctx, s, vocab) ==
    LET prefix == IF s # <<>> /\ s[1] \in DOMAIN TermOfPrefix THEN DefOf(ctx, TermOfPrefix[s[1]]).id ELSE <<>>
    IN  CASE IsKeyword(s) \/ (s # <<>> /\ IsBlank(s)) -> s
          [] HasColon(s) -> IF prefix # <<>> /\ ~IsKeyword(prefix[1]) /\ Len(s) > 1 THEN prefix[1] \o Tail(s) ELSE s
          [] ~IsKeyword(s) /\ ~HasColon(s) /\ vocab /\ ctx.vocab # <<>> -> ctx.vocab[1] \o s
          [] OTHER -> IF ctx.base # <<>> THEN ResolveAgainstBase(ctx.base[1], s) ELSE s

\* <<the definition>> of a term, or <<>> if it is none.
TermDef(ctx, val) ==
    LET string(key) == StringOf(Get(val, key))
        expanded(key, vocab) == [i \in DOMAIN string(key) |-> ExpandJson(ctx, string(key)[i], vocab)]
        bad(key, others) == Get(val, key) # <<>> /\ Get(val, key)[1][1] \notin {"str"} \cup others
        type == string("@type")
    IN  CASE val[1] = "null" -> <<EmptyDef>>
          [] val[1] = "obj" /\ ~bad("@id", {"null"}) /\ ~bad("@type", {}) ->
                <<[id |-> expanded("@id", TRUE),
                   type |-> IF type \in {<<<<"@id">>>>, <<<<"@vocab">>>>, <<<<"@json">>>>} THEN type ELSE expanded("@type", TRUE),
                   language |-> string("@language"), container |-> string("@container"), nest |-> string("@nest"),
                   reverse |-> IF Get(val, "@reverse") = <<<<"bool", "true">>>> THEN expanded("@id", TRUE) ELSE expanded("@reverse", FALSE)]>>
          [] OTHER -> <<>>

WithTerm(p, key, def) == [p EXCEPT !.context.terms = (key :> def) @@ @]

\* What a keyword of a context sets.
Setting(e, p) ==
    LET string == StringOf(<<e[2]>>)
    IN  CASE e[1] \in {<<"@vocab">>, <<"@base">>} ->
                IF string = <<>> THEN NotGiven(p)
                ELSE LET to == <<ExpandJson(p.context, string[1], FALSE)>>
                     IN  Given(<<>>, IF e[1] = <<"@vocab">> THEN [p EXCEPT !.context.vocab = to] ELSE [p EXCEPT !.context.base = to])
          [] e[1] = <<"@language">> -> Given(<<>>, [p EXCEPT !.context.language = string])
          [] e[1] = <<"@propagate">> -> IF e[2][1] # "bool" THEN NotGiven(p) ELSE Given(<<>>, [p EXCEPT !.context.propagate = (e[2][2] = "true")])
          [] OTHER -> Given(<<>>, p)
\* Terms that are strings come before those with a definition.
StringTerm(e, p) ==
    Given(<<>>, IF IsKeyword(e[1]) \/ e[2][1] # "str" THEN p
               ELSE WithTerm(p, e[1], [EmptyDef EXCEPT !.id = <<ExpandJson(p.context, e[2][2], TRUE)>>]))
DefinedTerm(e, p) ==
    IF IsKeyword(e[1]) \/ e[2][1] = "str" THEN Given(<<>>, p)
    ELSE LET def == TermDef(p.context, e[2]) IN IF def = <<>> THEN NotGiven(p) ELSE Given(<<>>, WithTerm(p, e[1], def[1]))

RECURSIVE ApplyContext(_, _), RemoteContext(_, _)

\* What a URL gives is read with the base alone, and once.
RemoteContext(url, p) ==
    CASE url \in DOMAIN p.cache -> Given(p.cache[url], p)
      [] url \notin DOMAIN p.cache /\ (url \notin DOMAIN p.loader \/ (p.loader[url][1] = "obj" /\ Get(p.loader[url], "@import") # <<>>)) -> NotGiven(p)
      [] OTHER -> AndThen(ApplyContext(p.loader[url], [p EXCEPT !.context = EmptyContext(p.context.base), !.cache = <<>>]), LAMBDA none, sub :
                       Given(sub.context, [p EXCEPT !.cache = (url :> sub.context) @@ @]))
MergeRemote(url, p) == AndThen(RemoteContext(url, p), LAMBDA ctx, q : Given(<<>>, [q EXCEPT !.context = MergeContext(@, ctx)]))

\* An import comes first, so that what stands beside it prevails.
ApplyContext(value, p) ==
    CASE value[1] = "null" -> Given(<<>>, [p EXCEPT !.context = EmptyContext(@.base)])
      [] value[1] = "arr" -> Each(value[2], p, ApplyContext)
      [] value[1] = "str" -> MergeRemote(value[2], p)
      [] value[1] = "obj" ->
            LET import == Get(value, "@import")
                imported == IF import = <<>> THEN Given(<<>>, p) ELSE IF import[1][1] # "str" THEN NotGiven(p) ELSE MergeRemote(import[1][2], p)
            IN  AndThen(imported, LAMBDA a, q : AndThen(Each(value[2], q, Setting), LAMBDA b, r :
                AndThen(Each(value[2], r, StringTerm), LAMBDA c, s : Each(value[2], s, DefinedTerm))))
      [] OTHER -> NotGiven(p)

\* The context inside a node; the one in force stays what it was.
ContextFor(obj, p) ==
    LET own == Get(obj, "@context")
    IN  IF own = <<>> THEN Given(p.context, p)
        ELSE IF own[1][1] \notin {"obj", "arr", "null", "str"} THEN NotGiven(p)
        ELSE AndThen(ApplyContext(own[1], p), LAMBDA none, q : Given(q.context, [q EXCEPT !.context = p.context]))

(* --------------------------------- values -------------------------------- *)

\* <<the value>> of a keyword or of a term that stands for it.
NodeKeyword(obj, keyword, ctx) ==
    LET alias == SelectInSeq(obj[2], LAMBDA e : DefOf(ctx, e[1]).id = <<<<keyword>>>>)
    IN  CASE Get(obj, keyword) # <<>> -> Get(obj, keyword)
          [] Get(obj, keyword) = <<>> /\ alias # 0 -> <<obj[2][alias][2]>>
          [] OTHER -> <<>>

JsonBlank(n) == BlankOf(<<"b", ToString(n)>>)
MintBlank(p) == Given(JsonBlank(p.minted), [p EXCEPT !.minted = @ + 1])
IriOrBlank(s, ctx) == IF s # <<>> /\ IsBlank(s) THEN <<"blank", s>> ELSE <<"iri", ExpandJson(ctx, s, FALSE)>>

EmitQuad(s, pred, o, g, p) == [p EXCEPT !.out = Append(@, QuadIn(g, <<s, pred, o>>))]

JsonIntegers == {"integer"}
LiteralOf(v) == IF v[1] \in {"num", "bool"} THEN <<"literal", Value(IF v[1] = "num" THEN "integer" ELSE "boolean", IF v[1] = "num" THEN v[2] ELSE <<v[2]>>, <<>>)>>
                ELSE <<"literal", Value("string", v[2], <<>>)>>
LexicalOf(v) == IF v[1] = "bool" THEN <<v[2]>> ELSE v[2]

\* <<the term>>, or <<>> for what says nothing.
StringTermOf(s, def, lang, ctx) ==
    LET tag == OrElse(def.language, OrElse(lang, ctx.language))
    IN  CASE def.type = <<<<"@id">>>> -> <<IriOrBlank(s, ctx)>>
          [] def.type = <<<<"@vocab">>>> -> <<<<"iri", ExpandJson(ctx, s, TRUE)>>>>
          [] def.type = <<<<"@json">>>> -> <<<<"literal", Value("typed", s, RdfIri("JSON"))>>>>
          [] def.type # <<>> /\ ~IsKeyword(def.type[1]) -> <<<<"literal", CoerceTypedLiteral(s, def.type[1], JsonIntegers)>>>>
          [] def.type = <<>> /\ tag # <<>> -> <<<<"literal", Value("lang", s, tag[1])>>>>
          [] OTHER -> <<<<"literal", Value("string", s, <<>>)>>>>

ValueWith(v, type, lang, p) ==
    CASE v[1] = "null" -> Given(<<>>, p)
      [] v[1] # "null" /\ type # <<>> ->
            IF type[1][1] # "str" \/ (type[1][2] # <<"@json">> /\ v[1] \notin {"str", "num", "bool"}) THEN NotGiven(p)
            ELSE IF type[1][2] = <<"@json">> THEN Given(<<<<"literal", Value("typed", <<"json of">> \o v[2], RdfIri("JSON"))>>>>, p)
            ELSE Given(<<<<"literal", CoerceTypedLiteral(LexicalOf(v), ExpandJson(p.context, type[1][2], TRUE), JsonIntegers)>>>>, p)
      [] v[1] # "null" /\ type = <<>> /\ lang # <<>> ->
            IF v[1] # "str" THEN NotGiven(p) ELSE Given(<<<<"literal", Value("lang", v[2], lang[1])>>>>, p)
      [] OTHER -> Given(IF v[1] \in {"str", "num", "bool"} THEN <<LiteralOf(v)>> ELSE <<>>, p)
ValueObject(obj, p) == ValueWith(Get(obj, "@value")[1], Get(obj, "@type"), StringOf(Get(obj, "@language")), p)

(* ---------------------------------- nodes -------------------------------- *)

RECURSIVE NodeObject(_, _, _), EmitCells(_, _, _, _, _, _)

\* A value in the place of an object; the context in force reads it.
ValueTerm(item, def, lang, g, p) ==
    CASE item[1] = "null" -> Given(<<>>, p)
      [] item[1] = "str" -> Given(StringTermOf(item[2], def, lang, p.context), p)
      [] item[1] \in {"num", "bool"} -> Given(<<LiteralOf(item)>>, p)
      [] item[1] = "arr" -> NotGiven(p)
      [] OTHER ->
            LET id == StringOf(Get(item, "@id"))
                says == \E i \in DOMAIN item[2] : ~IsKeyword(item[2][i][1])
            IN  CASE Get(item, "@value") # <<>> -> ValueObject(item, p)
                  [] Get(item, "@value") = <<>> /\ id # <<>> /\ ~says -> Given(<<IriOrBlank(id[1], p.context)>>, p)
                  [] OTHER -> NodeObject(item, g, p)

EmitItems(s, pred, items, def, lang, g, p) ==
    Each(items, p, LAMBDA item, q : AndThen(ValueTerm(item, def, lang, g, q), LAMBDA o, r :
        Given(<<>>, IF o = <<>> THEN r ELSE EmitQuad(s, pred, o[1], g, r))))

\* A cell is named once the one before has its item; an item that says nothing
\* has no cell, and if it is the last the list has no end.
EmitCells(cell, items, def, lang, g, p) ==
    IF items = <<>> THEN Given(<<>>, p)
    ELSE AndThen(ValueTerm(Head(items), def, lang, g, p), LAMBDA o, q :
            LET r == EmitQuad(cell, RdfIri("first"), o[1], g, q)
            IN  IF o = <<>> THEN EmitCells(cell, Tail(items), def, lang, g, q)
                ELSE IF Len(items) = 1 THEN Given(<<>>, EmitQuad(cell, RdfIri("rest"), <<"iri", RdfIri("nil")>>, g, r))
                ELSE AndThen(MintBlank(r), LAMBDA next, t :
                        EmitCells(next, Tail(items), def, lang, g, EmitQuad(cell, RdfIri("rest"), <<"blank", next>>, g, t))))
EmitList(s, pred, items, def, lang, g, p) ==
    IF items = <<>> THEN Given(<<>>, EmitQuad(s, pred, <<"iri", RdfIri("nil")>>, g, p))
    ELSE AndThen(MintBlank(p), LAMBDA head, q : EmitCells(head, items, def, lang, g, EmitQuad(s, pred, <<"blank", head>>, g, q)))

EmitValues(s, pred, value, def, lang, g, p) ==
    CASE def.container = <<<<"@list">>>> -> IF value[1] # "arr" THEN NotGiven(p) ELSE EmitList(s, pred, value[2], def, lang, g, p)
      [] def.container \in {<<<<"@language">>>>, <<<<"@index">>>>} ->
            IF value[1] # "obj" THEN NotGiven(p)
            ELSE Each(value[2], p, LAMBDA e, q : EmitItems(s, pred, ItemsOf(e[2]), def, IF def.container = <<<<"@language">>>> THEN <<e[1]>> ELSE lang, g, q))
      [] OTHER -> EmitItems(s, pred, ItemsOf(value), def, lang, g, p)

\* The value is the subject; a literal says nothing.
EmitReverse(subject, pred, value, def, lang, g, p) ==
    Each(ItemsOf(value), p, LAMBDA item, q : AndThen(ValueTerm(item, def, lang, g, q), LAMBDA o, r :
        Given(<<>>, IF o = <<>> \/ o[1][1] = "literal" THEN r ELSE EmitQuad(o[1][2], pred, subject, g, r))))

\* The properties of an object, and those nested in it, of a node.
PredicateOfKey(ctx, key) == LET def == DefOf(ctx, key) IN IF def.id # <<>> THEN def.id[1] ELSE ExpandJson(ctx, key, TRUE)
NestedNode(subject, entries, ctx, lang, g, p) ==
    Each(entries, p, LAMBDA e, q :
        LET pred == PredicateOfKey(ctx, e[1])
        IN  IF IsKeyword(pred) THEN Given(<<>>, q) ELSE EmitValues(subject[2], pred, e[2], DefOf(ctx, e[1]), lang, g, q))
Reversed(subject, entries, ctx, lang, g, p) ==
    Each(entries, p, LAMBDA e, q :
        LET pred == PredicateOfKey(ctx, e[1])
        IN  IF IsKeyword(pred) THEN Given(<<>>, q) ELSE EmitReverse(subject, pred, e[2], DefOf(ctx, e[1]), lang, g, q))
Property(e, subject, ctx, lang, g, p) ==
    LET def == DefOf(ctx, e[1])
        pred == PredicateOfKey(ctx, e[1])
        obj == e[2][1] = "obj"
    IN  CASE pred = <<"@nest">> -> IF obj THEN NestedNode(subject, e[2][2], ctx, lang, g, p) ELSE NotGiven(p)
          [] pred = <<"@included">> -> Each(ItemsOf(e[2]), p, LAMBDA item, q : NodeObject(item, g, q))
          [] pred = <<"@reverse">> -> IF obj THEN Reversed(subject, e[2][2], ctx, lang, g, p) ELSE NotGiven(p)
          [] IsKeyword(pred) /\ pred \notin {<<"@nest">>, <<"@included">>, <<"@reverse">>} -> Given(<<>>, p)
          [] ~IsKeyword(pred) /\ def.nest # <<>> /\ obj -> NestedNode(subject, e[2][2], ctx, lang, g, p)
          [] ~IsKeyword(pred) /\ ~(def.nest # <<>> /\ obj) /\ def.reverse # <<>> -> EmitReverse(subject, def.reverse[1], e[2], def, lang, g, p)
          [] OTHER -> EmitValues(subject[2], pred, e[2], def, lang, g, p)

TypesOf(obj, subject, ctx, g, p) ==
    LET types == NodeKeyword(obj, "@type", ctx)
    IN  Each(IF types = <<>> THEN <<>> ELSE ItemsOf(types[1]), p, LAMBDA t, q :
            IF t[1] # "str" THEN NotGiven(q) ELSE Given(<<>>, EmitQuad(subject[2], RdfIri("type"), IriOrBlank(t[2], ctx), g, q)))

\* The name of the graph that a node holds, or the one it stands in.
GraphNamed(obj, ctx, g) ==
    LET id == StringOf(NodeKeyword(obj, "@id", ctx))
    IN  IF id # <<>> /\ ~IsBlank(id[1]) THEN <<ExpandJson(ctx, id[1], FALSE)>> ELSE g

\* Mutant: the context of the node stays in force after it.
LeaveInForce(before, p) == p
RestoreContext(before, p) == [p EXCEPT !.context = before]

\* <<the node>> that an object is, once all it says is said.  The node's context
\* is in force inside, unless it does not propagate; the one before comes back.
NodeObject(value, g, p) ==
    IF value[1] # "obj" THEN NotGiven(p)
    ELSE IF Get(value, "@value") # <<>> THEN Given(<<>>, p)
    ELSE AndThen(ContextFor(value, p), LAMBDA ctx, q :
        LET id == StringOf(NodeKeyword(value, "@id", ctx))
            inside == IF ctx.propagate THEN [q EXCEPT !.context = ctx] ELSE q
            named == IF id # <<>> THEN Given(IriOrBlank(id[1], ctx), inside) ELSE AndThen(MintBlank(inside), LAMBDA n, r : Given(<<"blank", n>>, r))
            lang == StringOf(NodeKeyword(value, "@language", ctx))
            graph == NodeKeyword(value, "@graph", ctx)
        IN  AndThen(named, LAMBDA subject, r : AndThen(TypesOf(value, subject, ctx, g, r), LAMBDA a, s : AndThen(
                IF graph # <<>> THEN Each(ItemsOf(graph[1]), s, LAMBDA node, u : NodeObject(node, GraphNamed(value, ctx, g), u))
                ELSE Each(value[2], s, LAMBDA e, u : Property(e, subject, ctx, lang, g, u)), LAMBDA b, t :
                Given(<<subject>>, RestoreContext(q.context, t))))))

\* The document's own context is applied before a node's is.
ParseJsonLd(doc, base, loader) ==
    LET p == [context |-> EmptyContext(base), minted |-> 0, cache |-> <<>>, loader |-> loader, out |-> <<>>]
        of(key) == IF doc[1] = "obj" THEN Get(doc, key) ELSE <<>>
        id == StringOf(of("@id"))
        opened == IF of("@context") = <<>> THEN Given(<<>>, p) ELSE ApplyContext(of("@context")[1], p)
        nodes == IF doc[1] = "arr" THEN doc[2] ELSE IF of("@graph") = <<>> THEN <<doc>> ELSE ItemsOf(of("@graph")[1])
        g(ctx) == IF of("@graph") # <<>> /\ id # <<>> /\ ~IsBlank(id[1]) THEN <<ExpandJson(ctx, id[1], FALSE)>> ELSE <<>>
    IN  IF doc[1] \notin {"arr", "obj"} THEN NotGiven(p)
        ELSE AndThen(opened, LAMBDA none, q : Each(nodes, q, LAMBDA node, r : NodeObject(node, g(q.context), r)))
=============================================================================
