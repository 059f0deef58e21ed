---------------------------- MODULE SparqlSyntax -----------------------------
(***************************************************************************)
(* The SPARQL parser (ontolith-query, infrastructure/sparql_parse.rs):     *)
(* terms, triples, property paths, expressions, group graph patterns and   *)
(* subqueries, and whole requests: the prologue, the four query forms with *)
(* their solution modifiers, and update requests.                          *)
(*                                                                         *)
(* The text is a sequence of tokens <<kind, x>>: keywords "kw", operators  *)
(* "op", path modifiers that touch what precedes them "mod", function      *)
(* names before a parenthesis "fn", and the terms "var", "label", "node",  *)
(* "iri", "rel" (relative reference), "pn" (prefixed name) and "lit".      *)
(*                                                                         *)
(* The parser's state is what is left of the text with                     *)
(*   labels    how many blank nodes it has named so far                    *)
(*   pending   the expansions of [...] and (...) not yet in a pattern      *)
(*   outer     what the enclosing SELECT computes                          *)
(*   prefixes, base   the prologue; hint is the subject asked for          *)
(* A result is [ok, v, at]: a value and the state after it, or a failure   *)
(* and the state it left behind.                                           *)
(*                                                                         *)
(* A graph that may be absent is a sequence of at most one name; so is the *)
(* node a `subject=` marker anywhere in the text asks for.                 *)
(***************************************************************************)
EXTENDS Integers, Sequences, FiniteSets, SparqlValues
LOCAL INSTANCE SequencesExt
LOCAL INSTANCE TLC

Done(v, p) == [ok |-> TRUE, v |-> v, at |-> p]
Fail(p) == [ok |-> FALSE, v |-> <<>>, at |-> p]
Then(r, K(_, _)) == IF r.ok THEN K(r.v, r.at) ELSE r
Reading(r, K(_)) == K(r)   \* what a reading gave, a failure or not

\* Going back restores the text and cuts the expansions; names stay used.
\* Mutant: the expansions of the abandoned attempt stay.
BackKeeping(p, r) == [p EXCEPT !.labels = r.at.labels, !.pending = r.at.pending]
Back(p, r) == [p EXCEPT !.labels = r.at.labels]

Peek(p) == IF p.toks = <<>> THEN <<"eof", "">> ELSE Head(p.toks)
Next1(p) == [p EXCEPT !.toks = Tail(@)]
AtAny(p, X) == Peek(p) \in {"kw", "op", "mod"} \X X
At(p, x) == AtAny(p, {x})
After(p, x) == IF At(p, x) THEN Next1(p) ELSE p
Expect(p, x, K(_)) == IF At(p, x) THEN K(Next1(p)) ELSE Fail(p)

Bgp(patterns) == [op |-> "bgp", patterns |-> patterns]
Identity == [op |-> "identity"]
JoinOf(l, r) == IF l = Identity THEN r ELSE [op |-> "join", l |-> l, r |-> r]
JoinAll(acc, pending) == FoldLeft(JoinOf, acc, pending)

(* ---------------------------------- terms -------------------------------- *)

Rdf(local) == <<"iri", <<"rdf", local>>>>

\* The IRI of a token: a prefixed name takes the namespace declared last, a
\* relative reference the base if there is one; <<>> for an unknown prefix.
IriOf(p, t) ==
    CASE t[1] = "iri" -> <<<<"iri", <<"", t[2]>>>>>>
      [] t[1] = "rel" -> <<<<"iri", <<p.base, t[2]>>>>>>
      [] t[1] = "pn" /\ t[2][1] \in DOMAIN p.prefixes -> <<<<"iri", <<p.prefixes[t[2][1]], t[2][2]>>>>>>
      [] OTHER -> <<>>

ParseIri(p) ==
    Reading(IriOf(p, Peek(p)), LAMBDA iri : IF iri = <<>> THEN Fail(p) ELSE Done(iri[1], Next1(p)))

ParseVar(p) == IF Peek(p)[1] = "var" THEN Done(Peek(p), Next1(p)) ELSE Fail(p)

ParseGraphTerm(p) == IF Peek(p)[1] = "lit" THEN Done(Peek(p), Next1(p)) ELSE ParseIri(p)

Generated(n) == <<"label", "_gen_" \o ToString(n)>>

InversePath(path) == IF path[1] = "p" THEN <<"inv", path[2]>> ELSE <<"p", path[2]>>

\* Mutant: only the steps turn round.
RECURSIVE InvertPathInPlace(_)
InvertPathInPlace(path) ==
    CASE path[1] \in {"p", "inv"} -> InversePath(path)
      [] path[1] \in {"seq", "alt"} -> <<path[1], InvertPathInPlace(path[2]), InvertPathInPlace(path[3])>>
      [] path[1] = "nps" -> <<"nps", path[3], path[2]>>
      [] OTHER -> <<path[1], InvertPathInPlace(path[2])>>

\* Mirrors a path: sequences turn round, negated sets swap their directions.
RECURSIVE InvertPath(_)
InvertPath(path) ==
    CASE path[1] \in {"p", "inv"} -> InversePath(path)
      [] path[1] = "seq" -> <<"seq", InvertPath(path[3]), InvertPath(path[2])>>
      [] path[1] = "alt" -> <<"alt", InvertPath(path[2]), InvertPath(path[3])>>
      [] path[1] = "nps" -> <<"nps", path[3], path[2]>>
      [] OTHER -> <<path[1], InvertPath(path[2])>>

RECURSIVE ParseVarOrTerm(_), ParsePropertyList(_, _), ParseItems(_, _), ParsePathLevel(_, _), PathRest(_, _, _)

\* A blank node property list and a collection stand for a term; what they say
\* about it is pending.
ParseVarOrTerm(p) ==
    CASE Peek(p)[1] \in {"var", "label", "node"} -> Done(Peek(p), Next1(p))
      [] At(p, "[") -> Reading([Next1(p) EXCEPT !.labels = @ + 1], LAMBDA q :
            IF At(q, "]") THEN Done(Generated(q.labels), Next1(q)) ELSE ParsePropertyList(Generated(q.labels), q))
      [] At(p, "(") -> ParseItems(<<>>, Next1(p))
      [] OTHER -> ParseGraphTerm(p)

\* The cells of a collection are named after all of its items.
Cells(items, p) ==
    LET cell(i) == IF i > Len(items) THEN Rdf("nil") ELSE Generated(p.labels + i)
    IN  FlattenSeq([i \in DOMAIN items |-> <<Bgp(<<<<cell(i), Rdf("first"), items[i]>>>>),
                                             Bgp(<<<<cell(i), Rdf("rest"), cell(i + 1)>>>>)>>])

ParseItems(items, p) ==
    CASE At(p, ")") /\ items = <<>> -> Done(Rdf("nil"), Next1(p))
      [] At(p, ")") -> Done(Generated(p.labels + 1),
                            [Next1(p) EXCEPT !.pending = @ \o Cells(items, p), !.labels = @ + Len(items)])
      [] OTHER -> Then(ParseVarOrTerm(p), LAMBDA item, q : ParseItems(Append(items, item), q))

(* ------------------------------ property paths --------------------------- *)

\* !p, !^p, !a or !(p|^q|...): what is listed forwards and backwards.
RECURSIVE ParseNegatedElements(_, _, _, _)
ParseNegatedElements(forward, reverse, inParens, p) ==
    Then(Reading(After(p, "^"), LAMBDA q : IF At(q, "a") THEN Done(Rdf("type"), Next1(q)) ELSE ParseIri(q)),
         LAMBDA i, r :
            LET f == IF At(p, "^") THEN forward ELSE forward \cup {i[2]}
                b == IF At(p, "^") THEN reverse \cup {i[2]} ELSE reverse
            IN  CASE inParens /\ At(r, "|") -> ParseNegatedElements(f, b, inParens, Next1(r))
                  [] inParens -> Expect(r, ")", LAMBDA s : Done(<<"nps", f, b>>, s))
                  [] OTHER -> Done(<<"nps", f, b>>, r))

ParseNegatedPropertySet(p) == ParseNegatedElements({}, {}, At(p, "("), After(p, "("))

ParsePathAlternative(p) == ParsePathLevel(1, p)
NestedPath(p) == Then(ParsePathAlternative(Next1(p)), LAMBDA a, q : Expect(q, ")", LAMBDA r : Done(a, r)))
Inverted(r) == Then(r, LAMBDA a, q : Done(InvertPath(a), q))

\* ^ turns a set or a nested path round, and a step into its inverse.
ParsePathPrimary(p) ==
    LET q == After(p, "^")
    IN  IF AtAny(q, {"(", "!"})
        THEN Reading(IF At(q, "!") THEN ParseNegatedPropertySet(Next1(q)) ELSE NestedPath(q),
                     LAMBDA r : IF At(p, "^") THEN Inverted(r) ELSE r)
        ELSE Then(ParseVarOrTerm(q), LAMBDA t, r :
                 IF t[1] = "iri" THEN Done(<<IF At(p, "^") THEN "inv" ELSE "p", t[2]>>, r) ELSE Fail(r))

Modifier(x) == CASE x = "+" -> "plus" [] x = "*" -> "star" [] OTHER -> "opt"
ParsePathUnary(p) ==
    Then(ParsePathPrimary(p), LAMBDA a, q :
        IF Peek(q)[1] = "mod" THEN Done(<<Modifier(Peek(q)[2]), a>>, Next1(q)) ELSE Done(a, q))

\* Alternatives of sequences: level 1 is |, level 2 is /.
PathOps == <<<<"|", "alt">>, <<"/", "seq">>>>
ParsePathLevel(level, p) ==
    IF level = 3 THEN ParsePathUnary(p) ELSE Then(ParsePathLevel(level + 1, p), LAMBDA a, q : PathRest(level, a, q))
PathRest(level, left, p) ==
    IF At(p, PathOps[level][1])
    THEN Then(ParsePathLevel(level + 1, Next1(p)), LAMBDA a, q : PathRest(level, <<PathOps[level][2], left, a>>, q))
    ELSE Done(left, p)

\* A plain verb, or a path when an operator of paths follows or touches it.
PathFollows(p) == Peek(p)[1] = "mod" \/ AtAny(p, {"/", "|"})
ParseVerbOrPath(p) ==
    Reading(ParseVarOrTerm(p), LAMBDA verb :
        LET follows == verb.ok /\ verb.v[1] \in {"iri", "var"} /\ PathFollows(verb.at)
        IN  CASE At(p, "a") -> Done(<<"verb", Rdf("type")>>, Next1(p))
              [] AtAny(p, {"^", "!", "("}) \/ follows ->
                    Then(ParsePathAlternative(IF AtAny(p, {"^", "!", "("}) THEN p ELSE Back(p, verb)),
                         LAMBDA a, q : Done(<<"path", a>>, q))
              [] OTHER -> Then(verb, LAMBDA v, q : Done(<<"verb", v>>, q)))

\* The expansion of a property follows the expansions inside its object.
ParsePropertyList(term, p) ==
    Then(ParseVerbOrPath(p), LAMBDA verb, q :
        Then(ParseVarOrTerm(q), LAMBDA object, r :
            Reading([r EXCEPT !.pending = Append(@,
                         IF verb[1] = "path" THEN [op |-> "path", s |-> term, path |-> verb[2], o |-> object]
                         ELSE Bgp(<<<<term, verb[2], object>>>>))],
                    LAMBDA s : IF At(s, ";") THEN ParsePropertyList(term, Next1(s))
                               ELSE Expect(s, "]", LAMBDA u : Done(term, u)))))

(* ---------------------------- triples and paths -------------------------- *)

ParseVerb(p) == IF At(p, "a") THEN Done(Rdf("type"), Next1(p)) ELSE ParseVarOrTerm(p)

ParseTriplePatternInner(p) ==
    Then(ParseVarOrTerm(p), LAMBDA s, q : Then(ParseVerb(q), LAMBDA v, r :
        Then(ParseVarOrTerm(r), LAMBDA o, t : Done(<<s, v, o>>, t))))

\* <<the triple>>, or <<>> with nothing consumed.
TryParseTriplePattern(p) ==
    Reading(ParseTriplePatternInner(p), LAMBDA r : IF r.ok THEN Done(<<r.v>>, r.at) ELSE Done(<<>>, Back(p, r)))

\* The triples that share a subject, or a subject and a verb, with the last.
RECURSIVE ParseSemicolonChain(_, _)
ParseSemicolonChain(triples, p) ==
    LET t == triples[Len(triples)]
    IN  CASE At(p, ";") ->
                Then(ParseVerb(Next1(p)), LAMBDA v, q : Then(ParseVarOrTerm(q), LAMBDA o, r :
                    ParseSemicolonChain(Append(triples, <<t[1], v, o>>), r)))
          [] At(p, ",") ->
                Then(ParseVarOrTerm(Next1(p)), LAMBDA o, r : ParseSemicolonChain(Append(triples, <<t[1], t[2], o>>), r))
          [] OTHER -> Done(triples, p)

\* <<the path pattern>>, or <<>> where no operator of paths is seen after the
\* subject or what follows is not a path.
TryParsePropertyPath(p) ==
    LET Marked(q) == AtAny(q, {"^", "!", "("})
        Rest(s, q) == Reading(
            Then(ParsePathAlternative(q), LAMBDA path, r : Then(ParseVarOrTerm(r), LAMBDA o, t :
                Done(<<[op |-> "path", s |-> s, path |-> path, o |-> o]>>, t))),
            LAMBDA read : IF read.ok THEN read ELSE Done(<<>>, Back(p, read)))
    IN  Reading(ParseVarOrTerm(p), LAMBDA s :
            IF ~s.ok THEN Done(<<>>, Back(p, s))
            ELSE Reading(IF Marked(s.at) THEN s ELSE ParseVarOrTerm(s.at), LAMBDA verb :
                CASE Marked(s.at) \/ (verb.ok /\ verb.v[1] = "iri" /\ PathFollows(verb.at)) ->
                        Rest(s.v, IF Marked(s.at) THEN s.at ELSE Back(s.at, verb))
                  [] OTHER -> Done(<<>>, Back(p, verb))))

(* ------------------------------- expressions ----------------------------- *)
(* As in SparqlEval, with <<"neg", e>>, <<"call", name, argument...>> and    *)
(* <<"agg", function, argument, distinct, separator>>.                       *)

AggregateNames == {"count", "sum", "avg", "min", "max", "group_concat", "sample"}
UnaryTests == {"isIri", "isLiteral", "isBlank"}
Comparisons == {"=", "!=", "<=", ">=", "<", ">"}

RECURSIVE ParseExpression(_), ParseArguments(_, _), ParseLevel(_, _), LevelRest(_, _, _), ParseGroupGraphPattern(_)

\* The arguments up to the closing parenthesis.
ParseArguments(args, p) ==
    IF args = <<>> /\ At(p, ")") THEN Done(args, Next1(p))
    ELSE Then(ParseExpression(p), LAMBDA e, q : IF At(q, ",") THEN ParseArguments(Append(args, e), Next1(q))
                                        ELSE Expect(q, ")", LAMBDA r : Done(Append(args, e), r)))

\* COUNT takes *, GROUP_CONCAT a separator, SAMPLE ignores DISTINCT.
ParseAggregateCall(p) ==
    LET f == Peek(p)[2]
        body(q) == IF f = "count" /\ At(q, "*") THEN Done(<<"rows">>, Next1(q)) ELSE ParseExpression(q)
        separated(q, K(_, _)) ==
            IF f = "group_concat" /\ At(q, ";")
            THEN Expect(Next1(q), "SEPARATOR", LAMBDA r : Expect(r, "=", LAMBDA s :
                     IF Peek(s)[1] = "lit" THEN Expect(Next1(s), ")", LAMBDA t : K(Peek(s), t)) ELSE Fail(s)))
            ELSE Expect(q, ")", LAMBDA t : K(Literal("string", 0), t))
    IN  Expect(Next1(p), "(", LAMBDA q : Then(body(After(q, "DISTINCT")), LAMBDA e, r :
            separated(r, LAMBDA separator, s :
                Done(<<"agg", f, e, At(q, "DISTINCT") /\ f # "sample", separator>>, s))))

Wrapped(p, K(_)) ==
    Expect(p, "(", LAMBDA q : Then(ParseExpression(q), LAMBDA e, r : Expect(r, ")", LAMBDA s : Done(K(e), s))))

ParseExists(kind, p) ==
    Then(ParseGroupGraphPattern(p), LAMBDA g, q :
        Done(IF kind = "not" THEN <<"not", <<"exists", g>>>> ELSE <<"exists", g>>, q))

ParsePrimary(p) ==
    LET up == Next1(p)
    IN  CASE At(p, "BOUND") -> Expect(up, "(", LAMBDA q : Then(ParseVar(q), LAMBDA v, r :
                                   Expect(r, ")", LAMBDA s : Done(<<"bound", v[2]>>, s))))
          [] AtAny(p, UnaryTests) -> Wrapped(up, LAMBDA e : <<Peek(p)[2], e>>)
          [] At(p, "CAST") -> Expect(up, "(", LAMBDA q : Then(ParseExpression(q), LAMBDA e, r : Expect(r, "AS", LAMBDA s :
                                  Then(ParseIri(s), LAMBDA t, u : Expect(u, ")", LAMBDA w : Done(<<"call", "CAST", e, <<"val", t>>>>, w))))))
          [] AtAny(p, AggregateNames) -> ParseAggregateCall(p)
          [] Peek(p)[1] = "fn" -> Expect(up, "(", LAMBDA q : Then(ParseArguments(<<>>, q), LAMBDA args, r :
                                      Done(<<"call", Peek(p)[2]>> \o args, r)))
          [] At(p, "(") -> Wrapped(p, LAMBDA e : e)
          [] Peek(p)[1] = "var" -> Done(Peek(p), up)
          [] OTHER -> Then(ParseGraphTerm(p), LAMBDA t, q : Done(<<"val", t>>, q))

\* Both signs negate.
RECURSIVE ParseUnary(_)
ParseUnary(p) ==
    LET denied == AtAny(p, {"!", "NOT"}) /\ At(Next1(p), "EXISTS")
    IN  CASE denied \/ At(p, "EXISTS") ->
                ParseExists(IF denied THEN "not" ELSE "", Next1(IF denied THEN Next1(p) ELSE p))
          [] AtAny(p, {"!", "NOT", "-", "+"}) ->
                Then(ParseUnary(Next1(p)), LAMBDA e, q : Done(<<IF AtAny(p, {"-", "+"}) THEN "neg" ELSE "not", e>>, q))
          [] OTHER -> ParsePrimary(p)

\* A comparison does not associate.
Listed(name, left, p) ==
    Expect(p, "(", LAMBDA q : Then(ParseArguments(<<>>, q), LAMBDA args, r : Done(<<"call", name, left>> \o args, r)))
ParseRelational(p) ==
    Then(ParseLevel(4, p), LAMBDA left, q :
        CASE AtAny(q, Comparisons) -> Then(ParseLevel(4, Next1(q)), LAMBDA right, r : Done(<<Peek(q)[2], left, right>>, r))
          [] At(q, "IN") -> Listed("IN", left, Next1(q))
          [] At(q, "NOT") -> Expect(Next1(q), "IN", LAMBDA r : Listed("NOT IN", left, r))
          [] OTHER -> Done(left, q))

\* Disjunctions of conjunctions of comparisons of sums of products: the
\* operators of a level associate to the left.
Operators == <<{"||", "OR"}, {"&&", "AND"}, {}, {"+", "-"}, {"*", "/"}>>
Combined(level, op, l, r) == CASE level = 1 -> <<"or", l, r>> [] level = 2 -> <<"and", l, r>> [] OTHER -> <<"arith", op, l, r>>

\* Mutant: the operators associate to the right.
LevelRestRightwards(level, left, p) ==
    IF AtAny(p, Operators[level])
    THEN Then(ParseLevel(level, Next1(p)), LAMBDA right, q : Done(Combined(level, Peek(p)[2], left, right), q))
    ELSE Done(left, p)
LevelRest(level, left, p) ==
    IF AtAny(p, Operators[level])
    THEN Then(ParseLevel(level + 1, Next1(p)), LAMBDA right, q : LevelRest(level, Combined(level, Peek(p)[2], left, right), q))
    ELSE Done(left, p)

ParseLevel(level, p) ==
    CASE level = 6 -> ParseUnary(p)
      [] level = 3 -> ParseRelational(p)
      [] OTHER -> Then(ParseLevel(level + 1, p), LAMBDA left, q : LevelRest(level, left, q))

ParseExpression(p) == ParseLevel(1, p)

\* A parenthesised constraint ends with its parenthesis.
ParseConstraint(p) ==
    Then(ParseExpression(After(p, "(")), LAMBDA e, q :
        IF At(p, "(") THEN Expect(q, ")", LAMBDA r : Done(e, r)) ELSE Done(e, q))

\* Where the operands of an expression are.
Operands(e) ==
    CASE e[1] \in {"not", "neg"} \cup UnaryTests -> <<2>>
      [] e[1] \in {"and", "or"} \cup Comparisons -> <<2, 3>>
      [] e[1] = "arith" -> <<3, 4>>
      [] e[1] = "call" -> [i \in 1..(Len(e) - 2) |-> i + 2]
      [] OTHER -> <<>>

\* Aggregate calls become variables: the one that has the same call already,
\* or a new one.  Patterns inside EXISTS are left alone.
\* Mutant: calls of the same function are taken for one another.
RECURSIVE LiftAggregatesByName(_, _)
LiftAggregatesByName(e, specs) ==
    LET same == {i \in DOMAIN specs : specs[i].function[2] = e[2]}
        lifted(st, i) == LET l == LiftAggregatesByName(st[1][i], st[2]) IN <<[st[1] EXCEPT ![i] = l[1]], l[2]>>
    IN  IF e[1] = "agg"
        THEN IF same # {} THEN <<<<"var", specs[CHOOSE i \in same : \A j \in same : i <= j].output>>, specs>>
             ELSE <<<<"var", "__agg_" \o ToString(Len(specs))>>, Append(specs, [function |-> e, output |-> "__agg_" \o ToString(Len(specs))])>>
        ELSE FoldLeft(lifted, <<e, specs>>, Operands(e))

RECURSIVE LiftAggregates(_, _)
LiftAggregates(e, specs) ==
    LET same == {i \in DOMAIN specs : specs[i].function = e}
        lifted(st, i) == LET l == LiftAggregates(st[1][i], st[2]) IN <<[st[1] EXCEPT ![i] = l[1]], l[2]>>
    IN  IF e[1] = "agg"
        THEN IF same # {} THEN <<<<"var", specs[CHOOSE i \in same : \A j \in same : i <= j].output>>, specs>>
             ELSE <<<<"var", "__agg_" \o ToString(Len(specs))>>, Append(specs, [function |-> e, output |-> "__agg_" \o ToString(Len(specs))])>>
        ELSE FoldLeft(lifted, <<e, specs>>, Operands(e))

(* ------------------------------ variable scope --------------------------- *)

\* Variables and blank nodes alike.
Names(terms) == {t[2] : t \in {u \in terms : u[1] \in {"var", "label"}}}

RECURSIVE AlgebraVars(_), ExprVars(_)
ExprVars(e) ==
    CASE e[1] \in {"var", "bound"} -> {e[2]}
      [] e[1] = "exists" -> AlgebraVars(e[2])
      [] OTHER -> UNION {ExprVars(e[Operands(e)[i]]) : i \in DOMAIN Operands(e)}

\* Mutant: the name of a graph is not looked at.
AlgebraVarsNoGraph(q) ==
    CASE q.op = "bgp" -> UNION {Names({t[1], t[2], t[3]}) : t \in ToSet(q.patterns)}
      [] q.op \in {"join", "leftjoin", "union", "minus"} -> AlgebraVars(q.l) \cup AlgebraVars(q.r)
      [] q.op \in {"filter", "distinct", "project", "orderby", "slice", "aggregate", "graph"} -> AlgebraVars(q.in)
      [] q.op = "extend" -> {q.var} \cup ExprVars(q.expr) \cup AlgebraVars(q.in)
      [] q.op = "values" -> q.vars
      [] q.op = "path" -> Names({q.s, q.o})
      [] q.op = "service" -> Names({q.endpoint}) \cup AlgebraVars(q.in)
      [] OTHER -> {}

\* Everything a pattern mentions but its filters, hidden or not.
AlgebraVars(q) ==
    CASE q.op = "bgp" -> UNION {Names({t[1], t[2], t[3]}) : t \in ToSet(q.patterns)}
      [] q.op \in {"join", "leftjoin", "union", "minus"} -> AlgebraVars(q.l) \cup AlgebraVars(q.r)
      [] q.op \in {"filter", "distinct", "project", "orderby", "slice", "aggregate"} -> AlgebraVars(q.in)
      [] q.op = "extend" -> {q.var} \cup ExprVars(q.expr) \cup AlgebraVars(q.in)
      [] q.op = "values" -> q.vars
      [] q.op = "path" -> Names({q.s, q.o})
      [] q.op = "graph" -> Names({q.g}) \cup AlgebraVars(q.in)
      [] q.op = "service" -> Names({q.endpoint}) \cup AlgebraVars(q.in)
      [] OTHER -> {}

(* ------------------------------ solution parts --------------------------- *)
(* A selection collects the columns of a SELECT: vars all its names in       *)
(* order, plain the bare variables, specs the aggregates, exprs the computed *)
(* columns <<expression, alias>>.                                            *)

NoSelection == [vars |-> <<>>, plain |-> {}, specs |-> <<>>, exprs |-> <<>>]
Always == <<"val", Truth(TRUE)>>

Aliased(p, K(_, _)) == Expect(p, "AS", LAMBDA q : Then(ParseVar(q), LAMBDA v, r : Expect(r, ")", LAMBDA s : K(v[2], s))))

ParseAggregateSpec(p) ==
    Then(ParseAggregateCall(p), LAMBDA f, q : Aliased(q, LAMBDA x, r : Done([function |-> f, output |-> x], r)))

\* One column after another; unique refuses a name that is projected already.
RECURSIVE ParseColumns(_, _, _)
ParseColumns(sel, unique, p) ==
    LET more(x, s, q) == IF unique /\ Contains(sel.vars, x) THEN Fail(q)
                         ELSE ParseColumns([s EXCEPT !.vars = Append(@, x)], unique, q)
        up == Next1(p)
    IN  CASE Peek(p)[1] = "var" -> more(Peek(p)[2], [sel EXCEPT !.plain = @ \cup {Peek(p)[2]}], up)
          [] At(p, "(") /\ AtAny(up, AggregateNames) ->
                Then(ParseAggregateSpec(up), LAMBDA spec, q : more(spec.output, [sel EXCEPT !.specs = Append(@, spec)], q))
          [] At(p, "(") ->
                Then(ParseExpression(up), LAMBDA e, q : Aliased(q, LAMBDA x, r :
                    LET lifted == LiftAggregates(e, sel.specs)
                    IN  more(x, [sel EXCEPT !.specs = lifted[2], !.exprs = Append(@, <<lifted[1], x>>)], r)))
          [] OTHER -> Done(sel, p)

Computed(sel) == {c[2] : c \in ToSet(sel.exprs)} \cup {spec.output : spec \in ToSet(sel.specs)}

\* GROUP BY: variables, and expressions with a name, which extend the pattern.
RECURSIVE ParseGroupKeys(_, _, _)
ParseGroupKeys(groups, q, p) ==
    CASE Peek(p)[1] = "var" -> ParseGroupKeys(groups \cup {Peek(p)[2]}, q, Next1(p))
      [] At(p, "(") ->
            Then(ParseExpression(Next1(p)), LAMBDA e, r : Aliased(r, LAMBDA x, s :
                ParseGroupKeys(groups \cup {x}, [op |-> "extend", var |-> x, expr |-> e, in |-> q], s)))
      [] OTHER -> Done(<<groups, q>>, p)

ParseGroupBy(q, p) ==
    IF At(p, "GROUP") THEN Expect(Next1(p), "BY", LAMBDA r : ParseGroupKeys({}, q, r)) ELSE Done(<<{}, q>>, p)

\* HAVING: <<the conjunction or <<>>, the aggregates>>; again allows the
\* keyword to be repeated.
RECURSIVE ParseHaving(_, _, _, _, _)
ParseHaving(having, specs, again, inside, p) ==
    CASE At(p, "HAVING") /\ (again \/ ~inside) -> ParseHaving(having, specs, again, TRUE, Next1(p))
      [] inside /\ At(p, "(") ->
            Then(ParseConstraint(p), LAMBDA e, q :
                LET lifted == LiftAggregates(e, specs)
                    all == IF having = <<>> THEN <<lifted[1]>> ELSE <<<<"and", having[1], lifted[1]>>>>
                IN  ParseHaving(all, lifted[2], again, TRUE, q))
      [] OTHER -> Done(<<having, specs>>, p)

\* Bare columns must be grouped.  Without aggregates and groups HAVING is lost.
Misgrouped(sel, specs, groups) ==
    \/ specs # <<>> /\ sel.plain # {} /\ groups = {}
    \/ groups # {} /\ ~(sel.plain \subseteq groups)
Grouped(q, groups, specs, having) ==
    IF specs = <<>> /\ groups = {} THEN q
    ELSE [op |-> "aggregate", groups |-> groups, in |-> q,
          aggregates |-> {[function |-> s.function[2], expr |-> s.function[3], distinct |-> s.function[4],
                           output |-> s.output] : s \in ToSet(specs)},
          having |-> IF having = <<>> THEN Always ELSE having[1]]

\* The keys are variables, in parentheses or not, with a direction or not.
RECURSIVE ParseOrderKeys(_, _)
ParseOrderKeys(keys, p) ==
    LET up == IF AtAny(p, {"ASC", "DESC"}) THEN Next1(p) ELSE p
        q == After(up, "(")
        r == After(Next1(q), ")")
        all == Append(keys, <<Peek(q)[2], ~At(p, "DESC")>>)
    IN  CASE Peek(q)[1] # "var" -> Done(keys, q)
          [] Peek(r)[1] = "var" \/ AtAny(r, {"ASC", "DESC"}) -> ParseOrderKeys(all, r)
          [] OTHER -> Done(all, r)

ParseOrderBy(q, p) ==
    IF At(p, "ORDER")
    THEN Expect(Next1(p), "BY", LAMBDA r : Then(ParseOrderKeys(<<>>, r), LAMBDA keys, s :
             Done(IF keys = <<>> THEN q ELSE [op |-> "orderby", keys |-> keys, in |-> q], s)))
    ELSE Done(q, p)

\* <<>>, or <<n>> for the keyword and its number.
ParseNumber(word, p) ==
    IF ~At(p, word) THEN Done(<<>>, p)
    ELSE IF Peek(Next1(p))[1] = "lit" THEN Done(<<NumberOf(Peek(Next1(p))) \div 10>>, Next1(Next1(p))) ELSE Fail(p)

\* Mutant: OFFSET is looked for before LIMIT only.
ParseSliceBoundsOnce(p) ==
    Then(ParseNumber("OFFSET", p), LAMBDA first, q : Then(ParseNumber("LIMIT", q), LAMBDA limit, r :
        Done(<<IF first = <<>> THEN 0 ELSE first[1], limit>>, r)))

\* OFFSET and LIMIT in either order; an offset of zero may be given again.
ParseSliceBounds(p) ==
    Then(ParseNumber("OFFSET", p), LAMBDA first, q : Then(ParseNumber("LIMIT", q), LAMBDA limit, r :
        IF first \notin {<<>>, <<0>>} THEN Done(<<first[1], limit>>, r)
        ELSE Then(ParseNumber("OFFSET", r), LAMBDA second, s : Done(<<IF second = <<>> THEN 0 ELSE second[1], limit>>, s))))

Sliced(q, bounds) ==
    IF bounds[1] = 0 /\ bounds[2] = <<>> THEN q
    ELSE [op |-> "slice", offset |-> bounds[1], limit |-> bounds[2], in |-> q]

\* DISTINCT compares the rows before they are projected.
DistinctRows(distinct, q) == IF distinct THEN [op |-> "distinct", in |-> q] ELSE q

(* ------------------------- group graph patterns -------------------------- *)

\* <<variables, rows>>; one variable may go without parentheses.
RECURSIVE ParseRowTerms(_, _, _), ParseRows(_, _, _), ParseValueVars(_, _)
ParseValueVars(vars, p) ==
    IF At(p, ")") THEN Done(vars, Next1(p)) ELSE Then(ParseVar(p), LAMBDA v, q : ParseValueVars(Append(vars, v[2]), q))

ParseRowTerms(row, left, p) ==
    CASE left = <<>> -> Done(row, p)
      [] At(p, "UNDEF") -> ParseRowTerms(row, Tail(left), Next1(p))
      [] OTHER -> Then(ParseGraphTerm(p), LAMBDA t, q :
            ParseRowTerms([x \in DOMAIN row \cup {left[1]} |-> IF x = left[1] THEN t ELSE row[x]], Tail(left), q))

ParseRows(rows, vars, p) ==
    LET bare == Len(vars) = 1 /\ ~At(p, "(")
    IN  CASE At(p, "}") -> Done(rows, Next1(p))
          [] ~bare /\ ~At(p, "(") -> Fail(p)
          [] OTHER -> Then(ParseRowTerms([x \in {} |-> x], vars, After(p, "(")), LAMBDA row, q :
                          IF ~bare /\ ~At(q, ")") THEN Fail(q)
                          ELSE ParseRows(Append(rows, row), vars, IF bare THEN q ELSE Next1(q)))

ParseValues(p) ==
    Then(IF Peek(p)[1] = "var" THEN Done(<<Peek(p)[2]>>, Next1(p)) ELSE Expect(p, "(", LAMBDA q : ParseValueVars(<<>>, q)),
         LAMBDA xs, q : Expect(q, "{", LAMBDA r : Then(ParseRows(<<>>, xs, r), LAMBDA rows, s :
            Done([op |-> "values", vars |-> ToSet(xs), rows |-> rows], s))))

\* The triples of a block; what may not start a triple ends it.
BgpEnds == {"}", "OPTIONAL", "FILTER", "BIND", "VALUES", "UNION", "{"}
RECURSIVE ParseBgp(_, _)
ParseBgp(triples, p) ==
    IF ~At(p, ".") THEN Done(triples, p)
    ELSE IF AtAny(Next1(p), BgpEnds) THEN Done(triples, Next1(p))
    ELSE Then(TryParseTriplePattern(Next1(p)), LAMBDA t, q :
            IF t = <<>> THEN Done(triples, After(q, "."))
            ELSE Then(ParseSemicolonChain(t, q), LAMBDA chain, r : ParseBgp(triples \o chain, r)))

Both(op, l, r) == [op |-> op, l |-> l, r |-> r]

RECURSIVE ParseElements(_, _, _, _), ParseSubquerySelect(_)

\* A group after the keyword p begins with, put together with what came before.
ParseJoined(keyword, acc, p) ==
    Then(ParseGroupGraphPattern(p), LAMBDA g, q :
        Done(CASE keyword = "OPTIONAL" -> Both("leftjoin", acc, g) @@ [cond |-> Always]
               [] keyword = "UNION" -> Both("union", acc, g)
               [] OTHER -> Both("minus", acc, g), q))

ParseBind(acc, p) ==
    Expect(p, "(", LAMBDA q : Then(ParseExpression(q), LAMBDA e, r : Aliased(r, LAMBDA x, s :
        IF x \in AlgebraVars(acc) THEN Fail(s) ELSE Done([op |-> "extend", var |-> x, expr |-> e, in |-> acc], s))))

ParseGraph(acc, p) ==
    Then(ParseVarOrTerm(p), LAMBDA g, q : Then(ParseGroupGraphPattern(q), LAMBDA in, r :
        Done(JoinOf(acc, [op |-> "graph", g |-> g, in |-> in]), r)))

ParseService(acc, silent, p) ==
    Then(ParseVarOrTerm(p), LAMBDA endpoint, q :
        IF endpoint[1] \notin {"iri", "var"} THEN Fail(q)
        ELSE Then(ParseGroupGraphPattern(q), LAMBDA in, r :
                Done(JoinOf(acc, [op |-> "service", endpoint |-> endpoint, silent |-> silent, in |-> in]), After(r, "."))))

\* { ... }, or { ... } UNION { ... }
ParseNested(acc, p) ==
    Then(ParseGroupGraphPattern(p), LAMBDA l, q :
        IF ~At(q, "UNION") THEN Done(JoinOf(acc, l), q)
        ELSE Then(ParseGroupGraphPattern(Next1(q)), LAMBDA r, s : Done(JoinOf(acc, Both("union", l, r)), s)))

Flushed(a, p) == Done(JoinAll(a, p.pending), [p EXCEPT !.pending = <<>>])

\* A path pattern, a block of triples or a bracketed term alone; FALSE ends the
\* group.  What a path pattern left pending waits for the next block.
ParseTriplesBlock(acc, p) ==
    Then(TryParsePropertyPath(p), LAMBDA path, q :
        IF path # <<>> THEN Done(<<TRUE, JoinOf(acc, path[1])>>, After(q, "."))
        ELSE Then(TryParseTriplePattern(q), LAMBDA triple, r :
            CASE triple # <<>> ->
                    Then(ParseSemicolonChain(triple, r), LAMBDA chain, s : Then(ParseBgp(chain, s), LAMBDA triples, t :
                    Then(Flushed(JoinOf(acc, Bgp(triples)), t), LAMBDA a, u : Done(<<TRUE, a>>, u))))
              [] At(p, "[") -> Then(ParseVarOrTerm(r), LAMBDA t, s :
                                   Then(Flushed(acc, After(s, ".")), LAMBDA a, u : Done(<<TRUE, a>>, u)))
              [] OTHER -> Done(<<FALSE, acc>>, r)))

\* The elements of a group, folded from the left; the filters are kept apart.
ParseElement(acc, first, p) ==
    LET up == Next1(p)
    IN  CASE AtAny(p, {"OPTIONAL", "UNION", "MINUS"}) -> ParseJoined(Peek(p)[2], acc, up)
          [] At(p, "BIND")    -> ParseBind(acc, up)
          [] At(p, "VALUES")  -> Then(ParseValues(up), LAMBDA v, q : Done(JoinOf(acc, v), q))
          [] At(p, "GRAPH")   -> ParseGraph(acc, up)
          [] At(p, "SELECT")  -> IF first THEN Then(ParseSubquerySelect(p), LAMBDA q, r : Done(JoinOf(acc, q), r)) ELSE Fail(p)
          [] At(p, "SERVICE") -> ParseService(acc, At(up, "SILENT"), After(up, "SILENT"))
          [] OTHER            -> ParseNested(acc, p)

Keywords == {"OPTIONAL", "UNION", "MINUS", "BIND", "VALUES", "GRAPH", "SELECT", "SERVICE", "{"}
ParseElements(acc, filters, first, p) ==
    CASE p.toks = <<>> \/ At(p, "}") -> Done(<<acc, filters>>, p)
      [] At(p, "FILTER") -> Then(ParseConstraint(Next1(p)), LAMBDA e, q : ParseElements(acc, Append(filters, e), FALSE, q))
      [] AtAny(p, Keywords) -> Then(ParseElement(acc, first, p), LAMBDA a, q : ParseElements(a, filters, FALSE, q))
      [] OTHER -> Then(ParseTriplesBlock(acc, p), LAMBDA b, q :
                      IF b[1] THEN ParseElements(b[2], filters, FALSE, q) ELSE Done(<<acc, filters>>, q))

FilterWith(q, e) == [op |-> "filter", cond |-> e, in |-> q]

\* Mutant: a second filter takes the place of the first.
ParseGroupOneFilter(p) ==
    Expect(p, "{", LAMBDA q : Then(ParseElements(Identity, <<>>, TRUE, q), LAMBDA v, r :
        Expect(r, "}", LAMBDA s : Done(IF v[2] = <<>> THEN v[1] ELSE FilterWith(v[1], v[2][Len(v[2])]), s))))

\* The filters wrap the whole group.
ParseGroupGraphPattern(p) ==
    Expect(p, "{", LAMBDA q : Then(ParseElements(Identity, <<>>, TRUE, q), LAMBDA v, r :
        Expect(r, "}", LAMBDA s : Done(FoldLeft(FilterWith, v[1], v[2]), s))))

\* Grouped, ordered, projected and cut, in that order; DISTINCT is below the
\* projection.
Selected(sel, distinct, groups, pattern, specs, having, p) ==
    Then(ParseOrderBy(FoldLeft(LAMBDA a, c : [op |-> "extend", var |-> c[2], expr |-> c[1], in |-> a],
                               Grouped(pattern, groups, specs, having), sel.exprs), p), LAMBDA ordered, q :
    Then(ParseSliceBounds(q), LAMBDA bounds, r :
        Done(Sliced([op |-> "project", vars |-> ToSet(sel.vars), in |-> DistinctRows(distinct, ordered)], bounds), r)))

\* A subquery may not project what the enclosing SELECT computes; inside, its
\* own computed columns take their place.
ParseSubqueryBody(p, start) ==
    Then(IF At(start, "*") THEN Done(NoSelection, Next1(start)) ELSE ParseColumns(NoSelection, FALSE, start), LAMBDA sel, q :
        IF (~At(start, "*") /\ sel.vars = <<>>) \/ ToSet(sel.vars) \cap p.outer # {} THEN Fail(q)
        ELSE Then(ParseGroupGraphPattern(After([q EXCEPT !.outer = Computed(sel)], "WHERE")), LAMBDA g, r :
             Then(ParseGroupBy(g, r), LAMBDA grouped, s :
             Then(ParseHaving(<<>>, sel.specs, FALSE, FALSE, s), LAMBDA h, t :
                IF Misgrouped(sel, h[2], grouped[1]) THEN Fail(t)
                ELSE Selected(sel, At(Next1(p), "DISTINCT"), grouped[1], grouped[2], h[2], h[1], t)))))

\* Mutant: the enclosing names are not put back.
ParseSubquerySelectLeaving(p) == ParseSubqueryBody(p, After(Next1(p), "DISTINCT"))
ParseSubquerySelect(p) ==
    Then(ParseSubqueryBody(p, After(Next1(p), "DISTINCT")), LAMBDA q, r : Done(q, [r EXCEPT !.outer = p.outer]))

CONSTANTS Sources, Written(_)   \* what requests say; their tokens and hints
VARIABLES request, plan

Parser(toks, hint) ==
    [toks |-> toks, labels |-> 0, pending |-> <<>>, outer |-> {}, base |-> "", hint |-> hint,
     prefixes |-> [x \in {"rdf", "rdfs", "xsd"} |-> x]]

(* -------------------------------- prologue ------------------------------- *)

\* The last declaration of a prefix counts.
ParsePrefix(name, namespace, p) ==
    [p EXCEPT !.prefixes = (name :> namespace) @@ p.prefixes]

RECURSIVE ParsePrologue(_)
ParsePrologue(p) ==
    LET name == Next1(p)
        iri == Next1(name)
    IN  CASE At(p, "PREFIX") /\ Peek(name)[1] = "prefix" /\ Peek(iri)[1] = "iri" ->
                ParsePrologue(ParsePrefix(Peek(name)[2], Peek(iri)[2], Next1(iri)))
          [] At(p, "BASE") /\ Peek(name)[1] = "iri" -> ParsePrologue([Next1(name) EXCEPT !.base = Peek(name)[2]])
          [] AtAny(p, {"PREFIX", "BASE"}) -> Fail(p)
          [] OTHER -> Done(<<>>, p)

(* --------------------------------- queries ------------------------------- *)

\* What a template takes from the expansions: triples, never paths.
DrainTemplatePatterns(p) ==
    IF \E i \in DOMAIN p.pending : p.pending[i].op # "bgp" THEN Fail(p)
    ELSE Done(FlattenSeq([i \in DOMAIN p.pending |-> p.pending[i].patterns]), [p EXCEPT !.pending = <<>>])

RECURSIVE ParseTemplate(_, _)
ParseTemplate(patterns, p) ==
    Then(TryParseTriplePattern(p), LAMBDA t, u :
        IF At(p, "}") \/ t = <<>> THEN Expect(u, "}", LAMBDA q : Done(patterns, q))
        ELSE Then(ParseSemicolonChain(t, u), LAMBDA chain, q : Then(DrainTemplatePatterns(q), LAMBDA said, r :
                 ParseTemplate(patterns \o chain \o said, After(r, ".")))))

\* FROM and FROM NAMED, or USING and USING NAMED.
RECURSIVE ParseDatasetClauses(_, _, _, _)
ParseDatasetClauses(word, from, named, p) ==
    IF ~At(p, word) THEN Done(<<from, named>>, p)
    ELSE LET isNamed == At(Next1(p), "NAMED")
         IN  Then(ParseIri(After(Next1(p), "NAMED")), LAMBDA g, q :
                 ParseDatasetClauses(word, IF isNamed THEN from ELSE Append(from, g), IF isNamed THEN Append(named, g) ELSE named, q))

RECURSIVE ParseTargets(_, _)
ParseTargets(targets, p) ==
    IF Peek(p)[1] = "var" THEN ParseTargets(Append(targets, Peek(p)), Next1(p))
    ELSE IF Peek(p)[1] \in {"iri", "rel", "pn"} THEN Then(ParseIri(p), LAMBDA g, q : ParseTargets(Append(targets, g), q))
    ELSE IF targets = <<>> THEN Fail(p) ELSE Done(targets, p)

\* The head of a query: template is <<>> or <<the triples>>; short says that
\* the pattern is the template.
Head0 == [kind |-> "select", sel |-> NoSelection, distinct |-> FALSE, star |-> FALSE,
          template |-> <<>>, short |-> FALSE, targets |-> <<>>]

ParseSelectHead(p) ==
    LET head == [Head0 EXCEPT !.distinct = At(p, "DISTINCT")]
        start == After(p, "DISTINCT")
    IN  IF At(start, "*") THEN Done([head EXCEPT !.star = TRUE], Next1(start))
        ELSE Then(ParseColumns(NoSelection, TRUE, start), LAMBDA sel, q :
                Done([head EXCEPT !.sel = sel, !.star = sel.vars = <<>> /\ At(q, "WHERE")], q))

ParseShortConstruct(head, p) ==
    LET q == After(p, "WHERE")
    IN  IF At(p, "WHERE") /\ At(q, "{")
        THEN Then(ParseTemplate(<<>>, Next1(q)), LAMBDA t, r : Done([head EXCEPT !.template = t, !.short = TRUE], r))
        ELSE Done(head, q)

ParseHead(p) ==
    LET up == Next1(p)
        construct == [Head0 EXCEPT !.kind = "construct"]
        describe == [Head0 EXCEPT !.kind = "describe"]
    IN  CASE At(p, "ASK") -> Done([Head0 EXCEPT !.kind = "ask"], up)
          [] At(p, "CONSTRUCT") /\ At(up, "{") ->
                Then(ParseTemplate(<<>>, Next1(up)), LAMBDA t, q : Done([construct EXCEPT !.template = t], q))
          [] At(p, "CONSTRUCT") -> ParseShortConstruct(construct, up)
          [] At(p, "DESCRIBE") /\ At(up, "*") -> Done([describe EXCEPT !.star = TRUE], Next1(up))
          [] At(p, "DESCRIBE") -> Then(ParseTargets(<<>>, up), LAMBDA t, q : Done([describe EXCEPT !.targets = t], q))
          [] OTHER -> ParseSelectHead(After(p, "SELECT"))

\* Mutant: both sides of a join are searched.
RECURSIVE ApplySubjectHint(_, _)
ApplySubjectHintBoth(q, node) ==
    LET free == IF q.op = "bgp" THEN {i \in DOMAIN q.patterns : q.patterns[i][1][1] = "var"} ELSE {}
        first == CHOOSE i \in free : \A j \in free : i <= j
        left == ApplySubjectHint(q.l, node)
        right == ApplySubjectHint(q.r, node)
    IN  CASE free # {} -> <<TRUE, [q EXCEPT !.patterns[first][1] = <<"node", node>>]>>
          [] q.op \in {"join", "leftjoin", "union"} -> <<left[1] \/ right[1], [q EXCEPT !.l = left[2], !.r = right[2]]>>
          [] OTHER -> <<FALSE, q>>
\* The first subject variable of the first triples or path becomes the node:
\* <<whether there was one, the pattern>>.
ApplySubjectHint(q, node) ==
    LET free == IF q.op = "bgp" THEN {i \in DOMAIN q.patterns : q.patterns[i][1][1] = "var"} ELSE {}
        first == CHOOSE i \in free : \A j \in free : i <= j
        left == ApplySubjectHint(q.l, node)
        right == ApplySubjectHint(q.r, node)
        inner == ApplySubjectHint(q.in, node)
    IN  CASE free # {} -> <<TRUE, [q EXCEPT !.patterns[first][1] = <<"node", node>>]>>
          [] q.op \in {"join", "leftjoin", "union"} ->
                IF left[1] THEN <<TRUE, [q EXCEPT !.l = left[2]]>> ELSE <<right[1], [q EXCEPT !.r = right[2]]>>
          [] q.op \in {"filter", "extend", "distinct", "project", "orderby", "slice", "aggregate", "graph"} ->
                <<inner[1], [q EXCEPT !.in = inner[2]]>>
          [] q.op = "path" -> <<q.s[1] = "var", IF q.s[1] = "var" THEN [q EXCEPT !.s = <<"node", node>>] ELSE q>>
          [] OTHER -> <<FALSE, q>>

Everything(s) == Bgp(<<<<s, <<"var", "p">>, <<"var", "o">>>>>>)

ParseBody(head, p) ==
    LET subject == IF p.hint = <<>> THEN <<"var", "s">> ELSE <<"node", p.hint[1]>>
        body == CASE head.short -> Done(Bgp(head.template), p)
                  [] At(p, "{") -> ParseGroupGraphPattern(p)
                  [] head.kind = "describe" -> Done(Identity, p)
                  [] OTHER -> Done(Everything(subject), p)
    IN  Then(body, LAMBDA q, r : Done(IF p.hint = <<>> THEN q ELSE ApplySubjectHint(q, p.hint[1])[2], r))

\* From the inside out: groups, order, DISTINCT, projection, slice; a trailing
\* VALUES joins what is left of them.
ParseModifiers(head, groups, body, p) ==
    Then(ParseHaving(<<>>, head.sel.specs, TRUE, FALSE, p), LAMBDA h, q :
        IF Misgrouped(head.sel, h[2], groups) THEN Fail(q)
        ELSE Then(ParseOrderBy(Grouped(body, groups, h[2], h[1]), q), LAMBDA ordered, r :
             Then(ParseSliceBounds(r), LAMBDA bounds, s :
             LET rows == DistinctRows(head.distinct, ordered)
                 projected == IF head.kind = "select" /\ ~head.star
                              THEN [op |-> "project", vars |-> ToSet(head.sel.vars), in |-> rows] ELSE rows
                 sliced == Sliced(projected, bounds)
             IN  IF head.kind # "describe" /\ At(s, "VALUES")
                 THEN Then(ParseValues(Next1(s)), LAMBDA v, t : Done(JoinOf(sliced, v), t))
                 ELSE Done(sliced, s))))

ParseWhole(head, p) ==
    Then(ParseDatasetClauses("FROM", <<>>, <<>>, p), LAMBDA dataset, q :
    Then(IF head.kind = "construct" /\ head.template = <<>> /\ ~head.short THEN ParseShortConstruct(head, q) ELSE Done(head, q),
         LAMBDA h, r :
    Then(ParseBody(h, [(IF h.short THEN r ELSE After(r, "WHERE")) EXCEPT !.outer = Computed(h.sel)]), LAMBDA body, s :
        IF (h.kind = "describe" /\ AtAny(s, {"GROUP", "HAVING"})) \/ (h.star /\ At(s, "GROUP")) THEN Fail(s)
        ELSE Then(ParseGroupBy(body, s), LAMBDA grouped, t :
             Then(ParseModifiers(h, grouped[1], grouped[2], t), LAMBDA algebra, u :
                IF u.toks # <<>> THEN Fail(u)
                ELSE Done([kind |-> h.kind, algebra |-> algebra, from |-> dataset[1], fromNamed |-> dataset[2],
                           template |-> h.template, columns |-> h.sel.exprs, targets |-> h.targets], u))))))

(* --------------------------------- updates ------------------------------- *)

UpdateKeywords == {"INSERT", "DELETE", "WITH", "LOAD", "CLEAR", "DROP", "ADD", "COPY", "MOVE", "CREATE"}

InGraph(g, triples) == [i \in DOMAIN triples |-> [graph |-> g, triple |-> triples[i]]]
HasLabel(t) == t[1][1] = "label" \/ t[3][1] = "label"
HasVariable(t) == \E i \in 1..3 : t[i][1] = "var"

\* Triples and GRAPH blocks; one block inside another is refused.
RECURSIVE ParseUpdateBlock(_, _, _)
ParseUpdateBlock(bnodes, patterns, p) ==
    Then(TryParseTriplePattern(p), LAMBDA t, u :
        CASE At(p, "GRAPH") /\ Peek(Next1(p))[1] \in {"iri", "rel", "pn"} ->
                Then(ParseIri(Next1(p)), LAMBDA g, q : Expect(q, "{", LAMBDA r :
                Then(ParseUpdateBlock(bnodes, <<>>, r), LAMBDA inner, s :
                    IF \E i \in DOMAIN inner : inner[i].graph # <<>> THEN Fail(s)
                    ELSE ParseUpdateBlock(bnodes, patterns \o InGraph(<<g>>, [i \in DOMAIN inner |-> inner[i].triple]), After(s, ".")))))
          [] ~At(p, "}") /\ t # <<>> ->
                Then(ParseSemicolonChain(t, u), LAMBDA chain, q :
                    IF ~bnodes /\ \E i \in DOMAIN chain : HasLabel(chain[i]) THEN Fail(q)
                    ELSE Then(DrainTemplatePatterns(q), LAMBDA said, r :
                            ParseUpdateBlock(bnodes, patterns \o InGraph(<<>>, chain \o said), After(r, "."))))
          [] OTHER -> Expect(u, "}", LAMBDA q : Done(patterns, q)))

ParseTemplateBlock(bnodes, p) == Expect(p, "{", LAMBDA q : ParseUpdateBlock(bnodes, <<>>, q))

\* DATA is concrete, and without blank nodes where it deletes.
ParseDataBlock(bnodes, p) ==
    Then(ParseTemplateBlock(TRUE, p), LAMBDA patterns, q :
        IF \E i \in DOMAIN patterns : HasVariable(patterns[i].triple) \/ (~bnodes /\ HasLabel(patterns[i].triple))
        THEN Fail(q) ELSE Done(patterns, q))

\* USING ... WHERE { ... }
ParseModify(graph, delete, insert, p) ==
    Then(ParseDatasetClauses("USING", <<>>, <<>>, p), LAMBDA dataset, q : Expect(q, "WHERE", LAMBDA r :
        Then(ParseGroupGraphPattern(r), LAMBDA where, s :
            Done([op |-> "modify", graph |-> graph, using |-> dataset[1], usingNamed |-> dataset[2],
                  delete |-> delete, insert |-> insert, where |-> where], s))))

\* DELETE WHERE { ... }, or one or both of DELETE { ... } and INSERT { ... }.
ParseChange(graph, p) ==
    LET up == Next1(p)
    IN  CASE At(p, "DELETE") /\ At(up, "WHERE") ->
                Then(ParseTemplateBlock(FALSE, Next1(up)), LAMBDA patterns, q :
                    Done([op |-> "deletewhere", graph |-> graph, patterns |-> patterns], q))
          [] AtAny(p, {"DELETE", "INSERT"}) ->
                Then(IF At(p, "DELETE") THEN ParseTemplateBlock(FALSE, up) ELSE Done(<<>>, p), LAMBDA delete, q :
                Then(IF At(q, "INSERT") THEN ParseTemplateBlock(TRUE, Next1(q)) ELSE Done(<<>>, q), LAMBDA insert, r :
                    ParseModify(graph, delete, insert, r)))
          [] OTHER -> Fail(p)

ParseGraphRef(p) ==
    IF At(p, "DEFAULT") THEN Done(<<>>, Next1(p)) ELSE Then(ParseIri(After(p, "GRAPH")), LAMBDA g, q : Done(<<g>>, q))

ParseGraphTarget(p) ==
    CASE AtAny(p, {"DEFAULT", "NAMED", "ALL"}) -> Done(<<Peek(p)[2]>>, Next1(p))
      [] At(p, "GRAPH") -> Then(ParseIri(Next1(p)), LAMBDA g, q : Done(<<"GRAPH", g>>, q))
      [] OTHER -> Fail(p)

ParseSingleUpdateOp(p) ==
    LET up == Next1(p)
        silent == At(up, "SILENT")
        rest == After(up, "SILENT")
        op == Peek(p)[2]
    IN  CASE AtAny(p, {"INSERT", "DELETE"}) /\ At(up, "DATA") ->
                Then(ParseDataBlock(op = "INSERT", Next1(up)), LAMBDA d, q :
                    Done([op |-> IF op = "INSERT" THEN "insertdata" ELSE "deletedata", patterns |-> d], q))
          [] AtAny(p, {"INSERT", "DELETE", "WITH"}) ->
                Then(IF op = "WITH" THEN Then(ParseIri(up), LAMBDA g, q : Done(<<g>>, q)) ELSE Done(<<>>, p), ParseChange)
          [] AtAny(p, {"CLEAR", "DROP"}) ->
                Then(ParseGraphTarget(rest), LAMBDA target, q : Done([op |-> op, silent |-> silent, target |-> target], q))
          [] At(p, "LOAD") ->
                Then(ParseIri(rest), LAMBDA source, q :
                    IF ~At(q, "INTO") THEN Done([op |-> op, silent |-> silent, source |-> source, into |-> <<>>], q)
                    ELSE Expect(Next1(q), "GRAPH", LAMBDA r : Then(ParseIri(r), LAMBDA g, s :
                             Done([op |-> op, silent |-> silent, source |-> source, into |-> <<g>>], s))))
          [] AtAny(p, {"ADD", "COPY", "MOVE"}) ->
                Then(ParseGraphRef(rest), LAMBDA from, q : Expect(q, "TO", LAMBDA r : Then(ParseGraphRef(r), LAMBDA to, s :
                    Done([op |-> op, silent |-> silent, from |-> from, to |-> to], s))))
          [] At(p, "CREATE") ->
                Expect(rest, "GRAPH", LAMBDA q : Then(ParseIri(q), LAMBDA g, r :
                    Done([op |-> op, silent |-> silent, graph |-> g], r)))
          [] OTHER -> Fail(p)

DataOpBlankLabels(op) ==
    IF op.op \notin {"insertdata", "deletedata"} THEN {}
    ELSE {u \in UNION {{op.patterns[i].triple[1], op.patterns[i].triple[3]} : i \in DOMAIN op.patterns} : u[1] = "label"}

\* Labels of DATA are those of the request: no two operations share one.
\* Mutant: only the operation before is looked at.
RECURSIVE ParseUpdateOps(_, _, _)
ParseUpdateOpsPrevious(ops, seen, p) ==
    Then(ParseSingleUpdateOp(p), LAMBDA op, q :
        LET labels == DataOpBlankLabels(op)
            more == Next1(q)
        IN  CASE labels \cap seen # {} -> Fail(q)
              [] At(q, ";") /\ more.toks # <<>> /\ ~AtAny(more, UpdateKeywords) -> Fail(more)
              [] At(q, ";") /\ more.toks # <<>> -> ParseUpdateOps(Append(ops, op), labels, more)
              [] OTHER -> IF After(q, ";").toks # <<>> THEN Fail(q) ELSE Done(Append(ops, op), q))
ParseUpdateOps(ops, seen, p) ==
    Then(ParseSingleUpdateOp(p), LAMBDA op, q :
        LET labels == DataOpBlankLabels(op)
            more == Next1(q)
        IN  CASE labels \cap seen # {} -> Fail(q)
              [] At(q, ";") /\ more.toks # <<>> /\ ~AtAny(more, UpdateKeywords) -> Fail(more)
              [] At(q, ";") /\ more.toks # <<>> -> ParseUpdateOps(Append(ops, op), seen \cup labels, more)
              [] OTHER -> IF After(q, ";").toks # <<>> THEN Fail(q) ELSE Done(Append(ops, op), q))

PlanQuery(toks, hint) ==
    Then(ParsePrologue(Parser(toks, hint)), LAMBDA none, p :
        IF AtAny(p, UpdateKeywords)
        THEN Then(ParseUpdateOps(<<>>, {}, p), LAMBDA ops, q : Done([kind |-> "update", ops |-> ops], q))
        ELSE Then(ParseHead(p), ParseWhole))

PlanInit == request \in Sources /\ plan = <<>>

\* plan is <<the result>> once the text is read.
PlanRequest ==
    /\ plan = <<>>
    /\ plan' = <<PlanQuery(Written(request).toks, Written(request).hint)>>
    /\ UNCHANGED request

PlanSpec == PlanInit /\ [][PlanRequest]_<<request, plan>>
=============================================================================
