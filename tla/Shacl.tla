-------------------------------- MODULE Shacl --------------------------------
(***************************************************************************)
(* The SHACL validator (ontolith-reasoner, infrastructure/shacl.rs and     *)
(* domain/shacl.rs) and the gateway's handler that runs it over the        *)
(* default graph (ontolith-server, app.rs, validate_shacl).                *)
(*                                                                         *)
(* A triple is <<node, property, term>>; terms are <<"iri", n>>,           *)
(* <<"blank", n>> and <<"lit", l>> and are their own keys: what the parsers*)
(* produce reads back from a key with its kind, value and language.        *)
(* Names of the SHACL vocabulary drop their prefix.  A path, an atom of a  *)
(* pattern and a constraint are pairs of a kind and its argument.          *)
(* Messages are left out, and the order of results with them.              *)
(***************************************************************************)
LOCAL INSTANCE Integers
LOCAL INSTANCE Sequences
LOCAL INSTANCE SequencesExt
LOCAL INSTANCE FiniteSets

CONSTANTS
    LiteralInfo,    \* datatype, valid, order, text and lang of each literal
    IriText,        \* characters of each IRI
    LowerCase,      \* lower case of each character
    Digits, Letters, Spaces,   \* characters that a class of atoms matches
    MaxDepth,       \* nesting of shapes that is followed (32)
    Validations     \* requests: shapes and data as lists, limit

VARIABLES request, report
shaclVars == <<request, report>>

Info(t) == LiteralInfo[t[2]]
IsLit(t) == t[1] = "lit"

(* ------------------------------ shapes graph ----------------------------- *)

\* What the shapes graph says of a node, in order.
Body(G, key) == SelectSeq(G, LAMBDA t : t[1] = key)
Said(G, key, p) == LET b == SelectSeq(G, LAMBDA t : t[1] = key /\ t[2] = p) IN [i \in DOMAIN b |-> b[i][3]]

RECURSIVE CollectFrom(_, _, _)
\* Mutant: a last cell without rdf:rest is dropped.
CollectFromTerminated(G, cell, seen) ==
    LET first == Said(G, cell, "first")
        rest == Said(G, cell, "rest")
    IN  IF cell \in seen \/ first = <<>> \/ rest = <<>> THEN <<>>
        ELSE <<first[1]>> \o CollectFrom(G, rest[1], seen \cup {cell})
CollectFrom(G, cell, seen) ==
    LET first == Said(G, cell, "first")
        rest == Said(G, cell, "rest")
    IN  IF cell \in seen \/ first = <<>> THEN <<>>
        ELSE <<first[1]>> \o (IF rest = <<>> THEN <<>> ELSE CollectFrom(G, rest[1], seen \cup {cell}))
CollectList(G, start) == CollectFrom(G, start, {})

PathKinds == {"inversePath", "alternativePath", "zeroOrMorePath", "oneOrMorePath", "zeroOrOnePath"}
AllParsed(paths) ==
    IF \E i \in DOMAIN paths : paths[i] = <<>> THEN <<>> ELSE <<[i \in DOMAIN paths |-> paths[i][1]]>>

\* <<path>>, or <<>> for what is no path: a list comes before the path
\* properties, and a path that is met inside itself is none.
RECURSIVE ParsePath(_, _, _)
ParsePath(G, t, visiting) ==
    LET inner(u) == ParsePath(G, u, visiting \cup {t})
        all(list) == AllParsed([i \in DOMAIN list |-> inner(list[i])])
        kinds == SelectSeq(Body(G, t), LAMBDA b : b[2] \in PathKinds)
        tagged(kind, parsed) == IF parsed = <<>> THEN <<>> ELSE <<<<kind, parsed[1]>>>>
    IN  IF t[1] = "iri" THEN <<<<"pred", t[2]>>>>
        ELSE IF IsLit(t) \/ t \in visiting THEN <<>>
        ELSE IF Said(G, t, "first") # <<>> THEN tagged("seq", all(CollectList(G, t)))
        ELSE IF kinds = <<>> THEN <<>>
        ELSE IF kinds[1][2] = "alternativePath" THEN tagged(kinds[1][2], all(CollectList(G, kinds[1][3])))
        ELSE tagged(kinds[1][2], inner(kinds[1][3]))

RECURSIVE PathPredicates(_)
PathPredicates(path) ==
    IF path[1] = "pred" THEN {path[2]}
    ELSE IF path[1] \in {"seq", "alternativePath"} THEN UNION {PathPredicates(path[2][i]) : i \in DOMAIN path[2]}
    ELSE PathPredicates(path[2])

IsCount(t) == IsLit(t) /\ Info(t).datatype = "integer" /\ Info(t).order >= 0
IsTrue(t) == IsLit(t) /\ Info(t).datatype = "boolean" /\ Info(t).order = 1

\* Parameters by what their object has to be: an IRI, a count, any term, a
\* shape, a list, "true" or a string.
IriParameters == {"class", "datatype", "equals", "disjoint", "lessThan", "lessThanOrEquals"}
CountParameters == {"minCount", "maxCount", "minLength", "maxLength"}
TermParameters == {"minInclusive", "maxInclusive", "minExclusive", "maxExclusive", "hasValue", "node", "not"}
ListParameters == {"in", "languageIn", "and", "or", "xone"}
FlagParameters == {"uniqueLang", "closed"}
TextParameters == {"pattern", "flags"}
NodeKinds == {"IRI", "BlankNode", "Literal", "BlankNodeOrIRI", "IRIOrLiteral", "BlankNodeOrLiteral"}

\* The constraint one statement of a shape's body declares; a statement whose
\* object is not what it has to be declares none.
Declared(G, p, o) ==
    LET members == CollectList(G, o)
        listed == IF p = "languageIn" THEN SelectSeq(members, IsLit) ELSE members
    IN  CASE p \in IriParameters /\ o[1] = "iri" -> <<<<p, o[2]>>>>
          [] p \in CountParameters /\ IsCount(o) -> <<<<p, Info(o).order>>>>
          [] p \in TermParameters -> <<<<p, o>>>>
          [] p \in ListParameters /\ listed # <<>> -> <<<<p, listed>>>>
          [] p \in FlagParameters /\ IsTrue(o) -> <<<<p, TRUE>>>>
          [] p \in TextParameters /\ IsLit(o) -> <<<<p, Info(o).text>>>>
          [] p = "nodeKind" /\ o[1] = "iri" /\ o[2] \in NodeKinds -> <<<<p, o[2]>>>>
          [] OTHER -> <<>>

\* The parameters that only a property shape reads.
Qualified(p, o) ==
    CASE p = "qualifiedValueShape" -> <<<<p, o>>>>
      [] p \in {"qualifiedMinCount", "qualifiedMaxCount"} /\ IsCount(o) -> <<<<p, Info(o).order>>>>
      [] p = "qualifiedValueShapesDisjoint" /\ IsTrue(o) -> <<<<p, TRUE>>>>
      [] OTHER -> <<>>

ParseBody(body, Of(_, _)) == FlattenSeq([i \in DOMAIN body |-> Of(body[i][2], body[i][3])])

\* The last IRI given as severity, a violation without one.
SeverityOf(G, key) ==
    LET given == SelectSeq(Said(G, key, "severity"), LAMBDA t : t[1] = "iri")
    IN  IF given = <<>> THEN "Violation" ELSE given[Len(given)][2]

FirstPath(G, key) ==
    LET given == Said(G, key, "path") IN IF given = <<>> THEN <<>> ELSE ParsePath(G, given[1], {})

\* A property shape and those nested in it; a path that is none has no values.
RECURSIVE ParsePropertyShape(_, _)
ParsePropertyShape(G, key) ==
    LET body == Body(G, key)
        path == FirstPath(G, key)
        nested == Said(G, key, "property")
    IN  [id |-> key,
         path |-> IF path = <<>> THEN <<"pred", "">> ELSE path[1],
         constraints |-> ParseBody(body, LAMBDA p, o : Declared(G, p, o)) \o ParseBody(body, Qualified),
         properties |-> [i \in DOMAIN nested |-> ParsePropertyShape(G, nested[i])],
         severity |-> SeverityOf(G, key)]

TargetsOf(id, p, o) ==
    CASE p \in {"targetClass", "targetSubjectsOf", "targetObjectsOf"} /\ o[1] = "iri" -> <<<<p, o>>>>
      [] p = "targetNode" -> <<<<p, o>>>>
      [] p = "type" /\ o \in {<<"iri", "RdfsClass">>, <<"iri", "Class">>} -> <<<<"targetClass", id>>>>
      [] OTHER -> <<>>

NotShacl == {"type", "first", "rest", "subClassOf"}
ParseShape(G, id) ==
    LET body == Body(G, id)
        properties == Said(G, id, "property")
        ignored == Said(G, id, "ignoredProperties")
    IN  [id |-> id, path |-> FirstPath(G, id),
         targets |-> ParseBody(body, LAMBDA p, o : TargetsOf(id, p, o)),
         constraints |-> ParseBody(body, LAMBDA p, o : Declared(G, p, o)),
         properties |-> [i \in DOMAIN properties |-> ParsePropertyShape(G, properties[i])],
         ignored |-> IF ignored = <<>> THEN {}
                     ELSE {t[2] : t \in {u \in ToSet(CollectList(G, ignored[Len(ignored)])) : u[1] = "iri"}},
         deactivated |-> \E i \in DOMAIN body : body[i][2] = "deactivated" /\ IsTrue(body[i][3]),
         severity |-> SeverityOf(G, id)]

\* Every node with a statement of the SHACL vocabulary is a shape.
ParseShapes(G) ==
    {ParseShape(G, id) : id \in {t[1] : t \in {u \in ToSet(G) : u[2] \notin NotShacl}}}

(* ------------------------------- data graph ------------------------------ *)

RECURSIVE SubclassesFrom(_, _, _)
\* Mutant: only the direct subclasses are looked at.
SubclassesOnce(D, frontier, seen) ==
    frontier \cup {t[1] : t \in {u \in D : u[2] = "subClassOf" /\ u[3] \in frontier}}
SubclassesFrom(D, frontier, seen) ==
    IF frontier = {} THEN seen
    ELSE LET below == {t[1] : t \in {u \in D : u[2] = "subClassOf" /\ u[3] \in frontier}}
         IN  SubclassesFrom(D, below \ (seen \cup frontier), seen \cup frontier)

IsInstanceOf(D, node, class) == \E c \in SubclassesFrom(D, {class}, {}) : <<node, "type", c>> \in D

SelectTargets(D, shape) ==
    UNION {CASE t[1] = "targetNode" -> {t[2]}
             [] t[1] = "targetClass" -> {x \in {u[1] : u \in D} : IsInstanceOf(D, x, t[2])}
             [] t[1] = "targetSubjectsOf" -> {u[1] : u \in {v \in D : v[2] = t[2][2]}}
             [] t[1] = "targetObjectsOf" -> {u[3] : u \in {v \in D : v[2] = t[2][2]}}
           : t \in ToSet(shape.targets)}

\* The nodes a path leads to; inverse turns every step around, and with it
\* the order of a sequence.
RECURSIVE EvalPath(_, _, _, _), Closure(_, _, _, _, _)
EvalPath(D, path, frontier, inverse) ==
    LET arg == path[2]
        step(p, from) == EvalPath(D, p, from, inverse)
    IN  CASE path[1] = "pred" -> IF inverse THEN {t[1] : t \in {u \in D : u[2] = arg /\ u[3] \in frontier}}
                                 ELSE {t[3] : t \in {u \in D : u[2] = arg /\ u[1] \in frontier}}
          [] path[1] = "inversePath" -> EvalPath(D, arg, frontier, ~inverse)
          [] path[1] = "seq" -> FoldLeft(LAMBDA from, p : step(p, from), frontier,
                                         IF inverse THEN Reverse(arg) ELSE arg)
          [] path[1] = "alternativePath" -> UNION {step(arg[i], frontier) : i \in DOMAIN arg}
          [] path[1] = "zeroOrMorePath" -> frontier \cup Closure(D, arg, frontier, inverse, {})
          [] path[1] = "oneOrMorePath" -> Closure(D, arg, frontier, inverse, {})
          [] path[1] = "zeroOrOnePath" -> frontier \cup step(arg, frontier)

\* Mutant: the nodes a closure starts from count as reached.
ClosureReflexive(D, path, queue, inverse, expanded) ==
    IF queue = {} THEN {}
    ELSE LET next == EvalPath(D, path, queue, inverse)
             done == expanded \cup queue
         IN  queue \cup next \cup Closure(D, path, next \ done, inverse, done)

\* What is reached in one step or more, each node expanded once.
Closure(D, path, queue, inverse, expanded) ==
    IF queue = {} THEN {}
    ELSE LET next == EvalPath(D, path, queue, inverse)
             done == expanded \cup queue
         IN  next \cup Closure(D, path, next \ done, inverse, done)

PathValues(D, focus, path) == EvalPath(D, path, {focus}, FALSE)

\* "lt", "eq", "gt" or "none": within one kind of value that has an order.
CompareTerms(a, b) ==
    IF ~IsLit(a) \/ ~IsLit(b) THEN "none"
    ELSE IF Info(a).family # Info(b).family \/ Info(a).family = "none" THEN "none"
    ELSE IF Info(a).order < Info(b).order THEN "lt"
    ELSE IF Info(a).order = Info(b).order THEN "eq" ELSE "gt"

(* -------------------------------- patterns ------------------------------- *)

AtomMatches(atom, c) ==
    CASE atom[1] = "literal" -> c = atom[2]
      [] atom[1] = "any" -> TRUE
      [] atom[1] = "digit" -> c \in Digits
      [] atom[1] = "word" -> c \in Digits \cup Letters
      [] atom[1] = "space" -> c \in Spaces
      [] atom[1] = "nonDigit" -> c \notin Digits
      [] atom[1] = "nonWord" -> c \notin Digits \cup Letters
      [] atom[1] = "nonSpace" -> c \notin Spaces
      [] atom[1] = "class" -> c \in atom[2]
      [] atom[1] = "notClass" -> c \notin atom[2]

Accepts(atom, text, ci) == ci <= Len(text) /\ AtomMatches(atom, text[ci])

\* A token is <<atom, least, most>>, most = -1 without a bound; the least
\* number is consumed first, then one more at a time is tried.
RECURSIVE MatchAt(_, _, _, _, _), AtLeastRest(_, _, _, _, _, _)
MatchAt(tokens, ti, text, ci, anchoredEnd) ==
    IF ti > Len(tokens) THEN ~anchoredEnd \/ ci = Len(text) + 1
    ELSE LET atom == tokens[ti][1]
             least == tokens[ti][2]
         IN  /\ \A k \in 0..(least - 1) : Accepts(atom, text, ci + k)
             /\ AtLeastRest(tokens, ti, text, ci + least, anchoredEnd,
                            IF tokens[ti][3] = -1 THEN -1 ELSE tokens[ti][3] - least)
\* Mutant: as much as possible is consumed, without giving any back.
AtLeastRestPossessive(tokens, ti, text, ci, anchoredEnd, remaining) ==
    IF remaining # 0 /\ Accepts(tokens[ti][1], text, ci)
    THEN AtLeastRest(tokens, ti, text, ci + 1, anchoredEnd, IF remaining = -1 THEN -1 ELSE remaining - 1)
    ELSE MatchAt(tokens, ti + 1, text, ci, anchoredEnd)
AtLeastRest(tokens, ti, text, ci, anchoredEnd, remaining) ==
    \/ MatchAt(tokens, ti + 1, text, ci, anchoredEnd)
    \/ /\ remaining # 0 /\ Accepts(tokens[ti][1], text, ci)
       /\ AtLeastRest(tokens, ti, text, ci + 1, anchoredEnd, IF remaining = -1 THEN -1 ELSE remaining - 1)

\* The parsed pattern is a record of tokens and whether each end is anchored.
PatternMatches(pattern, text) ==
    \E start \in IF pattern.start THEN {1} ELSE 1..(Len(text) + 1) :
        MatchAt(pattern.tokens, 1, text, start, pattern.end)

\* Ignoring case lowers the pattern before it is parsed: \D reads as \d.
LowerAtom(atom) ==
    CASE atom[1] = "literal" -> <<"literal", LowerCase[atom[2]]>>
      [] atom[1] \in {"class", "notClass"} -> <<atom[1], {LowerCase[c] : c \in atom[2]}>>
      [] atom[1] = "nonDigit" -> <<"digit", {}>>
      [] atom[1] = "nonWord" -> <<"word", {}>>
      [] atom[1] = "nonSpace" -> <<"space", {}>>
      [] OTHER -> atom
LowerText(text) == [i \in DOMAIN text |-> LowerCase[text[i]]]
PatternMatchesFlags(pattern, text, flags) ==
    IF "i" \in ToSet(flags)
    THEN PatternMatches([pattern EXCEPT !.tokens = [i \in DOMAIN @ |-> [@[i] EXCEPT ![1] = LowerAtom(@)]]],
                        LowerText(text))
    ELSE PatternMatches(pattern, text)

(* ------------------------------- constraints ----------------------------- *)

\* str() of a term; a blank node has none.
TextOf(v) == IF v[1] = "iri" THEN IriText[v[2]] ELSE Info(v).text
ShapeOf(S, key) == {s \in S : s.id = key}
ArgumentOf(constraints, kind) ==
    LET given == SelectSeq(constraints, LAMBDA c : c[1] = kind) IN IF given = <<>> THEN <<>> ELSE <<given[1][2]>>

KindsOf(kind) ==
    CASE kind = "IRI" -> {"iri"} [] kind = "BlankNode" -> {"blank"} [] kind = "Literal" -> {"lit"}
      [] kind = "BlankNodeOrIRI" -> {"iri", "blank"} [] kind = "IRIOrLiteral" -> {"iri", "lit"}
      [] kind = "BlankNodeOrLiteral" -> {"blank", "lit"}

\* The range is the tag or a prefix of its subtags.
InLanguages(v, ranges) ==
    /\ IsLit(v) /\ Info(v).lang # <<>>
    /\ \E i \in DOMAIN ranges : IsPrefix(Info(ranges[i]).text, Info(v).lang)

\* Mutant: the siblings are not excluded.
QualifiedContextAlone(ps, place) ==
    LET wanted == ArgumentOf(ps.constraints, "qualifiedValueShape")
    IN  IF place = <<>> \/ wanted = <<>> THEN <<>> ELSE <<wanted[1], {}>>

\* <<shape, excluded shapes>> of a property shape with a qualified value shape, with
\* sh:qualifiedValueShapesDisjoint those of its siblings.  Its place is the list of the shape that owns it and
\* the position there; nested in a property shape it is in no shape's list and has none (std::ptr::eq).
QualifiedContext(ps, place) ==
    LET wanted == ArgumentOf(ps.constraints, "qualifiedValueShape")
        list == place[1]
        siblings == UNION {ToSet(ArgumentOf(list[j].constraints, "qualifiedValueShape")) : j \in DOMAIN list \ {place[2]}}
        disjoint == ArgumentOf(ps.constraints, "qualifiedValueShapesDisjoint") # <<>>
    IN  IF place = <<>> \/ wanted = <<>> THEN <<>>
        ELSE <<wanted[1], IF disjoint THEN siblings ELSE {}>>

\* The offending values of constraint c as <<v>>, <<>> for a result without a
\* value; constraints give the flags of a pattern, context what values qualify.
RECURSIVE Offending(_, _, _, _, _, _, _, _), Conforms(_, _, _, _, _)
Offending(D, S, focus, values, c, constraints, context, depth) ==
    LET arg == c[2]
        Each(Bad(_)) == {<<v>> : v \in {w \in values : Bad(w)}}
        Once(bad) == IF bad THEN {<<>>} ELSE {}
        Meets(v, k) == Conforms(D, S, k, v, depth)
        other == PathValues(D, focus, <<"pred", arg>>)
        flags == LET f == ArgumentOf(constraints, "flags") IN IF f = <<>> THEN <<>> ELSE f[1]
        conforming(v) == {i \in DOMAIN arg : Meets(v, arg[i])}
        qualifying == {v \in values : /\ Meets(v, context[1])
                                      /\ \A k \in context[2] : ~Meets(v, k)}
        qualified == context # <<>>
    IN  CASE c[1] = "class" -> Each(LAMBDA v : ~IsInstanceOf(D, v, <<"iri", arg>>))
          [] c[1] = "datatype" -> Each(LAMBDA v : ~(IsLit(v) /\ Info(v).datatype = arg /\ Info(v).valid))
          [] c[1] = "nodeKind" -> Each(LAMBDA v : v[1] \notin KindsOf(arg))
          [] c[1] = "minLength" -> Each(LAMBDA v : v[1] = "blank" \/ Len(TextOf(v)) < arg)
          [] c[1] = "maxLength" -> Each(LAMBDA v : v[1] = "blank" \/ Len(TextOf(v)) > arg)
          [] c[1] = "pattern" -> Each(LAMBDA v : v[1] = "blank" \/ ~PatternMatchesFlags(arg, TextOf(v), flags))
          [] c[1] = "minInclusive" -> Each(LAMBDA v : CompareTerms(v, arg) \notin {"gt", "eq"})
          [] c[1] = "maxInclusive" -> Each(LAMBDA v : CompareTerms(v, arg) \notin {"lt", "eq"})
          [] c[1] = "minExclusive" -> Each(LAMBDA v : CompareTerms(v, arg) # "gt")
          [] c[1] = "maxExclusive" -> Each(LAMBDA v : CompareTerms(v, arg) # "lt")
          [] c[1] = "equals" -> {<<v>> : v \in (values \ other) \cup (other \ values)}
          [] c[1] = "disjoint" -> {<<v>> : v \in values \cap other}
          [] c[1] = "lessThan" -> Each(LAMBDA v : \E u \in other : CompareTerms(v, u) # "lt")
          [] c[1] = "lessThanOrEquals" -> Each(LAMBDA v : \E u \in other : CompareTerms(v, u) \notin {"lt", "eq"})
          [] c[1] = "in" -> Each(LAMBDA v : v \notin ToSet(arg))
          [] c[1] = "hasValue" -> Once(arg \notin values)
          [] c[1] = "languageIn" -> Each(LAMBDA v : ~InLanguages(v, arg))
          [] c[1] = "uniqueLang" -> Once(\E v, w \in values : /\ v # w /\ IsLit(v) /\ IsLit(w)
                                                             /\ Info(v).lang # <<>> /\ Info(v).lang = Info(w).lang)
          [] c[1] = "node" -> Each(LAMBDA v : ~Meets(v, arg))
          [] c[1] = "not" -> Each(LAMBDA v : Meets(v, arg))
          [] c[1] = "and" -> Each(LAMBDA v : conforming(v) # DOMAIN arg)
          [] c[1] = "or" -> Each(LAMBDA v : conforming(v) = {})
          [] c[1] = "xone" -> Each(LAMBDA v : Cardinality(conforming(v)) # 1)
          [] c[1] = "qualifiedMinCount" -> Once(qualified /\ Cardinality(qualifying) < arg)
          [] c[1] = "qualifiedMaxCount" -> Once(qualified /\ Cardinality(qualifying) > arg)
          [] c[1] = "minCount" -> Once(Cardinality(values) < arg)
          [] c[1] = "maxCount" -> Once(Cardinality(values) > arg)
          [] OTHER -> {}

\* sh:closed looks at the statements about the focus node.
NotAllowed(D, S, focus, key) ==
    LET allowed == UNION {UNION {PathPredicates(q.path) : q \in ToSet(s.properties)} \cup s.ignored : s \in ShapeOf(S, key)}
    IN  {t \in D : t[1] = focus /\ t[2] \notin allowed}

\* The results of the constraints of a shape or property shape at one focus.
CheckValues(D, S, focus, path, values, shape, context, depth) ==
    UNION {LET c == shape.constraints[i]
               result(p, v) == [focus |-> focus, path |-> p, value |-> v, shape |-> shape.id,
                                component |-> c[1], severity |-> shape.severity]
           IN  IF c[1] = "closed"
               THEN {result(<<<<"pred", t[2]>>>>, <<t[3]>>) : t \in NotAllowed(D, S, focus, shape.id)}
               ELSE {result(path, v) : v \in Offending(D, S, focus, values, c, shape.constraints, context, depth)}
           : i \in DOMAIN shape.constraints}

RECURSIVE EvaluateProperty(_, _, _, _, _, _)
EvaluateProperty(D, S, ps, place, focus, depth) ==
    LET values == PathValues(D, focus, ps.path)
    IN  IF depth > MaxDepth THEN {}
        ELSE CheckValues(D, S, focus, <<ps.path>>, values, ps, QualifiedContext(ps, place), depth)
             \cup UNION {EvaluateProperty(D, S, q, <<>>, v, depth) : q \in ToSet(ps.properties), v \in values}

\* A shape that is not there, is deactivated or lies too deep has no results.
EvaluateShape(D, S, key, focus, depth) ==
    UNION {LET values == IF shape.path = <<>> THEN {focus} ELSE PathValues(D, focus, shape.path[1])
           IN  CheckValues(D, S, focus, shape.path, values, shape, <<>>, depth)
               \cup UNION {EvaluateProperty(D, S, shape.properties[i], <<shape.properties, i>>, v, depth) :
                            i \in DOMAIN shape.properties, v \in values}
           : shape \in {s \in ShapeOf(S, key) : ~s.deactivated /\ depth <= MaxDepth}}

\* Mutant: what lies too deep does not conform.
ConformsWithin(D, S, key, focus, depth) ==
    /\ depth < MaxDepth
    /\ \A r \in EvaluateShape(D, S, key, focus, depth + 1) : r.severity # "Violation"

\* No result is a violation: a warning inside a shape does not count.
Conforms(D, S, key, focus, depth) ==
    \/ depth > MaxDepth
    \/ \A r \in EvaluateShape(D, S, key, focus, depth + 1) : r.severity # "Violation"

Results(S, D) ==
    UNION {EvaluateShape(D, S, s.id, focus, 0) : <<s, focus>> \in
              UNION {{s} \X SelectTargets(D, s) : s \in S}}

(* -------------------------------- requests ------------------------------- *)

ShaclInit == request \in Validations /\ report = <<>>

\* The first limit triples of the default graph are validated.
Sampled(r) == ToSet(SubSeq(r.data, 1, IF r.limit < Len(r.data) THEN r.limit ELSE Len(r.data)))
Validate ==
    /\ report = <<>>
    /\ LET results == Results(ParseShapes(request.shapes), Sampled(request))
       IN  report' = <<[conforms |-> results = {}, results |-> results]>>
    /\ UNCHANGED request

ShaclNext == Validate
=============================================================================
