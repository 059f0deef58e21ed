---------------------------- MODULE SparqlValues ----------------------------
(***************************************************************************)
(* The values a SPARQL solution binds and the operators of the executor on *)
(* them: equality, order, arithmetic and the accumulators of the           *)
(* aggregates (ontolith-query, infrastructure/execute.rs).                 *)
(*                                                                         *)
(* A value is <<kind, x>>.  The executor binds one RDF term in up to two   *)
(* ways: a resource is <<"node", id>> where it was met as a subject and    *)
(* <<"iri", id>> or <<"blank", id>> where it was met as an object.  A      *)
(* literal is <<"lit", <<type, value, tag>>>>; numbers count tenths,       *)
(* strings and tags are numbered in their lexical order.                   *)
(***************************************************************************)
LOCAL INSTANCE Integers
LOCAL INSTANCE Sequences
LOCAL INSTANCE SequencesExt

\* The four numeric types, in the order of their promotion rank.
NumericTypes == <<"integer", "decimal", "float", "double">>

NodeKinds == {"node", "blank"}

Error == <<"error">>
Literal(type, value) == <<"lit", <<type, value, 0>>>>
Truth(b) == Literal("boolean", b)

IsLiteral(v) == v[1] = "lit"
TypeOf(v) == v[2][1]
NumberOf(v) == v[2][2]
IsNumeric(v) == IsLiteral(v) /\ \E r \in 1..4 : TypeOf(v) = NumericTypes[r]
RankOf(v) == CHOOSE r \in 1..4 : NumericTypes[r] = TypeOf(v)

(* -------------------------------- equality ------------------------------ *)

\* Two ways of binding the same blank node.
SameNode(a, b) == a[1] \in NodeKinds /\ b[1] \in NodeKinds /\ a[2] = b[2]

\* An IRI and the dictionary node of that IRI.
IriIsNode(a, b) ==
    \/ a[1] = "iri" /\ b[1] \in NodeKinds /\ a[2] = b[2]
    \/ b[1] = "iri" /\ a[1] \in NodeKinds /\ a[2] = b[2]

\* What a join asks of a shared variable.
Compatible(a, b) == a = b \/ SameNode(a, b) \/ IriIsNode(a, b)

\* Equality of literals: "T", "F" or, never for these types, an error.
LiteralEqual(x, y) ==
    LET numeric(l) == \E r \in 1..4 : NumericTypes[r] = l[1]
    IN  IF numeric(x) /\ numeric(y) THEN x[2] = y[2]
        ELSE x = y

\* The operator = of SPARQL, with the dictionary.
ValueEqual(a, b) ==
    IF IsLiteral(a) /\ IsLiteral(b) THEN LiteralEqual(a[2], b[2])
    ELSE ~IsLiteral(a) /\ ~IsLiteral(b) /\ Compatible(a, b)

(* --------------------------------- order -------------------------------- *)

Incomparable == 2
Sign(x, y) == IF x < y THEN -1 ELSE IF x > y THEN 1 ELSE 0

\* < of SPARQL: numbers by value, strings by text then language tag, IRIs by
\* text; everything else is an error.
CompareValues(a, b) ==
    LET text(v) == IsLiteral(v) /\ TypeOf(v) \in {"string", "lang"}
    IN  CASE IsNumeric(a) /\ IsNumeric(b) -> Sign(NumberOf(a), NumberOf(b))
          [] a[1] = "iri" /\ b[1] = "iri" -> Sign(a[2], b[2])
          [] text(a) /\ text(b) ->
                IF NumberOf(a) # NumberOf(b) THEN Sign(NumberOf(a), NumberOf(b))
                ELSE Sign(a[2][3], b[2][3])
          [] OTHER -> Incomparable

\* The order of MIN and MAX: blank nodes before IRIs before literals.
OrderOf(a, b) ==
    LET class(v) == CASE v[1] \in NodeKinds -> 0 [] v[1] = "iri" -> 1 [] OTHER -> 2
    IN  IF class(a) # class(b) THEN Sign(class(a), class(b))
        ELSE IF class(a) = 0 THEN Sign(a[2], b[2])
        ELSE CompareValues(a, b)

\* The comparison that ORDER BY sorts with: what cannot be compared is equal.
SortOrder(a, b) ==
    LET c == CompareValues(a, b) IN IF c = Incomparable THEN 0 ELSE c

(* ------------------------------- arithmetic ----------------------------- *)

Greater(x, y) == IF x < y THEN y ELSE x

Quotient(x, y) == IF y < 0 THEN (-x) \div (-y) ELSE x \div y

\* + - * / with promotion to the higher of the two types; integer / integer is
\* a decimal and a division by zero an error.
Arithmetic(op, a, b) ==
    IF ~IsNumeric(a) \/ ~IsNumeric(b) THEN Error
    ELSE LET x == NumberOf(a)
             y == NumberOf(b)
             type == NumericTypes[Greater(RankOf(a), RankOf(b))]
         IN  CASE op = "+" -> Literal(type, x + y)
               [] op = "-" -> Literal(type, x - y)
               [] op = "*" -> Literal(type, Quotient(x * y, 10))
               [] y = 0    -> Error
               [] OTHER    -> Literal(IF type = "integer" THEN "decimal" ELSE type,
                                      Quotient(10 * x, y))

(* ------------------------------- aggregates ----------------------------- *)

\* The values an aggregate takes into account, each once under DISTINCT (the
\* executor tells them apart by their debug form, so by representation).
Considered(values, distinct) ==
    IF distinct
    THEN FoldLeft(LAMBDA seen, v : IF Contains(seen, v) THEN seen ELSE Append(seen, v),
                  <<>>, values)
    ELSE values

Total(values) == FoldLeft(LAMBDA acc, v : acc + NumberOf(v), 0, values)
TopRank(values) == FoldLeft(LAMBDA acc, v : Greater(acc, RankOf(v)), 1, values)

\* SUM skips errors and what is not a number; without a number it is unbound.
SumAggregate(values, distinct) ==
    LET numbers == Considered(SelectSeq(values, IsNumeric), distinct)
    IN  IF numbers = <<>> THEN Error
        ELSE Literal(NumericTypes[TopRank(numbers)], Total(numbers))

\* AVG is unbound as soon as one value is not a number, 0 for no value, and
\* never an integer.
AvgAggregate(values, distinct) ==
    LET kept == Considered(values, distinct)
    IN  CASE \E i \in DOMAIN kept : ~IsNumeric(kept[i]) -> Error
          [] kept = <<>> -> Literal("integer", 0)
          [] OTHER -> Literal(NumericTypes[Greater(2, TopRank(kept))],
                              Quotient(Total(kept), Len(kept)))

\* MIN (sign -1) and MAX (sign 1): the first of the values no later one beats.
ExtremumAggregate(values, sign) ==
    LET kept == SelectSeq(values, LAMBDA v : v # Error)
    IN  IF kept = <<>> THEN Error
        ELSE FoldLeft(LAMBDA best, v : IF OrderOf(v, best) = sign THEN v ELSE best,
                      kept[1], kept)

\* COUNT of an expression, and of the rows.
CountAggregate(values, distinct) ==
    Literal("integer",
            10 * Len(Considered(SelectSeq(values, LAMBDA v : v # Error), distinct)))

\* SAMPLE: the first row that has a value.
SampleAggregate(values) ==
    LET bound == SelectSeq(values, LAMBDA v : v # Error)
    IN  IF bound = <<>> THEN Error ELSE bound[1]

Aggregated(function, values, distinct) ==
    CASE function = "count"  -> CountAggregate(values, distinct)
      [] function = "sum"    -> SumAggregate(values, distinct)
      [] function = "avg"    -> AvgAggregate(values, distinct)
      [] function = "min"    -> ExtremumAggregate(values, -1)
      [] function = "max"    -> ExtremumAggregate(values, 1)
      [] function = "sample" -> SampleAggregate(values)
=============================================================================
