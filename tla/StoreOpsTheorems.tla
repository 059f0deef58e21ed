-------------------------- MODULE StoreOpsTheorems --------------------------
(***************************************************************************)
(* What the folds over a transaction's operations compute, for any graph   *)
(* and any operations: each is a function on the prefixes of the           *)
(* operations.  A batch leaves a graph, and what a transaction reads of    *)
(* its own staged operations is what they would leave if it committed.     *)
(***************************************************************************)
EXTENDS StoreOps, NatSetTheorems, TLAPS

LEMMA CommittedOpTyped ==
    ASSUME NEW graph \in Graph, NEW w \in WriteOperation
    PROVE  ApplyCommittedOp(graph, w) \in Graph
  BY DEF ApplyCommittedOp, DeleteTripleCommitted, RemoveSubject, Graph, WriteOperation, Triple, Quad

\* One operation after the other, as a function of the number of operations.
CommittedSteps(ops) == [i \in 1..Len(ops) |-> [graph \in Graph |-> ApplyCommittedOp(graph, ops[i])]]

LEMMA ApplyAllPrefixes ==
    ASSUME NEW graph \in Graph, NEW ops \in Seq(WriteOperation)
    PROVE  \E f : /\ Iterates(f, graph, CommittedSteps(ops), Len(ops), Graph)
                  /\ ApplyAll(graph, ops) = f[Len(ops)]
  <1> DEFINE n == Len(ops)
             step == CommittedSteps(ops)
             Eq(f) == f = [i \in 0..n |-> IF i = 0 THEN graph ELSE ApplyCommittedOp(f[i - 1], ops[i])]
             F == CHOOSE f : Eq(f)
  <1>1. n \in Nat /\ \A i \in 1..n : ops[i] \in WriteOperation
    OBVIOUS
  <1>2. \A i \in 1..n : \A g \in Graph : step[i][g] = ApplyCommittedOp(g, ops[i])
    BY DEF CommittedSteps
  <1>3. ApplyAll(graph, ops) = F[n]
    BY DEF ApplyAll
  <1> HIDE DEF n, step
  <1>4. Steps(step, n, Graph)
    BY <1>1, <1>2, CommittedOpTyped DEF Steps
  <1>5. PICK f : Iterates(f, graph, step, n, Graph)
    BY <1>1, <1>4, PrefixRecursion
  <1> DEFINE h == [i \in 0..n |-> f[i]]
  <1>6. /\ \A i \in 0..n : f[i] \in Graph
        /\ \A i \in 1..n : i - 1 \in 0..n /\ f[i] = ApplyCommittedOp(f[i - 1], ops[i])
        /\ f[0] = graph
    BY <1>1, <1>2, <1>5 DEF Iterates
  <1>7. Eq(h)
    BY <1>1, <1>6
  <1> HIDE DEF h
  <1>8. Eq(F)
    BY <1>7
  <1> HIDE DEF F
  <1>9. F[0] = graph /\ \A i \in 1..n : F[i - 1] \in Graph => F[i] = step[i][F[i - 1]]
    BY <1>1, <1>2, <1>8
  <1>10. Iterates(F, graph, step, n, Graph)
    BY <1>1, <1>4, <1>9, PrefixUnique
  <1> QED
    BY <1>3, <1>10 DEF n, step

\* What a batch leaves is a graph.
LEMMA ApplyAllTyped ==
    ASSUME NEW graph \in Graph, NEW ops \in Seq(WriteOperation)
    PROVE  ApplyAll(graph, ops) \in Graph
  <1>1. PICK f : /\ Iterates(f, graph, CommittedSteps(ops), Len(ops), Graph)
                 /\ ApplyAll(graph, ops) = f[Len(ops)]
    BY ApplyAllPrefixes
  <1>2. Len(ops) \in Nat
    OBVIOUS
  <1> QED
    BY <1>1, <1>2 DEF Iterates

\* The graph after each operation of a batch.
LEMMA Stepwise ==
    ASSUME NEW graph \in Graph, NEW ops \in Seq(WriteOperation)
    PROVE  \E f : /\ f[0] = graph /\ ApplyAll(graph, ops) = f[Len(ops)]
                  /\ \A i \in 1..Len(ops) : /\ f[i - 1] \in Graph /\ ops[i] \in WriteOperation
                                            /\ f[i] = ApplyCommittedOp(f[i - 1], ops[i])
  <1>1. PICK f : /\ Iterates(f, graph, CommittedSteps(ops), Len(ops), Graph)
                 /\ ApplyAll(graph, ops) = f[Len(ops)]
    BY ApplyAllPrefixes
  <1>2. f[0] = graph
    BY <1>1 DEF Iterates
  <1>3. ASSUME NEW i \in 1..Len(ops)
        PROVE  f[i - 1] \in Graph /\ ops[i] \in WriteOperation /\ f[i] = ApplyCommittedOp(f[i - 1], ops[i])
    <2>1. i - 1 \in 0..Len(ops) /\ ops[i] \in WriteOperation
      OBVIOUS
    <2>2. f[i - 1] \in Graph /\ f[i] = CommittedSteps(ops)[i][f[i - 1]]
      BY <1>1, <2>1 DEF Iterates
    <2> QED
      BY <2>1, <2>2 DEF CommittedSteps
  <1> QED
    BY <1>1, <1>2, <1>3

\* What one operation does to the triples of a subject, to the quads of a named graph and, when it is
\* not about the default graph, to all quads.
LEMMA ReadsStep ==
    ASSUME NEW graph \in Graph, NEW w \in WriteOperation
    PROVE  /\ \A s \in Subjects : TripleOp({t \in graph.triples : t.s = s}, w, {s})
                                     = {t \in ApplyCommittedOp(graph, w).triples : t.s = s}
           /\ \A g \in GraphNames : QuadOp({q \in graph.quads : q.g = g}, w, g)
                                     = {q \in ApplyCommittedOp(graph, w).quads : q.g = g}
           /\ w.op \notin {"PutTriple", "DeleteTriple"} =>
                 AnyQuadOp(graph.quads, w) = ApplyCommittedOp(graph, w).quads
  <1> USE DEF TripleOp, QuadOp, AnyQuadOp, ApplyCommittedOp, DeleteTripleCommitted, RemoveSubject, Graph, Triple, Quad
  <1>1. CASE w.op = "PutTriple" /\ w.t \in Triple
    BY <1>1
  <1>2. CASE w.op = "DeleteTriple" /\ w.t \in Triple
    BY <1>2
  <1>3. CASE w.op = "PutQuad" /\ w.q \in Quad
    BY <1>3
  <1>4. CASE w.op = "DeleteQuad" /\ w.q \in Quad
    BY <1>4
  <1>5. CASE w.op = "DeleteKey" /\ w.s \in Subjects
    BY <1>5
  <1> QED
    BY <1>1, <1>2, <1>3, <1>4, <1>5 DEF WriteOperation

\* A transaction's read of one subject is what its commit would leave of the subject.
LEMMA TriplesRead ==
    ASSUME NEW graph \in Graph, NEW ops \in Seq(WriteOperation), NEW s \in Subjects
    PROVE  TriplesInTxn({t \in graph.triples : t.s = s}, ops, {s}) = {t \in ApplyAll(graph, ops).triples : t.s = s}
  <1> DEFINE n == Len(ops)
             start == {t \in graph.triples : t.s = s}
             Eq(f) == f = [i \in 0..n |-> IF i = 0 THEN start ELSE TripleOp(f[i - 1], ops[i], {s})]
             F == CHOOSE f : Eq(f)
  <1>1. PICK f : /\ f[0] = graph /\ ApplyAll(graph, ops) = f[n]
                 /\ \A i \in 1..n : f[i - 1] \in Graph /\ ops[i] \in WriteOperation /\ f[i] = ApplyCommittedOp(f[i - 1], ops[i])
    BY Stepwise
  <1> DEFINE h == [i \in 0..n |-> {t \in f[i].triples : t.s = s}]
  <1>2. TriplesInTxn(start, ops, {s}) = F[n]
    BY DEF TriplesInTxn
  <1>3. n \in Nat
    OBVIOUS
  <1> HIDE DEF n, start
  <1>4. \A i \in 0..n : h[i] = {t \in f[i].triples : t.s = s}
    OBVIOUS
  <1>5. h[0] = start /\ \A i \in 1..n : h[i] = TripleOp(h[i - 1], ops[i], {s})
    <2>1. h[0] = start
      BY <1>1, <1>3, <1>4 DEF start
    <2>2. ASSUME NEW i \in 1..n PROVE h[i] = TripleOp(h[i - 1], ops[i], {s})
      <3>1. i - 1 \in 0..n /\ i \in 0..n
        BY <1>3
      <3> QED
        BY <1>1, <1>4, <3>1, ReadsStep
    <2> QED
      BY <2>1, <2>2
  <1>6. h = [i \in 0..n |-> h[i]]
    OBVIOUS
  <1> HIDE DEF h
  <1>7. Eq(h)
    BY <1>3, <1>5, <1>6
  <1>8. Eq(F)
    BY <1>7
  <1> HIDE DEF F
  <1>9. F[0] = h[0] /\ \A i \in 1..n : F[i - 1] = h[i - 1] => F[i] = h[i]
    <2>1. F[0] = start /\ \A i \in 1..n : F[i] = TripleOp(F[i - 1], ops[i], {s})
      <3>1. F = [i \in 0..n |-> IF i = 0 THEN start ELSE TripleOp(F[i - 1], ops[i], {s})]
        BY <1>8
      <3>2. \A i \in 0..n : F[i] = IF i = 0 THEN start ELSE TripleOp(F[i - 1], ops[i], {s})
        BY <3>1
      <3>3. 0 \in 0..n /\ \A i \in 1..n : i \in 0..n /\ i # 0
        BY <1>3
      <3> QED
        BY <3>2, <3>3
    <2> QED
      BY <1>5, <2>1
  <1>10. F[n] = h[n]
    BY <1>3, <1>9, PrefixAgree
  <1>11. h[n] = {t \in f[n].triples : t.s = s}
    BY <1>3, <1>4
  <1>12. F[n] = {t \in ApplyAll(graph, ops).triples : t.s = s}
    BY <1>1, <1>10, <1>11
  <1> QED
    BY <1>2, <1>12 DEF start

\* The same for a named graph.
LEMMA QuadsRead ==
    ASSUME NEW graph \in Graph, NEW ops \in Seq(WriteOperation), NEW g \in GraphNames
    PROVE  QuadsOfGraph(graph, ops, g) = {q \in ApplyAll(graph, ops).quads : q.g = g}
  <1> DEFINE n == Len(ops)
             start == {q \in graph.quads : q.g = g}
             Eq(f) == f = [i \in 0..n |-> IF i = 0 THEN start ELSE QuadOp(f[i - 1], ops[i], g)]
             F == CHOOSE f : Eq(f)
  <1>1. PICK f : /\ f[0] = graph /\ ApplyAll(graph, ops) = f[n]
                 /\ \A i \in 1..n : f[i - 1] \in Graph /\ ops[i] \in WriteOperation /\ f[i] = ApplyCommittedOp(f[i - 1], ops[i])
    BY Stepwise
  <1> DEFINE h == [i \in 0..n |-> {q \in f[i].quads : q.g = g}]
  <1>2. QuadsOfGraph(graph, ops, g) = F[n]
    BY DEF QuadsOfGraph
  <1>3. n \in Nat
    OBVIOUS
  <1> HIDE DEF n, start
  <1>4. \A i \in 0..n : h[i] = {q \in f[i].quads : q.g = g}
    OBVIOUS
  <1>5. h[0] = start /\ \A i \in 1..n : h[i] = QuadOp(h[i - 1], ops[i], g)
    <2>1. h[0] = start
      BY <1>1, <1>3, <1>4 DEF start
    <2>2. ASSUME NEW i \in 1..n PROVE h[i] = QuadOp(h[i - 1], ops[i], g)
      <3>1. i - 1 \in 0..n /\ i \in 0..n
        BY <1>3
      <3> QED
        BY <1>1, <1>4, <3>1, ReadsStep
    <2> QED
      BY <2>1, <2>2
  <1>6. h = [i \in 0..n |-> h[i]]
    OBVIOUS
  <1> HIDE DEF h
  <1>7. Eq(h)
    BY <1>3, <1>5, <1>6
  <1>8. Eq(F)
    BY <1>7
  <1> HIDE DEF F
  <1>9. F[0] = h[0] /\ \A i \in 1..n : F[i - 1] = h[i - 1] => F[i] = h[i]
    <2>1. F[0] = start /\ \A i \in 1..n : F[i] = QuadOp(F[i - 1], ops[i], g)
      <3>1. F = [i \in 0..n |-> IF i = 0 THEN start ELSE QuadOp(F[i - 1], ops[i], g)]
        BY <1>8
      <3>2. \A i \in 0..n : F[i] = IF i = 0 THEN start ELSE QuadOp(F[i - 1], ops[i], g)
        BY <3>1
      <3>3. 0 \in 0..n /\ \A i \in 1..n : i \in 0..n /\ i # 0
        BY <1>3
      <3> QED
        BY <3>2, <3>3
    <2> QED
      BY <1>5, <2>1
  <1>10. F[n] = h[n]
    BY <1>3, <1>9, PrefixAgree
  <1>11. h[n] = {q \in f[n].quads : q.g = g}
    BY <1>3, <1>4
  <1>12. F[n] = {q \in ApplyAll(graph, ops).quads : q.g = g}
    BY <1>1, <1>10, <1>11
  <1> QED
    BY <1>2, <1>12 DEF start

\* The same for all named graphs, if nothing is staged for the default graph.
LEMMA AllQuadsRead ==
    ASSUME NEW graph \in Graph, NEW ops \in Seq(WriteOperation),
           \A i \in 1..Len(ops) : ops[i].op \notin {"PutTriple", "DeleteTriple"}
    PROVE  AllQuads(graph, ops) = ApplyAll(graph, ops).quads
  <1> DEFINE n == Len(ops)
             start == graph.quads
             Eq(f) == f = [i \in 0..n |-> IF i = 0 THEN start ELSE AnyQuadOp(f[i - 1], ops[i])]
             F == CHOOSE f : Eq(f)
  <1>1. PICK f : /\ f[0] = graph /\ ApplyAll(graph, ops) = f[n]
                 /\ \A i \in 1..n : f[i - 1] \in Graph /\ ops[i] \in WriteOperation /\ f[i] = ApplyCommittedOp(f[i - 1], ops[i])
    BY Stepwise
  <1> DEFINE h == [i \in 0..n |-> f[i].quads]
  <1>2. AllQuads(graph, ops) = F[n]
    BY DEF AllQuads
  <1>3. n \in Nat /\ \A i \in 1..n : ops[i].op \notin {"PutTriple", "DeleteTriple"}
    OBVIOUS
  <1> HIDE DEF n, start
  <1>4. \A i \in 0..n : h[i] = f[i].quads
    OBVIOUS
  <1>5. h[0] = start /\ \A i \in 1..n : h[i] = AnyQuadOp(h[i - 1], ops[i])
    <2>1. h[0] = start
      BY <1>1, <1>3, <1>4 DEF start
    <2>2. ASSUME NEW i \in 1..n PROVE h[i] = AnyQuadOp(h[i - 1], ops[i])
      <3>1. i - 1 \in 0..n /\ i \in 0..n
        BY <1>3
      <3> QED
        BY <1>1, <1>3, <1>4, <3>1, ReadsStep
    <2> QED
      BY <2>1, <2>2
  <1>6. h = [i \in 0..n |-> h[i]]
    OBVIOUS
  <1> HIDE DEF h
  <1>7. Eq(h)
    <2>1. \A i \in 0..n : h[i] = IF i = 0 THEN start ELSE AnyQuadOp(h[i - 1], ops[i])
      BY <1>3, <1>5
    <2> QED
      BY <1>6, <2>1
  <1>8. Eq(F)
    BY <1>7
  <1> HIDE DEF F
  <1>9. F[0] = h[0] /\ \A i \in 1..n : F[i - 1] = h[i - 1] => F[i] = h[i]
    <2>1. F[0] = start /\ \A i \in 1..n : F[i] = AnyQuadOp(F[i - 1], ops[i])
      <3>1. F = [i \in 0..n |-> IF i = 0 THEN start ELSE AnyQuadOp(F[i - 1], ops[i])]
        BY <1>8
      <3>2. \A i \in 0..n : F[i] = IF i = 0 THEN start ELSE AnyQuadOp(F[i - 1], ops[i])
        BY <3>1
      <3>3. 0 \in 0..n /\ \A i \in 1..n : i \in 0..n /\ i # 0
        BY <1>3
      <3> QED
        BY <3>2, <3>3
    <2> QED
      BY <1>5, <2>1
  <1>10. F[n] = h[n]
    BY <1>3, <1>9, PrefixAgree
  <1>11. h[n] = f[n].quads
    BY <1>3, <1>4
  <1>12. F[n] = ApplyAll(graph, ops).quads
    BY <1>1, <1>10, <1>11
  <1> QED
    BY <1>2, <1>12 DEF start
=============================================================================
