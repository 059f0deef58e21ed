------------------------------ MODULE StoreOps ------------------------------
(***************************************************************************)
(* What the write operations of the storage layer do to a graph            *)
(* (ontolith-storage: domain/mod.rs WriteOperation, infrastructure/mod.rs  *)
(* apply_committed_op and the two apply_ops_to_*_projection).              *)
(*                                                                         *)
(* The code keeps vectors and looks before it pushes, so a vector never    *)
(* holds a statement twice; order is not observable through the            *)
(* properties and a graph is a pair of sets.  Predicate and object of a    *)
(* triple are one field: only the subject is ever looked at alone.         *)
(***************************************************************************)
EXTENDS Integers, Sequences, FiniteSets
CONSTANTS
    Subjects,      \* node ids used as subjects
    Objects,       \* predicate-object pairs
    GraphNames,    \* IRIs of named graphs
    DefaultGraph   \* a quad whose graph_name is None

Triple == [s : Subjects, o : Objects]
Quad   == [t : Triple, g : GraphNames \cup {DefaultGraph}]
Graph  == [triples : SUBSET Triple, quads : SUBSET Quad]

WriteOperation ==
         [op : {"PutTriple", "DeleteTriple"}, t : Triple]
    \cup [op : {"PutQuad", "DeleteQuad"}, q : Quad]
    \cup [op : {"DeleteKey"}, s : Subjects]

EmptyGraph == [triples |-> {}, quads |-> {}]

RemoveSubject(graph, s) ==
    [triples |-> {t \in graph.triples : t.s # s},
     quads   |-> {q \in graph.quads : q.t.s # s}]

\* Slips a change of the code could make, for the mutation runs.
DeleteTripleEverywhere(graph, w) ==
    [triples |-> graph.triples \ {w.t}, quads |-> {q \in graph.quads : q.t # w.t}]

DeleteTripleCommitted(graph, w) == [graph EXCEPT !.triples = @ \ {w.t}]

\* One operation of a committed transaction.  PutQuad and DeleteQuad act on
\* the quads only, whatever their graph name.
ApplyCommittedOp(graph, w) ==
    CASE w.op = "PutTriple"    -> [graph EXCEPT !.triples = @ \cup {w.t}]
      [] w.op = "DeleteTriple" -> DeleteTripleCommitted(graph, w)
      [] w.op = "PutQuad"      -> [graph EXCEPT !.quads = @ \cup {w.q}]
      [] w.op = "DeleteQuad"   -> [graph EXCEPT !.quads = @ \ {w.q}]
      [] w.op = "DeleteKey"    -> RemoveSubject(graph, w.s)

ApplyAll(graph, ops) ==
    LET after[i \in 0..Len(ops)] == IF i = 0 THEN graph ELSE ApplyCommittedOp(after[i - 1], ops[i])
    IN after[Len(ops)]

-----------------------------------------------------------------------------
(* What a transaction reads of its own staged operations.                  *)

\* The triples of the wanted subjects: what the index or the graph has of
\* them, then the staged operations filtered by subject.
TripleOp(triples, w, wanted) ==
    CASE w.op = "PutTriple" /\ w.t.s \in wanted -> triples \cup {w.t}
      [] w.op = "DeleteTriple"                  -> triples \ {w.t}
      [] w.op = "DeleteKey" /\ w.s \in wanted   -> {t \in triples : t.s # w.s}
      [] OTHER                                  -> triples

TriplesInTxn(committed, ops, wanted) ==
    LET after[i \in 0..Len(ops)] == IF i = 0 THEN committed ELSE TripleOp(after[i - 1], ops[i], wanted)
    IN after[Len(ops)]

\* The quads of one named graph.
QuadOp(quads, w, g) ==
    CASE w.op = "PutQuad" /\ w.q.g = g    -> quads \cup {w.q}
      [] w.op = "DeleteQuad" /\ w.q.g = g -> quads \ {w.q}
      [] w.op = "DeleteKey"               -> {q \in quads : q.t.s # w.s}
      [] OTHER                            -> quads

QuadsOfGraph(graph, ops, g) ==
    LET after[i \in 0..Len(ops)] ==
            IF i = 0 THEN {q \in graph.quads : q.g = g} ELSE QuadOp(after[i - 1], ops[i], g)
    IN after[Len(ops)]

\* The listing over all named graphs takes no graph filter, and without a
\* filter the staged triples of the default graph are projected as well.
AnyQuadOp(quads, w) ==
    CASE w.op = "PutQuad"      -> quads \cup {w.q}
      [] w.op = "DeleteQuad"   -> quads \ {w.q}
      [] w.op = "DeleteKey"    -> {q \in quads : q.t.s # w.s}
      [] w.op = "PutTriple"    -> IF \E q \in quads : q.t = w.t THEN quads
                                  ELSE quads \cup {[t |-> w.t, g |-> DefaultGraph]}
      [] w.op = "DeleteTriple" -> {q \in quads : q.t # w.t}

AllQuads(graph, ops) ==
    LET after[i \in 0..Len(ops)] == IF i = 0 THEN graph.quads ELSE AnyQuadOp(after[i - 1], ops[i])
    IN after[Len(ops)]
=============================================================================
