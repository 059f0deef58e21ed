--------------------------- MODULE MCRocksEngine ---------------------------
(* The instance of the RocksDB engine for model checking: a scene is of its *)
(* store or of its dictionary, and the other keeps its initial value.       *)
EXTENDS RocksEngine, RocksDict

VARIABLE scene

CONSTANTS s1, s2, o1, g1, t1, t2, r1

T1 == [s |-> s1, o |-> o1]
T2 == [s |-> s2, o |-> o1]
Q1 == [t |-> T1, g |-> g1]

\* No batch deletes a key: that operation comes from delete_by_key.
MCBatches == {<<>>,
              <<[op |-> "PutTriple", t |-> T1]>>,
              <<[op |-> "DeleteTriple", t |-> T1], [op |-> "PutQuad", q |-> Q1]>>}
MCLegacy == {[triples |-> {T2}, quads |-> {Q1}]}

MCInit ==
    /\ Init /\ DictInit /\ scene \in {"store", "dictionary"}
    /\ scene = "dictionary" => db = EmptyDatabase /\ mode = "Sync"
StoreStep == scene = "store" /\ Next /\ UNCHANGED <<dictVars, scene>>
DictionaryStep == scene = "dictionary" /\ DictNext /\ UNCHANGED <<vars, scene>>
MCSpec == MCInit /\ [][StoreStep \/ DictionaryStep]_<<vars, dictVars, scene>> /\ Fairness
=============================================================================
