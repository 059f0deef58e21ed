---------------------------- MODULE MCMemEngine ----------------------------
(* The instances of MemEngine and MemRecovery for model checking.  The     *)
(* scene is the engine alone, recoveries from a log nobody cuts, or a      *)
(* checkpointer that cuts it.                                              *)
EXTENDS MemRecovery

CONSTANTS s1, s2, o1, g1, t1, t2, r1, c1, c2

VARIABLE scene

T1 == [s |-> s1, o |-> o1]
T2 == [s |-> s2, o |-> o1]
EngineBatches == {<<>>,
                  <<[op |-> "PutTriple", t |-> T1]>>,
                  <<[op |-> "DeleteTriple", t |-> T1]>>,
                  <<[op |-> "PutQuad", q |-> [t |-> T1, g |-> g1]], [op |-> "PutTriple", t |-> T2]>>,
                  <<[op |-> "DeleteQuad", q |-> [t |-> T1, g |-> g1]]>>,
                  <<[op |-> "DeleteQuad", q |-> [t |-> T1, g |-> DefaultGraph]]>>,
                  <<[op |-> "DeleteKey", s |-> s1]>>}

EngineInit == Init /\ scene = "engine"
EngineSpec == EngineInit /\ [][Next /\ UNCHANGED scene]_<<vars, scene>>

\* Checkpoints look at transactions and phases only: one batch is enough.
SmallBatches == {<<[op |-> "PutTriple", t |-> T1]>>}
RecoveryBatches ==
    SmallBatches \cup
    {<<[op |-> "PutQuad", q |-> [t |-> T1, g |-> g1]], [op |-> "PutTriple", t |-> T2]>>,
     <<[op |-> "DeleteKey", s |-> s1]>>}

InScene ==
    \/ /\ scene = "recovery"
       /\ next_version' <= 3 /\ truncating' = truncating
       /\ \A t \in DOMAIN pending' : Len(pending'[t]) <= 2
    \/ /\ scene = "checkpoint"
       /\ \A i \in DOMAIN wal' : wal'[i].phase = "Staged" => wal'[i].ops \in SmallBatches

MCInit == Init /\ scene \in {"recovery", "checkpoint"}
MCNext == RecoveryNext /\ InScene /\ UNCHANGED scene
MCSpec == MCInit /\ [][MCNext]_<<vars, scene>>

\* As long as no checkpoint has cut the log, replaying it rebuilds the engine.
UncutLogDescribesState == scene = "recovery" => LogDescribesState
=============================================================================
