---------------------------- MODULE MCWritePaths ----------------------------
(* The instances of WritePaths for model checking. *)
EXTENDS WritePaths, TLC

CONSTANTS s1, o1, o2, g1, w1, w2, i1, u1, u2

T(o) == [s |-> s1, o |-> o]
Data(ops)         == [kind |-> "Data", ops |-> ops]
Move(from, to)    == [kind |-> "Transfer", how |-> "Move", from |-> from, to |-> to]
Copy(from, to)    == [kind |-> "Transfer", how |-> "Copy", from |-> from, to |-> to]
Load(from, to)    == [kind |-> "Transfer", how |-> "Load", from |-> from, to |-> to]
Clear(target)     == [kind |-> "Clear", target |-> target]
CreateGraph       == [kind |-> "Create"]
Modify(g, rename) == [kind |-> "Modify", g |-> g, rename |-> rename]
DeleteWhere(g)    == [kind |-> "DeleteWhere", g |-> g]
Swap == (o1 :> o2) @@ (o2 :> o1)

MCBatches == {<<Put(T(o1), DefaultGraph)>>, <<Delete(T(o1), DefaultGraph), Put(T(o2), g1)>>}

MCRequests == {<<Data(<<Put(T(o1), DefaultGraph)>>), Move(DefaultGraph, g1)>>,
               <<Modify(DefaultGraph, Swap), Clear(g1)>>,
               <<CreateGraph, Clear("All")>>,
               <<Load(g1, DefaultGraph), Clear("Named")>>,
               <<Copy(g1, DefaultGraph), Copy(g1, g1), DeleteWhere(g1)>>}

FailureRequests == {<<Data(<<Put(T(o1), g1)>>), Clear(g1)>>}
=============================================================================
