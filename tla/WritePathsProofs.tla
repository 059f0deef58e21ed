-------------------------- MODULE WritePathsProofs --------------------------
(***************************************************************************)
(* Proofs about the write paths: for any number of service, ingest and     *)
(* update clients, any batches and requests and any admission limit,       *)
(* nobody touches the staged operations of another call, nothing stays     *)
(* behind, every slot of the manager is accounted for, and log, manager    *)
(* and answers agree.  Ingest keeps this only while the log takes every    *)
(* record, hence the hypothesis LogKeepsIngest of the theorems.            *)
(*                                                                         *)
(* A step belongs to one client and touches one transaction id, that of    *)
(* its call.  So the induction splits in two: Moves says what a step does  *)
(* to its own call and id, and Frame carries the invariant over for all    *)
(* other calls and ids, once for all actions.                              *)
(***************************************************************************)
EXTENDS WritePaths, SequenceTheorems, TLAPS

\* Either the log takes every record or nobody ingests: on a refused record
\* the ingest handler returns and leaves slot and staged operations behind.
LogKeepsIngest == WalMayFail => IngestClients = {}

UpdateIds  == UpdateOffset..(UpdateOffset + update_counter - 1)
ManagedIds == 1..(next_id - 1)
Issued     == ManagedIds \cup UpdateIds

ManagedPcs == {"idle", "staging", "committing", "undoing", "giving up", "stored"}
UpdatePcs  == {"idle", "evaluating", "checking", "committing", "rolling back"}

\* A call is a record with these fields, whatever they hold.
Shape(k) == k = [pc |-> k.pc, txn |-> k.txn, batch |-> k.batch, scans |-> k.scans,
                 todo |-> k.todo, staged |-> k.staged, outcome |-> k.outcome]

Shapes == call = [c \in Clients |-> call[c]] /\ \A c \in Clients : Shape(call[c])

Numbers ==
    /\ next_id \in 1..(MaxTxns + 1) /\ update_counter \in Nat
    /\ txns \in [ManagedIds -> Manager!TxnState]
    /\ \E S : wal \in Seq(S)

\* Where a call of a service or ingest client stands.
ManagedOK(c) ==
    /\ call[c].pc \in ManagedPcs
    /\ call[c].pc # "idle" => call[c].txn \in ManagedIds /\ txns[call[c].txn] = "Active"
    /\ call[c].pc = "staging" => call[c].batch \in Batches
    /\ call[c].pc \in {"staging", "giving up", "stored"} => call[c].txn \notin DOMAIN pending
    /\ call[c].pc = "committing"
       => call[c].txn \in DOMAIN pending /\ pending[call[c].txn] = call[c].batch
    /\ call[c].pc = "idle" /\ call[c].outcome = "ok" => call[c].txn \in LoggedCommits

\* Where a call of an update client stands.
UpdateOK(c) ==
    /\ call[c].pc \in UpdatePcs
    /\ call[c].pc # "idle"
       => /\ call[c].txn \in UpdateIds \ LoggedCommits
          /\ call[c].staged => call[c].txn \in DOMAIN pending
          /\ ~call[c].staged /\ ~WalMayFail => call[c].txn \notin DOMAIN pending
    /\ call[c].pc \in {"committing", "rolling back"} => call[c].staged
    /\ call[c].pc = "rolling back" => call[c].outcome \in {"error", "stopped"}
    /\ call[c].pc = "idle" /\ call[c].outcome = "ok" /\ call[c].staged
       => call[c].txn \in LoggedCommits

CallOK(c) ==
    /\ call[c].txn \in Issued \cup {0}
    /\ IF c \in UpdateClients THEN UpdateOK(c) ELSE ManagedOK(c)
    /\ call[c].pc = "idle" /\ call[c].outcome \in {"error", "stopped"}
       => call[c].txn \notin LoggedCommits

\* What is known of one transaction id: who owns its slot, its staged
\* operations and its commit record.
IdOK(t) ==
    /\ t \in DOMAIN txns /\ txns[t] = "Active"
       => \E c \in Clients \ UpdateClients : call[c].pc # "idle" /\ call[c].txn = t
    /\ t \in DOMAIN pending
       => /\ t \in Issued
          /\ \/ \E c \in Clients : call[c].pc # "idle" /\ call[c].txn = t
             \/ WalMayFail /\ t >= UpdateOffset
    /\ t \in LoggedCommits => t \in Issued
    /\ t \in DOMAIN txns
       => (t \in LoggedCommits <=> \/ txns[t] = "Committed"
                                   \/ \E c \in Clients : call[c].pc = "stored" /\ call[c].txn = t)

Distinct == \A c, d \in Clients : c # d /\ call[c].txn # 0 => call[c].txn # call[d].txn

IInv == Shapes /\ Numbers /\ Distinct /\ (\A c \in Clients : CallOK(c)) /\ (\A t : IdOK(t))

-----------------------------------------------------------------------------
\* The step of client c leaves every other call and every id but its own as
\* they were.
Apart(c) ==
    LET x == call'[c].txn IN
    /\ call[c].pc # "idle" => x = call[c].txn
    /\ \A d \in Clients \ {c} : call'[d] = call[d] /\ (call[d].txn = 0 \/ call[d].txn # x)
    /\ next_id <= next_id' /\ update_counter <= update_counter'
    /\ \A t \in DOMAIN txns' : t # x => t \in DOMAIN txns /\ txns'[t] = txns[t]
    /\ \A t : t # x => (t \in DOMAIN pending' <=> t \in DOMAIN pending)
    /\ \A t \in DOMAIN pending' : t # x => pending'[t] = pending[t]
    /\ \A t : t # x => (t \in LoggedCommits' <=> t \in LoggedCommits)

\* What client c leaves behind at its own id.
OwnIdOK(c) ==
    LET x == call[c].txn IN
    /\ x \in DOMAIN txns /\ txns[x] = "Active" => c \notin UpdateClients /\ call[c].pc # "idle"
    /\ x \in DOMAIN pending
       => x \in Issued /\ (call[c].pc # "idle" \/ (WalMayFail /\ x >= UpdateOffset))
    /\ x \in LoggedCommits => x \in Issued
    /\ x \in DOMAIN txns
       => (x \in LoggedCommits <=> txns[x] = "Committed" \/ call[c].pc = "stored")

Moves(c) == Apart(c) /\ Shapes' /\ Numbers' /\ CallOK(c)' /\ OwnIdOK(c)'

-----------------------------------------------------------------------------
\* One record more in the log.
LEMMA RecordAppended ==
    ASSUME NEW S, wal \in Seq(S), NEW t, NEW phase, NEW ops,
           wal' = Append(wal, [txn |-> t, phase |-> phase, ops |-> ops])
    PROVE  /\ Ok
           /\ \E T : wal' \in Seq(T)
           /\ LoggedCommits' = LoggedCommits \cup (IF phase = "Committed" THEN {t} ELSE {})
  <1> DEFINE r == [txn |-> t, phase |-> phase, ops |-> ops]
             T == S \cup {r}
             n == Len(wal)
  <1>1. wal \in Seq(T) /\ r \in T
    BY SeqMonotonic
  <1>2. /\ wal' \in Seq(T) /\ Len(wal') = n + 1 /\ n \in Nat
        /\ \A i \in 1..n : wal'[i] = wal[i]
        /\ wal'[n + 1] = r
    BY <1>1, AppendProperties, LenProperties
  <1>3. 1..(n + 1) = 1..n \cup {n + 1}
    BY <1>2
  <1>4. r.phase = phase /\ r.txn = t
    OBVIOUS
  <1> HIDE DEF r, T
  <1>5. LoggedCommits' = {wal'[i].txn : i \in {j \in 1..(n + 1) : wal'[j].phase = "Committed"}}
    BY <1>2 DEF LoggedCommits
  <1>6. {i \in 1..(n + 1) : wal'[i].phase = "Committed"}
        = {i \in 1..n : wal[i].phase = "Committed"} \cup (IF phase = "Committed" THEN {n + 1} ELSE {})
    BY <1>2, <1>3, <1>4
  <1>7. LoggedCommits = {wal[i].txn : i \in {j \in 1..n : wal[j].phase = "Committed"}}
    BY DEF LoggedCommits
  <1>8. LoggedCommits' = LoggedCommits \cup (IF phase = "Committed" THEN {t} ELSE {})
    BY <1>2, <1>4, <1>5, <1>6, <1>7
  <1> QED
    BY <1>2, <1>8 DEF Ok

\* An append of the engine writes the record or refuses it.
LEMMA AppendEffect ==
    ASSUME Numbers, NEW t, NEW phase, NEW ops, Engine!AppendWal(t, phase, ops)
    PROVE  /\ Ok \/ WalMayFail
           /\ \E T : wal' \in Seq(T)
           /\ LoggedCommits' = LoggedCommits \cup (IF Ok /\ phase = "Committed" THEN {t} ELSE {})
  <1>1. CASE Engine!Logged(t, phase, ops)
    BY <1>1, RecordAppended DEF Numbers, Engine!Logged
  <1>2. CASE WalMayFail /\ UNCHANGED wal
    BY <1>2 DEF Numbers, Ok, LoggedCommits
  <1> QED
    BY <1>1, <1>2 DEF Engine!AppendWal

\* A batch extends the staged operations of one transaction.
LEMMA BatchEffect ==
    ASSUME Numbers, NEW t, NEW ops, Engine!ApplyWriteBatch(t, ops)
    PROVE  /\ Ok \/ WalMayFail
           /\ \E T : wal' \in Seq(T)
           /\ LoggedCommits' = LoggedCommits
           /\ DOMAIN pending' = DOMAIN pending \cup {t}
           /\ \A u \in DOMAIN pending : u # t => pending'[u] = pending[u]
           /\ t \notin DOMAIN pending => pending'[t] = <<>> \o ops
  <1>1. Engine!AppendWal(t, "Staged", ops) /\ pending' = Engine!With(pending, t, Engine!Extended(t, ops))
    BY DEF Engine!ApplyWriteBatch
  <1>2. /\ DOMAIN pending' = DOMAIN pending \cup {t}
        /\ \A u \in DOMAIN pending : u # t => pending'[u] = pending[u]
        /\ pending'[t] = Engine!Extended(t, ops)
    BY <1>1 DEF Engine!With
  <1>3. t \notin DOMAIN pending => Engine!Extended(t, ops) = <<>> \o ops
    BY DEF Engine!Extended, Engine!StagedOf
  <1> QED
    BY <1>1, <1>2, <1>3, AppendEffect

\* A commit or an abort of the engine removes the staged operations of one
\* transaction; only a commit whose record the log takes is logged.
LEMMA RemoveEffect ==
    ASSUME NEW t, Engine!RemovePending(t)
    PROVE  /\ DOMAIN pending' = DOMAIN pending \ {t}
           /\ \A u \in DOMAIN pending' : pending'[u] = pending[u]
  BY DEF Engine!RemovePending, Engine!Without, Engine!Restrict

LEMMA CommitEffect ==
    ASSUME Numbers, NEW t, Engine!CommitTransaction(t)
    PROVE  /\ Ok \/ WalMayFail
           /\ \E T : wal' \in Seq(T)
           /\ LoggedCommits' = LoggedCommits \cup (IF Ok THEN {t} ELSE {})
           /\ DOMAIN pending' = DOMAIN pending \ {t}
           /\ \A u \in DOMAIN pending' : pending'[u] = pending[u]
  <1>1. Engine!RemovePending(t) /\ Engine!AppendWal(t, "Committed", <<>>)
    BY DEF Engine!CommitTransaction
  <1> QED
    BY <1>1, RemoveEffect, AppendEffect

LEMMA AbortEffect ==
    ASSUME Numbers, NEW t, Engine!AbortTransaction(t)
    PROVE  /\ \E T : wal' \in Seq(T)
           /\ LoggedCommits' = LoggedCommits
           /\ DOMAIN pending' = DOMAIN pending \ {t}
           /\ \A u \in DOMAIN pending' : pending'[u] = pending[u]
  <1>1. Engine!RemovePending(t) /\ Engine!AppendWal(t, "Aborted", <<>>)
    BY DEF Engine!AbortTransaction
  <1>2. /\ LoggedCommits' = LoggedCommits \cup (IF Ok /\ "Aborted" = "Committed" THEN {t} ELSE {})
        /\ \E T : wal' \in Seq(T)
    BY <1>1, AppendEffect
  <1> QED
    BY <1>1, <1>2, RemoveEffect

-----------------------------------------------------------------------------
\* The numbers a counter has given out stay given out.
LEMMA IntervalGrows ==
    ASSUME NEW a \in Int, NEW m \in Int, NEW n \in Int, m <= n
    PROVE  a..m \subseteq a..n
  OBVIOUS

LEMMA ZeroOutside ==
    ASSUME NEW a \in Nat \ {0}, NEW m \in Int
    PROVE  0 \notin a..m
  OBVIOUS

\* Ids are issued once and 0 never.
LEMMA IdsGrow ==
    ASSUME Numbers, Numbers', next_id <= next_id', update_counter <= update_counter'
    PROVE  /\ Issued \subseteq Issued' /\ UpdateIds \subseteq UpdateIds'
           /\ ManagedIds \subseteq ManagedIds'
           /\ 0 \notin Issued /\ 0 \notin Issued'
           /\ ManagedIds \cap UpdateIds = {}
  <1>1. /\ next_id \in Nat /\ update_counter \in Nat /\ UpdateOffset \in Nat \ {0}
        /\ next_id <= UpdateOffset
    BY OffsetAssumption, UpdatesAssumption DEF Numbers
  <1>2. /\ next_id - 1 \in Int /\ UpdateOffset + update_counter - 1 \in Int
        /\ (next_id - 1)' \in Int /\ (UpdateOffset + update_counter - 1)' \in Int
        /\ 1 \in Nat \ {0}
    <2>1. next_id' \in Nat /\ update_counter' \in Nat
      BY OffsetAssumption, UpdatesAssumption DEF Numbers
    <2> QED
      BY <1>1, <2>1
  <1>3. /\ next_id - 1 <= (next_id - 1)'
        /\ UpdateOffset + update_counter - 1 <= (UpdateOffset + update_counter - 1)'
    <2>1. next_id' \in Nat /\ update_counter' \in Nat
      BY OffsetAssumption, UpdatesAssumption DEF Numbers
    <2>2. \A i, j \in Nat : i <= j => i - 1 <= j - 1
      OBVIOUS
    <2>3. \A i, j, o \in Nat : i <= j => o + i - 1 <= o + j - 1
      OBVIOUS
    <2> QED
      BY <1>1, <2>1, <2>2, <2>3
  <1>4. UpdateIds \subseteq UpdateIds' /\ ManagedIds \subseteq ManagedIds'
    BY <1>1, <1>2, <1>3, IntervalGrows DEF UpdateIds, ManagedIds
  <1>5. 0 \notin Issued /\ 0 \notin Issued'
    BY <1>1, <1>2, ZeroOutside DEF Issued, UpdateIds, ManagedIds
  <1>6. ManagedIds \cap UpdateIds = {}
    BY <1>1 DEF UpdateIds, ManagedIds
  <1> QED
    BY <1>4, <1>5, <1>6 DEF Issued

\* Whatever the step of one client does to its own call and id, the other
\* calls stay sound.
LEMMA FrameCall ==
    ASSUME IInv, NEW c \in Clients, Moves(c), NEW d \in Clients
    PROVE  CallOK(d)'
  <1>1. CASE d = c
    BY <1>1 DEF Moves
  <1>2. CASE d # c
    <2> DEFINE x == call'[c].txn
               t == call[d].txn
    <2>1. CallOK(d) /\ call'[d] = call[d] /\ (t = 0 \/ t # x) /\ t \in Issued \cup {0}
      BY <1>2 DEF IInv, Moves, Apart, CallOK
    <2>2. Issued \subseteq Issued' /\ UpdateIds \subseteq UpdateIds' /\ ManagedIds \subseteq ManagedIds'
      BY IdsGrow DEF IInv, Moves, Apart
    <2>3. 0 \notin Issued /\ 0 \notin Issued'
      BY IdsGrow DEF IInv, Moves, Apart
    <2>4. 0 \notin LoggedCommits /\ (x = 0 => 0 \notin LoggedCommits')
      BY <2>3 DEF IInv, IdOK, Moves, OwnIdOK
    <2>5. t \in LoggedCommits' <=> t \in LoggedCommits
      BY <2>1, <2>4 DEF Moves, Apart
    <2>6. t # 0 => /\ t \in DOMAIN pending' <=> t \in DOMAIN pending
                   /\ t \in DOMAIN pending' => pending'[t] = pending[t]
                   /\ t \in DOMAIN txns => txns'[t] = txns[t]
      <3>1. DOMAIN txns = ManagedIds /\ DOMAIN txns' = ManagedIds'
        BY DEF IInv, Moves, Numbers
      <3> QED
        BY <2>1, <2>2, <3>1 DEF Moves, Apart
    <2>7. DOMAIN txns = ManagedIds
      BY DEF IInv, Numbers
    <2> HIDE DEF x
    <2>8. CASE d \in UpdateClients
      <3>1. UpdateOK(d)'
        BY <2>1, <2>2, <2>3, <2>5, <2>6, <2>8 DEF CallOK, UpdateOK, Issued
      <3> QED
        BY <2>1, <2>2, <2>5, <2>8, <3>1 DEF CallOK
    <2>9. CASE d \notin UpdateClients
      <3>1. ManagedOK(d)'
        BY <2>1, <2>2, <2>3, <2>5, <2>6, <2>7, <2>9 DEF CallOK, ManagedOK, Issued
      <3> QED
        BY <2>1, <2>2, <2>5, <2>9, <3>1 DEF CallOK
    <2> QED
      BY <2>8, <2>9
  <1> QED
    BY <1>1, <1>2

\* And so do the other ids.
LEMMA FrameId ==
    ASSUME IInv, NEW c \in Clients, Moves(c), NEW t
    PROVE  IdOK(t)'
  <1> DEFINE x == call'[c].txn
  <1>1. CASE t = x
    <2>1. OwnIdOK(c)'
      BY DEF Moves
    <2>2. \A d \in Clients : call'[d].txn = x /\ x # 0 => d = c
      BY DEF Moves, Apart
    <2>3. x \in DOMAIN txns' => x # 0
      BY DEF Moves, Numbers, ManagedIds
    <2> HIDE DEF x
    <2>4. (x \in DOMAIN txns' /\ txns'[x] = "Active") => c \notin UpdateClients /\ call'[c].pc # "idle"
      BY <2>1 DEF OwnIdOK, x
    <2>5. x \in DOMAIN pending'
          => x \in Issued' /\ (call'[c].pc # "idle" \/ (WalMayFail /\ x >= UpdateOffset))
      BY <2>1 DEF OwnIdOK, x
    <2>6. x \in LoggedCommits' => x \in Issued'
      BY <2>1 DEF OwnIdOK, x
    <2>7. x \in DOMAIN txns'
          => (x \in LoggedCommits' <=> txns'[x] = "Committed" \/ call'[c].pc = "stored")
      BY <2>1 DEF OwnIdOK, x
    <2>8. call'[c].txn = x
      BY DEF x
    <2> QED
      BY <1>1, <2>2, <2>3, <2>4, <2>5, <2>6, <2>7, <2>8 DEF IdOK
  <1>2. CASE t # x
    <2>1. IdOK(t)
      BY DEF IInv
    <2>2. \A d \in Clients : call[d].pc # "idle" /\ call[d].txn = t
                             => call'[d] = call[d]
      BY <1>2 DEF Moves, Apart
    <2>3. \A d \in Clients : call'[d].txn = t => call'[d] = call[d]
      BY <1>2 DEF Moves, Apart
    <2>4. /\ t \in DOMAIN txns' => t \in DOMAIN txns /\ txns'[t] = txns[t]
          /\ t \in DOMAIN pending' => t \in DOMAIN pending
          /\ t \in LoggedCommits' <=> t \in LoggedCommits
      BY <1>2 DEF Moves, Apart
    <2>5. Issued \subseteq Issued'
      BY IdsGrow DEF IInv, Moves, Apart
    <2> HIDE DEF x
    <2> QED
      BY <2>1, <2>2, <2>3, <2>4, <2>5 DEF IdOK
  <1> QED
    BY <1>1, <1>2

LEMMA Frame ==
    ASSUME IInv, NEW c \in Clients, Moves(c)
    PROVE  IInv'
  <1>1. Distinct'
    BY DEF IInv, Distinct, Moves, Apart
  <1>2. Shapes' /\ Numbers'
    BY DEF Moves
  <1>3. \A d \in Clients : CallOK(d)'
    BY FrameCall
  <1>4. \A t : IdOK(t)'
    BY FrameId
  <1> QED
    BY <1>1, <1>2, <1>3, <1>4 DEF IInv

-----------------------------------------------------------------------------
\* What the ways of changing a call do to it.
LEMMA Changed ==
    ASSUME Shapes, NEW c \in Clients, NEW k, Shape(k), call' = [call EXCEPT ![c] = k]
    PROVE  Shapes' /\ call'[c] = k /\ \A d \in Clients \ {c} : call'[d] = call[d]
  <1>1. /\ DOMAIN call = Clients /\ call' = [d \in Clients |-> IF d = c THEN k ELSE call[d]]
    BY DEF Shapes
  <1> HIDE DEF Shape
  <1>2. call'[c] = k /\ \A d \in Clients \ {c} : call'[d] = call[d]
    BY <1>1
  <1>3. \A d \in Clients : Shape(call[d])
    BY DEF Shapes
  <1>4. \A d \in Clients : Shape(call'[d])
    BY <1>2, <1>3
  <1>5. call' = [d \in Clients |-> call'[d]]
    BY <1>1
  <1> QED
    BY <1>2, <1>4, <1>5 DEF Shapes, Shape

LEMMA GotoIs ==
    ASSUME Shapes, NEW c \in Clients, NEW p, Goto(c, p)
    PROVE  /\ Shapes' /\ \A d \in Clients \ {c} : call'[d] = call[d]
           /\ call'[c].pc = p /\ call'[c].txn = call[c].txn /\ call'[c].batch = call[c].batch
           /\ call'[c].staged = call[c].staged /\ call'[c].outcome = call[c].outcome
  <1> DEFINE k == [call[c] EXCEPT !.pc = p]
  <1>1. Shape(call[c]) /\ call' = [call EXCEPT ![c] = k]
    BY DEF Shapes, Goto
  <1>2. /\ Shape(k) /\ k.pc = p /\ k.txn = call[c].txn /\ k.batch = call[c].batch
        /\ k.staged = call[c].staged /\ k.outcome = call[c].outcome
    BY <1>1 DEF Shape
  <1> HIDE DEF k
  <1> QED
    BY <1>1, <1>2, Changed

\* Changing one field of a call leaves the others; the fields a step changes
\* together are changed one after the other.
LEMMA SetTxn ==
    ASSUME NEW k, Shape(k), NEW t
    PROVE  LET l == [k EXCEPT !.txn = t] IN
           Shape(l) /\ l.txn = t /\ l.pc = k.pc /\ l.staged = k.staged /\ l.outcome = k.outcome
  BY DEF Shape

LEMMA SetStaged ==
    ASSUME NEW k, Shape(k), NEW b
    PROVE  LET l == [k EXCEPT !.staged = b] IN
           Shape(l) /\ l.staged = b /\ l.pc = k.pc /\ l.txn = k.txn /\ l.outcome = k.outcome
  BY DEF Shape

LEMMA SetOutcome ==
    ASSUME NEW k, Shape(k), NEW o
    PROVE  LET l == [k EXCEPT !.outcome = o] IN
           Shape(l) /\ l.outcome = o /\ l.pc = k.pc /\ l.txn = k.txn /\ l.staged = k.staged
  BY DEF Shape

LEMMA SetPc ==
    ASSUME NEW k, Shape(k), NEW p
    PROVE  LET l == [k EXCEPT !.pc = p] IN
           Shape(l) /\ l.pc = p /\ l.txn = k.txn /\ l.batch = k.batch /\ l.staged = k.staged
           /\ l.outcome = k.outcome
  BY DEF Shape

LEMMA SetScans ==
    ASSUME NEW k, Shape(k), NEW scans
    PROVE  LET l == [k EXCEPT !.scans = scans] IN
           Shape(l) /\ l.pc = k.pc /\ l.txn = k.txn /\ l.staged = k.staged
  BY DEF Shape

LEMMA IdleIs ==
    /\ Shape(Idle) /\ Idle.pc = "idle" /\ Idle.txn = 0 /\ Idle.staged = FALSE
    /\ Idle.outcome = "none"
  BY DEF Shape, Idle

LEMMA ReturnIs ==
    ASSUME Shapes, NEW c \in Clients, NEW o, Return(c, o)
    PROVE  /\ Shapes' /\ \A d \in Clients \ {c} : call'[d] = call[d]
           /\ call'[c].pc = "idle" /\ call'[c].txn = call[c].txn
           /\ call'[c].staged = call[c].staged /\ call'[c].outcome = o
  <1> DEFINE k == [Idle EXCEPT !.txn = call[c].txn, !.staged = call[c].staged, !.outcome = o]
  <1>1. call' = [call EXCEPT ![c] = k]
    BY DEF Return
  <1>2. /\ Shape(k) /\ k.pc = "idle" /\ k.txn = call[c].txn
        /\ k.staged = call[c].staged /\ k.outcome = o
    <2> DEFINE k1 == [Idle EXCEPT !.txn = call[c].txn]
               k2 == [k1 EXCEPT !.staged = call[c].staged]
    <2>1. Shape(Idle) /\ Idle.pc = "idle"
      BY IdleIs
    <2>2. Shape(k1) /\ k1.txn = call[c].txn /\ k1.pc = "idle"
      BY <2>1, SetTxn
    <2>3. k = [k2 EXCEPT !.outcome = o]
      OBVIOUS
    <2> HIDE DEF k1, k
    <2>4. Shape(k2) /\ k2.txn = call[c].txn /\ k2.pc = "idle" /\ k2.staged = call[c].staged
      BY <2>2, SetStaged
    <2> HIDE DEF k2
    <2> QED
      BY <2>3, <2>4, SetOutcome
  <1> HIDE DEF k
  <1> QED
    BY <1>1, <1>2, Changed

LEMMA LeaveIs ==
    ASSUME Shapes, NEW c \in Clients, NEW o, Leave(c, o)
    PROVE  /\ Shapes' /\ \A d \in Clients \ {c} : call'[d] = call[d]
           /\ call'[c].txn = call[c].txn /\ call'[c].outcome = o
           /\ call'[c].staged = call[c].staged
           /\ call'[c].pc = IF call[c].staged THEN "rolling back" ELSE "idle"
  <1>1. CASE call[c].staged
    <2> DEFINE k == [call[c] EXCEPT !.pc = "rolling back", !.outcome = o]
    <2>1. Shape(call[c]) /\ call' = [call EXCEPT ![c] = k]
      BY <1>1 DEF Shapes, Leave
    <2>2. /\ Shape(k) /\ k.pc = "rolling back" /\ k.txn = call[c].txn
          /\ k.staged = call[c].staged /\ k.outcome = o
      <3> DEFINE k1 == [call[c] EXCEPT !.pc = "rolling back"]
      <3>1. Shape(k1) /\ k1.pc = "rolling back" /\ k1.txn = call[c].txn /\ k1.staged = call[c].staged
        BY <2>1, SetPc
      <3>2. k = [k1 EXCEPT !.outcome = o]
        OBVIOUS
      <3> HIDE DEF k, k1
      <3>3. /\ Shape([k1 EXCEPT !.outcome = o]) /\ [k1 EXCEPT !.outcome = o].outcome = o
            /\ [k1 EXCEPT !.outcome = o].pc = k1.pc /\ [k1 EXCEPT !.outcome = o].txn = k1.txn
            /\ [k1 EXCEPT !.outcome = o].staged = k1.staged
        BY <3>1, SetOutcome, ZenonT(20)
      <3> QED
        BY <3>1, <3>2, <3>3
    <2> HIDE DEF k
    <2> QED
      BY <1>1, <2>1, <2>2, Changed
  <1>2. CASE ~call[c].staged
    BY <1>2, ReturnIs DEF Leave
  <1> QED
    BY <1>1, <1>2

-----------------------------------------------------------------------------
\* What the invariant says of the call of a managed client that runs.
LEMMA ManagedRuns ==
    ASSUME IInv, NEW c \in Clients, c \notin UpdateClients, call[c].pc # "idle"
    PROVE  /\ ManagedOK(c) /\ call[c].txn \in ManagedIds /\ call[c].txn \in DOMAIN txns
           /\ call[c].txn \in Issued /\ txns[call[c].txn] = "Active"
           /\ call[c].txn \in LoggedCommits <=> call[c].pc = "stored"
  <1>1. /\ ManagedOK(c) /\ call[c].txn \in ManagedIds /\ txns[call[c].txn] = "Active"
        /\ DOMAIN txns = ManagedIds
    BY DEF IInv, CallOK, ManagedOK, Numbers
  <1>2. call[c].txn # 0
    BY <1>1 DEF IInv, Numbers, ManagedIds
  <1>3. \A d \in Clients : call[d].txn = call[c].txn => d = c
    BY <1>2 DEF IInv, Distinct
  <1>4. call[c].txn \in LoggedCommits <=> call[c].pc = "stored"
    BY <1>1, <1>3 DEF IInv, IdOK
  <1> QED
    BY <1>1, <1>4 DEF Issued

\* The same for an update.
LEMMA UpdateRuns ==
    ASSUME IInv, NEW c \in UpdateClients, call[c].pc # "idle"
    PROVE  /\ UpdateOK(c) /\ call[c].txn \in UpdateIds \ LoggedCommits
           /\ call[c].txn \in Issued /\ call[c].txn \notin DOMAIN txns
           /\ call[c].txn >= UpdateOffset
  <1>1. c \in Clients
    BY DEF Clients
  <1>2. UpdateOK(c) /\ call[c].txn \in UpdateIds \ LoggedCommits
    BY <1>1 DEF IInv, CallOK, UpdateOK
  <1>3. ManagedIds \cap UpdateIds = {}
    <2>1. next_id \in Nat /\ UpdateOffset \in Nat /\ next_id <= UpdateOffset
      BY OffsetAssumption, UpdatesAssumption DEF IInv, Numbers
    <2> QED
      BY <2>1 DEF ManagedIds, UpdateIds
  <1>4. call[c].txn \notin DOMAIN txns
    BY <1>2, <1>3 DEF IInv, Numbers
  <1>5. call[c].txn >= UpdateOffset
    BY <1>2, OffsetAssumption DEF UpdateIds, IInv, Numbers
  <1> QED
    BY <1>2, <1>4, <1>5 DEF Issued

\* A step of a call that runs stays apart from the others when it leaves
\* the numbers and every other id alone.
LEMMA RunningApart ==
    ASSUME IInv, NEW c \in Clients, call[c].pc # "idle", call'[c].txn = call[c].txn,
           \A d \in Clients \ {c} : call'[d] = call[d],
           next_id' = next_id, update_counter' = update_counter, DOMAIN txns' = DOMAIN txns,
           \A t \in DOMAIN txns : t # call[c].txn => txns'[t] = txns[t],
           \A t : t # call[c].txn => (t \in DOMAIN pending' <=> t \in DOMAIN pending),
           \A t \in DOMAIN pending' : t # call[c].txn => pending'[t] = pending[t],
           \A t : t # call[c].txn => (t \in LoggedCommits' <=> t \in LoggedCommits)
    PROVE  Apart(c)
  <1>1. \A d \in Clients \ {c} : call[d].txn = 0 \/ call[d].txn # call[c].txn
    BY DEF IInv, Distinct
  <1>2. next_id <= next_id' /\ update_counter <= update_counter'
    <2>1. next_id \in Nat /\ update_counter \in Nat
      BY UpdatesAssumption DEF IInv, Numbers
    <2> QED
      BY <2>1
  <1> QED
    BY <1>1, <1>2 DEF Apart

\* The numbers stay well-typed when they stay.
LEMMA NumbersStay ==
    ASSUME Numbers, next_id' = next_id, update_counter' = update_counter, txns' = txns,
           \E T : wal' \in Seq(T)
    PROVE  Numbers' /\ Issued' = Issued /\ ManagedIds' = ManagedIds /\ UpdateIds' = UpdateIds
  BY DEF Numbers, Issued, ManagedIds, UpdateIds, Manager!TxnState

LEMMA EngineStays ==
    ASSUME Numbers, UNCHANGED engineVars
    PROVE  /\ \E T : wal' \in Seq(T)
           /\ LoggedCommits' = LoggedCommits /\ pending' = pending
  BY DEF Numbers, engineVars, LoggedCommits

-----------------------------------------------------------------------------
\* Service and ingest: where a step of the call leaves it.

\* An error while the log may fail is a service's, which goes on to undo.
LEMMA FailIs ==
    ASSUME LogKeepsIngest, Shapes, NEW c \in Clients, c \notin UpdateClients, Fail(c), WalMayFail
    PROVE  Goto(c, "undoing")
  BY DEF Fail, Clients, LogKeepsIngest

LEMMA StageMoves ==
    ASSUME LogKeepsIngest, IInv, NEW c \in Clients, Stage(c)
    PROVE  Moves(c)
  <1> DEFINE t == call[c].txn
  <1>1. /\ call[c].pc = "staging" /\ Engine!ApplyWriteBatch(t, call[c].batch)
        /\ IF Ok THEN Goto(c, "committing") ELSE Fail(c)
        /\ UNCHANGED <<managerVars, update_counter>>
    BY DEF Stage, At
  <1>2. c \notin UpdateClients
    BY <1>1 DEF IInv, CallOK, UpdateOK, UpdatePcs
  <1>3. /\ ManagedOK(c) /\ t \in Issued /\ t \in ManagedIds /\ txns[t] = "Active"
        /\ t \notin DOMAIN pending /\ t \notin LoggedCommits
        /\ call[c].batch \in Seq(WriteOperation)
    BY <1>1, <1>2, ManagedRuns, BatchesAssumption DEF ManagedOK
  <1>4. <<>> \o call[c].batch = call[c].batch
    BY <1>3, ConcatEmptySeq
  <1>5. /\ Ok \/ WalMayFail
        /\ \E T : wal' \in Seq(T)
        /\ LoggedCommits' = LoggedCommits
        /\ DOMAIN pending' = DOMAIN pending \cup {t}
        /\ \A u \in DOMAIN pending : u # t => pending'[u] = pending[u]
        /\ pending'[t] = call[c].batch
    BY <1>1, <1>3, <1>4, BatchEffect, ZenonT(20) DEF IInv
  <1>6. txns' = txns /\ next_id' = next_id /\ update_counter' = update_counter
    BY <1>1 DEF managerVars
  <1>7. /\ Shapes' /\ \A d \in Clients \ {c} : call'[d] = call[d]
        /\ call'[c].txn = t /\ call'[c].batch = call[c].batch
        /\ call'[c].pc = IF Ok THEN "committing" ELSE "undoing"
    BY <1>1, <1>2, <1>5, FailIs, GotoIs DEF IInv
  <1>8. Numbers' /\ Issued' = Issued /\ ManagedIds' = ManagedIds
    BY <1>5, <1>6, NumbersStay DEF IInv
  <1> HIDE DEF t
  <1>9. Apart(c)
    BY <1>1, <1>5, <1>6, <1>7, RunningApart DEF t
  <1>10. CallOK(c)'
    BY <1>2, <1>3, <1>5, <1>6, <1>7, <1>8 DEF CallOK, ManagedOK, ManagedPcs
  <1>11. OwnIdOK(c)'
    BY <1>2, <1>3, <1>5, <1>6, <1>7, <1>8 DEF OwnIdOK
  <1> QED
    BY <1>7, <1>8, <1>9, <1>10, <1>11 DEF Moves

LEMMA CommitMoves ==
    ASSUME LogKeepsIngest, IInv, NEW c \in Clients, Commit(c)
    PROVE  Moves(c)
  <1> DEFINE t == call[c].txn
  <1>1. /\ call[c].pc = "committing" /\ c \notin UpdateClients /\ Engine!CommitTransaction(t)
        /\ IF Ok THEN Stored(c) ELSE Fail(c)
        /\ UNCHANGED <<managerVars, update_counter>>
    BY DEF Commit, At
  <1>2. /\ t \in Issued /\ t \in ManagedIds /\ txns[t] = "Active" /\ t \notin LoggedCommits
    BY <1>1, ManagedRuns
  <1>3. /\ Ok \/ WalMayFail
        /\ \E T : wal' \in Seq(T)
        /\ LoggedCommits' = LoggedCommits \cup (IF Ok THEN {t} ELSE {})
        /\ DOMAIN pending' = DOMAIN pending \ {t}
        /\ \A u \in DOMAIN pending' : pending'[u] = pending[u]
    BY <1>1, CommitEffect DEF IInv
  <1>4. txns' = txns /\ next_id' = next_id /\ update_counter' = update_counter
    BY <1>1 DEF managerVars
  <1>5. /\ Shapes' /\ \A d \in Clients \ {c} : call'[d] = call[d]
        /\ call'[c].txn = t
        /\ call'[c].pc = IF Ok THEN "stored" ELSE "undoing"
    BY <1>1, <1>3, FailIs, GotoIs DEF IInv, Stored
  <1>6. Numbers' /\ Issued' = Issued /\ ManagedIds' = ManagedIds
    BY <1>3, <1>4, NumbersStay DEF IInv
  <1> HIDE DEF t
  <1>7. Apart(c)
    BY <1>1, <1>3, <1>4, <1>5, RunningApart DEF t
  <1>8. CallOK(c)'
    BY <1>1, <1>2, <1>3, <1>4, <1>5, <1>6 DEF CallOK, ManagedOK, ManagedPcs
  <1>9. OwnIdOK(c)'
    BY <1>1, <1>2, <1>3, <1>4, <1>5, <1>6 DEF OwnIdOK
  <1> QED
    BY <1>5, <1>6, <1>7, <1>8, <1>9 DEF Moves

LEMMA UndoMoves ==
    ASSUME IInv, NEW c \in Clients, UndoStaged(c)
    PROVE  Moves(c)
  <1> DEFINE t == call[c].txn
  <1>1. /\ call[c].pc = "undoing" /\ Goto(c, "giving up")
        /\ Engine!AbortTransaction(t) \/ (t \notin DOMAIN pending /\ UNCHANGED engineVars)
        /\ UNCHANGED <<managerVars, update_counter>>
    BY DEF UndoStaged, At
  <1>2. c \notin UpdateClients
    BY <1>1 DEF IInv, CallOK, UpdateOK, UpdatePcs
  <1>3. t \in Issued /\ t \in ManagedIds /\ txns[t] = "Active" /\ t \notin LoggedCommits
    BY <1>1, <1>2, ManagedRuns
  <1>4. /\ \E T : wal' \in Seq(T)
        /\ LoggedCommits' = LoggedCommits
        /\ DOMAIN pending' = DOMAIN pending \ {t}
        /\ \A u \in DOMAIN pending' : pending'[u] = pending[u]
    <2>1. CASE Engine!AbortTransaction(t)
      BY <2>1, AbortEffect DEF IInv
    <2>2. CASE t \notin DOMAIN pending /\ UNCHANGED engineVars
      BY <2>2, EngineStays DEF IInv
    <2> QED
      BY <1>1, <2>1, <2>2
  <1>5. txns' = txns /\ next_id' = next_id /\ update_counter' = update_counter
    BY <1>1 DEF managerVars
  <1>6. /\ Shapes' /\ \A d \in Clients \ {c} : call'[d] = call[d]
        /\ call'[c].txn = t /\ call'[c].pc = "giving up"
    BY <1>1, GotoIs DEF IInv
  <1>7. Numbers' /\ Issued' = Issued /\ ManagedIds' = ManagedIds
    BY <1>4, <1>5, NumbersStay DEF IInv
  <1> HIDE DEF t
  <1>8. Apart(c)
    BY <1>1, <1>4, <1>5, <1>6, RunningApart DEF t
  <1>9. CallOK(c)'
    BY <1>2, <1>3, <1>4, <1>5, <1>6, <1>7 DEF CallOK, ManagedOK, ManagedPcs
  <1>10. OwnIdOK(c)'
    BY <1>2, <1>3, <1>4, <1>5, <1>6, <1>7 DEF OwnIdOK
  <1> QED
    BY <1>6, <1>7, <1>8, <1>9, <1>10 DEF Moves

\* GiveUp and Finish give the slot back: the transaction ends at the manager.
LEMMA EndMoves ==
    ASSUME IInv, NEW c \in Clients, GiveUp(c) \/ Finish(c)
    PROVE  Moves(c)
  <1> DEFINE t == call[c].txn
             s == IF GiveUp(c) THEN "Aborted" ELSE "Committed"
             o == IF GiveUp(c) THEN "error" ELSE "ok"
  <1>1. /\ call[c].pc = IF GiveUp(c) THEN "giving up" ELSE "stored"
        /\ Return(c, o) /\ UNCHANGED <<engineVars, update_counter>>
    BY DEF GiveUp, Finish, At
  <1>2. c \notin UpdateClients
    BY <1>1 DEF IInv, CallOK, UpdateOK, UpdatePcs
  <1>3. /\ t \in Issued /\ t \in ManagedIds /\ txns[t] = "Active" /\ t \in DOMAIN txns
        /\ t \in LoggedCommits <=> call[c].pc = "stored"
        /\ ManagedOK(c)
    BY <1>1, <1>2, ManagedRuns
  <1>4. t \notin DOMAIN pending
    BY <1>1, <1>3 DEF ManagedOK
  <1>5. txns' = [txns EXCEPT ![t] = s] /\ next_id' = next_id
    <2>1. CASE GiveUp(c)
      BY <2>1 DEF GiveUp, Manager!Abort
    <2>2. CASE ~GiveUp(c)
      <3>1. Manager!Commit(t)
        BY <2>2 DEF Finish
      <3>2. ~Manager!Expired(t, 0)
        BY DEF Manager!Expired
      <3> QED
        BY <2>2, <3>1, <3>2 DEF Manager!Commit, Manager!CommitExpired, Manager!CommitActive
    <2> QED
      BY <2>1, <2>2
  <1>6. update_counter' = update_counter
    BY <1>1
  <1>7. (\E T : wal' \in Seq(T)) /\ LoggedCommits' = LoggedCommits /\ pending' = pending
    BY <1>1, EngineStays DEF IInv
  <1>8. /\ Shapes' /\ \A d \in Clients \ {c} : call'[d] = call[d]
        /\ call'[c].txn = t /\ call'[c].pc = "idle" /\ call'[c].outcome = o
    BY <1>1, ReturnIs DEF IInv
  <1>9. /\ DOMAIN txns' = DOMAIN txns /\ txns'[t] = s
        /\ \A u \in DOMAIN txns : u # t => txns'[u] = txns[u]
        /\ txns \in [ManagedIds -> Manager!TxnState]
    BY <1>3, <1>5 DEF IInv, Numbers
  <1>10. Numbers' /\ Issued' = Issued /\ ManagedIds' = ManagedIds
    <2>1. Issued' = Issued /\ ManagedIds' = ManagedIds
      BY <1>5, <1>6 DEF Issued, ManagedIds, UpdateIds
    <2>2. txns' \in [ManagedIds -> Manager!TxnState]
      BY <1>5, <1>9 DEF Manager!TxnState
    <2> QED
      BY <1>5, <1>6, <1>7, <2>1, <2>2 DEF IInv, Numbers, Manager!TxnState
  <1> HIDE DEF t
  <1>11. Apart(c)
    BY <1>1, <1>5, <1>6, <1>7, <1>8, <1>9, RunningApart DEF t
  <1>12. call[c].pc = "stored" <=> o = "ok"
    BY <1>1
  <1>13. s = "Committed" <=> o = "ok"
    OBVIOUS
  <1>14. o \in {"ok", "error"} /\ s # "Active"
    OBVIOUS
  <1> HIDE DEF s, o
  <1>15. CallOK(c)'
    BY <1>2, <1>3, <1>7, <1>8, <1>10, <1>12, <1>14 DEF CallOK, ManagedOK, ManagedPcs
  <1>16. OwnIdOK(c)'
    BY <1>2, <1>3, <1>4, <1>7, <1>8, <1>9, <1>10, <1>12, <1>13, <1>14 DEF OwnIdOK
  <1> QED
    BY <1>8, <1>10, <1>11, <1>15, <1>16 DEF Moves

\* A begin takes the next id, which nothing has used yet.
LEMMA BeginMoves ==
    ASSUME IInv, NEW c \in ServiceClients \cup IngestClients, NEW ops \in Batches, Begin(c, ops)
    PROVE  Moves(c)
  <1> DEFINE k  == [Idle EXCEPT !.pc = "staging", !.txn = next_id, !.batch = ops]
             k1 == [Idle EXCEPT !.pc = "staging"]
             k2 == [k1 EXCEPT !.txn = next_id]
  <1>1. /\ call[c].pc = "idle" /\ Manager!BeginAccepted(Manager!None)
        /\ call' = [call EXCEPT ![c] = k]
        /\ UNCHANGED <<engineVars, update_counter>>
    BY DEF Begin, At
  <1>2. c \in Clients /\ c \notin UpdateClients
    BY ClientsAssumption DEF Clients
  <1>3. Shape(k) /\ k.pc = "staging" /\ k.txn = next_id /\ k.batch = ops
    <2>1. Shape(k1) /\ k1.pc = "staging"
      BY IdleIs, SetPc
    <2>2. k = [k2 EXCEPT !.batch = ops]
      OBVIOUS
    <2> HIDE DEF k, k1
    <2>3. Shape(k2) /\ k2.pc = "staging" /\ k2.txn = next_id
      BY <2>1 DEF Shape
    <2> HIDE DEF k2
    <2> QED
      BY <2>2, <2>3 DEF Shape
  <1> HIDE DEF k
  <1>4. /\ Shapes' /\ \A d \in Clients \ {c} : call'[d] = call[d]
        /\ call'[c].pc = "staging" /\ call'[c].txn = next_id /\ call'[c].batch = ops
    BY <1>1, <1>2, <1>3, Changed DEF IInv
  <1>5. /\ next_id \in 1..MaxTxns /\ next_id' = next_id + 1 /\ update_counter' = update_counter
        /\ txns' = Manager!With(txns, next_id, "Active")
    BY <1>1, UpdatesAssumption DEF Manager!BeginAccepted, IInv, Numbers
  <1>6. (\E T : wal' \in Seq(T)) /\ LoggedCommits' = LoggedCommits /\ pending' = pending
    BY <1>1, EngineStays DEF IInv
  <1>7. ManagedIds' = ManagedIds \cup {next_id} /\ UpdateIds' = UpdateIds
    BY <1>5, UpdatesAssumption DEF ManagedIds, UpdateIds
  <1>8. next_id \notin Issued /\ next_id # 0
    BY <1>5, OffsetAssumption, UpdatesAssumption DEF Issued, ManagedIds, UpdateIds, IInv, Numbers
  <1>9. /\ txns \in [ManagedIds -> Manager!TxnState]
        /\ txns' \in [ManagedIds' -> Manager!TxnState] /\ txns'[next_id] = "Active"
        /\ \A u \in ManagedIds : u # next_id => txns'[u] = txns[u]
    BY <1>5, <1>7 DEF IInv, Numbers, Manager!With, Manager!TxnState
  <1>10. Numbers'
    <2>1. next_id' \in 1..(MaxTxns + 1) /\ update_counter' \in Nat
      BY <1>5, UpdatesAssumption DEF IInv, Numbers
    <2> QED
      BY <1>6, <1>9, <2>1 DEF Numbers, Manager!TxnState
  <1>11. \A d \in Clients \ {c} : call[d].txn = 0 \/ call[d].txn # next_id
    BY <1>8 DEF IInv, CallOK
  <1>12. next_id <= next_id' /\ update_counter <= update_counter'
    BY <1>5, UpdatesAssumption DEF IInv, Numbers
  <1>13. Apart(c)
    BY <1>1, <1>4, <1>6, <1>7, <1>9, <1>11, <1>12 DEF Apart
  <1>14. next_id \notin DOMAIN pending /\ next_id \notin LoggedCommits
    BY <1>8 DEF IInv, IdOK
  <1>15. CallOK(c)'
    BY <1>2, <1>4, <1>6, <1>7, <1>9, <1>14 DEF CallOK, ManagedOK, ManagedPcs, Issued
  <1>16. OwnIdOK(c)'
    BY <1>2, <1>4, <1>6, <1>9, <1>14 DEF OwnIdOK
  <1> QED
    BY <1>4, <1>10, <1>13, <1>15, <1>16 DEF Moves

\* A refused begin has no id: 0 stands for none and is never issued.
LEMMA RefusedMoves ==
    ASSUME IInv, NEW c \in ServiceClients \cup IngestClients, BeginRefused(c)
    PROVE  Moves(c)
  <1> DEFINE k == [Idle EXCEPT !.outcome = "error"]
  <1>1. /\ call[c].pc = "idle" /\ Manager!BeginRejected
        /\ call' = [call EXCEPT ![c] = k]
        /\ UNCHANGED <<engineVars, update_counter>>
    BY DEF BeginRefused, At
  <1>2. c \in Clients /\ c \notin UpdateClients
    BY ClientsAssumption DEF Clients
  <1>3. Shape(k) /\ k.pc = "idle" /\ k.txn = 0 /\ k.outcome = "error"
    BY IdleIs, SetOutcome
  <1> HIDE DEF k
  <1>4. /\ Shapes' /\ \A d \in Clients \ {c} : call'[d] = call[d]
        /\ call'[c].pc = "idle" /\ call'[c].txn = 0 /\ call'[c].outcome = "error"
    BY <1>1, <1>2, <1>3, Changed DEF IInv
  <1>5. txns' = txns /\ next_id' = next_id /\ update_counter' = update_counter
    BY <1>1 DEF Manager!BeginRejected
  <1>6. (\E T : wal' \in Seq(T)) /\ LoggedCommits' = LoggedCommits /\ pending' = pending
    BY <1>1, EngineStays DEF IInv
  <1>7. Numbers'
    BY <1>5, <1>6, NumbersStay DEF IInv
  <1>8. next_id <= next_id' /\ update_counter <= update_counter'
    BY <1>5, UpdatesAssumption DEF IInv, Numbers
  <1>9. 0 \notin Issued
    BY <1>7, <1>8, IdsGrow DEF IInv
  <1>10. 0 \notin DOMAIN pending /\ 0 \notin LoggedCommits /\ 0 \notin DOMAIN txns
    BY <1>9 DEF IInv, IdOK, Numbers, Issued
  <1>11. Apart(c)
    BY <1>1, <1>4, <1>5, <1>6, <1>8 DEF Apart
  <1>12. CallOK(c)'
    BY <1>2, <1>4, <1>6, <1>10 DEF CallOK, ManagedOK, ManagedPcs
  <1>13. OwnIdOK(c)'
    BY <1>2, <1>4, <1>5, <1>6, <1>10 DEF OwnIdOK
  <1> QED
    BY <1>4, <1>7, <1>11, <1>12, <1>13 DEF Moves

-----------------------------------------------------------------------------
\* Updates: where a step of the call leaves it.

LEMMA StartingIs ==
    ASSUME NEW r, Shape(r), NEW todo
    PROVE  LET k == Starting(r, todo) IN
           /\ Shape(k) /\ k.pc = "evaluating" /\ k.txn = r.txn /\ k.staged = r.staged
           /\ k.outcome = r.outcome
  <1> DEFINE k  == Starting(r, todo)
             k1 == [r EXCEPT !.pc = "evaluating"]
             k2 == [k1 EXCEPT !.todo = todo]
             k3 == [k2 EXCEPT !.scans = ScansOf(Head(todo))]
  <1>1. k = [k3 EXCEPT !.batch = GivenOps(Head(todo))]
    BY DEF Starting
  <1>2. /\ Shape(k1) /\ k1.pc = "evaluating" /\ k1.txn = r.txn /\ k1.staged = r.staged
        /\ k1.outcome = r.outcome
    BY SetPc
  <1> HIDE DEF k, k1
  <1>3. /\ Shape(k2) /\ k2.pc = k1.pc /\ k2.txn = k1.txn /\ k2.staged = k1.staged
        /\ k2.outcome = k1.outcome
    BY <1>2 DEF Shape
  <1> HIDE DEF k2
  <1>4. /\ Shape(k3) /\ k3.pc = k2.pc /\ k3.txn = k2.txn /\ k3.staged = k2.staged
        /\ k3.outcome = k2.outcome
    BY <1>3 DEF Shape
  <1> HIDE DEF k3
  <1>5. /\ Shape(k) /\ k.pc = k3.pc /\ k.txn = k3.txn /\ k.staged = k3.staged
        /\ k.outcome = k3.outcome
    BY <1>1, <1>4 DEF Shape
  <1>6. Shape(k) /\ k.pc = "evaluating" /\ k.txn = r.txn /\ k.staged = r.staged /\ k.outcome = r.outcome
    BY <1>2, <1>3, <1>4, <1>5
  <1> QED
    BY <1>6 DEF k

LEMMA UpdateBeginMoves ==
    ASSUME IInv, NEW c \in UpdateClients, NEW request, UpdateBegin(c, request)
    PROVE  Moves(c)
  <1> DEFINE x  == UpdateOffset + update_counter
             r  == [Idle EXCEPT !.txn = NextUpdateTxn]
             k  == Starting(r, request)
  <1>1. /\ call[c].pc = "idle" /\ update_counter' = update_counter + 1
        /\ call' = [call EXCEPT ![c] = k]
        /\ UNCHANGED <<engineVars, managerVars>>
    BY DEF UpdateBegin, At
  <1>2. c \in Clients
    BY DEF Clients
  <1>3. Shape(r) /\ r.txn = x /\ r.staged = FALSE
    BY IdleIs, SetTxn DEF NextUpdateTxn
  <1> HIDE DEF r
  <1>4. Shape(k) /\ k.pc = "evaluating" /\ k.txn = x /\ k.staged = FALSE
    BY <1>3, StartingIs
  <1> HIDE DEF k
  <1>5. /\ Shapes' /\ \A d \in Clients \ {c} : call'[d] = call[d]
        /\ call'[c].pc = "evaluating" /\ call'[c].txn = x /\ call'[c].staged = FALSE
    BY <1>1, <1>2, <1>4, Changed DEF IInv
  <1>6. txns' = txns /\ next_id' = next_id
    BY <1>1 DEF managerVars
  <1>7. (\E T : wal' \in Seq(T)) /\ LoggedCommits' = LoggedCommits /\ pending' = pending
    BY <1>1, EngineStays DEF IInv
  <1>8. /\ next_id \in Nat /\ update_counter \in Nat /\ UpdateOffset \in Nat
        /\ next_id <= UpdateOffset /\ update_counter' \in Nat
    BY <1>1, OffsetAssumption, UpdatesAssumption DEF IInv, Numbers
  <1>9. x \notin Issued /\ x \notin ManagedIds /\ x >= UpdateOffset
    BY <1>8 DEF Issued, ManagedIds, UpdateIds
  <1>10. ManagedIds' = ManagedIds /\ UpdateIds' = UpdateIds \cup {x}
    <2>1. ManagedIds' = ManagedIds
      BY <1>6 DEF ManagedIds
    <2>2. \A o, n \in Nat : o..(o + (n + 1) - 1) = o..(o + n - 1) \cup {o + n}
      OBVIOUS
    <2> QED
      BY <1>1, <1>8, <2>1, <2>2 DEF UpdateIds
  <1>11. Numbers'
    BY <1>6, <1>7, <1>8, <1>10 DEF IInv, Numbers, Manager!TxnState
  <1> HIDE DEF x
  <1>12. \A d \in Clients \ {c} : call[d].txn = 0 \/ call[d].txn # x
    BY <1>9 DEF IInv, CallOK
  <1>13. next_id <= next_id' /\ update_counter <= update_counter'
    BY <1>1, <1>6, <1>8
  <1>14. x \notin DOMAIN pending /\ x \notin LoggedCommits /\ x \notin DOMAIN txns
    BY <1>9 DEF IInv, IdOK, Numbers
  <1>15. Apart(c)
    BY <1>1, <1>5, <1>6, <1>7, <1>12, <1>13 DEF Apart
  <1>16. CallOK(c)'
    BY <1>5, <1>7, <1>10, <1>14 DEF CallOK, UpdateOK, UpdatePcs, Issued
  <1>17. OwnIdOK(c)'
    BY <1>5, <1>6, <1>7, <1>14 DEF OwnIdOK
  <1> QED
    BY <1>5, <1>11, <1>15, <1>16, <1>17 DEF Moves

\* Steps of an update that leave the engine alone.
LEMMA QuietMoves ==
    ASSUME IInv, NEW c \in UpdateClients, call[c].pc # "idle",
           UNCHANGED <<engineVars, managerVars, update_counter>>,
           Shapes', \A d \in Clients \ {c} : call'[d] = call[d],
           call'[c].txn = call[c].txn, call'[c].staged = call[c].staged,
           \/ call'[c].pc = "evaluating"
           \/ call'[c].pc = "committing" /\ call[c].staged
           \/ call'[c].pc = "rolling back" /\ call[c].staged
              /\ call'[c].outcome \in {"error", "stopped"}
           \/ call'[c].pc = "idle" /\ ~call[c].staged
    PROVE  Moves(c)
  <1>1. c \in Clients
    BY DEF Clients
  <1>2. txns' = txns /\ next_id' = next_id /\ update_counter' = update_counter
    BY DEF managerVars
  <1>3. (\E T : wal' \in Seq(T)) /\ LoggedCommits' = LoggedCommits /\ pending' = pending
    BY EngineStays DEF IInv
  <1>4. Numbers' /\ Issued' = Issued /\ UpdateIds' = UpdateIds
    BY <1>2, <1>3, NumbersStay DEF IInv
  <1>5. /\ UpdateOK(c) /\ call[c].txn \in UpdateIds \ LoggedCommits
        /\ call[c].txn \in Issued /\ call[c].txn \notin DOMAIN txns
        /\ call[c].txn >= UpdateOffset
    BY UpdateRuns
  <1>6. Apart(c)
    BY <1>1, <1>2, <1>3, RunningApart
  <1>7. CallOK(c)'
    BY <1>3, <1>4, <1>5 DEF CallOK, UpdateOK, UpdatePcs
  <1>8. OwnIdOK(c)'
    BY <1>2, <1>3, <1>4, <1>5 DEF OwnIdOK, UpdateOK
  <1> QED
    BY <1>4, <1>6, <1>7, <1>8 DEF Moves

\* Only updates evaluate.
LEMMA Evaluates ==
    ASSUME IInv, NEW c \in Clients, call[c].pc \in {"evaluating", "checking", "rolling back"}
    PROVE  c \in UpdateClients /\ call[c].pc # "idle"
  BY DEF IInv, CallOK, ManagedOK, ManagedPcs

LEMMA ScanMoves ==
    ASSUME IInv, NEW c \in Clients, UpdateScan(c)
    PROVE  Moves(c)
  <1>1. call[c].pc = "evaluating" /\ UNCHANGED <<engineVars, managerVars, update_counter>>
    BY DEF UpdateScan, At
  <1>2. PICK b : call' = [call EXCEPT ![c].batch = b, ![c].scans = Tail(@)]
    BY DEF UpdateScan
  <1> DEFINE k1 == [call[c] EXCEPT !.batch = b]
             k  == [k1 EXCEPT !.scans = Tail(@)]
  <1>3. Shapes /\ Shape(call[c])
    BY DEF IInv, Shapes
  <1>4. /\ Shape(k1) /\ k1.pc = call[c].pc /\ k1.txn = call[c].txn /\ k1.staged = call[c].staged
    BY <1>3 DEF Shape
  <1>5. call' = [call EXCEPT ![c] = k]
    BY <1>2, <1>3 DEF Shapes
  <1> HIDE DEF k1
  <1>6. /\ Shape(k) /\ k.pc = k1.pc /\ k.txn = k1.txn /\ k.staged = k1.staged
    BY <1>4, SetScans
  <1> HIDE DEF k
  <1>7. /\ Shapes' /\ \A d \in Clients \ {c} : call'[d] = call[d]
        /\ call'[c] = k
    BY <1>3, <1>5, <1>6, Changed
  <1> QED
    BY <1>1, <1>4, <1>6, <1>7, Evaluates, QuietMoves

LEMMA LeaveMoves ==
    ASSUME IInv, NEW c \in Clients, UpdateRefused(c) \/ UpdatePreempted(c)
    PROVE  Moves(c)
  <1>1. /\ call[c].pc \in {"evaluating", "checking"}
        /\ UNCHANGED <<engineVars, managerVars, update_counter>>
        /\ Leave(c, "error") \/ Leave(c, "stopped")
    BY DEF UpdateRefused, UpdatePreempted, Operated, At
  <1>2. /\ Shapes' /\ \A d \in Clients \ {c} : call'[d] = call[d]
        /\ call'[c].txn = call[c].txn /\ call'[c].outcome \in {"error", "stopped"}
        /\ call'[c].staged = call[c].staged
        /\ call'[c].pc = IF call[c].staged THEN "rolling back" ELSE "idle"
    BY <1>1, LeaveIs DEF IInv
  <1> QED
    BY <1>1, <1>2, Evaluates, QuietMoves

LEMMA GoesOnMoves ==
    ASSUME IInv, NEW c \in Clients, UpdateGoesOn(c)
    PROVE  Moves(c)
  <1>1. /\ call[c].pc \in {"evaluating", "checking"}
        /\ UNCHANGED <<engineVars, managerVars, update_counter>>
    BY DEF UpdateGoesOn, Operated, At
  <1>2. Shapes /\ Shape(call[c])
    BY DEF IInv, Shapes
  <1>3. CASE Len(call[c].todo) > 1
    <2> DEFINE k == Starting(call[c], Tail(call[c].todo))
    <2>1. call' = [call EXCEPT ![c] = k]
      BY <1>2, <1>3 DEF UpdateGoesOn, Shapes
    <2>2. Shape(k) /\ k.pc = "evaluating" /\ k.txn = call[c].txn /\ k.staged = call[c].staged
      BY <1>2, StartingIs
    <2> HIDE DEF k
    <2>3. Shapes' /\ (\A d \in Clients \ {c} : call'[d] = call[d]) /\ call'[c] = k
      BY <1>2, <2>1, <2>2, Changed
    <2> QED
      BY <1>1, <2>2, <2>3, Evaluates, QuietMoves
  <1>4. CASE ~(Len(call[c].todo) > 1) /\ call[c].staged
    <2>1. Goto(c, "committing")
      BY <1>4 DEF UpdateGoesOn
    <2> QED
      BY <1>1, <1>2, <1>4, <2>1, GotoIs, Evaluates, QuietMoves
  <1>5. CASE ~(Len(call[c].todo) > 1) /\ ~call[c].staged
    <2>1. Return(c, "ok")
      BY <1>5 DEF UpdateGoesOn
    <2> QED
      BY <1>1, <1>2, <1>5, <2>1, ReturnIs, Evaluates, QuietMoves
  <1> QED
    BY <1>3, <1>4, <1>5

LEMMA UpdateStageMoves ==
    ASSUME IInv, NEW c \in Clients, UpdateStage(c)
    PROVE  Moves(c)
  <1> DEFINE t == call[c].txn
  <1>1. /\ call[c].pc = "evaluating" /\ Engine!ApplyWriteBatch(t, call[c].batch)
        /\ UNCHANGED <<managerVars, update_counter>>
    BY DEF UpdateStage, At
  <1>2. c \in UpdateClients
    BY <1>1, Evaluates
  <1>3. /\ UpdateOK(c) /\ t \in UpdateIds \ LoggedCommits
        /\ t \in Issued /\ t \notin DOMAIN txns /\ t >= UpdateOffset
    BY <1>1, <1>2, UpdateRuns
  <1>4. /\ Ok \/ WalMayFail
        /\ \E T : wal' \in Seq(T)
        /\ LoggedCommits' = LoggedCommits
        /\ DOMAIN pending' = DOMAIN pending \cup {t}
        /\ \A u \in DOMAIN pending : u # t => pending'[u] = pending[u]
    BY <1>1, BatchEffect DEF IInv
  <1>5. txns' = txns /\ next_id' = next_id /\ update_counter' = update_counter
    BY <1>1 DEF managerVars
  <1>6. /\ Shapes' /\ \A d \in Clients \ {c} : call'[d] = call[d]
        /\ call'[c].txn = t
        /\ \/ call'[c].pc = "checking" /\ call'[c].staged
           \/ /\ WalMayFail /\ call'[c].outcome = "error" /\ call'[c].staged = call[c].staged
              /\ call'[c].pc = IF call[c].staged THEN "rolling back" ELSE "idle"
    <2>1. CASE Ok
      <3> DEFINE k1 == [call[c] EXCEPT !.pc = "checking"]
                 k  == [k1 EXCEPT !.staged = TRUE]
      <3>1. Shapes /\ Shape(call[c])
        BY DEF IInv, Shapes
      <3>2. call' = [call EXCEPT ![c] = k]
        BY <2>1, <3>1 DEF UpdateStage, Shapes
      <3>3. Shape(k1) /\ k1.pc = "checking" /\ k1.txn = t
        BY <3>1, SetPc
      <3> HIDE DEF k1
      <3>4. Shape(k) /\ k.pc = "checking" /\ k.txn = t /\ k.staged = TRUE
        BY <3>3, SetStaged
      <3> HIDE DEF k
      <3> QED
        BY <3>1, <3>2, <3>4, Changed
    <2>2. CASE ~Ok
      <3>1. Leave(c, "error")
        BY <2>2 DEF UpdateStage
      <3> QED
        BY <1>4, <2>2, <3>1, LeaveIs DEF IInv
    <2> QED
      BY <2>1, <2>2
  <1>7. Numbers' /\ Issued' = Issued /\ UpdateIds' = UpdateIds
    BY <1>4, <1>5, NumbersStay DEF IInv
  <1> HIDE DEF t
  <1>8. Apart(c)
    BY <1>1, <1>4, <1>5, <1>6, RunningApart DEF t
  <1>9. CallOK(c)'
    BY <1>2, <1>3, <1>4, <1>6, <1>7 DEF CallOK, UpdateOK, UpdatePcs
  <1>10. OwnIdOK(c)'
    BY <1>3, <1>4, <1>5, <1>6, <1>7 DEF OwnIdOK
  <1> QED
    BY <1>6, <1>7, <1>8, <1>9, <1>10 DEF Moves

\* UpdateCommit and UpdateAbort end the call and take its operations along.
LEMMA UpdateEndMoves ==
    ASSUME IInv, NEW c \in Clients, UpdateCommit(c) \/ UpdateAbort(c)
    PROVE  Moves(c)
  <1> DEFINE t == call[c].txn
             o == call'[c].outcome
  <1>1. /\ UNCHANGED <<managerVars, update_counter>>
        /\ call[c].pc \in {"committing", "rolling back"} /\ c \in UpdateClients
    BY Evaluates DEF UpdateCommit, UpdateAbort, At
  <1>2. /\ UpdateOK(c) /\ t \in UpdateIds \ LoggedCommits
        /\ t \in Issued /\ t \notin DOMAIN txns
    BY <1>1, UpdateRuns
  <1>3. txns' = txns /\ next_id' = next_id /\ update_counter' = update_counter
    BY <1>1 DEF managerVars
  <1>4. /\ \E T : wal' \in Seq(T)
        /\ DOMAIN pending' = DOMAIN pending \ {t}
        /\ \A u \in DOMAIN pending' : pending'[u] = pending[u]
        /\ \A u : u # t => (u \in LoggedCommits' <=> u \in LoggedCommits)
        /\ Shapes' /\ \A d \in Clients \ {c} : call'[d] = call[d]
        /\ call'[c].txn = t /\ call'[c].pc = "idle"
        /\ o = "ok" => t \in LoggedCommits'
        /\ o \in {"error", "stopped"} => t \notin LoggedCommits'
    <2>1. CASE UpdateCommit(c)
      <3>1. Engine!CommitTransaction(t) /\ Return(c, IF Ok THEN "ok" ELSE "error")
        BY <2>1 DEF UpdateCommit
      <3>2. /\ \E T : wal' \in Seq(T)
            /\ LoggedCommits' = LoggedCommits \cup (IF Ok THEN {t} ELSE {})
            /\ DOMAIN pending' = DOMAIN pending \ {t}
            /\ \A u \in DOMAIN pending' : pending'[u] = pending[u]
        BY <3>1, CommitEffect DEF IInv
      <3>3. /\ Shapes' /\ \A d \in Clients \ {c} : call'[d] = call[d]
            /\ call'[c].txn = t /\ call'[c].pc = "idle"
            /\ o = IF Ok THEN "ok" ELSE "error"
        BY <3>1, ReturnIs DEF IInv
      <3> QED
        BY <1>2, <3>2, <3>3
    <2>2. CASE UpdateAbort(c)
      <3>1. /\ Engine!AbortTransaction(t) /\ Return(c, call[c].outcome)
            /\ call[c].pc = "rolling back"
        BY <2>2 DEF UpdateAbort, At
      <3>2. /\ \E T : wal' \in Seq(T)
            /\ LoggedCommits' = LoggedCommits
            /\ DOMAIN pending' = DOMAIN pending \ {t}
            /\ \A u \in DOMAIN pending' : pending'[u] = pending[u]
        BY <3>1, AbortEffect DEF IInv
      <3>3. /\ Shapes' /\ \A d \in Clients \ {c} : call'[d] = call[d]
            /\ call'[c].txn = t /\ call'[c].pc = "idle"
            /\ o = call[c].outcome
        BY <3>1, ReturnIs DEF IInv
      <3>4. o \in {"error", "stopped"}
        BY <1>2, <3>1, <3>3 DEF UpdateOK
      <3> QED
        BY <1>2, <3>2, <3>3, <3>4
    <2> QED
      BY <2>1, <2>2
  <1>5. Numbers' /\ Issued' = Issued /\ UpdateIds' = UpdateIds
    BY <1>3, <1>4, NumbersStay DEF IInv
  <1> HIDE DEF t
  <1>6. Apart(c)
    BY <1>1, <1>3, <1>4, RunningApart DEF t
  <1>7. CallOK(c)'
    BY <1>1, <1>2, <1>4, <1>5 DEF CallOK, UpdateOK, UpdatePcs
  <1>8. OwnIdOK(c)'
    BY <1>2, <1>3, <1>4, <1>5 DEF OwnIdOK
  <1> QED
    BY <1>4, <1>5, <1>6, <1>7, <1>8 DEF Moves

-----------------------------------------------------------------------------
\* Nobody has called yet.
LEMMA InitInv == Init => IInv
  <1> SUFFICES ASSUME Init PROVE IInv
    OBVIOUS
  <1>1. /\ pending = [t \in {} |-> <<>>] /\ wal = <<>> /\ next_id = 1 /\ update_counter = 0
        /\ txns = [id \in {} |-> "Active"] /\ call = [c \in Clients |-> Idle]
    BY DEF Init, Engine!Init, Manager!Init
  <1>2. /\ Shape(Idle) /\ Idle.pc = "idle" /\ Idle.txn = 0 /\ Idle.staged = FALSE
        /\ Idle.outcome = "none"
    BY IdleIs
  <1>3. \A c \in Clients : call[c] = Idle
    BY <1>1
  <1>4. LoggedCommits = {} /\ DOMAIN pending = {} /\ DOMAIN txns = {} /\ ManagedIds = {}
    BY <1>1 DEF LoggedCommits, ManagedIds
  <1>5. Shapes
    <2>1. call = [c \in Clients |-> call[c]]
      BY <1>1
    <2> QED
      BY <1>2, <1>3, <2>1 DEF Shapes
  <1>6. Numbers
    BY <1>1, <1>4, UpdatesAssumption DEF Numbers
  <1>7. Distinct
    BY <1>2, <1>3 DEF Distinct
  <1>8. \A c \in Clients : CallOK(c)
    BY <1>2, <1>3 DEF CallOK, ManagedOK, UpdateOK, ManagedPcs, UpdatePcs
  <1>9. \A t : IdOK(t)
    BY <1>4 DEF IdOK
  <1> QED
    BY <1>5, <1>6, <1>7, <1>8, <1>9 DEF IInv

\* Every step belongs to one client.
LEMMA NextInv ==
    ASSUME LogKeepsIngest, IInv, [Next]_vars
    PROVE  IInv'
  <1>1. CASE UNCHANGED vars
    <2>1. /\ call' = call /\ pending' = pending /\ wal' = wal /\ txns' = txns
          /\ next_id' = next_id /\ update_counter' = update_counter
      BY <1>1 DEF vars, engineVars, managerVars
    <2>2. /\ Issued' = Issued /\ ManagedIds' = ManagedIds /\ UpdateIds' = UpdateIds
          /\ LoggedCommits' = LoggedCommits
      BY <2>1 DEF Issued, ManagedIds, UpdateIds, LoggedCommits
    <2>3. Shapes' /\ Distinct'
      BY <2>1 DEF IInv, Shapes, Distinct
    <2>4. Numbers'
      BY <2>1, <2>2 DEF IInv, Numbers, Manager!TxnState
    <2>5. \A c \in Clients : CallOK(c)'
      BY <2>1, <2>2 DEF IInv, CallOK, ManagedOK, UpdateOK
    <2>6. \A t : IdOK(t)'
      BY <2>1, <2>2 DEF IInv, IdOK
    <2> QED
      BY <2>3, <2>4, <2>5, <2>6 DEF IInv
  <1>2. ASSUME NEW c \in ServiceClients \cup IngestClients,
               BeginRefused(c) \/ \E ops \in Batches : Begin(c, ops)
        PROVE  IInv'
    <2>1. c \in Clients
      BY DEF Clients
    <2> QED
      BY <1>2, <2>1, RefusedMoves, BeginMoves, Frame
  <1>3. ASSUME NEW c \in UpdateClients, NEW request \in Requests, UpdateBegin(c, request)
        PROVE  IInv'
    <2>1. c \in Clients
      BY DEF Clients
    <2> QED
      BY <1>3, <2>1, UpdateBeginMoves, Frame
  <1>4. ASSUME NEW c \in Clients, Step(c)
        PROVE  IInv'
    <2>1. Moves(c)
      BY <1>4, StageMoves, CommitMoves, UndoMoves, EndMoves, ScanMoves, UpdateStageMoves,
         LeaveMoves, GoesOnMoves, UpdateEndMoves DEF Step
    <2> QED
      BY <2>1, Frame
  <1> QED
    BY <1>1, <1>2, <1>3, <1>4 DEF Next

LEMMA Inductive ==
    ASSUME LogKeepsIngest
    PROVE  Spec => []IInv
  <1>1. IInv /\ [Next]_vars => IInv'
    BY NextInv
  <1> QED
    BY <1>1, InitInv, PTL DEF Spec

-----------------------------------------------------------------------------
\* What a call commits is what it staged: nobody else adds to, commits or
\* drops the pending operations of a call that runs, although updates and
\* the manager number their transactions independently.
THEOREM StagedIntactHolds ==
    ASSUME LogKeepsIngest
    PROVE  Spec => []StagedIntact
  <1>1. IInv => StagedIntact
    <2> SUFFICES ASSUME IInv, NEW c \in Clients, call[c].pc # "idle"
                 PROVE  /\ call[c].pc = "committing" /\ c \notin UpdateClients
                           => call[c].txn \in DOMAIN pending
                              /\ pending[call[c].txn] = call[c].batch
                        /\ c \in UpdateClients /\ call[c].staged
                           => call[c].txn \in DOMAIN pending
      BY DEF StagedIntact, Running, At
    <2> QED
      BY DEF IInv, CallOK, ManagedOK, UpdateOK
  <1> QED
    BY <1>1, Inductive, PTL

\* No call that returned leaves staged operations behind, except an update
\* whose record a failing log refused.
THEOREM NothingLeftStagedHolds ==
    ASSUME LogKeepsIngest
    PROVE  Spec => []NothingLeftStaged
  <1>1. IInv => NothingLeftStaged
    BY DEF IInv, IdOK, NothingLeftStaged, Running, At
  <1> QED
    BY <1>1, Inductive, PTL

\* The active transactions of the manager are those of the calls that run,
\* one slot each.
THEOREM SlotsAccountedHolds ==
    ASSUME LogKeepsIngest
    PROVE  Spec => []SlotsAccounted
  <1>1. IInv => SlotsAccounted
    <2> SUFFICES ASSUME IInv PROVE SlotsAccounted
      OBVIOUS
    <2>1. Manager!ActiveTxns \subseteq {call[c].txn : c \in Running \ UpdateClients}
      BY DEF IInv, IdOK, Manager!ActiveTxns, Manager!InState, Running, At
    <2>2. {call[c].txn : c \in Running \ UpdateClients} \subseteq Manager!ActiveTxns
      BY ManagedRuns DEF Manager!ActiveTxns, Manager!InState, Running, At
    <2>3. ASSUME NEW c \in Running, NEW d \in Running, c # d
          PROVE  call[c].txn # call[d].txn
      <3>1. c \in Clients /\ d \in Clients /\ call[c].pc # "idle"
        BY DEF Running, At
      <3>2. call[c].txn # 0
        <4>1. call[c].txn \in Issued
          BY <3>1, ManagedRuns, UpdateRuns
        <4>2. 0 \notin Issued
          <5>1. UpdateOffset \in Nat \ {0} /\ UpdateOffset + update_counter - 1 \in Int
                /\ next_id - 1 \in Int /\ 1 \in Nat \ {0}
            BY OffsetAssumption, UpdatesAssumption DEF IInv, Numbers
          <5> QED
            BY <5>1, ZeroOutside DEF Issued, ManagedIds, UpdateIds
        <4> QED
          BY <4>1, <4>2
      <3> QED
        BY <2>3, <3>1, <3>2 DEF IInv, Distinct
    <2> QED
      BY <2>1, <2>2, <2>3 DEF SlotsAccounted
  <1> QED
    BY <1>1, Inductive, PTL

\* Without ingests, and whichever records the log refuses, a call that ended
\* holds neither a slot nor staged operations (commit_write_operations).
THEOREM NothingLeftBehindHolds ==
    ASSUME LogKeepsIngest
    PROVE  Spec => []NothingLeftBehind
  BY NothingLeftStagedHolds, SlotsAccountedHolds, PTL DEF NothingLeftBehind

\* Log, manager and answers agree, but for the moment between the commit of
\* the storage and the commit of the manager.
THEOREM OutcomesAgreeHolds ==
    ASSUME LogKeepsIngest
    PROVE  Spec => []OutcomesAgree
  <1>1. IInv => OutcomesAgree
    <2> SUFFICES ASSUME IInv PROVE OutcomesAgree
      OBVIOUS
    <2>1. ASSUME NEW t \in DOMAIN txns
          PROVE  t \in LoggedCommits <=> \/ txns[t] = "Committed"
                                         \/ \E c \in Clients : At(c, "stored") /\ call[c].txn = t
      BY DEF IInv, IdOK, At
    <2>2. ASSUME NEW c \in Clients \ Running
          PROVE  /\ call[c].outcome = "ok" /\ (c \in UpdateClients => call[c].staged)
                    => call[c].txn \in LoggedCommits
                 /\ call[c].outcome \in {"error", "stopped"} => call[c].txn \notin LoggedCommits
      <3>1. c \in Clients /\ call[c].pc = "idle" /\ CallOK(c)
        BY DEF Running, At, IInv
      <3> QED
        BY <3>1 DEF CallOK, ManagedOK, UpdateOK
    <2> QED
      BY <2>1, <2>2 DEF OutcomesAgree
  <1> QED
    BY <1>1, Inductive, PTL
=============================================================================
