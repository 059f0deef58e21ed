----------------------------- MODULE RaftStore -----------------------------
(* The `raft` column family of one node, crates/ontolith-cluster/src/infrastructure/raft/rocks_store.rs. *)
(* openraft (external) calls the store under one lock; a call that writes the column family several     *)
(* times is several steps, and a crash, or a write that fails, may fall between any two: openraft stops, *)
(* and a new process goes on from what is stored.  The snapshot builder holds a handle of its own and   *)
(* runs beside the other calls, so each of its three reads is a step.  openraft numbers its entries     *)
(* from 0 and cuts back or purges only what its contract allows: never what is committed, never what no *)
(* snapshot covers.  An id is [idx, term]; an entry keeps its term and whether it is a membership.       *)
EXTENDS Integers, FiniteSets

CONSTANTS MaxIdx, MaxTerm, MaxCrashes, Absent    \* bounds, and the value of a key that is not there

ASSUME StoreAssumption == {MaxIdx, MaxTerm, MaxCrashes} \subseteq Nat /\ Absent \notin [idx : Nat, term : Nat]

VARIABLES
    vote,           \* vote: its term, 0 before the first
    logs,           \* log/<idx> -> [term, member]
    logLast,        \* log_last
    lastPurged,     \* last_purged
    committed,      \* committed: an index, -1 before the first
    appliedLog,     \* applied/<idx> -> [term, member]
    lastApplied,    \* last_applied
    membership,     \* index of the membership entry in force, -1 before the first
    snapshot,       \* snapshot_meta and snapshot_data: [last, member, data], or Absent
    builder,        \* what a running snapshot build has read, or Absent
    todo,           \* the writes a call has left: <<>> or <<name, id>>
    up, top,        \* openraft: past its start-up, and the index of the last entry it knows of
    crashes,        \* crashes so far
    unbacked,       \* history: entries openraft knows of that a torn cut took, or that log_last leaves out
    unmarked,       \* history: entries a torn purge took that last_purged does not cover
    gaps            \* history: the applied entries that an installed snapshot lacked

logVars == <<vote, logs, logLast, lastPurged, committed>>
appliedVars == <<appliedLog, lastApplied, membership, gaps>>
buildVars == <<snapshot, builder>>
nodeVars == <<up, top, crashes>>
storeVars == <<logVars, appliedVars, buildVars, nodeVars, todo, unbacked, unmarked>>

Id(i, t) == [idx |-> i, term |-> t]
IdxOf(id) == IF id = Absent THEN -1 ELSE id.idx
Cut(f, keep) == [i \in DOMAIN f \intersect keep |-> f[i]]
Put(f, g) == [i \in DOMAIN f \union DOMAIN g |-> IF i \in DOMAIN g THEN g[i] ELSE f[i]]
Larger(i, j) == IF i > j THEN i ELSE j
Free == up /\ todo = <<>>
Doing(call) == todo # <<>> /\ todo[1] = call

\* Every applied entry, also those an installed snapshot lacked; and how far the node knows to be committed.
Applied == Put(gaps, appliedLog)
KnownCommitted == Larger(committed, IdxOf(lastApplied))

StoreInit ==
    /\ vote = 0 /\ logs = <<>> /\ logLast = Absent /\ lastPurged = Absent /\ committed = -1
    /\ appliedLog = <<>> /\ lastApplied = Absent /\ membership = -1 /\ gaps = <<>>
    /\ snapshot = Absent /\ builder = Absent /\ todo = <<>>
    /\ up = FALSE /\ top = -1 /\ crashes = 0 /\ unbacked = {} /\ unmarked = {}

\* get_log_state: what openraft starts from when the process does.
StoredLast == IF logLast # Absent THEN logLast ELSE lastPurged

\* save_vote: openraft saves a term before it takes or sends an entry of it.
SaveVote(t) ==
    /\ Free /\ vote < t
    /\ vote' = t
    /\ UNCHANGED <<logs, logLast, lastPurged, committed, appliedVars, buildVars, nodeVars, todo, unbacked, unmarked>>

\* append_to_log: the entry and log_last in one batch.
AppendToLog(t, member) ==
    /\ Free /\ top < MaxIdx /\ t <= vote
    /\ \A i \in DOMAIN logs : i <= top => logs[i].term <= t
    /\ lastPurged # Absent => lastPurged.term <= t
    /\ top = -1 => member
    /\ logs' = Put(logs, [i \in {top + 1} |-> [term |-> t, member |-> member]])
    /\ logLast' = Id(top + 1, t)
    /\ top' = top + 1 /\ unbacked' = unbacked \ DOMAIN logs'
    /\ UNCHANGED <<vote, lastPurged, committed, appliedVars, buildVars, up, crashes, todo, unmarked>>

\* save_committed: openraft's knowledge of the commit index, which it may also be late to save.  What the
\* cluster has committed at the index of a membership in force is that membership.
SaveCommitted(i) ==
    /\ Free /\ KnownCommitted < i /\ i <= top
    /\ membership \in DOMAIN logs /\ membership > IdxOf(lastApplied) /\ membership <= i => logs[membership].member
    /\ committed' = i
    /\ UNCHANGED <<vote, logs, logLast, lastPurged, appliedVars, buildVars, nodeVars, todo, unbacked, unmarked>>

\* delete_conflict_logs_since, first write: the entries from idx on are gone.
DeleteConflictLogs(i) ==
    /\ Free /\ KnownCommitted < i /\ i <= top
    /\ logs' = Cut(logs, 0..(i - 1))
    /\ todo' = <<"conflict", Id(i, 0)>>
    /\ unbacked' = {j \in unbacked : j < i}
    /\ UNCHANGED <<vote, logLast, lastPurged, committed, appliedVars, buildVars, nodeVars, unmarked>>

\* ... second write: log_last becomes the entry before, or what was purged.  With nothing purged the
\* comparison takes entry 0 for the purged one: a log cut back to entry 0 loses its log_last.
PurgedIdx == IF lastPurged = Absent THEN 0 ELSE lastPurged.idx

\* For the mutant of LogStateTrue: the entry that was cut is taken for the last one.
DeleteConflictLastCut ==
    /\ Doing("conflict")
    /\ todo' = <<>> /\ top' = todo[2].idx - 1
    /\ UNCHANGED <<logVars, appliedVars, buildVars, up, crashes, unbacked, unmarked>>

DeleteConflictLast ==
    /\ Doing("conflict")
    /\ LET i == todo[2].idx
       IN  /\ logLast' = IF i > PurgedIdx + 1 /\ i - 1 \in DOMAIN logs THEN Id(i - 1, logs[i - 1].term) ELSE lastPurged
           /\ top' = i - 1
    /\ todo' = <<>>
    /\ UNCHANGED <<vote, logs, lastPurged, committed, appliedVars, buildVars, up, crashes, unbacked, unmarked>>

\* purge_logs_upto: three writes: the entries, last_purged, log_last.  A running openraft purges what a
\* snapshot covers; a starting one what it applied, when the log it was told of ends before that.
MayPurge(i) ==
    \/ up /\ IdxOf(lastPurged) <= i /\ i <= top /\ i <= IdxOf(lastApplied) /\ snapshot # Absent /\ i <= snapshot.last.idx
    \/ ~up /\ i = IdxOf(lastApplied) /\ committed <= i /\ top < i

\* For the mutant of CommittedKept: the bound of the range is taken one too far.
PurgeLogsTooFar(i) ==
    /\ todo = <<>> /\ MayPurge(i)
    /\ logs' = Cut(logs, (i + 2)..MaxIdx)
    /\ todo' = <<"purge", Id(i, Applied[i].term)>>
    /\ UNCHANGED <<vote, logLast, lastPurged, committed, appliedVars, buildVars, nodeVars, unbacked, unmarked>>

PurgeLogs(i) ==
    /\ todo = <<>> /\ MayPurge(i)
    /\ logs' = Cut(logs, (i + 1)..MaxIdx)
    /\ todo' = <<"purge", Id(i, Applied[i].term)>>
    /\ UNCHANGED <<vote, logLast, lastPurged, committed, appliedVars, buildVars, nodeVars, unbacked, unmarked>>

PurgeMark ==
    /\ Doing("purge")
    /\ lastPurged' = todo[2] /\ todo' = <<"purged", todo[2]>>
    /\ unmarked' = {j \in unmarked : j > todo[2].idx}
    /\ UNCHANGED <<vote, logs, logLast, committed, appliedVars, buildVars, nodeVars, unbacked>>

PurgeLast ==
    /\ Doing("purged")
    /\ logLast' = IF IdxOf(logLast) > todo[2].idx THEN logLast ELSE todo[2]
    /\ todo' = <<>> /\ top' = Larger(top, todo[2].idx)
    /\ UNCHANGED <<vote, logs, lastPurged, committed, appliedVars, buildVars, up, crashes, unbacked, unmarked>>

\* apply_to_state_machine: the entries up to i, last_applied and the memberships among them in one batch;
\* a starting openraft applies again what the last process did not get to.
ApplyUpTo(i) ==
    /\ todo = <<>> /\ IdxOf(lastApplied) < i /\ i <= committed
    /\ LET new == (IdxOf(lastApplied) + 1)..i
           members == {j \in new : logs[j].member}
       IN  /\ new \subseteq DOMAIN logs
           /\ appliedLog' = Put(appliedLog, Cut(logs, new))
           /\ lastApplied' = Id(i, logs[i].term)
           /\ membership' = IF members = {} THEN membership ELSE CHOOSE j \in members : \A k \in members : k <= j
    /\ UNCHANGED <<logVars, gaps, buildVars, nodeVars, todo, unbacked, unmarked>>

\* openraft has read what is stored and applied what is committed, and takes up its work.
StartUp ==
    /\ ~up /\ todo = <<>> /\ committed <= IdxOf(lastApplied) /\ IdxOf(lastApplied) <= top
    /\ up' = TRUE
    /\ UNCHANGED <<logVars, appliedVars, buildVars, top, crashes, todo, unbacked, unmarked>>

----------------------------------------------------------------------------
(* build_snapshot: the applied entries, then last_applied, then the membership, then one batch. *)

\* For the mutant of SnapshotIsPrefix: the scan's upper bound lets log entries in.
ScanAppliedAndLog ==
    /\ up /\ builder = Absent /\ lastApplied # Absent
    /\ builder' = [step |-> 1, data |-> Put(logs, appliedLog), last |-> Absent, member |-> -1]
    /\ UNCHANGED <<logVars, appliedVars, snapshot, nodeVars, todo, unbacked, unmarked>>

ScanApplied ==
    /\ up /\ builder = Absent /\ lastApplied # Absent
    /\ builder' = [step |-> 1, data |-> appliedLog, last |-> Absent, member |-> -1]
    /\ UNCHANGED <<logVars, appliedVars, snapshot, nodeVars, todo, unbacked, unmarked>>

ReadLastApplied ==
    /\ builder # Absent /\ builder.step = 1
    /\ builder' = [builder EXCEPT !.step = 2, !.last = lastApplied]
    /\ UNCHANGED <<logVars, appliedVars, snapshot, nodeVars, todo, unbacked, unmarked>>

ReadMembership ==
    /\ builder # Absent /\ builder.step = 2
    /\ builder' = [builder EXCEPT !.step = 3, !.member = membership]
    /\ UNCHANGED <<logVars, appliedVars, snapshot, nodeVars, todo, unbacked, unmarked>>

WriteSnapshot ==
    /\ builder # Absent /\ builder.step = 3
    /\ snapshot' = [last |-> builder.last, member |-> builder.member, data |-> builder.data]
    /\ builder' = Absent
    /\ UNCHANGED <<logVars, appliedVars, nodeVars, todo, unbacked, unmarked>>

\* What the cluster has committed up to i, as far as the node can tell: an entry it does not know has the
\* term t, and is a membership if it is the first one or the one the snapshot names.
Committed(i, t, m) ==
    [j \in 0..i |-> IF j \in DOMAIN Applied THEN Applied[j]
                    ELSE IF j \in DOMAIN logs /\ (j <= committed \/ i <= top) THEN logs[j]
                    ELSE [term |-> t, member |-> j \in {0, m}]]

\* openraft installs a snapshot only past its commit index, on a log that ends before it or agrees with it.
\* build_snapshot reads the entries first, so it may lack some up to the id it claims, and the membership
\* last, so that may be of an entry behind it.
MayInstall(i, t, m) ==
    /\ KnownCommitted < i /\ t <= vote
    /\ top < i \/ (i \in DOMAIN logs /\ logs[i].term = t)
    /\ \A j \in DOMAIN logs : j <= i => logs[j].term <= t
    /\ m <= i => Committed(i, t, m)[m].member
    /\ \A j \in 0..i : Committed(i, t, m)[j].member => j <= m

\* install_snapshot: one batch replaces the applied entries, last_applied, the membership, both ends of
\* the log and the snapshot, and leaves the log entries for the purge that follows.
\* For the mutant of AppliedWhole: the applied entries of the node stay where the snapshot has none.
InstallSnapshotKeeping(i, t, have, m) ==
    /\ Free /\ MayInstall(i, t, m)
    /\ LET whole == Committed(i, t, m)
       IN  /\ appliedLog' = Put(appliedLog, Cut(whole, have)) /\ gaps' = Cut(whole, (0..i) \ have)
           /\ snapshot' = [last |-> Id(i, t), member |-> m, data |-> Cut(whole, have)]
    /\ lastApplied' = Id(i, t) /\ membership' = m /\ logLast' = Id(i, t) /\ lastPurged' = Id(i, t)
    /\ top' = Larger(top, i) /\ unbacked' = (i + 1)..top /\ unmarked' = {}
    /\ UNCHANGED <<vote, logs, committed, builder, up, crashes, todo>>

InstallSnapshot(i, t, have, m) ==
    /\ Free /\ MayInstall(i, t, m)
    /\ LET whole == Committed(i, t, m)
       IN  /\ appliedLog' = Cut(whole, have) /\ gaps' = Cut(whole, (0..i) \ have)
           /\ snapshot' = [last |-> Id(i, t), member |-> m, data |-> Cut(whole, have)]
    /\ lastApplied' = Id(i, t) /\ membership' = m /\ logLast' = Id(i, t) /\ lastPurged' = Id(i, t)
    /\ top' = Larger(top, i) /\ unbacked' = (i + 1)..top /\ unmarked' = {}
    /\ UNCHANGED <<vote, logs, committed, builder, up, crashes, todo>>

\* A crash ends a build and whatever call was running; a torn call is never taken up again, and the next
\* process believes what the store tells it of the end of the log.
Crash ==
    /\ crashes < MaxCrashes
    /\ crashes' = crashes + 1 /\ builder' = Absent /\ todo' = <<>> /\ up' = FALSE
    /\ top' = IdxOf(StoredLast)
    /\ unbacked' = IF Doing("conflict") THEN unbacked \union todo[2].idx..IdxOf(StoredLast) ELSE unbacked
    /\ unmarked' = IF Doing("purge") THEN unmarked \union (IdxOf(lastPurged) + 1)..todo[2].idx ELSE unmarked
    /\ UNCHANGED <<logVars, appliedVars, snapshot>>

Operations ==
    \/ \E t \in 1..MaxTerm : SaveVote(t) \/ \E member \in BOOLEAN : AppendToLog(t, member)
    \/ \E i \in 0..MaxIdx : SaveCommitted(i) \/ DeleteConflictLogs(i) \/ PurgeLogs(i) \/ ApplyUpTo(i)
    \/ DeleteConflictLast \/ PurgeMark \/ PurgeLast \/ StartUp
    \/ ScanApplied \/ ReadLastApplied \/ ReadMembership \/ WriteSnapshot \/ Crash

StoreNext ==
    \/ Operations
    \/ \E i, m \in 0..MaxIdx, t \in 1..MaxTerm : \E have \in SUBSET (0..i) : InstallSnapshot(i, t, have, m)

StoreSpec == StoreInit /\ [][StoreNext]_storeVars

----------------------------------------------------------------------------
(* What the store promises openraft. *)

\* Whenever no call is running, also right after a crash, get_log_state gives the id of the last entry, and
\* the entries up to it are all there after what was purged.  Excepted are the entries that the history
\* names: what a crash inside delete_conflict_logs_since or purge_logs_upto took while the other keys still
\* name it, and what lies behind an installed snapshot, whose end log_last becomes.  A log cut back to entry
\* 0 before anything was purged has lost its last id.
LogStateTrue ==
    todo = <<>> =>
        /\ \A i \in (IdxOf(lastPurged) + 1)..top : i \in DOMAIN logs \union unbacked \union unmarked
        /\ IdxOf(StoredLast) = top \/ top \in unbacked \union unmarked \/ (StoredLast = Absent /\ top = 0)
        /\ StoredLast # Absent /\ StoredLast.idx \in DOMAIN logs /\ StoredLast.idx > IdxOf(lastPurged) =>
              StoredLast.term = logs[StoredLast.idx].term

\* At every moment, also after a crash inside a call, the applied entries are those up to last_applied but
\* the ones an installed snapshot lacked, they are the entries of the log where it still has them, and the
\* membership in force is the last one among them, or one a snapshot brought from behind its own end.
AppliedWhole ==
    /\ DOMAIN appliedLog \union DOMAIN gaps = 0..IdxOf(lastApplied) /\ DOMAIN appliedLog \intersect DOMAIN gaps = {}
    /\ \A i \in DOMAIN appliedLog \intersect DOMAIN logs : i > IdxOf(lastPurged) => appliedLog[i] = logs[i]
    /\ lastApplied # Absent /\ membership <= IdxOf(lastApplied) => membership \in DOMAIN Applied /\ Applied[membership].member
    /\ \A i \in DOMAIN Applied : Applied[i].member => i <= membership

\* No committed entry is lost: each is still in the log, or applied; or a torn cut had already taken it when
\* openraft counted it among what it stores.
CommittedKept == \A i \in 0..committed : i \in DOMAIN logs \union DOMAIN Applied \union unbacked

\* A snapshot holds a beginning of the applied entries and never claims less than it holds.
SnapshotIsPrefix ==
    snapshot # Absent =>
        /\ snapshot.last.idx <= IdxOf(lastApplied)
        /\ DOMAIN snapshot.data \subseteq 0..snapshot.last.idx
        /\ \A i \in DOMAIN snapshot.data : snapshot.data[i] = Applied[i]

\* The saved vote covers every entry the store holds, over crashes: the node never votes in a term of which
\* it holds an entry already.
VoteCovers ==
    /\ \A i \in DOMAIN logs : logs[i].term <= vote
    /\ \A i \in DOMAIN Applied : Applied[i].term <= vote

\* What the store holds is what openraft gave it, also in the middle of a call and after a crash there, but
\* for what the histories name.
StoreSafe == LogStateTrue /\ AppliedWhole /\ CommittedKept /\ SnapshotIsPrefix /\ VoteCovers
=============================================================================
