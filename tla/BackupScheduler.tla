-------------------------- MODULE BackupScheduler ---------------------------
(* The backups of the management plane: administrators ask for one or set the schedule, and a thread,    *)
(* spawned once, sleeps and looks whether one is due.  A run of a backup and its entry in the history are  *)
(* two steps, which other runs come between.  Instead of a clock every entry has its age.                  *)
EXTENDS Integers, SequencesExt

CONSTANTS
    Admins,         \* concurrent requests
    Intervals,      \* the intervals they set, in seconds
    HistoryCap,     \* BACKUP_RUN_HISTORY_CAP
    MaxAge          \* ages count up to this bound, above every interval

\* An interval of zero is refused.
ASSUME BackupAssumption == Intervals # {} /\ Intervals \subseteq Nat \ {0}

VARIABLES
    base,               \* a base directory is configured
    schedule,           \* BackupManager.schedule
    scheduler_started,
    runs,               \* BackupManager.runs, newest first
    scheduler,          \* the threads spawned: where each one is
    admin               \* what each administrator's request is at

backupVars == <<base, schedule, scheduler_started, runs, scheduler, admin>>

Idle == [pc |-> "idle"]
Asleep(seconds) == [pc |-> "sleeping", left |-> seconds]
Reading == [pc |-> "reading"]
Older(age) == IF age < MaxAge THEN age + 1 ELSE age

\* What a run of a backup leaves to be recorded.
Recording(age, ok, interval) == [pc |-> "recording", age |-> age, ok |-> ok, interval |-> interval]

\* run starts the scheduler when an interval is configured.
BackupInit ==
    /\ base \in BOOLEAN
    /\ schedule \in {[enabled |-> FALSE, interval |-> 0]} \union {[enabled |-> TRUE, interval |-> n] : n \in Intervals}
    /\ scheduler_started = schedule.enabled
    /\ scheduler = IF scheduler_started THEN <<Reading>> ELSE <<>>
    /\ runs = <<>>
    /\ admin = [a \in Admins |-> Idle]

-----------------------------------------------------------------------------
(* requests *)

\* admin_data_backup_schedule: the schedule first, the thread afterwards.
SetSchedule(a, enabled, interval) ==
    /\ admin[a] = Idle
    /\ schedule' = [enabled |-> enabled, interval |-> interval]
    /\ admin' = [admin EXCEPT ![a] = IF enabled THEN [pc |-> "spawning"] ELSE Idle]
    /\ UNCHANGED <<base, scheduler_started, runs, scheduler>>

SpawnScheduler(a) ==
    /\ admin[a].pc = "spawning"
    /\ scheduler_started' = TRUE
    /\ scheduler' = IF scheduler_started THEN scheduler ELSE Append(scheduler, Reading)
    /\ admin' = [admin EXCEPT ![a] = Idle]
    /\ UNCHANGED <<base, schedule, runs>>

\* run_backup: without a base directory it fails and records nothing.
RunBackup(a) ==
    /\ admin[a] = Idle /\ base
    /\ \E ok \in BOOLEAN : admin' = [admin EXCEPT ![a] = Recording(0, ok, 0)]
    /\ UNCHANGED <<base, schedule, scheduler_started, runs, scheduler>>

Recorded(run) == runs' = SubSeq(<<[age |-> run.age, ok |-> run.ok]>> \o runs, 1, IF Len(runs) < HistoryCap THEN Len(runs) + 1 ELSE HistoryCap)

RecordRun(a) ==
    /\ admin[a].pc = "recording"
    /\ Recorded(admin[a])
    /\ admin' = [admin EXCEPT ![a] = Idle]
    /\ UNCHANGED <<base, schedule, scheduler_started, scheduler>>

-----------------------------------------------------------------------------
(* the thread *)

ThreadAt(i, pc) == i \in DOMAIN scheduler /\ scheduler[i].pc = pc
ThreadGoes(i, state) == scheduler' = [scheduler EXCEPT ![i] = state]

\* A slip a change of the code could make, for the mutation runs.
LeaveWhenDisabled == [pc |-> "left"]

WhenDisabled == Asleep(1)
ReadSchedule(i) ==
    /\ ThreadAt(i, "reading")
    /\ ThreadGoes(i, IF schedule.enabled THEN [pc |-> "looking", interval |-> schedule.interval] ELSE WhenDisabled)
    /\ UNCHANGED <<base, schedule, scheduler_started, runs, admin>>

Due(interval) == runs = <<>> \/ Head(runs).age >= interval
LookAtRuns(i) ==
    /\ ThreadAt(i, "looking")
    /\ LET interval == scheduler[i].interval
       IN  ThreadGoes(i, IF Due(interval) THEN [pc |-> "running", interval |-> interval] ELSE Asleep(interval))
    /\ UNCHANGED <<base, schedule, scheduler_started, runs, admin>>

SchedulerRuns(i) ==
    /\ ThreadAt(i, "running")
    /\ IF base THEN \E ok \in BOOLEAN : ThreadGoes(i, Recording(0, ok, scheduler[i].interval)) ELSE ThreadGoes(i, Asleep(scheduler[i].interval))
    /\ UNCHANGED <<base, schedule, scheduler_started, runs, admin>>

SchedulerRecords(i) ==
    /\ ThreadAt(i, "recording")
    /\ Recorded(scheduler[i])
    /\ ThreadGoes(i, Asleep(scheduler[i].interval))
    /\ UNCHANGED <<base, schedule, scheduler_started, admin>>

Wakes(i) ==
    /\ ThreadAt(i, "sleeping") /\ scheduler[i].left = 0
    /\ ThreadGoes(i, Reading)
    /\ UNCHANGED <<base, schedule, scheduler_started, runs, admin>>

\* A second passes.
Ages(task) == IF task.pc = "recording" THEN [task EXCEPT !.age = Older(@)] ELSE task
Second ==
    /\ runs' = [n \in DOMAIN runs |-> [runs[n] EXCEPT !.age = Older(@)]]
    /\ admin' = [a \in Admins |-> Ages(admin[a])]
    /\ scheduler' = [i \in DOMAIN scheduler |->
                        IF scheduler[i].pc = "sleeping" /\ scheduler[i].left > 0 THEN [scheduler[i] EXCEPT !.left = @ - 1] ELSE Ages(scheduler[i])]
    /\ UNCHANGED <<base, schedule, scheduler_started>>

SchedulerStep == \E i \in DOMAIN scheduler : ReadSchedule(i) \/ LookAtRuns(i) \/ SchedulerRuns(i) \/ SchedulerRecords(i) \/ Wakes(i)
RequestsEnd == \E a \in Admins : SpawnScheduler(a) \/ RecordRun(a)
BackupNext ==
    \/ \E a \in Admins : RunBackup(a) \/ \E enabled \in BOOLEAN, interval \in Intervals : SetSchedule(a, enabled, interval)
    \/ RequestsEnd \/ SchedulerStep \/ Second

BackupSpec == BackupInit /\ [][BackupNext]_backupVars

\* Time passes, the thread is scheduled and requests end.
BackupFairness == WF_backupVars(Second) /\ WF_backupVars(SchedulerStep) /\ WF_backupVars(RequestsEnd)

-----------------------------------------------------------------------------
(* properties *)

\* There is one thread at most, however many requests enable the schedule at once, and it is not slower to
\* look than the longest interval anybody set (spawn_scheduler).
OneScheduler == Len(scheduler) <= 1 /\ \A i \in DOMAIN scheduler : scheduler[i].pc = "sleeping" => \E n \in Intervals : scheduler[i].left <= n

\* With a schedule that stays enabled, backups are run again and again, whatever was set before it, whether
\* they succeed or fail, and although the thread may have been asleep or the schedule disabled for long.  How
\* late they come is not said, and an administrator's backup counts: it puts off the thread's next one.
Running == (\E i \in DOMAIN scheduler : scheduler[i].pc = "recording") \/ \E a \in Admins : admin[a].pc = "recording"
BackupsRecur == (base /\ <>[](schedule.enabled)) => []<>Running
=============================================================================
