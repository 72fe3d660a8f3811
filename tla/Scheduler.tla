------------------------------- MODULE Scheduler -------------------------------
(***************************************************************************)
(* The in-process maintenance loop.  Every backend process polls for due   *)
(* jobs; the schedule lives in the run log and in the organization settings*)
(* and not in any process, so that several processes share it, a restart   *)
(* loses nothing, and a CSV restore can shut all of them out.              *)
(*                                                                         *)
(* Time is counted in polling intervals: a day and a slot of that day.     *)
(* One interval is also what the conflict check keeps between two runs.    *)
(***************************************************************************)
EXTENDS Integers, Sequences

CONSTANTS
  Workers,       \* backend processes
  Restorer,      \* the request that restores a CSV archive
  Jobs,          \* scheduled jobs
  ConflictCheck, \* the job that runs every interval; the others run daily
  JobOrder,      \* order a cycle goes through the jobs
  RestoreOrder,  \* order the restore locks them: by name
  SlotsPerDay, LastDay,
  MaintenanceHours,  \* values of the maintenance hour
  Free, Never,   \* a job lock nobody holds, a job that never succeeded
  MaxEdits,      \* bound: settings edits and restores
  MaxFaults      \* bound: failing jobs and dying processes

ASSUME OrdersAssumption ==
  /\ JobOrder \in Seq(Jobs) /\ RestoreOrder \in Seq(Jobs)
  /\ \A j \in Jobs : \E k \in DOMAIN RestoreOrder : RestoreOrder[k] = j
ASSUME TimeAssumption ==
  /\ SlotsPerDay \in Nat \ {0} /\ LastDay \in Nat
  /\ MaintenanceHours \subseteq 0 .. SlotsPerDay - 1
ASSUME BoundsAssumption == MaxEdits \in Nat /\ MaxFaults \in Nat

Time == [day : 0 .. LastDay, slot : 0 .. SlotsPerDay - 1]
ASSUME NamesAssumption == /\ Restorer \notin Workers
                          /\ Free \notin Workers \cup {Restorer}
                          /\ Never \notin Time

Settings == [enabled : BOOLEAN, hour : MaintenanceHours]

VARIABLES
  clock,     \* UTC now
  settings,  \* organization_settings: scheduler_enabled, maintenance_hour
  success,   \* run log: when each job last finished successfully
  jobLock,   \* advisory lock of each job
  pc, index, \* where a worker is in its cycle, and at which job
  moment,    \* what a worker took for now when its cycle started
  known,     \* the settings a worker last read
  restore,   \* where the CSV restore is
  lockedBy,  \* how many job locks the restore has taken
  quiet,     \* history: a restore switched the jobs off, nobody switched them on
  edits, faults  \* counters for the bounds

shared == <<settings, success>>
worker == <<pc, index, moment, known>>
restorer == <<restore, lockedBy>>
vars == <<clock, shared, jobLock, worker, restorer, quiet, edits, faults>>

-----------------------------------------------------------------------------
\* When a job is due.

Earlier(t, u) == t.day < u.day \/ (t.day = u.day /\ t.slot < u.slot)

\* is_due of job_schedule: once per calendar day after the configured hour.
IsDaily(at, last, hour) ==
  at.slot >= hour /\ (last = Never \/ last.day < at.day)

\* _job_due: the conflict check ignores the hour and counts elapsed time.
JobDue(j, at, last, s) ==
  /\ s.enabled
  /\ IF j = ConflictCheck THEN last = Never \/ Earlier(last, at)
                          ELSE IsDaily(at, last, s.hour)

Now(w) == JobOrder[index[w]]

Init ==
  /\ clock = [day |-> 0, slot |-> 0]
  /\ settings \in Settings
  /\ success = [j \in Jobs |-> Never]
  /\ jobLock = [j \in Jobs |-> Free]
  /\ pc = [w \in Workers |-> "asleep"]
  /\ index = [w \in Workers |-> 1]
  /\ moment = [w \in Workers |-> clock]
  /\ known = [w \in Workers |-> settings]
  /\ restore = "idle" /\ lockedBy = 0
  /\ quiet = FALSE
  /\ edits = 0 /\ faults = 0

-----------------------------------------------------------------------------
\* run_due_jobs.

At(w, label) == pc[w] = label
GoTo(w, label) == pc' = [pc EXCEPT ![w] = label]

\* The next job of the cycle, or sleep until the next one.
Continue(w) ==
  /\ GoTo(w, IF index[w] = Len(JobOrder) THEN "asleep" ELSE "looking")
  /\ index' = [index EXCEPT ![w] = IF @ = Len(JobOrder) THEN 1 ELSE @ + 1]

\* Mutant: unlocked on another connection than the one that holds the lock.
UnlockElsewhere(w, j) == UNCHANGED jobLock
Unlock(w, j) == jobLock' = [jobLock EXCEPT ![j] = Free]

Wake(w) ==
  /\ At(w, "asleep")
  /\ JobOrder # <<>>
  /\ GoTo(w, "looking")
  /\ moment' = [moment EXCEPT ![w] = clock]
  /\ known' = [known EXCEPT ![w] = settings]
  /\ UNCHANGED <<clock, shared, jobLock, index, restorer, quiet, edits, faults>>

Look(w) ==
  /\ At(w, "looking")
  /\ IF JobDue(Now(w), moment[w], success[Now(w)], known[w])
       THEN GoTo(w, "asking") /\ UNCHANGED index
       ELSE Continue(w)
  /\ UNCHANGED <<clock, shared, jobLock, moment, known, restorer, quiet, edits, faults>>

\* Mutant: a lock somebody else holds is taken all the same.
TakeLockHeld(w) ==
  /\ At(w, "asking")
  /\ jobLock' = [jobLock EXCEPT ![Now(w)] = w]
  /\ GoTo(w, "checking")
  /\ UNCHANGED <<clock, shared, index, moment, known, restorer, quiet, edits, faults>>

\* pg_try_advisory_lock: skip the job this time rather than wait.
TryLock(w) ==
  /\ At(w, "asking")
  /\ IF jobLock[Now(w)] = Free
       THEN /\ jobLock' = [jobLock EXCEPT ![Now(w)] = w]
            /\ GoTo(w, "checking") /\ UNCHANGED index
       ELSE Continue(w) /\ UNCHANGED jobLock
  /\ UNCHANGED <<clock, shared, moment, known, restorer, quiet, edits, faults>>

\* Mutant: the settings are read again, the last success is not.
RecheckSettingsOnly(w) ==
  /\ At(w, "checking")
  /\ known' = [known EXCEPT ![w] = settings]
  /\ IF settings.enabled THEN GoTo(w, "starting") /\ UNCHANGED <<index, jobLock>>
                         ELSE Continue(w) /\ Unlock(w, Now(w))
  /\ UNCHANGED <<clock, shared, moment, restorer, quiet, edits, faults>>

\* Mutant: the last success is read again, the settings are not.
RecheckSuccessOnly(w) ==
  /\ At(w, "checking")
  /\ IF JobDue(Now(w), moment[w], success[Now(w)], known[w])
       THEN GoTo(w, "starting") /\ UNCHANGED <<index, jobLock>>
       ELSE Continue(w) /\ Unlock(w, Now(w))
  /\ UNCHANGED <<clock, shared, moment, known, restorer, quiet, edits, faults>>

\* Settings and last success are read again under the lock; now is not.
Recheck(w) ==
  /\ At(w, "checking")
  /\ known' = [known EXCEPT ![w] = settings]
  /\ IF JobDue(Now(w), moment[w], success[Now(w)], settings)
       THEN GoTo(w, "starting") /\ UNCHANGED <<index, jobLock>>
       ELSE Continue(w) /\ Unlock(w, Now(w))
  /\ UNCHANGED <<clock, shared, moment, restorer, quiet, edits, faults>>

\* _record_start commits the running row, then the job runs.
StartJob(w) ==
  /\ At(w, "starting")
  /\ GoTo(w, "running")
  /\ UNCHANGED <<clock, shared, jobLock, index, moment, known, restorer, quiet, edits, faults>>

FinishJob(w) ==
  /\ At(w, "running")
  /\ success' = [success EXCEPT ![Now(w)] = clock]
  /\ Unlock(w, Now(w))
  /\ Continue(w)
  /\ UNCHANGED <<clock, settings, moment, known, restorer, quiet, edits, faults>>

Fault == faults < MaxFaults /\ faults' = faults + 1

\* The job, or recording its success, raises: recorded as failed, the cycle goes on.
FailJob(w) ==
  /\ At(w, "running") /\ Fault
  /\ Unlock(w, Now(w))
  /\ Continue(w)
  /\ UNCHANGED <<clock, shared, moment, known, restorer, quiet, edits>>

\* The process dies or loses the database: the lock goes with its connection.
Die(w) ==
  /\ ~At(w, "asleep") /\ Fault
  /\ GoTo(w, "asleep")
  /\ index' = [index EXCEPT ![w] = 1]
  /\ jobLock' = [j \in Jobs |-> IF jobLock[j] = w THEN Free ELSE jobLock[j]]
  /\ UNCHANGED <<clock, shared, moment, known, restorer, quiet, edits>>

-----------------------------------------------------------------------------
\* What happens around the loop.

NextSlot == IF clock.slot < SlotsPerDay - 1
              THEN [clock EXCEPT !.slot = @ + 1]
              ELSE [day |-> clock.day + 1, slot |-> 0]
Tick ==
  /\ NextSlot.day <= LastDay
  /\ clock' = NextSlot
  /\ UNCHANGED <<shared, jobLock, worker, restorer, quiet, edits, faults>>

Edit == edits < MaxEdits /\ edits' = edits + 1

\* save_organization_settings; waits while a restore holds the table.
ChangeSettings(s) ==
  /\ restore # "writing" /\ Edit
  /\ settings' = s
  /\ quiet' = (quiet /\ ~s.enabled)
  /\ UNCHANGED <<clock, success, jobLock, worker, restorer, faults>>

\* lock_maintenance_for_migration, one lock after the other, each waited for.
StartRestore ==
  /\ restore = "idle" /\ Edit
  /\ restore' = "locking" /\ lockedBy' = 0
  /\ UNCHANGED <<clock, shared, jobLock, worker, quiet, faults>>

RestoreLock ==
  /\ restore = "locking" /\ lockedBy < Len(RestoreOrder)
  /\ jobLock[RestoreOrder[lockedBy + 1]] \in {Free, Restorer}
  /\ jobLock' = [jobLock EXCEPT ![RestoreOrder[lockedBy + 1]] = Restorer]
  /\ lockedBy' = lockedBy + 1
  /\ UNCHANGED <<clock, shared, worker, restore, quiet, edits, faults>>

LockTables ==
  /\ restore = "locking" /\ lockedBy = Len(RestoreOrder)
  /\ restore' = "writing"
  /\ UNCHANGED <<clock, shared, jobLock, worker, lockedBy, quiet, edits, faults>>

EndRestore ==
  /\ restore' = "idle" /\ lockedBy' = 0
  /\ jobLock' = [j \in Jobs |-> IF jobLock[j] = Restorer THEN Free ELSE jobLock[j]]
  /\ UNCHANGED <<clock, success, worker, edits, faults>>

\* Imported settings leave the scheduler off until an administrator enables it.
CommitRestore ==
  /\ restore = "writing"
  /\ \E hour \in MaintenanceHours : settings' = [enabled |-> FALSE, hour |-> hour]
  /\ quiet' = TRUE
  /\ EndRestore

\* The archive is refused, or holds no settings row: they stay what they are.
AbandonRestore ==
  /\ restore # "idle"
  /\ UNCHANGED <<settings, quiet>>
  /\ EndRestore

-----------------------------------------------------------------------------
Cycle(w) == Wake(w) \/ Look(w) \/ TryLock(w) \/ Recheck(w) \/ StartJob(w) \/ FinishJob(w)
Next ==
  \/ \E w \in Workers : Cycle(w) \/ FailJob(w) \/ Die(w)
  \/ Tick \/ (\E s \in Settings : ChangeSettings(s))
  \/ StartRestore \/ RestoreLock \/ LockTables \/ CommitRestore \/ AbandonRestore

Spec == Init /\ [][Next]_vars

(***************************************************************************)
(* Workers poll for ever and their jobs end; a restore that has its locks  *)
(* writes and ends; nothing forces it to be abandoned.  PostgreSQL queues  *)
(* its lock requests ahead of a later try, hence strong fairness.  Time may*)
(* stand still.                                                            *)
(***************************************************************************)
FairSpec == Spec /\ \A w \in Workers : WF_vars(Cycle(w))
                 /\ SF_vars(RestoreLock) /\ WF_vars(LockTables \/ CommitRestore)

-----------------------------------------------------------------------------
TypeOK ==
  /\ clock \in Time /\ settings \in Settings
  /\ success \in [Jobs -> Time \cup {Never}]
  /\ jobLock \in [Jobs -> Workers \cup {Restorer, Free}]
  /\ pc \in [Workers -> {"asleep", "looking", "asking", "checking", "starting", "running"}]
  /\ index \in [Workers -> Nat]
  /\ \A w \in Workers : index[w] \in DOMAIN JobOrder \/ (index[w] = 1 /\ pc[w] = "asleep")
  /\ moment \in [Workers -> Time] /\ known \in [Workers -> Settings]
  /\ restore \in {"idle", "locking", "writing"} /\ lockedBy \in 0 .. Len(RestoreOrder)
  /\ quiet \in BOOLEAN /\ edits \in 0 .. MaxEdits /\ faults \in 0 .. MaxFaults

InsideJob(w) == pc[w] \in {"checking", "starting", "running"}

\* Two instances never run the same job at once, and while a restore writes
\* nobody runs any: scheduler.py, "Wait for existing jobs and exclude new jobs
\* until CSV restore commits".
JobsExclusive ==
  /\ \A v, w \in Workers : v # w /\ InsideJob(v) /\ InsideJob(w) => Now(v) # Now(w)
  /\ restore = "writing" => \A w \in Workers : ~InsideJob(w)

\* However many instances look at the same due job, it succeeds once: daily jobs
\* on days of their own, the conflict check an interval after its predecessor.
OncePerPeriod ==
  [][\A j \in Jobs : success'[j] # success[j] /\ success[j] # Never =>
       IF j = ConflictCheck THEN Earlier(success[j], success'[j])
                            ELSE success[j].day < success'[j].day]_vars

\* A restored copy does no maintenance of its own accord: no job starts between
\* a restore and the administrator who enables the scheduler again, not even in
\* a worker that had found the job due before the restore took its locks.
QuietAfterRestore ==
  [][\A w \in Workers : pc[w] # "running" /\ pc'[w] = "running" => ~quiet]_vars

\* A due job is not forgotten: it succeeds, is switched off or its day ends,
\* however often it fails, its process dies or a restore shuts it out before.
DueJobsSucceed ==
  \A j \in Jobs : JobDue(j, clock, success[j], settings)
                    ~> ~JobDue(j, clock, success[j], settings)

\* A restore waits for the jobs under way and is not kept waiting for ever.
RestoreEnds == restore # "idle" ~> restore = "idle"
=============================================================================
