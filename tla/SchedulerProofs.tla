---------------------------- MODULE SchedulerProofs ----------------------------
(***************************************************************************)
(* What the maintenance loop promises, for any number of backend processes,*)
(* jobs, days, failures and restores.  Everything follows from who holds a *)
(* job's lock: its holder is the only one that can move the job's last     *)
(* success, so what it found due under the lock is due when it finishes.   *)
(***************************************************************************)
EXTENDS Scheduler, TLAPS

\* A worker inside a job holds its lock, the restore those it has taken.
LocksInv ==
  /\ \A w \in Workers : InsideJob(w) => jobLock[Now(w)] = w
  /\ restore # "idle" => \A k \in 1 .. lockedBy : jobLock[RestoreOrder[k]] = Restorer
  /\ restore = "writing" => lockedBy = Len(RestoreOrder)

\* A job that starts was due at the moment its worker's cycle began.
DueInv == \A w \in Workers :
  /\ moment[w] = clock \/ Earlier(moment[w], clock)
  /\ pc[w] \in {"starting", "running"}
       => JobDue(Now(w), moment[w], success[Now(w)], known[w])

\* The scheduler is off after a restore, and nobody is about to start a job.
QuietInv == quiet => ~settings.enabled /\ \A w \in Workers : pc[w] # "starting"

Inv == TypeOK /\ LocksInv /\ DueInv /\ QuietInv

-----------------------------------------------------------------------------
\* Every worker inside a job is at a job of the list.
LEMMA NowIsJob ==
  ASSUME TypeOK, NEW w \in Workers, pc[w] # "asleep" PROVE Now(w) \in Jobs
BY OrdersAssumption DEF TypeOK, Now

\* Time does not run backwards.
LEMMA EarlierTrans ==
  ASSUME NEW s \in Time, NEW t \in Time, NEW u \in Time,
         s = t \/ Earlier(s, t), t = u \/ Earlier(t, u)
  PROVE  s = u \/ Earlier(s, u)
BY DEF Earlier, Time

\* The clock stays in range and moves forward.
LEMMA NextSlotLater ==
  ASSUME clock \in Time, NextSlot.day <= LastDay
  PROVE  NextSlot \in Time /\ Earlier(clock, NextSlot)
BY TimeAssumption DEF Time, NextSlot, Earlier

\* What the locks exclude.
LEMMA LocksExclude == TypeOK /\ LocksInv => JobsExclusive
<1> SUFFICES ASSUME TypeOK, LocksInv PROVE JobsExclusive
  OBVIOUS
<1>1. ASSUME NEW v \in Workers, NEW w \in Workers, v # w, InsideJob(v), InsideJob(w)
      PROVE  Now(v) # Now(w)
  BY <1>1 DEF LocksInv
<1>2. ASSUME restore = "writing", NEW w \in Workers PROVE ~InsideJob(w)
  <2> SUFFICES ASSUME InsideJob(w) PROVE FALSE
    OBVIOUS
  <2>1. Now(w) \in Jobs
    BY NowIsJob DEF InsideJob
  <2>2. PICK k \in DOMAIN RestoreOrder : RestoreOrder[k] = Now(w)
    BY <2>1, OrdersAssumption
  <2>3. k \in 1 .. lockedBy
    BY <1>2, OrdersAssumption DEF LocksInv
  <2>4. jobLock[Now(w)] = Restorer
    BY <1>2, <2>2, <2>3 DEF LocksInv
  <2> QED  BY <2>4, NamesAssumption DEF LocksInv
<1> QED  BY <1>1, <1>2 DEF JobsExclusive

-----------------------------------------------------------------------------
THEOREM InitHolds == Init => Inv
<1> SUFFICES ASSUME Init PROVE Inv
  OBVIOUS
<1>1. clock \in Time /\ lockedBy \in 0 .. Len(RestoreOrder)
      /\ edits \in 0 .. MaxEdits /\ faults \in 0 .. MaxFaults
  BY TimeAssumption, BoundsAssumption, OrdersAssumption DEF Init, Time
<1>2. TypeOK
  BY <1>1 DEF Init, TypeOK
<1>3. LocksInv /\ DueInv /\ QuietInv
  BY DEF Init, LocksInv, DueInv, QuietInv, InsideJob
<1> QED  BY <1>2, <1>3 DEF Inv

\* Types.
LEMMA TypeStep == TypeOK /\ [Next]_vars => TypeOK'
<1> SUFFICES ASSUME TypeOK, [Next]_vars PROVE TypeOK'
  OBVIOUS
<1> USE OrdersAssumption, BoundsAssumption DEF TypeOK, At, GoTo, shared, worker, restorer
<1>c. ASSUME NEW w \in Workers, pc[w] # "asleep", Continue(w)
      PROVE  /\ pc' \in [Workers -> {"asleep", "looking", "asking", "checking", "starting",
                                     "running"}]
             /\ index' \in [Workers -> Nat]
             /\ \A v \in Workers : index'[v] \in DOMAIN JobOrder
                                   \/ (index'[v] = 1 /\ pc'[v] = "asleep")
  BY <1>c DEF Continue
<1>1. ASSUME NEW w \in Workers, Wake(w) PROVE TypeOK'
  <2>1. 1 \in DOMAIN JobOrder
    BY <1>1 DEF Wake
  <2> QED  BY <1>1, <2>1 DEF Wake
<1>2. ASSUME NEW w \in Workers, Look(w) PROVE TypeOK'
  BY <1>2, <1>c DEF Look
<1>3. ASSUME NEW w \in Workers, TryLock(w) PROVE TypeOK'
  BY <1>3, <1>c, ZenonT(40) DEF TryLock
<1>4. ASSUME NEW w \in Workers, Recheck(w) PROVE TypeOK'
  BY <1>4, <1>c DEF Recheck, Unlock
<1>5. ASSUME NEW w \in Workers, StartJob(w) PROVE TypeOK'
  BY <1>5 DEF StartJob
<1>6. ASSUME NEW w \in Workers, FinishJob(w) PROVE TypeOK'
  BY <1>6, <1>c DEF FinishJob, Unlock
<1>7. ASSUME NEW w \in Workers, FailJob(w) PROVE TypeOK'
  <2>1. faults' \in 0 .. MaxFaults
    BY <1>7 DEF FailJob, Fault
  <2>2. jobLock' \in [Jobs -> Workers \cup {Restorer, Free}]
    BY <1>7 DEF FailJob, Unlock
  <2> QED  BY <1>7, <1>c, <2>1, <2>2 DEF FailJob
<1>8. ASSUME NEW w \in Workers, Die(w) PROVE TypeOK'
  BY <1>8 DEF Die, Fault
<1>9. ASSUME Tick PROVE TypeOK'
  BY <1>9, NextSlotLater DEF Tick
<1>10. ASSUME NEW s \in Settings, ChangeSettings(s) PROVE TypeOK'
  BY <1>10 DEF ChangeSettings, Edit
<1>11. ASSUME StartRestore \/ RestoreLock \/ LockTables PROVE TypeOK'
  <2>1. CASE StartRestore
    BY <2>1 DEF StartRestore, Edit
  <2>2. CASE RestoreLock
    BY <2>2 DEF RestoreLock
  <2>3. CASE LockTables
    BY <2>3 DEF LockTables
  <2> QED  BY <1>11, <2>1, <2>2, <2>3
<1>12. ASSUME CommitRestore \/ AbandonRestore PROVE TypeOK'
  <2>1. /\ restore' = "idle" /\ lockedBy' = 0
        /\ jobLock' \in [Jobs -> Workers \cup {Restorer, Free}]
        /\ UNCHANGED <<clock, success, pc, index, moment, known, edits, faults>>
    BY <1>12 DEF CommitRestore, AbandonRestore, EndRestore
  <2>2. settings' \in Settings /\ quiet' \in BOOLEAN
    <3>1. CASE CommitRestore
      BY <3>1 DEF CommitRestore, Settings
    <3>2. CASE AbandonRestore
      BY <3>2 DEF AbandonRestore
    <3> QED  BY <1>12, <3>1, <3>2
  <2>3. 0 \in 0 .. Len(RestoreOrder)
    OBVIOUS
  <2> HIDE <1>12
  <2> QED  BY <2>1, <2>2, <2>3
<1>13. CASE UNCHANGED vars
  BY <1>13 DEF vars
<1> QED
  BY <1>1, <1>2, <1>3, <1>4, <1>5, <1>6, <1>7, <1>8, <1>9, <1>10, <1>11, <1>12, <1>13
     DEF Next, Cycle

-----------------------------------------------------------------------------
\* Who holds a lock and what was found due under it.
LEMMA LocksStep == Inv /\ [Next]_vars => LocksInv'
<1> SUFFICES ASSUME Inv, [Next]_vars PROVE LocksInv'
  OBVIOUS
<1> USE OrdersAssumption, NamesAssumption DEF Inv, TypeOK
<1> DEFINE Taken ==
      /\ restore # "idle" => \A k \in 1 .. lockedBy : jobLock[RestoreOrder[k]] = Restorer
      /\ restore = "writing" => lockedBy = Len(RestoreOrder)
<1>k. \A k \in 1 .. Len(RestoreOrder) : RestoreOrder[k] \in Jobs
  OBVIOUS
<1>1. ASSUME NEW w \in Workers, Cycle(w) \/ FailJob(w) \/ Die(w) PROVE LocksInv'
  <2>1. \A v \in Workers \ {w} : pc'[v] = pc[v] /\ index'[v] = index[v]
    BY <1>1 DEF Cycle, Wake, Look, TryLock, Recheck, StartJob, FinishJob, FailJob, Die,
                GoTo, Continue
  <2>2. UNCHANGED restorer
    BY <1>1 DEF Cycle, Wake, Look, TryLock, Recheck, StartJob, FinishJob, FailJob, Die
  <2>3. \A j \in Jobs : jobLock[j] \in (Workers \cup {Restorer}) \ {w} => jobLock'[j] = jobLock[j]
    <3>1. ASSUME InsideJob(w), Unlock(w, Now(w)),
                 NEW j \in Jobs, jobLock[j] \in (Workers \cup {Restorer}) \ {w}
          PROVE  jobLock'[j] = jobLock[j]
      <4>1. jobLock[Now(w)] = w
        BY <3>1 DEF LocksInv
      <4> QED  BY <3>1, <4>1 DEF Unlock
    <3>2. CASE Wake(w) \/ Look(w) \/ StartJob(w) \/ TryLock(w) \/ Die(w)
      BY <3>2 DEF Wake, Look, StartJob, TryLock, Die
    <3>3. CASE Recheck(w)
      BY <3>1, <3>3 DEF Recheck, InsideJob, At
    <3>4. CASE FinishJob(w) \/ FailJob(w)
      BY <3>1, <3>4 DEF FinishJob, FailJob, InsideJob, At
    <3> QED  BY <1>1, <3>2, <3>3, <3>4 DEF Cycle
  <2>4. InsideJob(w)' => jobLock'[Now(w)] = w /\ index'[w] = index[w]
    <3>1. CASE TryLock(w)
      <4>1. Now(w) \in Jobs
        BY <3>1, NowIsJob DEF TryLock, At
      <4> QED  BY <3>1, <4>1 DEF TryLock, At, GoTo, Continue, InsideJob
    <3>2. CASE Wake(w) \/ Look(w) \/ FinishJob(w) \/ FailJob(w) \/ Die(w)
      BY <3>2 DEF Wake, Look, FinishJob, FailJob, Die, GoTo, Continue, InsideJob
    <3>3. CASE Recheck(w)
      BY <3>3 DEF Recheck, At, GoTo, Continue, InsideJob, LocksInv
    <3>4. CASE StartJob(w)
      BY <3>4 DEF StartJob, At, GoTo, InsideJob, LocksInv
    <3> QED  BY <1>1, <3>1, <3>2, <3>3, <3>4 DEF Cycle
  <2>5. ASSUME NEW v \in Workers, InsideJob(v)' PROVE jobLock'[Now(v)'] = v
    <3>1. CASE v = w
      BY <2>4, <2>5, <3>1 DEF Now
    <3>2. CASE v # w
      <4>1. InsideJob(v) /\ Now(v)' = Now(v) /\ Now(v) \in Jobs
        BY <2>1, <2>5, <3>2, NowIsJob DEF InsideJob, Now
      <4> QED  BY <2>3, <3>2, <4>1 DEF LocksInv
    <3> QED  BY <3>1, <3>2
  <2>6. Taken'
    <3>1. \A j \in Jobs : jobLock[j] = Restorer => jobLock'[j] = Restorer
      BY <2>3
    <3>2. restore' = restore /\ lockedBy' = lockedBy
      BY <2>2 DEF restorer
    <3>3. \A k \in 1 .. lockedBy : RestoreOrder[k] \in Jobs
      BY <1>k
    <3> QED  BY <3>1, <3>2, <3>3 DEF LocksInv
  <2> QED  BY <2>5, <2>6 DEF LocksInv
<1>2. ASSUME UNCHANGED worker,
             \A j \in Jobs, w \in Workers : jobLock[j] = w => jobLock'[j] = w
      PROVE  \A w \in Workers : InsideJob(w)' => jobLock'[Now(w)'] = w
  <2> SUFFICES ASSUME NEW w \in Workers, InsideJob(w)' PROVE jobLock'[Now(w)'] = w
    OBVIOUS
  <2>1. InsideJob(w) /\ Now(w)' = Now(w)
    BY <1>2 DEF worker, InsideJob, Now
  <2>2. Now(w) \in Jobs /\ jobLock[Now(w)] = w
    BY <2>1, NowIsJob DEF InsideJob, LocksInv
  <2> QED  BY <1>2, <2>1, <2>2
<1>3. ASSUME Tick \/ \E s \in Settings : ChangeSettings(s) PROVE LocksInv'
  BY <1>3 DEF Tick, ChangeSettings, LocksInv, InsideJob, Now, worker, restorer
<1>4. ASSUME StartRestore \/ LockTables PROVE LocksInv'
  BY <1>4 DEF StartRestore, LockTables, LocksInv, InsideJob, Now, worker
<1>5. ASSUME RestoreLock PROVE LocksInv'
  <2>1. UNCHANGED <<worker, restore>> /\ restore = "locking" /\ lockedBy' = lockedBy + 1
        /\ lockedBy < Len(RestoreOrder)
    BY <1>5 DEF RestoreLock
  <2>2. jobLock' = [jobLock EXCEPT ![RestoreOrder[lockedBy + 1]] = Restorer]
        /\ jobLock[RestoreOrder[lockedBy + 1]] \in {Free, Restorer}
    BY <1>5 DEF RestoreLock
  <2>c. \A j \in Jobs, w \in Workers : jobLock[j] = w => jobLock'[j] = w
    BY <2>2
  <2>3. \A w \in Workers : InsideJob(w)' => jobLock'[Now(w)'] = w
    BY <1>2, <2>1, <2>c
  <2>4. Taken'
    BY <1>k, <2>1, <2>2 DEF LocksInv
  <2> QED  BY <2>3, <2>4 DEF LocksInv
<1>6. ASSUME CommitRestore \/ AbandonRestore PROVE LocksInv'
  <2>1. UNCHANGED worker /\ restore' = "idle"
        /\ jobLock' = [j \in Jobs |-> IF jobLock[j] = Restorer THEN Free ELSE jobLock[j]]
    BY <1>6 DEF CommitRestore, AbandonRestore, EndRestore
  <2>c. \A j \in Jobs, w \in Workers : jobLock[j] = w => jobLock'[j] = w
    BY <2>1
  <2>2. \A w \in Workers : InsideJob(w)' => jobLock'[Now(w)'] = w
    BY <1>2, <2>1, <2>c
  <2> QED  BY <2>1, <2>2 DEF LocksInv
<1>7. CASE UNCHANGED vars
  BY <1>7 DEF vars, LocksInv, InsideJob, Now, worker, restorer
<1> QED  BY <1>1, <1>3, <1>4, <1>5, <1>6, <1>7 DEF Next

LEMMA DueStep == Inv /\ [Next]_vars => DueInv'
<1> SUFFICES ASSUME Inv, [Next]_vars PROVE DueInv'
  OBVIOUS
<1> USE OrdersAssumption, NamesAssumption DEF Inv, TypeOK
<1> DEFINE Past(w) == moment[w] = clock \/ Earlier(moment[w], clock)
           Due(w) == pc[w] \in {"starting", "running"}
                       => JobDue(Now(w), moment[w], success[Now(w)], known[w])
<1>1. ASSUME NEW w \in Workers, Cycle(w) \/ FailJob(w) \/ Die(w) PROVE DueInv'
  <2>1. \A v \in Workers \ {w} :
          UNCHANGED <<pc[v], index[v], moment[v], known[v]>>
    BY <1>1 DEF Cycle, Wake, Look, TryLock, Recheck, StartJob, FinishJob, FailJob, Die,
                GoTo, Continue
  <2>2. clock' = clock
    BY <1>1 DEF Cycle, Wake, Look, TryLock, Recheck, StartJob, FinishJob, FailJob, Die
  <2>3. moment'[w] = clock \/ moment'[w] = moment[w]
    BY <1>1 DEF Cycle, Wake, Look, TryLock, Recheck, StartJob, FinishJob, FailJob, Die
  <2>4. \A v \in Workers : Past(v)'
    BY <2>1, <2>2, <2>3 DEF DueInv
  <2>5. success' = success \/ FinishJob(w)
    BY <1>1 DEF Cycle, Wake, Look, TryLock, Recheck, StartJob, FinishJob, FailJob, Die, shared
  <2>6. Due(w)'
    <3>1. CASE Wake(w) \/ Look(w) \/ TryLock(w) \/ FinishJob(w) \/ FailJob(w) \/ Die(w)
      BY <3>1 DEF Wake, Look, TryLock, FinishJob, FailJob, Die, GoTo, Continue
    <3>2. CASE Recheck(w)
      BY <3>2 DEF Recheck, GoTo, Continue, Now, shared
    <3>3. CASE StartJob(w)
      BY <3>3 DEF StartJob, At, GoTo, Now, shared, DueInv
    <3> QED  BY <1>1, <3>1, <3>2, <3>3 DEF Cycle
  <2>7. ASSUME NEW v \in Workers \ {w} PROVE Due(v)'
    <3> SUFFICES ASSUME pc[v] \in {"starting", "running"}
                 PROVE  JobDue(Now(v)', moment'[v], success'[Now(v)'], known'[v])
      BY <2>1, <2>7
    <3>1. Now(v)' = Now(v) /\ moment'[v] = moment[v] /\ known'[v] = known[v]
      BY <2>1, <2>7 DEF Now
    <3>2. JobDue(Now(v), moment[v], success[Now(v)], known[v])
      BY DEF DueInv
    <3>3. success'[Now(v)] = success[Now(v)]
      <4>1. CASE FinishJob(w)
        <5>1. InsideJob(v) /\ InsideJob(w)
          BY <4>1 DEF FinishJob, At, InsideJob
        <5>2. Now(v) # Now(w)
          BY <5>1, <2>7 DEF LocksInv
        <5> QED  BY <4>1, <5>2 DEF FinishJob
      <4> QED  BY <2>5, <4>1
    <3> QED  BY <3>1, <3>2, <3>3
  <2> QED  BY <2>4, <2>6, <2>7 DEF DueInv
<1>2. ASSUME Tick PROVE DueInv'
  <2>1. UNCHANGED <<pc, index, moment, known, success>> /\ clock' = NextSlot
    BY <1>2 DEF Tick, worker, shared
  <2>2. \A w \in Workers : moment[w] = clock' \/ Earlier(moment[w], clock')
    <3> SUFFICES ASSUME NEW w \in Workers
                 PROVE  moment[w] = NextSlot \/ Earlier(moment[w], NextSlot)
      BY <2>1
    <3>1. NextSlot \in Time /\ Earlier(clock, NextSlot)
      BY <1>2, NextSlotLater DEF Tick
    <3>2. clock \in Time /\ moment[w] \in Time
          /\ (moment[w] = clock \/ Earlier(moment[w], clock))
      BY DEF DueInv
    <3> HIDE DEF Inv, TypeOK
    <3> QED  BY <3>1, <3>2, EarlierTrans
  <2> QED  BY <2>1, <2>2 DEF DueInv, Now
<1>3. ASSUME UNCHANGED <<pc, index, moment, known, success, clock>> PROVE DueInv'
  BY <1>3 DEF DueInv, Now
<1>4. ASSUME \/ \E s \in Settings : ChangeSettings(s)
             \/ StartRestore \/ RestoreLock \/ LockTables \/ CommitRestore \/ AbandonRestore
      PROVE  DueInv'
  BY <1>3, <1>4 DEF ChangeSettings, StartRestore, RestoreLock, LockTables, CommitRestore,
                    AbandonRestore, EndRestore, worker, shared
<1>5. CASE UNCHANGED vars
  BY <1>3, <1>5 DEF vars, worker, shared
<1> QED  BY <1>1, <1>2, <1>4, <1>5 DEF Next

LEMMA QuietStep == Inv /\ [Next]_vars => QuietInv'
<1> SUFFICES ASSUME Inv, [Next]_vars, quiet'
             PROVE  ~settings'.enabled /\ \A w \in Workers : pc'[w] # "starting"
  BY DEF QuietInv
<1> USE DEF Inv, TypeOK
<1>1. ASSUME NEW w \in Workers, Cycle(w) \/ FailJob(w) \/ Die(w)
      PROVE  ~settings'.enabled /\ \A v \in Workers : pc'[v] # "starting"
  <2>1. quiet /\ UNCHANGED settings
    BY <1>1 DEF Cycle, Wake, Look, TryLock, Recheck, StartJob, FinishJob, FailJob, Die, shared
  <2>2. ~settings.enabled /\ \A v \in Workers : pc[v] # "starting"
    BY <2>1 DEF QuietInv
  <2>3. pc'[w] # "starting"
    <3>1. CASE Recheck(w)
      BY <2>2, <3>1 DEF Recheck, JobDue, GoTo, Continue
    <3> QED
      BY <1>1, <3>1
         DEF Cycle, Wake, Look, TryLock, StartJob, FinishJob, FailJob, Die, GoTo, Continue
  <2>4. \A v \in Workers \ {w} : pc'[v] = pc[v]
    BY <1>1 DEF Cycle, Wake, Look, TryLock, Recheck, StartJob, FinishJob, FailJob, Die,
                GoTo, Continue
  <2> QED  BY <2>1, <2>2, <2>3, <2>4
<1>2. ASSUME CommitRestore
      PROVE  ~settings'.enabled /\ \A v \in Workers : pc'[v] # "starting"
  <2>1. ~settings'.enabled /\ pc' = pc
    BY <1>2 DEF CommitRestore, EndRestore, worker
  <2> QED
    BY <1>2, <2>1, LocksExclude DEF CommitRestore, JobsExclusive, InsideJob
<1>3. ASSUME \E s \in Settings : ChangeSettings(s)
      PROVE  ~settings'.enabled /\ \A v \in Workers : pc'[v] # "starting"
  BY <1>3 DEF ChangeSettings, QuietInv, worker
<1>4. ASSUME UNCHANGED <<settings, pc, quiet>>
      PROVE  ~settings'.enabled /\ \A v \in Workers : pc'[v] # "starting"
  BY <1>4 DEF QuietInv
<1>5. ASSUME Tick \/ StartRestore \/ RestoreLock \/ LockTables \/ AbandonRestore \/ UNCHANGED vars
      PROVE  ~settings'.enabled /\ \A v \in Workers : pc'[v] # "starting"
  BY <1>4, <1>5 DEF Tick, StartRestore, RestoreLock, LockTables, AbandonRestore, EndRestore,
                    worker, shared, vars
<1> QED  BY <1>1, <1>2, <1>3, <1>5 DEF Next

-----------------------------------------------------------------------------
LEMMA Invariance == Spec => []Inv
<1>1. Inv /\ [Next]_vars => Inv'
  BY TypeStep, LocksStep, DueStep, QuietStep DEF Inv
<1> QED  BY InitHolds, <1>1, PTL DEF Spec

\* Clock, settings, run log, locks and workers keep their shape.
THEOREM Typed == Spec => []TypeOK
<1>1. Inv => TypeOK
  BY DEF Inv
<1> QED  BY <1>1, Invariance, PTL

\* Two instances never run the same job at once, and none runs any while a
\* restore writes.
THEOREM JobsAreExclusive == Spec => []JobsExclusive
<1>1. Inv => JobsExclusive
  BY LocksExclude DEF Inv
<1> QED  BY <1>1, Invariance, PTL

\* A daily job succeeds at most once a day and the conflict check at most once
\* an interval, however many instances poll.
THEOREM SucceedsOncePerPeriod == Spec => OncePerPeriod
<1> DEFINE Later(j) == IF j = ConflictCheck THEN Earlier(success[j], success'[j])
                                            ELSE success[j].day < success'[j].day
           Once == \A j \in Jobs : success'[j] # success[j] /\ success[j] # Never => Later(j)
<1>1. Inv /\ [Next]_vars => [Once]_vars
  <2> SUFFICES ASSUME Inv, [Next]_vars, NEW j \in Jobs,
                      success'[j] # success[j], success[j] # Never
               PROVE  Later(j)
    OBVIOUS
  <2> USE DEF Inv, TypeOK
  <2>1. PICK w \in Workers : FinishJob(w)
    BY DEF Next, Cycle, Wake, Look, TryLock, Recheck, StartJob, FailJob, Die, Tick,
           ChangeSettings, StartRestore, RestoreLock, LockTables, CommitRestore,
           AbandonRestore, EndRestore, shared, vars
  <2>2. j = Now(w) /\ success'[j] = clock
    BY <2>1 DEF FinishJob
  <2>3. JobDue(j, moment[w], success[j], known[w])
        /\ (moment[w] = clock \/ Earlier(moment[w], clock))
    BY <2>1, <2>2 DEF FinishJob, At, DueInv
  <2>4. success[j] \in Time /\ moment[w] \in Time /\ clock \in Time
    OBVIOUS
  <2> HIDE DEF Inv, TypeOK
  <2> QED  BY <2>2, <2>3, <2>4 DEF JobDue, IsDaily, Earlier, Time
<1> QED  BY <1>1, Invariance, PTL DEF Spec, OncePerPeriod

\* A restored copy starts no job before an administrator enables the scheduler.
THEOREM RestoredCopyIsQuiet == Spec => QuietAfterRestore
<1> DEFINE Quiet == \A w \in Workers : pc[w] # "running" /\ pc'[w] = "running" => ~quiet
<1>1. Inv /\ [Next]_vars => [Quiet]_vars
  <2> SUFFICES ASSUME Inv, [Next]_vars, NEW w \in Workers,
                      pc[w] # "running", pc'[w] = "running"
               PROVE  ~quiet
    OBVIOUS
  <2> USE DEF Inv, TypeOK
  <2>1. StartJob(w)
    <3>1. PICK v \in Workers : Cycle(v) \/ FailJob(v) \/ Die(v)
      BY DEF Next, Tick, ChangeSettings, StartRestore, RestoreLock, LockTables, CommitRestore,
             AbandonRestore, EndRestore, worker, vars
    <3> QED
      BY <3>1 DEF Cycle, Wake, Look, TryLock, Recheck, StartJob, FinishJob, FailJob, Die,
                  GoTo, Continue
  <2> QED  BY <2>1 DEF StartJob, At, QuietInv
<1> QED  BY <1>1, Invariance, PTL DEF Spec, QuietAfterRestore
=============================================================================
