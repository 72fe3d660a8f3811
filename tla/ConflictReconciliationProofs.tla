--------------------- MODULE ConflictReconciliationProofs ---------------------
(***************************************************************************)
(* Stored conflicts are stale only while somebody owes a refresh, for any  *)
(* number of resources, bookings, handlers and failures.                   *)
(*                                                                         *)
(* The argument follows one refresh of one resource.  It holds the         *)
(* resource's advisory lock from before it reads until it commits, so no   *)
(* other refresh of the resource is between its read and its commit.  A    *)
(* planning write may commit in between; then the write is itself in debt  *)
(* for the resource.  So what the refresh stores is current, or somebody   *)
(* else still owes the resource a later one.                               *)
(*                                                                         *)
(* The deletions of packages follow at the end: a row that is locked gains *)
(* no booking, and an empty conflict was replaced under its lock or marked *)
(* by a deletion that took one of its bookings with it.                    *)
(***************************************************************************)
EXTENDS ConflictReconciliation, FiniteSetTheorems, TLAPS

\* A request between two statements remembers the booking it loaded.
SeenInv == \A p \in Processes :
  /\ pc[p] \in {"update", "write", "delete", "unlink"} => seen[p] \in Loaded
  /\ pc[p] = "write" => seen[p].wanted \in Row

\* A refresh that has begun on a resource holds its lock.
Holds(p, r) == pc[p] \in {"locked", "demand", "calculated"} /\ IsNext(p, r) => lock[r] = p
LockInv == \A p \in Processes, r \in Resources : Holds(p, r)

\* Somebody other than the refresh p is in owes r a refresh.
Elsewhere(p, r) == \/ r \in failed \cup overlooked \cup later[p]
                   \/ \E q \in Processes \ {p} : r \in Owed(q)
Debt(r) == r \in failed \cup overlooked \/ \E q \in Processes : r \in Owed(q)

\* What a refresh has read or calculated is current, or owed again.
Accurate(p, r) == IsNext(p, r) =>
  /\ pc[p] = "demand" => periods[p] = Demand(r, booking) \/ Elsewhere(p, r)
  /\ pc[p] = "calculated" => periods[p] = Calculated(r) \/ Elsewhere(p, r)
ReadInv == \A p \in Processes, r \in Resources : Accurate(p, r)

StaleInv == \A r \in Resources : Stale(r) => Debt(r)

IInv == TypeOK /\ SeenInv /\ LockInv /\ ReadInv /\ StaleInv

-----------------------------------------------------------------------------
\* Demand and the conflicts made from it have the shape of stored conflicts.
LEMMA DemandTyped == ASSUME NEW r, NEW b PROVE Demand(r, b) \in Periods
BY DEF Demand, On, Periods

LEMMA ExceedingTyped ==
  ASSUME NEW demand \in Periods, NEW c PROVE Exceeding(demand, c) \in Periods
BY DEF Exceeding, Periods

LEMMA CalculatedTyped == ASSUME NEW r PROVE Calculated(r) \in Periods
BY DemandTyped, ExceedingTyped DEF Calculated

\* The debt an invariant speaks of is the debt the property speaks of.
LEMMA DebtIsOwed == ASSUME NEW r PROVE Debt(r) <=> r \in InDebt
BY DEF Debt, InDebt

\* At most one resource is next.
LEMMA OneNext ==
  ASSUME NEW p \in Processes, now[p] \subseteq Resources,
         NEW r, NEW s, IsNext(p, r), IsNext(p, s)
  PROVE  r = s
<1>1. r \in Nat /\ s \in Nat
  BY ResourcesAssumption DEF IsNext
<1>2. r <= s /\ s <= r
  BY DEF IsNext
<1> QED  BY <1>1, <1>2

-----------------------------------------------------------------------------
THEOREM InitHolds == Init => IInv
<1> SUFFICES ASSUME Init PROVE IInv
  OBVIOUS
<1> USE DEF Init
<1>1. TypeOK
  <2>1. NoPeriods \in Periods
    BY DEF NoPeriods, Periods
  <2>2. booking \in [Assignments -> Row \cup {Unborn, Gone}]
    BY PlansAssumption
  <2>3. conflicts \in [Resources -> Periods]
    BY CalculatedTyped
  <2>4. requests \in 0 .. MaxRequests /\ failures \in 0 .. MaxFailures
    BY BoundsAssumption
  <2> HIDE DEF Init
  <2>5. /\ packages \subseteq Packages /\ capacity \in [Resources -> Capacities]
        /\ lock \in [Resources -> Processes \cup {Free}]
        /\ packageLock \in [Packages -> Processes \cup {Free}]
        /\ rowLock \in [Assignments -> Processes \cup {Free}]
    BY CapacitiesAssumption DEF Init
  <2> QED
    BY <2>1, <2>2, <2>3, <2>4, <2>5 DEF Init, TypeOK, Loaded
<1>2. SeenInv /\ LockInv /\ ReadInv
  BY DEF SeenInv, LockInv, Holds, ReadInv, Accurate
<1>3. StaleInv
  BY DEF StaleInv, Stale
<1> QED  BY <1>1, <1>2, <1>3 DEF IInv

-----------------------------------------------------------------------------
\* Types.
LEMMA TypeStep == TypeOK /\ SeenInv /\ [Next]_vars => TypeOK'
<1> SUFFICES ASSUME TypeOK, SeenInv, [Next]_vars PROVE TypeOK'
  OBVIOUS
<1> USE ValuesAssumption, BoundsAssumption DEF TypeOK
<1>n. NoPeriods \in Periods
  BY DEF NoPeriods, Periods
<1>p. Handlers \subseteq Processes /\ Checker \in Processes
  BY DEF Processes
<1>1. ASSUME NEW p \in Handlers, NEW a \in Assignments, NEW row \in Row,
             CreateAssignment(p, a, row)
      PROVE  TypeOK'
  <2>1. row.resource \in Resources
    BY DEF Row
  <2> QED
    BY <1>1, <1>n, <1>p, <2>1
       DEF CreateAssignment, Begin, Refresh, RefreshReporting, Loaded, locks, history
<1>2. ASSUME NEW p \in Handlers, NEW a \in Assignments, NEW next \in {"update", "delete"},
             LoadAssignment(p, a, next)
      PROVE  TypeOK'
  <2>1. [assignment |-> a, row |-> booking[a], wanted |-> Nothing] \in Loaded
    BY <1>2 DEF LoadAssignment, Exists, Loaded
  <2> QED  BY <1>2, <1>p, <2>1 DEF LoadAssignment, Begin, database, locks, history
<1>3. ASSUME NEW p \in Handlers, NEW r \in Resources, NEW c \in Capacities,
             EditAbsence(p, r, c)
      PROVE  TypeOK'
  BY <1>3, <1>n, <1>p DEF EditAbsence, Begin, RefreshReporting, Loaded, locks, history
<1>4. ASSUME NEW p \in Handlers, NEW granted \in [Resources -> Capacities],
             EditCalendar(p, granted)
      PROVE  TypeOK'
  BY <1>4, <1>n, <1>p
     DEF EditCalendar, Begin, Refresh, RefreshReporting, Known, Loaded, locks, history
<1>5. ASSUME NEW p \in Handlers, NEW W \in Deletions, DeletePackages(p, W) PROVE TypeOK'
  BY <1>5, <1>p, PackagesAssumption DEF DeletePackages, Begin, database, locks, history
<1>a. ASSUME NEW p \in Processes, NEW w \in Packages, LockPackage(p, w) PROVE TypeOK'
  BY <1>a DEF LockPackage, Working, database, history
<1>b. ASSUME NEW p \in Processes, SelectBookings(p) PROVE TypeOK'
  <2>1. \A a \in Assignments : Exists(a) => booking[a].resource \in Resources
    BY DEF Exists, Row
  <2> QED
    BY <1>b, <2>1 DEF SelectBookings, Working, database, locks, history
<1>c. ASSUME NEW p \in Processes, NEW wanted \in Row, LockBooking(p, wanted) PROVE TypeOK'
  <2>1. seen[p] \in Loaded
    BY <1>c DEF LockBooking, Working, SeenInv
  <2>2. [seen[p] EXCEPT !.wanted = wanted] \in Loaded
    BY <2>1 DEF Loaded
  <2>3. rowLock' \in [Assignments -> Processes \cup {Free}]
    BY <1>c DEF LockBooking
  <2> QED
    BY <1>c, <2>2, <2>3 DEF LockBooking, Working, database, history
<1>d. ASSUME NEW p \in Processes, BreakDeadlock(p) PROVE TypeOK'
  BY <1>d, <1>n
     DEF BreakDeadlock, Release, Refresh, RefreshReporting, Loaded, database, history
<1>6. ASSUME NEW p \in Processes, NEW r \in Resources, TakeLock(p, r) PROVE TypeOK'
  BY <1>6 DEF TakeLock, Working, database, history
<1>7. ASSUME NEW p \in Processes, NEW r \in Resources, CascadeLock(p, r) PROVE TypeOK'
  BY <1>7 DEF CascadeLock, Working, database, session, history
<1>8. ASSUME NEW p \in Processes, UpdateAssignment(p) PROVE TypeOK'
  <2> DEFINE a == seen[p].assignment
             old == seen[p].row.resource
             new == seen[p].wanted.resource
  <2>1. a \in Assignments /\ seen[p].row \in Row /\ seen[p].wanted \in Row /\ booking[a] \in Row
    BY <1>8 DEF UpdateAssignment, Working, Exists, SeenInv, Loaded
  <2>2. Updated(p) \in Row
    BY <2>1 DEF Row, Updated, Merged, Pick
  <2>3. booking' = [booking EXCEPT ![a] = Updated(p)]
    BY <1>8 DEF UpdateAssignment
  <2>4. booking' \in [Assignments -> Row \cup {Unborn, Gone}]
    BY <2>1, <2>2, <2>3
  <2>5. new \in Resources /\ old \in Resources
        /\ Updated(p).resource \in Resources /\ booking[a].resource \in Resources
    BY <2>1, <2>2 DEF Row
  <2>6. /\ overlooked' \subseteq Resources
        /\ Refresh(p, {new}, {old} \ {new}) /\ Release(p)
        /\ UNCHANGED <<packages, capacity, conflicts, marked, failed, misreported, requests,
                       failures>>
    BY <1>8, <2>5 DEF UpdateAssignment, Working
  <2> HIDE DEF a, old, new
  <2> QED
    BY <1>n, <2>4, <2>5, <2>6 DEF Refresh, RefreshReporting, Loaded, Release
<1>9. ASSUME NEW p \in Processes, SelectLinkedConflicts(p) PROVE TypeOK'
  BY <1>9 DEF SelectLinkedConflicts, Working, database, locks, history
<1>10. ASSUME NEW p \in Processes, DeleteAssignment(p) PROVE TypeOK'
  <2>1. seen[p].assignment \in Assignments /\ seen[p].row.resource \in Resources
    BY <1>10 DEF DeleteAssignment, Working, SeenInv, Loaded, Row
  <2>2. WithoutMarked(p) \in [Resources -> Periods]
    BY DEF WithoutMarked, Periods
  <2>3. Exists(seen[p].assignment) => booking[seen[p].assignment].resource \in Resources
    BY DEF Exists, Row
  <2>4. marked' \in [Processes -> SUBSET ConflictRows]
    BY <1>10 DEF DeleteAssignment, Lose, StillSelected
  <2> QED
    BY <1>10, <1>n, <2>1, <2>2, <2>3, <2>4
       DEF DeleteAssignment, Working, Refresh, RefreshReporting, Loaded, locks
<1>11. ASSUME NEW p \in Processes, Refuse(p) PROVE TypeOK'
  <2>1. marked' \in [Processes -> SUBSET ConflictRows]
    BY <1>11 DEF Refuse, Lose, StillSelected
  <2> QED
    BY <1>11, <1>n, <2>1
       DEF Refuse, Release, Refresh, RefreshReporting, Loaded, database, history
<1>12. ASSUME NEW p \in Processes, CascadeCommit(p) PROVE TypeOK'
  <2>1. \A r \in Resources :
           Exceeding(Demand(r, Remaining(p)), capacity[r]) \in Periods
    BY DemandTyped, ExceedingTyped
  <2>2. conflicts' \in [Resources -> Periods]
    BY <1>12, <2>1 DEF CascadeCommit
  <2>3. Remaining(p) \in [Assignments -> Row \cup {Unborn, Gone}]
    BY DEF Remaining
  <2>4. \A a \in Assignments : Exists(a) => booking[a].resource \in Resources
    BY DEF Exists, Row
  <2>5. overlooked' \subseteq Resources
    BY <1>12, <2>4 DEF CascadeCommit
  <2>6. marked' \in [Processes -> SUBSET ConflictRows]
    BY <1>12 DEF CascadeCommit, Lose, StillSelected
  <2>7. lock' \in [Resources -> Processes \cup {Free}]
        /\ packageLock' \in [Packages -> Processes \cup {Free}]
        /\ rowLock' \in [Assignments -> Processes \cup {Free}]
    BY <1>12 DEF CascadeCommit, Release
  <2> QED
    BY <1>12, <1>n, <2>2, <2>3, <2>5, <2>6, <2>7
       DEF CascadeCommit, Working, Refresh, RefreshReporting, Loaded
<1>13. ASSUME NEW p \in Processes, CascadeRefused(p) PROVE TypeOK'
  BY <1>13, <1>n
     DEF CascadeRefused, Working, Release, Refresh, RefreshReporting, Loaded, database, history
<1>14. ASSUME NEW p \in Processes, NEW r \in Resources, ReadBookings(p, r) PROVE TypeOK'
  BY <1>14, DemandTyped DEF ReadBookings, Working, database, locks
<1>15. ASSUME NEW p \in Processes, NEW r \in Resources, ReadCapacity(p, r) PROVE TypeOK'
  BY <1>15, ExceedingTyped DEF ReadCapacity, Working, database, locks, history
<1>16. ASSUME NEW p \in Processes, NEW r \in Resources, ReplacePeriods(p, r) PROVE TypeOK'
  <2>1. marked' \in [Processes -> SUBSET ConflictRows]
    BY <1>16 DEF ReplacePeriods, Lose, StillSelected
  <2>2. lock' \in [Resources -> Processes \cup {Free}]
        /\ packageLock' \in [Packages -> Processes \cup {Free}]
        /\ rowLock' \in [Assignments -> Processes \cup {Free}]
    BY <1>16 DEF ReplacePeriods, Release
  <2> QED
    BY <1>16, <1>n, <2>1, <2>2
       DEF ReplacePeriods, Working, Refresh, RefreshReporting, Loaded, history
<1>17. ASSUME NEW p \in Processes, Abandon(p),
              UNCHANGED <<requests, failures>> \/ Fault
       PROVE  TypeOK'
  <2>1. requests' \in 0 .. MaxRequests /\ failures' \in 0 .. MaxFailures
    BY <1>17 DEF Fault
  <2>2. misreported' \in BOOLEAN /\ failed' \subseteq Resources
    BY <1>17 DEF Abandon
  <2>3. lock' \in [Resources -> Processes \cup {Free}]
        /\ packageLock' \in [Packages -> Processes \cup {Free}]
        /\ rowLock' \in [Assignments -> Processes \cup {Free}]
    BY <1>17 DEF Abandon, Release
  <2> QED
    BY <1>17, <1>n, <2>1, <2>2, <2>3 DEF Abandon, Refresh, RefreshReporting, Loaded, database
<1>18. ASSUME NEW p \in Processes, Crash(p) PROVE TypeOK'
  <2>1. marked' \in [Processes -> SUBSET ConflictRows]
    BY <1>18 DEF Crash, Lose, StillSelected
  <2>2. requests' \in 0 .. MaxRequests /\ failures' \in 0 .. MaxFailures
    BY <1>18 DEF Crash, Fault
  <2>3. lock' \in [Resources -> Processes \cup {Free}]
        /\ packageLock' \in [Packages -> Processes \cup {Free}]
        /\ rowLock' \in [Assignments -> Processes \cup {Free}]
    BY <1>18 DEF Crash, Release
  <2> QED
    BY <1>18, <1>n, <2>1, <2>2, <2>3
       DEF Crash, Refresh, RefreshReporting, Loaded, database
<1>19. ASSUME StartCheck PROVE TypeOK'
  BY <1>19, <1>n, <1>p
     DEF StartCheck, Working, Refresh, RefreshReporting, Known, Loaded, database, locks, history
<1>20. CASE UNCHANGED vars
  BY <1>20 DEF vars, database, locks, session, history
<1> QED
  BY <1>1, <1>2, <1>3, <1>4, <1>5, <1>6, <1>7, <1>8, <1>9, <1>10, <1>11, <1>12, <1>13,
     <1>14, <1>15, <1>16, <1>17, <1>18, <1>19, <1>20, <1>a, <1>b, <1>c, <1>d, PlansAssumption
     DEF Next, Request, Acquire, Proceed, RefreshFails, InsertFails, Working

-----------------------------------------------------------------------------
\* What an actor loaded stays what it is.
LEMMA SeenStep == TypeOK /\ SeenInv /\ [Next]_vars => SeenInv'
<1> SUFFICES ASSUME TypeOK, SeenInv, [Next]_vars PROVE SeenInv'
  OBVIOUS
<1> USE DEF SeenInv, TypeOK
<1> USE ValuesAssumption
<1>p. Handlers \subseteq Processes /\ Checker \in Processes
  BY DEF Processes
<1>1. ASSUME NEW p \in Processes, NEW first, NEW second, NEW failing,
             RefreshReporting(p, first, second, failing)
      PROVE  SeenInv'
  BY <1>1 DEF RefreshReporting
<1>2. ASSUME NEW p \in Handlers, Request(p) PROVE SeenInv'
  <2>1. ASSUME NEW a \in Assignments, NEW next \in {"update", "delete"},
               LoadAssignment(p, a, next)
        PROVE  SeenInv'
    <3>1. [assignment |-> a, row |-> booking[a], wanted |-> Nothing] \in Loaded
      BY <2>1 DEF LoadAssignment, Exists, Loaded
    <3> QED  BY <2>1, <3>1, <1>p DEF LoadAssignment
  <2>2. ASSUME NEW W \in Deletions, DeletePackages(p, W) PROVE SeenInv'
    BY <2>2, <1>p DEF DeletePackages
  <2> QED
    BY <1>1, <1>2, <1>p, <2>1, <2>2
       DEF Request, CreateAssignment, EditAbsence, EditCalendar, Refresh
<1>3. ASSUME NEW p \in Processes, Acquire(p) PROVE SeenInv'
  BY <1>3 DEF Acquire, TakeLock, CascadeLock, LockPackage, session
<1>4. ASSUME NEW p \in Processes, Proceed(p) PROVE SeenInv'
  <2>1. ASSUME SelectLinkedConflicts(p) PROVE SeenInv'
    BY <2>1 DEF SelectLinkedConflicts, Working
  <2>2. ASSUME NEW r \in Resources, ReadBookings(p, r) \/ ReadCapacity(p, r) PROVE SeenInv'
    BY <2>2 DEF ReadBookings, ReadCapacity
  <2>3. ASSUME NEW wanted \in Row, LockBooking(p, wanted) PROVE SeenInv'
    <3>1. seen[p] \in Loaded
      BY <2>3 DEF LockBooking, Working
    <3>2. [seen[p] EXCEPT !.wanted = wanted] \in Loaded
      BY <3>1 DEF Loaded
    <3>3. [seen[p] EXCEPT !.wanted = wanted].wanted = wanted
      BY <3>1 DEF Loaded
    <3>4. /\ seen' = [seen EXCEPT ![p] = [seen[p] EXCEPT !.wanted = wanted]]
          /\ pc' = [pc EXCEPT ![p] = "write"]
      BY <2>3 DEF LockBooking
    <3> QED  BY <3>2, <3>3, <3>4
  <2>4. ASSUME UpdateAssignment(p) \/ DeleteAssignment(p) \/ Refuse(p) \/ CascadeCommit(p)
               \/ CascadeRefused(p) \/ BreakDeadlock(p)
        PROVE  SeenInv'
    BY <1>1, <2>4
       DEF UpdateAssignment, DeleteAssignment, Refuse, CascadeCommit, CascadeRefused,
           BreakDeadlock, Refresh
  <2>7. ASSUME SelectBookings(p) PROVE SeenInv'
    BY <2>7 DEF SelectBookings
  <2>5. ASSUME NEW r \in Resources, ReplacePeriods(p, r) PROVE SeenInv'
    BY <1>1, <2>5 DEF ReplacePeriods, Refresh
  <2>6. ASSUME InsertFails(p) PROVE SeenInv'
    BY <1>1, <2>6 DEF InsertFails, Abandon, Refresh
  <2> QED  BY <1>4, <2>1, <2>2, <2>3, <2>4, <2>5, <2>6, <2>7, PlansAssumption DEF Proceed
<1>5. ASSUME NEW p \in Processes, RefreshFails(p) \/ Crash(p) PROVE SeenInv'
  BY <1>1, <1>5 DEF RefreshFails, Abandon, Crash, Refresh
<1>6. ASSUME StartCheck PROVE SeenInv'
  BY <1>1, <1>6, <1>p DEF StartCheck, Refresh
<1>7. CASE UNCHANGED vars
  BY <1>7 DEF vars, session
<1> QED  BY <1>2, <1>3, <1>4, <1>5, <1>6, <1>7 DEF Next

\* Every table, lock and local keeps the shape its column or variable has.
THEOREM Typed == Spec => []TypeOK
<1>1. Init => TypeOK /\ SeenInv
  BY InitHolds DEF IInv
<1>2. (TypeOK /\ SeenInv) /\ [Next]_vars => (TypeOK /\ SeenInv)'
  BY TypeStep, SeenStep
<1> QED  BY <1>1, <1>2, PTL DEF Spec

-----------------------------------------------------------------------------
(***************************************************************************)
(* What a step of p must respect: other processes and the locks they hold; *)
(* and for every resource p either holds the lock and leaves it current or *)
(* owed, or owes it a refresh, or changes nothing about it.                *)
(***************************************************************************)
OwedBy(p, r) == r \in failed \cup overlooked \cup Owed(p)
Untouched(r) == /\ Demand(r, booking') = Demand(r, booking)
                /\ Calculated(r)' = Calculated(r)
                /\ conflicts'[r] = conflicts[r]
Settled(p, r) == \/ lock[r] = p /\ (Stale(r)' => Debt(r)')
                 \/ OwedBy(p, r)'
                 \/ Untouched(r) /\ ~OwedBy(p, r)
Others(p) == \A q \in Processes \ {p} :
  /\ pc'[q] = pc[q] /\ now'[q] = now[q] /\ later'[q] = later[q] /\ periods'[q] = periods[q]
  /\ \A r \in Resources : lock[r] = q => lock'[r] = q
Careful(p) == Others(p) /\ \A r \in Resources :
  Settled(p, r) /\ Accurate(p, r)' /\ Holds(p, r)'

\* A careful step keeps the part of the invariant that is about staleness.
LEMMA CarefulKeeps ==
  ASSUME LockInv, ReadInv, StaleInv, NEW p \in Processes, Careful(p)
  PROVE  LockInv' /\ ReadInv' /\ StaleInv'
<1> USE DEF Careful
<1>1. \A q \in Processes \ {p} : Owed(q)' = Owed(q)
  BY DEF Others, Owed, Refreshing
<1>2. ASSUME NEW q \in Processes, NEW r \in Resources PROVE Holds(q, r)'
  <2>1. CASE q = p
    BY <2>1
  <2>2. CASE q # p
    BY <2>2 DEF Others, LockInv, Holds, IsNext
  <2> QED  BY <2>1, <2>2
<1>3. ASSUME NEW q \in Processes, NEW r \in Resources PROVE Accurate(q, r)'
  <2>1. CASE q = p
    BY <2>1
  <2>2. CASE q # p
    <3> SUFFICES ASSUME IsNext(q, r)', pc'[q] \in {"demand", "calculated"}
                 PROVE  Accurate(q, r)'
      BY DEF Accurate
    <3>1. IsNext(q, r) /\ pc'[q] = pc[q] /\ periods'[q] = periods[q] /\ later'[q] = later[q]
      BY <2>2 DEF Others, IsNext
    <3>2. lock[r] = q
      BY <3>1 DEF LockInv, Holds
    <3>3. CASE OwedBy(p, r)'
      <4>1. Elsewhere(q, r)'
        BY <2>2, <3>3 DEF OwedBy, Elsewhere
      <4> QED  BY <4>1 DEF Accurate
    <3>4. CASE Untouched(r) /\ ~OwedBy(p, r)
      <4>1. Elsewhere(q, r) => OwedBy(p, r) \/ Elsewhere(q, r)'
        BY <1>1, <3>1, <3>4 DEF Elsewhere, OwedBy, Settled
      <4>2. Accurate(q, r)
        BY DEF ReadInv
      <4> QED  BY <3>1, <3>4, <4>1, <4>2 DEF Accurate, Untouched
    <3> QED  BY <2>2, <3>2, <3>3, <3>4 DEF Settled
  <2> QED  BY <2>1, <2>2
<1>4. ASSUME NEW r \in Resources, Stale(r)' PROVE Debt(r)'
  <2>1. CASE OwedBy(p, r)'
    BY <2>1 DEF OwedBy, Debt
  <2>2. CASE Untouched(r) /\ ~OwedBy(p, r)
    <3>1. Stale(r)
      BY <1>4, <2>2 DEF Stale, Untouched
    <3>2. PICK q \in Processes : r \in Owed(q)
      BY <2>2, <3>1 DEF StaleInv, Debt, OwedBy
    <3>3. q # p
      BY <2>2, <3>2 DEF OwedBy
    <3> QED  BY <1>1, <3>2, <3>3 DEF Debt
  <2> QED  BY <1>4, <2>1, <2>2 DEF Settled
<1> QED  BY <1>2, <1>3, <1>4 DEF LockInv, ReadInv, StaleInv

-----------------------------------------------------------------------------
\* Bookings that are not on r, before or after, are no demand on r.
LEMMA SameDemand ==
  ASSUME NEW r, NEW b, NEW c,
         \A a \in Assignments : b[a] = c[a] \/ /\ b[a] \in Row => b[a].resource # r
                                               /\ c[a] \in Row => c[a].resource # r
  PROVE  Demand(r, b) = Demand(r, c)
<1> \A s \in Slots : On(r, s, b) = On(r, s, c)
  BY DEF On
<1> QED  BY DEF Demand

\* A request that commits owes what it names, and has read nothing yet.
LEMMA AfterRefresh ==
  ASSUME TypeOK, NEW p \in Processes, NEW first, NEW second, NEW failing,
         RefreshReporting(p, first, second, failing), UNCHANGED lock \/ Release(p)
  PROVE  /\ Owed(p)' = first \cup second
         /\ \A r \in Resources : Accurate(p, r)' /\ Holds(p, r)'
         /\ Others(p)
<1> USE DEF TypeOK, RefreshReporting
<1>1. pc'[p] = IF first \cup second = {} THEN "idle" ELSE "refresh"
  OBVIOUS
<1>2. now'[p] \cup later'[p] = first \cup second
  OBVIOUS
<1>3. Owed(p)' = first \cup second
  BY <1>1, <1>2 DEF Owed, Refreshing
<1>4. \A r \in Resources : Accurate(p, r)' /\ Holds(p, r)'
  BY <1>1 DEF Accurate, Holds
<1>5. \A q \in Processes \ {p}, r \in Resources : lock[r] = q => lock'[r] = q
  BY DEF Release
<1>6. Others(p)
  BY <1>5 DEF Others
<1> QED  BY <1>3, <1>4, <1>6

-----------------------------------------------------------------------------
\* The planning writes of a request are careful.
LEMMA RequestCareful ==
  ASSUME TypeOK, NEW p \in Handlers, Request(p) PROVE Careful(p)
<1>p. p \in Processes
  BY DEF Processes
<1>i. pc[p] = "idle" /\ Owed(p) = {}
  BY DEF Request, CreateAssignment, LoadAssignment, EditAbsence, EditCalendar, DeletePackages,
         Begin, Owed, Refreshing
<1>1. ASSUME NEW a \in Assignments, NEW row \in Row, CreateAssignment(p, a, row)
      PROVE  Careful(p)
  <2> USE <1>1 DEF CreateAssignment, Refresh
  <2>r. RefreshReporting(p, {row.resource}, {}, FALSE) /\ UNCHANGED lock
    BY DEF locks
  <2>1. Owed(p)' = {row.resource} \cup {} /\ Others(p)
        /\ \A r \in Resources : Accurate(p, r)' /\ Holds(p, r)'
    BY <1>p, <2>r, AfterRefresh, Zenon
  <2>2. ASSUME NEW r \in Resources, r # row.resource PROVE Untouched(r)
    <3>1. Demand(r, booking') = Demand(r, booking)
      BY <2>2, SameDemand, ValuesAssumption DEF TypeOK
    <3> QED  BY <3>1 DEF Untouched, Calculated
  <2> QED  BY <1>i, <2>1, <2>2 DEF Careful, Settled, OwedBy, history
<1>2. ASSUME NEW a \in Assignments, NEW next \in {"update", "delete"},
             LoadAssignment(p, a, next)
      PROVE  Careful(p)
  <2>1. pc'[p] = next /\ Others(p) /\ Owed(p)' = {}
    BY <1>2, <1>p DEF LoadAssignment, Others, locks, TypeOK, Owed, Refreshing
  <2>2. \A r \in Resources : Untouched(r)
    BY <1>2 DEF LoadAssignment, database, Untouched, Calculated
  <2> QED
    BY <1>2, <1>i, <2>1, <2>2
       DEF LoadAssignment, Careful, Settled, OwedBy, history, Accurate, Holds
<1>3. ASSUME NEW r \in Resources, NEW c \in Capacities, EditAbsence(p, r, c)
      PROVE  Careful(p)
  <2> USE <1>3 DEF EditAbsence
  <2>r. RefreshReporting(p, {r}, {}, TRUE) /\ UNCHANGED lock
    BY DEF locks
  <2>1. Owed(p)' = {r} \cup {} /\ Others(p)
        /\ \A s \in Resources : Accurate(p, s)' /\ Holds(p, s)'
    BY <1>p, <2>r, AfterRefresh, Zenon
  <2>2. ASSUME NEW s \in Resources, s # r PROVE Untouched(s)
    BY <2>2 DEF Untouched, Calculated, TypeOK
  <2> QED  BY <1>i, <2>1, <2>2 DEF Careful, Settled, OwedBy, history
<1>4. ASSUME NEW granted \in [Resources -> Capacities], EditCalendar(p, granted)
      PROVE  Careful(p)
  <2> USE <1>4 DEF EditCalendar, Refresh
  <2>r. RefreshReporting(p, Known, {}, FALSE) /\ UNCHANGED lock
    BY DEF locks
  <2>1. Owed(p)' = Known \cup {} /\ Others(p)
        /\ \A r \in Resources : Accurate(p, r)' /\ Holds(p, r)'
    BY <1>p, <2>r, AfterRefresh, Zenon
  <2>2. ASSUME NEW r \in Resources, r \notin Known PROVE Untouched(r)
    <3>1. \A s \in Slots : Demand(r, booking)[s] = {}
      BY <2>2 DEF Known, Demand
    <3>2. Calculated(r) = NoPeriods /\ Calculated(r)' = NoPeriods
      BY <3>1 DEF Calculated, Exceeding, NoPeriods
    <3> QED  BY <3>2 DEF Untouched
  <2> QED  BY <1>i, <2>1, <2>2 DEF Careful, Settled, OwedBy, history
<1>5. ASSUME NEW W \in Deletions, DeletePackages(p, W) PROVE Careful(p)
  <2>1. pc'[p] = "packages" /\ Others(p) /\ Owed(p)' = {}
    BY <1>5, <1>p DEF DeletePackages, Others, TypeOK, Owed, Refreshing, locks
  <2>2. \A r \in Resources : Untouched(r)
    BY <1>5 DEF DeletePackages, database, Untouched, Calculated
  <2> QED
    BY <1>5, <1>i, <2>1, <2>2 DEF DeletePackages, Careful, Settled, OwedBy, history, Accurate, Holds
<1> QED  BY <1>1, <1>2, <1>3, <1>4, <1>5, PlansAssumption DEF Request

\* A lock is only taken while it is free.
LEMMA AcquireCareful ==
  ASSUME TypeOK, LockInv, NEW p \in Processes, Acquire(p) PROVE Careful(p)
<1>f. \A q \in Processes : q # Free
  BY ValuesAssumption
<1>1. ASSUME NEW r \in Resources, TakeLock(p, r) PROVE Careful(p)
  <2> USE <1>1 DEF TakeLock, Working
  <2>1. Owed(p)' = Owed(p) /\ \A s \in Resources : Untouched(s)
    BY DEF TypeOK, Owed, Refreshing, database, Untouched, Calculated
  <2>2. Others(p)
    BY <1>f DEF TypeOK, Others
  <2>3. \A s \in Resources : IsNext(p, s)' => s = r
    BY OneNext DEF TypeOK, IsNext
  <2>4. lock'[r] = p /\ pc'[p] = "locked"
    BY DEF TypeOK
  <2> QED  BY <2>1, <2>2, <2>3, <2>4 DEF Careful, Settled, OwedBy, history, Accurate, Holds
<1>2. ASSUME NEW r \in Resources, CascadeLock(p, r) PROVE Careful(p)
  <2> USE <1>2 DEF CascadeLock, Working, session
  <2>1. Owed(p)' = Owed(p) /\ \A s \in Resources : Untouched(s)
    BY DEF Owed, Refreshing, database, Untouched, Calculated
  <2>2. Others(p)
    BY <1>f DEF TypeOK, Others
  <2> QED  BY <2>1, <2>2 DEF Careful, Settled, OwedBy, history, Accurate, Holds
<1>3. ASSUME NEW w \in Packages, LockPackage(p, w) PROVE Careful(p)
  <2> USE <1>3 DEF LockPackage, Working
  <2>1. Owed(p)' = Owed(p) /\ \A s \in Resources : Untouched(s)
    BY DEF Owed, Refreshing, database, Untouched, Calculated
  <2> QED  BY <2>1 DEF Careful, Others, Settled, OwedBy, history, Accurate, Holds
<1> QED  BY <1>1, <1>2, <1>3 DEF Acquire

\* Saving an edited or deleted booking is careful: what it does not owe, it overlooks.
LEMMA SavingCareful ==
  ASSUME TypeOK, SeenInv, NEW p \in Processes,
         \/ UpdateAssignment(p) \/ \E wanted \in Row : LockBooking(p, wanted)
         \/ SelectLinkedConflicts(p) \/ DeleteAssignment(p) \/ Refuse(p)
  PROVE  Careful(p)
<1> USE ValuesAssumption
<1>i. Owed(p) = {}
  BY DEF UpdateAssignment, LockBooking, SelectLinkedConflicts, DeleteAssignment, Refuse, Refused,
         Working, Owed, Refreshing
<1>1. ASSUME UpdateAssignment(p) PROVE Careful(p)
  <2> DEFINE a == seen[p].assignment
             old == seen[p].row.resource
             new == seen[p].wanted.resource
             row == Updated(p)
             told == {new} \cup ({old} \ {new})
             changed == IF row = booking[a] THEN {} ELSE {row.resource, booking[a].resource}
  <2>1. /\ RefreshReporting(p, {new}, {old} \ {new}, FALSE) /\ Release(p)
        /\ UNCHANGED <<conflicts, capacity, failed>>
        /\ booking' = [booking EXCEPT ![a] = row]
        /\ overlooked' = overlooked \cup (changed \ {new, old})
    BY <1>1 DEF UpdateAssignment, Refresh
  <2>2. a \in Assignments
    BY <1>1 DEF UpdateAssignment, Working, SeenInv, Loaded
  <2>3. Owed(p)' = told /\ Others(p)
        /\ \A r \in Resources : Accurate(p, r)' /\ Holds(p, r)'
    BY <2>1, AfterRefresh, Zenon
  <2>4. ASSUME NEW r \in Resources, r \notin told, r \notin overlooked' PROVE Untouched(r)
    <3>1. booking'[a] = booking[a] \/ (row.resource # r /\ booking[a].resource # r)
      BY <2>1, <2>2, <2>4 DEF TypeOK
    <3> HIDE DEF a, row
    <3>2. \A b \in Assignments : booking'[b] = booking[b] \/ (b = a /\ booking'[b] = row)
      BY <2>1, <2>2 DEF TypeOK
    <3>3. Demand(r, booking') = Demand(r, booking)
      BY <3>1, <3>2, SameDemand
    <3> QED  BY <2>1, <3>3 DEF Untouched, Calculated
  <2> HIDE DEF a, told, changed, row, old, new
  <2> QED  BY <1>i, <2>1, <2>3, <2>4 DEF Careful, Settled, OwedBy
<1>5. ASSUME NEW wanted \in Row, LockBooking(p, wanted) PROVE Careful(p)
  <2>1. pc'[p] = "write" /\ Others(p) /\ Owed(p)' = {}
    BY <1>5 DEF LockBooking, Others, TypeOK, Owed, Refreshing
  <2>2. \A r \in Resources : Untouched(r)
    BY <1>5 DEF LockBooking, database, Untouched, Calculated
  <2> QED
    BY <1>5, <1>i, <2>1, <2>2
       DEF LockBooking, Careful, Settled, OwedBy, history, Accurate, Holds
<1>2. ASSUME SelectLinkedConflicts(p) PROVE Careful(p)
  <2>1. pc'[p] = "unlink" /\ Others(p) /\ Owed(p)' = {}
    BY <1>2 DEF SelectLinkedConflicts, Others, TypeOK, Owed, Refreshing, locks
  <2>2. \A r \in Resources : Untouched(r)
    BY <1>2 DEF SelectLinkedConflicts, database, Untouched, Calculated
  <2> QED
    BY <1>2, <1>i, <2>1, <2>2
       DEF SelectLinkedConflicts, Careful, Settled, OwedBy, history, Accurate, Holds
<1>3. ASSUME DeleteAssignment(p) PROVE Careful(p)
  <2> DEFINE a == seen[p].assignment
             home == seen[p].row.resource
             changed == {r \in Resources : WithoutMarked(p)[r] # conflicts[r]}
                          \cup (IF Exists(a) THEN {booking[a].resource} ELSE {})
  <2>1. /\ RefreshReporting(p, {home}, {}, FALSE)
        /\ UNCHANGED <<lock, capacity, failed>>
        /\ booking' = [booking EXCEPT ![a] = Gone]
        /\ conflicts' = WithoutMarked(p)
        /\ overlooked' = overlooked \cup (changed \ {home})
    BY <1>3 DEF DeleteAssignment, Refresh, locks
  <2>2. a \in Assignments
    BY <1>3 DEF DeleteAssignment, Working, SeenInv, Loaded
  <2>3. Owed(p)' = {home} \cup {} /\ Others(p)
        /\ \A r \in Resources : Accurate(p, r)' /\ Holds(p, r)'
    BY <2>1, AfterRefresh, Zenon
  <2>4. ASSUME NEW r \in Resources, r # home, r \notin overlooked' PROVE Untouched(r)
    <3>1. conflicts'[r] = conflicts[r] /\ (booking[a] \in Row => booking[a].resource # r)
      BY <2>1, <2>4 DEF Exists
    <3> HIDE DEF a
    <3>2. \A b \in Assignments : booking'[b] = booking[b] \/ (b = a /\ booking'[b] = Gone)
      BY <2>1, <2>2 DEF TypeOK
    <3>3. Demand(r, booking') = Demand(r, booking)
      BY <3>1, <3>2, SameDemand
    <3> QED  BY <2>1, <3>1, <3>3 DEF Untouched, Calculated
  <2> HIDE DEF a, home, changed
  <2> QED  BY <1>i, <2>1, <2>3, <2>4 DEF Careful, Settled, OwedBy
<1>4. ASSUME Refuse(p) PROVE Careful(p)
  <2>1. RefreshReporting(p, {}, {}, FALSE) /\ Release(p)
    BY <1>4 DEF Refuse, Refresh
  <2>2. Owed(p)' = {} \cup {} /\ Others(p)
        /\ \A r \in Resources : Accurate(p, r)' /\ Holds(p, r)'
    BY <2>1, AfterRefresh, Zenon
  <2>3. \A r \in Resources : Untouched(r)
    BY <1>4 DEF Refuse, database, Untouched, Calculated
  <2> QED  BY <1>4, <1>i, <2>2, <2>3 DEF Refuse, Careful, Settled, OwedBy, history
<1> QED  BY <1>1, <1>2, <1>3, <1>4, <1>5

\* A deletion that selects its bookings, and a waiter that is failed, change no plan.
LEMMA PlanlessCareful ==
  ASSUME TypeOK, NEW p \in Processes, SelectBookings(p) \/ BreakDeadlock(p) PROVE Careful(p)
<1>1. ASSUME SelectBookings(p) PROVE Careful(p)
  <2>1. pc'[p] = "cascade" /\ Others(p) /\ Owed(p)' = {} /\ Owed(p) = {}
    BY <1>1 DEF SelectBookings, Working, Others, TypeOK, Owed, Refreshing, locks
  <2>2. \A r \in Resources : Untouched(r)
    BY <1>1 DEF SelectBookings, database, Untouched, Calculated
  <2> QED
    BY <1>1, <2>1, <2>2 DEF SelectBookings, Careful, Settled, OwedBy, history, Accurate, Holds
<1>2. ASSUME BreakDeadlock(p) PROVE Careful(p)
  <2>1. Owed(p) = {}
    BY <1>2 DEF BreakDeadlock, Stuck, WaitsFor, AwaitedPackages, AwaitedResources, AwaitedRows,
            Owed, Refreshing
  <2>2. RefreshReporting(p, {}, {}, FALSE) /\ Release(p)
    BY <1>2 DEF BreakDeadlock, Refresh
  <2>3. Owed(p)' = {} \cup {} /\ Others(p)
        /\ \A r \in Resources : Accurate(p, r)' /\ Holds(p, r)'
    BY <2>2, AfterRefresh, Zenon
  <2>4. \A r \in Resources : Untouched(r)
    BY <1>2 DEF BreakDeadlock, database, Untouched, Calculated
  <2> QED  BY <1>2, <2>1, <2>3, <2>4 DEF BreakDeadlock, Careful, Settled, OwedBy, history
<1> QED  BY <1>1, <1>2

\* A package deletion stages current conflicts for every resource it has locked.
LEMMA CascadeCareful ==
  ASSUME TypeOK, NEW p \in Processes, CascadeCommit(p) \/ CascadeRefused(p) PROVE Careful(p)
<1>i. Owed(p) = {}
  BY DEF CascadeCommit, CascadeRefused, Working, Owed, Refreshing
<1>r. RefreshReporting(p, {}, {}, FALSE) /\ Release(p)
  BY DEF CascadeCommit, CascadeRefused, Refresh
<1>o. Owed(p)' = {} \cup {} /\ Others(p)
      /\ \A r \in Resources : Accurate(p, r)' /\ Holds(p, r)'
  BY <1>r, AfterRefresh, Zenon
<1>1. ASSUME CascadeCommit(p) PROVE Careful(p)
  <2> USE <1>1 DEF CascadeCommit
  <2>1. ASSUME NEW r \in now[p], r \in Resources PROVE lock[r] = p /\ ~Stale(r)'
    <3>1. conflicts'[r] = Exceeding(Demand(r, Remaining(p)), capacity[r])
      BY <2>1
    <3> QED  BY <2>1, <3>1 DEF AllLocked, Stale, Calculated
  <2>2. ASSUME NEW r \in Resources \ now[p], r \notin overlooked' PROVE Untouched(r)
    <3>1. \A v \in victims[p] : Exists(v) => booking[v].resource # r
      BY <2>2
    <3>2. \A a \in Assignments :
             \/ booking'[a] = booking[a]
             \/ booking'[a] = Gone /\ (booking[a] \in Row => booking[a].resource # r)
      BY <3>1 DEF Remaining, Exists
    <3>3. Demand(r, booking') = Demand(r, booking)
      <4> HIDE <1>1 DEF CascadeCommit
      <4> QED  BY <3>2, SameDemand, ValuesAssumption
    <3>4. conflicts'[r] = conflicts[r] /\ capacity' = capacity
      BY <2>2
    <3> HIDE <1>1 DEF CascadeCommit
    <3> QED  BY <3>3, <3>4 DEF Untouched, Calculated
  <2>3. failed' = failed /\ overlooked \subseteq overlooked'
    OBVIOUS
  <2> HIDE <1>1 DEF CascadeCommit
  <2> QED  BY <1>i, <1>o, <2>1, <2>2, <2>3 DEF Careful, Settled, OwedBy
<1>2. ASSUME CascadeRefused(p) PROVE Careful(p)
  <2>1. \A r \in Resources : Untouched(r)
    BY <1>2 DEF CascadeRefused, database, Untouched, Calculated
  <2> QED  BY <1>2, <1>i, <1>o, <2>1 DEF CascadeRefused, Careful, Settled, OwedBy, history
<1> QED  BY <1>1, <1>2

\* What a refresh reads it reads under the resource's lock, and so is current.
LEMMA ReadingCareful ==
  ASSUME TypeOK, LockInv, ReadInv, NEW p \in Processes, NEW r \in Resources,
         ReadBookings(p, r) \/ ReadCapacity(p, r)
  PROVE  Careful(p)
<1> USE DEF TypeOK
<1>1. lock[r] = p
  BY DEF ReadBookings, ReadCapacity, Working, LockInv, Holds
<1>2. /\ Others(p) /\ UNCHANGED <<now, later, lock>>
      /\ Refreshing(p) /\ Refreshing(p)' /\ pc'[p] \in {"demand", "calculated"}
  BY DEF ReadBookings, ReadCapacity, Working, locks, Refreshing, Others
<1>3. Owed(p)' = Owed(p) /\ r \in Owed(p)
  BY <1>2 DEF Owed, ReadBookings, ReadCapacity, IsNext
<1>4. \A s \in Resources : Untouched(s)
  BY DEF ReadBookings, ReadCapacity, database, Untouched, Calculated
<1>5. \A s \in Resources : IsNext(p, s)' => s = r
  BY <1>2, OneNext DEF IsNext, ReadBookings, ReadCapacity
<1>6. \A s \in Resources : Holds(p, s)'
  BY <1>1, <1>2, <1>5 DEF Holds
<1>7. \A s \in Resources : Settled(p, s)
  BY <1>3, <1>4 DEF Settled, OwedBy, ReadBookings, ReadCapacity, history
<1>8. Accurate(p, r)'
  <2>1. CASE ReadBookings(p, r)
    BY <2>1 DEF ReadBookings, Accurate, database, Demand, On
  <2>2. CASE ReadCapacity(p, r)
    <3>1. /\ pc'[p] = "calculated" /\ UNCHANGED <<database, history>>
          /\ periods'[p] = Exceeding(periods[p], capacity[r])
          /\ periods[p] = Demand(r, booking) \/ Elsewhere(p, r)
      BY <2>2 DEF ReadCapacity, Working, ReadInv, Accurate
    <3>2. Elsewhere(p, r) => Elsewhere(p, r)'
      BY <1>2, <3>1 DEF history, Elsewhere, Others, Owed, Refreshing
    <3>3. Calculated(r)' = Exceeding(Demand(r, booking), capacity[r])
      BY <3>1 DEF database, Calculated
    <3> QED  BY <3>1, <3>2, <3>3 DEF Accurate
  <2> QED  BY <2>1, <2>2
<1>9. \A s \in Resources : Accurate(p, s)'
  BY <1>5, <1>8 DEF Accurate
<1> QED  BY <1>2, <1>6, <1>7, <1>9 DEF Careful

\* What a refresh stores is current, or the resource is owed a later one.
LEMMA StoringCareful ==
  ASSUME TypeOK, LockInv, ReadInv, NEW p \in Processes, NEW r \in Resources,
         ReplacePeriods(p, r)
  PROVE  Careful(p)
<1> USE DEF ReplacePeriods, Refresh, Working
<1>1. lock[r] = p
  BY DEF LockInv, Holds
<1>2. RefreshReporting(p, now[p] \ {r}, later[p], FALSE) /\ Release(p)
  OBVIOUS
<1>3. Owed(p)' = (now[p] \ {r}) \cup later[p] /\ Others(p)
      /\ \A s \in Resources : Accurate(p, s)' /\ Holds(p, s)'
  BY <1>2, AfterRefresh, Zenon
<1>4. Owed(p) = now[p] \cup later[p]
  BY DEF Owed, Refreshing
<1>5. conflicts' = [conflicts EXCEPT ![r] = periods[p]]
      /\ UNCHANGED <<booking, capacity, failed, overlooked>>
  BY DEF history
<1>6. \A s \in Resources : Calculated(s)' = Calculated(s) /\ Demand(s, booking') = Demand(s, booking)
  BY <1>5 DEF Calculated
<1>7. periods[p] = Calculated(r) \/ Elsewhere(p, r)
  BY DEF ReadInv, Accurate
<1> HIDE DEF ReplacePeriods, Refresh, Working
<1>8. Stale(r)' => Debt(r)'
  <2>1. Stale(r)' => Elsewhere(p, r)
    BY <1>5, <1>6, <1>7 DEF TypeOK, Stale
  <2>2. Elsewhere(p, r) => Debt(r)'
    BY <1>3, <1>5 DEF Elsewhere, Debt, Others, Owed, Refreshing
  <2> QED  BY <2>1, <2>2
<1>9. ASSUME NEW s \in Resources, s # r PROVE Settled(p, s)
  BY <1>3, <1>4, <1>5, <1>6, <1>9 DEF TypeOK, Settled, OwedBy, Untouched
<1>10. Settled(p, r)
  BY <1>1, <1>8 DEF Settled
<1> QED  BY <1>3, <1>9, <1>10 DEF Careful

\* A refresh that fails or dies is recorded as failed.
LEMMA FailingCareful ==
  ASSUME TypeOK, NEW p \in Processes,
         (Refreshing(p) /\ Abandon(p)) \/ Crash(p)
  PROVE  Careful(p)
<1>1. ASSUME Refreshing(p), Abandon(p) PROVE Careful(p)
  <2>1. RefreshReporting(p, {}, later[p], FALSE) /\ Release(p)
    BY <1>1 DEF Abandon, Refresh
  <2>2. Owed(p)' = {} \cup later[p] /\ Others(p)
        /\ \A r \in Resources : Accurate(p, r)' /\ Holds(p, r)'
    BY <2>1, AfterRefresh, Zenon
  <2>3. Owed(p) = now[p] \cup later[p]
    BY <1>1 DEF Owed
  <2>4. \A r \in Resources : Untouched(r)
    BY <1>1 DEF Abandon, database, Untouched, Calculated
  <2>5. failed' = failed \cup now[p] /\ overlooked' = overlooked
    BY <1>1 DEF Abandon
  <2> QED  BY <2>2, <2>3, <2>4, <2>5 DEF Careful, Settled, OwedBy
<1>2. ASSUME Crash(p) PROVE Careful(p)
  <2>1. RefreshReporting(p, {}, {}, FALSE) /\ Release(p)
    BY <1>2 DEF Crash, Refresh
  <2>2. Owed(p)' = {} \cup {} /\ Others(p)
        /\ \A r \in Resources : Accurate(p, r)' /\ Holds(p, r)'
    BY <2>1, AfterRefresh, Zenon
  <2>3. failed' = failed \cup Owed(p) /\ overlooked' = overlooked
    BY <1>2 DEF Crash, Owed
  <2>4. \A r \in Resources : Untouched(r)
    BY <1>2 DEF Crash, database, Untouched, Calculated
  <2> QED  BY <2>2, <2>3, <2>4 DEF Careful, Settled, OwedBy
<1> QED  BY <1>1, <1>2

\* The periodic check owes a refresh to every resource it knows.
LEMMA CheckCareful == ASSUME TypeOK, StartCheck PROVE Careful(Checker)
<1> USE DEF StartCheck, Refresh, Working
<1>p. Checker \in Processes
  BY DEF Processes
<1>1. RefreshReporting(Checker, Known, {}, FALSE) /\ UNCHANGED lock
  BY DEF locks
<1>2. Owed(Checker)' = Known \cup {} /\ Others(Checker)
      /\ \A r \in Resources : Accurate(Checker, r)' /\ Holds(Checker, r)'
  BY <1>p, <1>1, AfterRefresh, Zenon
<1>3. Owed(Checker) = {}
  BY DEF Owed, Refreshing
<1>4. \A r \in Resources : Untouched(r)
  BY DEF database, Untouched, Calculated
<1> QED  BY <1>2, <1>3, <1>4 DEF Careful, Settled, OwedBy, history

-----------------------------------------------------------------------------
LEMMA Invariance == IInv /\ [Next]_vars => IInv'
<1> SUFFICES ASSUME IInv, [Next]_vars PROVE IInv'
  OBVIOUS
<1> USE DEF IInv
<1>1. TypeOK' /\ SeenInv'
  BY TypeStep, SeenStep
<1>p. Handlers \subseteq Processes /\ Checker \in Processes
  BY DEF Processes
<1>2. CASE Next
  <2>1. \E p \in Processes : Careful(p)
    <3>1. ASSUME NEW p \in Handlers, Request(p) PROVE Careful(p)
      BY <3>1, RequestCareful
    <3>2. ASSUME NEW p \in Processes, Proceed(p) PROVE Careful(p)
      <4>1. CASE InsertFails(p)
        BY <4>1, FailingCareful DEF InsertFails, Working, Refreshing
      <4> QED
        BY <3>2, <4>1, SavingCareful, CascadeCareful, ReadingCareful, StoringCareful,
           PlanlessCareful, PlansAssumption DEF Proceed
    <3>3. ASSUME NEW p \in Processes, Acquire(p) \/ RefreshFails(p) \/ Crash(p)
          PROVE  Careful(p)
      BY <3>3, AcquireCareful, FailingCareful DEF RefreshFails
    <3>4. StartCheck => Careful(Checker)
      BY CheckCareful
    <3> QED  BY <1>2, <1>p, <3>1, <3>2, <3>3, <3>4 DEF Next
  <2> QED  BY <1>1, <2>1, CarefulKeeps
<1>3. CASE UNCHANGED vars
  <2>1. LockInv' /\ ReadInv' /\ StaleInv'
    BY <1>3
       DEF vars, database, locks, session, history, LockInv, Holds, IsNext, ReadInv, Accurate,
           StaleInv, Stale, Calculated, Debt, Elsewhere, Owed, Refreshing
  <2> QED  BY <1>1, <2>1
<1> QED  BY <1>2, <1>3

\* Nobody's stale result: a resource whose stored conflicts do not match the
\* committed plan is owed a refresh, or its refresh failed, or a write that did
\* not know the resource has changed it.
THEOREM NobodysStaleResult == Spec => []StaleOnlyIfOwed
<1>1. IInv => StaleOnlyIfOwed
  BY DebtIsOwed DEF IInv, StaleInv, StaleOnlyIfOwed
<1> QED  BY <1>1, InitHolds, Invariance, PTL DEF Spec

-----------------------------------------------------------------------------
(***************************************************************************)
(* The deletions.  Who holds the lock of a package is deleting it, and     *)
(* knows every booking in it: a booking joins a package only while nobody  *)
(* holds its lock.  And the rows that a deletion of a booking selected     *)
(* still link the booking: one that is replaced has a new id.              *)
(***************************************************************************)
PackageInv == \A p \in Processes, w \in Packages : packageLock[w] = p =>
  /\ pc[p] \in {"packages", "cascade"}
  /\ pc[p] = "cascade" =>
       \A a \in Assignments : Exists(a) /\ booking[a].package = w => a \in victims[p]

MarkedInv == \A p \in Processes : pc[p] = "unlink" =>
  \A k \in marked[p] : seen[p].assignment \in conflicts[k[1]][k[2]]

\* A booking stays in its package, or joins one that nobody is deleting.
Attached == \A a \in Assignments : booking'[a] \in Row =>
  \/ booking[a] \in Row /\ booking'[a].package = booking[a].package
  \/ packageLock[booking'[a].package] = Free

\* Rows that others have selected are left as they are.
MarksKept(p) == \A q \in Processes \ {p} : \A k \in marked'[q] :
  k \in marked[q] /\ conflicts'[k[1]][k[2]] = conflicts[k[1]][k[2]]

\* A transaction that ends leaves no lock behind ...
LEMMA EndKeepsPackages ==
  ASSUME TypeOK, PackageInv, Attached, NEW p \in Processes, NEW first, NEW second, NEW failing,
         RefreshReporting(p, first, second, failing),
         (UNCHANGED packageLock /\ pc[p] \notin {"packages", "cascade"}) \/ Release(p)
  PROVE  PackageInv'
<1> SUFFICES ASSUME NEW q \in Processes, NEW w \in Packages, packageLock'[w] = q
             PROVE  /\ pc'[q] \in {"packages", "cascade"}
                    /\ pc'[q] = "cascade" =>
                         \A a \in Assignments : booking'[a] \in Row /\ booking'[a].package = w
                                                => a \in victims'[q]
  BY DEF PackageInv, Exists
<1>f. q # Free
  BY ValuesAssumption
<1>1. packageLock[w] = q /\ q # p
  BY <1>f DEF Release, PackageInv, TypeOK
<1>2. pc'[q] = pc[q] /\ victims'[q] = victims[q]
  BY <1>1 DEF RefreshReporting, TypeOK
<1>3. ASSUME NEW a \in Assignments, booking'[a] \in Row, booking'[a].package = w
      PROVE  booking[a] \in Row /\ booking[a].package = w
  BY <1>1, <1>3, <1>f DEF Attached
<1> QED  BY <1>1, <1>2, <1>3 DEF PackageInv, Exists

\* ... and no selection.
LEMMA EndKeepsMarks ==
  ASSUME TypeOK, MarkedInv, NEW p \in Processes, NEW first, NEW second, NEW failing,
         RefreshReporting(p, first, second, failing), MarksKept(p)
  PROVE  MarkedInv'
<1> SUFFICES ASSUME NEW q \in Processes, pc'[q] = "unlink", NEW k \in marked'[q]
             PROVE  seen'[q].assignment \in conflicts'[k[1]][k[2]]
  BY DEF MarkedInv
<1>1. q # p
  BY DEF RefreshReporting, TypeOK
<1>2. pc'[q] = pc[q] /\ seen'[q] = seen[q]
  BY <1>1 DEF RefreshReporting, TypeOK
<1> QED  BY <1>1, <1>2 DEF MarkedInv, MarksKept

LEMMA SameBookings == ASSUME TypeOK, UNCHANGED booking PROVE Attached
BY DEF Attached

\* What a process loses it loses for itself, and what it deletes for everybody.
LEMMA LosingKeepsMarks ==
  ASSUME TypeOK, NEW p \in Processes, NEW rows, Lose(p, rows),
         \A k \in ConflictRows \ rows : conflicts'[k[1]][k[2]] = conflicts[k[1]][k[2]]
  PROVE  MarksKept(p)
BY DEF MarksKept, Lose, StillSelected, TypeOK

LEMMA SameMarks ==
  ASSUME TypeOK, NEW p \in Processes, UNCHANGED <<conflicts, marked>> PROVE MarksKept(p)
BY DEF MarksKept

DeletionInv == PackageInv /\ MarkedInv

\* A transaction that ends, and touches neither bookings nor stored conflicts.
LEMMA PlainEnd ==
  ASSUME TypeOK, DeletionInv, NEW p \in Processes, NEW first, NEW second, NEW failing,
         RefreshReporting(p, first, second, failing),
         (UNCHANGED packageLock /\ pc[p] \notin {"packages", "cascade"}) \/ Release(p),
         UNCHANGED <<booking, conflicts>>, UNCHANGED marked \/ Lose(p, {})
  PROVE  DeletionInv'
<1>1. MarksKept(p)
  BY SameMarks, LosingKeepsMarks
<1> QED  BY <1>1, SameBookings, EndKeepsPackages, EndKeepsMarks DEF DeletionInv

\* A transaction that goes on, at a place of its own.
LEMMA PlainMove ==
  ASSUME TypeOK, DeletionInv, NEW p \in Processes, NEW at, at # "unlink",
         pc' = [pc EXCEPT ![p] = at], pc[p] \notin {"packages", "cascade", "unlink"},
         \A q \in Processes \ {p} : seen'[q] = seen[q],
         UNCHANGED <<booking, conflicts, packageLock, victims, marked>>
  PROVE  DeletionInv'
<1>1. PackageInv'
  BY DEF DeletionInv, PackageInv, Exists, TypeOK
<1>2. MarkedInv'
  BY DEF DeletionInv, MarkedInv, TypeOK
<1> QED  BY <1>1, <1>2 DEF DeletionInv

LEMMA DeletionStep == TypeOK /\ SeenInv /\ LockInv /\ DeletionInv /\ [Next]_vars => DeletionInv'
<1> SUFFICES ASSUME TypeOK, SeenInv, LockInv, DeletionInv, [Next]_vars PROVE DeletionInv'
  OBVIOUS
<1>p. Handlers \subseteq Processes /\ Checker \in Processes
  BY DEF Processes
<1>f. \A p \in Processes : p # Free
  BY ValuesAssumption
<1>1. ASSUME NEW p \in Handlers, NEW a \in Assignments, NEW row \in Row, CreateAssignment(p, a, row)
      PROVE  DeletionInv'
  <2>1. RefreshReporting(p, {row.resource}, {}, FALSE) /\ UNCHANGED <<packageLock, conflicts, marked>>
        /\ pc[p] = "idle" /\ booking' = [booking EXCEPT ![a] = row] /\ packageLock[row.package] = Free
    BY <1>1 DEF CreateAssignment, Refresh, Begin, Attachable, locks
  <2>2. Attached
    BY <2>1 DEF Attached, TypeOK
  <2> QED  BY <1>p, <2>1, <2>2, SameMarks, EndKeepsPackages, EndKeepsMarks DEF DeletionInv
<1>2. ASSUME NEW p \in Handlers, NEW a \in Assignments, NEW next \in {"update", "delete"},
             LoadAssignment(p, a, next)
      PROVE  DeletionInv'
  <2>1. pc[p] = "idle" /\ pc' = [pc EXCEPT ![p] = next] /\ \A q \in Processes \ {p} : seen'[q] = seen[q]
    BY <1>2 DEF LoadAssignment, Begin, TypeOK
  <2> QED  BY <1>2, <1>p, <2>1, PlainMove DEF LoadAssignment, database, locks
<1>3. ASSUME NEW p \in Handlers, NEW first, NEW second, NEW failing, pc[p] = "idle",
             RefreshReporting(p, first, second, failing),
             UNCHANGED <<packageLock, booking, conflicts, marked>>
      PROVE  DeletionInv'
  BY <1>3, <1>p, PlainEnd
<1>4. ASSUME NEW p \in Handlers, NEW W \in Deletions, DeletePackages(p, W) PROVE DeletionInv'
  <2>1. pc[p] = "idle" /\ pc' = [pc EXCEPT ![p] = "packages"]
    BY <1>4 DEF DeletePackages, Begin
  <2> QED  BY <1>4, <1>p, <2>1, PlainMove DEF DeletePackages, database, locks
<1>a. ASSUME NEW p \in Processes, NEW w \in Packages, LockPackage(p, w) PROVE DeletionInv'
  <2>1. /\ pc[p] = "packages" /\ packageLock' = [packageLock EXCEPT ![w] = IF w \in packages THEN p ELSE Free]
        /\ packageLock[w] = Free /\ UNCHANGED <<booking, conflicts, pc, seen, marked, victims>>
    BY <1>a DEF LockPackage, Working, database
  <2>2. \A q \in Processes, v \in Packages : packageLock'[v] = q => packageLock[v] = q \/ q = p
    BY <2>1, <1>f DEF TypeOK
  <2>3. PackageInv'
    BY <2>1, <2>2 DEF DeletionInv, PackageInv, Exists
  <2> QED  BY <2>1, <2>3 DEF DeletionInv, MarkedInv
<1>b. ASSUME NEW p \in Processes, SelectBookings(p) PROVE DeletionInv'
  <2> DEFINE found == {a \in Assignments : Exists(a) /\ packageLock[booking[a].package] = p}
  <2>1. /\ pc' = [pc EXCEPT ![p] = "cascade"] /\ victims' = [victims EXCEPT ![p] = found]
        /\ UNCHANGED <<booking, conflicts, packageLock, seen, marked>>
    BY <1>b DEF SelectBookings, database, locks
  <2>2. PackageInv'
    BY <2>1 DEF DeletionInv, PackageInv, Exists, TypeOK
  <2> QED  BY <2>1, <2>2 DEF DeletionInv, MarkedInv, TypeOK
<1>c. ASSUME NEW p \in Processes, NEW wanted \in Row, LockBooking(p, wanted) PROVE DeletionInv'
  <2>1. /\ pc[p] = "update" /\ pc' = [pc EXCEPT ![p] = "write"]
        /\ \A q \in Processes \ {p} : seen'[q] = seen[q]
    BY <1>c DEF LockBooking, Working, TypeOK
  <2> QED  BY <1>c, <2>1, PlainMove DEF LockBooking, database
<1>d. ASSUME NEW p \in Processes, BreakDeadlock(p) PROVE DeletionInv'
  BY <1>d, PlainEnd DEF BreakDeadlock, Refresh, database
<1>5. ASSUME NEW p \in Processes, NEW r \in Resources, TakeLock(p, r) PROVE DeletionInv'
  BY <1>5, PlainMove DEF TakeLock, Working, database
<1>6. ASSUME NEW p \in Processes, NEW r \in Resources, CascadeLock(p, r) PROVE DeletionInv'
  BY <1>6 DEF CascadeLock, database, session, DeletionInv, PackageInv, MarkedInv, Exists
<1>7. ASSUME NEW p \in Processes, UpdateAssignment(p) PROVE DeletionInv'
  <2> DEFINE a == seen[p].assignment
             old == seen[p].row.resource
             new == seen[p].wanted.resource
             row == Updated(p)
  <2>1. /\ RefreshReporting(p, {new}, {old} \ {new}, FALSE) /\ Release(p)
        /\ UNCHANGED <<conflicts, marked>>
        /\ booking' = [booking EXCEPT ![a] = row] /\ booking[a] \in Row
        /\ Moves(p) => packageLock[seen[p].wanted.package] = Free
    BY <1>7 DEF UpdateAssignment, Refresh, Exists, Attachable
  <2>2. row.package = booking[a].package \/ packageLock[row.package] = Free
    BY <2>1 DEF Updated, Merged, Pick, Moves
  <2> HIDE DEF row
  <2>3. Attached
    BY <2>1, <2>2 DEF Attached, TypeOK
  <2> HIDE DEF a, old, new
  <2> QED  BY <2>1, <2>3, SameMarks, EndKeepsPackages, EndKeepsMarks DEF DeletionInv
<1>8. ASSUME NEW p \in Processes, SelectLinkedConflicts(p) PROVE DeletionInv'
  <2>1. /\ pc[p] = "delete" /\ pc' = [pc EXCEPT ![p] = "unlink"]
        /\ marked' = [marked EXCEPT ![p] =
             {k \in ConflictRows : seen[p].assignment \in conflicts[k[1]][k[2]]}]
        /\ UNCHANGED <<booking, conflicts, packageLock, victims, seen>>
    BY <1>8 DEF SelectLinkedConflicts, Working, database, locks
  <2>2. PackageInv'
    BY <2>1 DEF DeletionInv, PackageInv, Exists, TypeOK
  <2>3. MarkedInv'
    <3> SUFFICES ASSUME NEW q \in Processes, pc'[q] = "unlink", NEW k \in marked'[q]
                 PROVE  seen[q].assignment \in conflicts[k[1]][k[2]]
      BY <2>1 DEF MarkedInv
    <3>1. CASE q = p
      BY <2>1, <3>1 DEF TypeOK
    <3>2. CASE q # p
      BY <2>1, <3>2 DEF DeletionInv, MarkedInv, TypeOK
    <3> QED  BY <3>1, <3>2
  <2> QED  BY <2>2, <2>3 DEF DeletionInv
<1>9. ASSUME NEW p \in Processes, DeleteAssignment(p) PROVE DeletionInv'
  <2>1. /\ RefreshReporting(p, {seen[p].row.resource}, {}, FALSE) /\ UNCHANGED packageLock
        /\ pc[p] = "unlink" /\ booking' = [booking EXCEPT ![seen[p].assignment] = Gone]
        /\ conflicts' = WithoutMarked(p) /\ Lose(p, marked[p])
    BY <1>9 DEF DeleteAssignment, Refresh, Working, locks
  <2>2. Attached
    BY <2>1, ValuesAssumption DEF Attached, TypeOK
  <2>3. \A k \in ConflictRows \ marked[p] : conflicts'[k[1]][k[2]] = conflicts[k[1]][k[2]]
    BY <2>1 DEF WithoutMarked, ConflictRows
  <2> QED  BY <2>1, <2>2, <2>3, LosingKeepsMarks, EndKeepsPackages, EndKeepsMarks DEF DeletionInv
<1>10. ASSUME NEW p \in Processes, Refuse(p) PROVE DeletionInv'
  BY <1>10, PlainEnd DEF Refuse, Refresh, database, locks
<1>11. ASSUME NEW p \in Processes, CascadeCommit(p) PROVE DeletionInv'
  <2>1. /\ RefreshReporting(p, {}, {}, FALSE) /\ Release(p) /\ Lose(p, RowsOf(now[p]))
        /\ booking' = Remaining(p)
        /\ \A r \in Resources \ now[p] : conflicts'[r] = conflicts[r]
    BY <1>11 DEF CascadeCommit, Refresh
  <2>2. Attached
    BY <2>1, ValuesAssumption DEF Attached, Remaining
  <2>3. \A k \in ConflictRows \ RowsOf(now[p]) : conflicts'[k[1]][k[2]] = conflicts[k[1]][k[2]]
    BY <2>1 DEF RowsOf, ConflictRows
  <2> QED  BY <2>1, <2>2, <2>3, LosingKeepsMarks, EndKeepsPackages, EndKeepsMarks DEF DeletionInv
<1>12. ASSUME NEW p \in Processes, CascadeRefused(p) PROVE DeletionInv'
  BY <1>12, PlainEnd DEF CascadeRefused, Refresh, database
<1>13. ASSUME NEW p \in Processes, NEW r \in Resources, ReadBookings(p, r) \/ ReadCapacity(p, r)
       PROVE  DeletionInv'
  <2>1. PICK at \in {"demand", "calculated"} : pc' = [pc EXCEPT ![p] = at]
    BY <1>13 DEF ReadBookings, ReadCapacity
  <2> QED  BY <1>13, <2>1, PlainMove DEF ReadBookings, ReadCapacity, Working, database, locks
<1>14. ASSUME NEW p \in Processes, NEW r \in Resources, ReplacePeriods(p, r) PROVE DeletionInv'
  <2>1. /\ RefreshReporting(p, now[p] \ {r}, later[p], FALSE) /\ Release(p) /\ UNCHANGED booking
        /\ conflicts' = [conflicts EXCEPT ![r] = periods[p]]
        /\ Lose(p, IF Differs(p, r) THEN RowsOf({r}) ELSE {})
    BY <1>14 DEF ReplacePeriods, Refresh
  <2>2. MarksKept(p)
    <3>1. CASE Differs(p, r)
      <4>1. \A k \in ConflictRows \ RowsOf({r}) : conflicts'[k[1]][k[2]] = conflicts[k[1]][k[2]]
        BY <2>1 DEF RowsOf, ConflictRows, TypeOK
      <4> QED  BY <2>1, <3>1, <4>1, LosingKeepsMarks
    <3>2. CASE ~Differs(p, r)
      <4>1. conflicts' = conflicts
        BY <2>1, <3>2 DEF Differs, TypeOK
      <4> QED  BY <2>1, <3>2, <4>1, LosingKeepsMarks
    <3> QED  BY <3>1, <3>2
  <2> QED  BY <2>1, <2>2, SameBookings, EndKeepsPackages, EndKeepsMarks DEF DeletionInv
<1>15. ASSUME NEW p \in Processes, Abandon(p) PROVE DeletionInv'
  BY <1>15, PlainEnd DEF Abandon, Refresh, database
<1>16. ASSUME NEW p \in Processes, Crash(p) PROVE DeletionInv'
  BY <1>16, PlainEnd DEF Crash, Refresh, database
<1>17. ASSUME StartCheck PROVE DeletionInv'
  BY <1>17, <1>p, PlainEnd DEF StartCheck, Working, Refresh, database, locks
<1>18. CASE UNCHANGED vars
  BY <1>18 DEF vars, database, locks, session, DeletionInv, PackageInv, MarkedInv, Exists
<1>19. ASSUME NEW p \in Handlers, Request(p) PROVE DeletionInv'
  <2>1. ASSUME NEW r \in Resources, NEW c \in Capacities, EditAbsence(p, r, c) PROVE DeletionInv'
    BY <1>3, <2>1 DEF EditAbsence, Begin, locks
  <2>2. ASSUME NEW granted, EditCalendar(p, granted) PROVE DeletionInv'
    BY <1>3, <2>2 DEF EditCalendar, Begin, Refresh, locks
  <2> QED  BY <1>1, <1>2, <1>4, <1>19, <2>1, <2>2, PlansAssumption DEF Request
<1> QED
  BY <1>5, <1>6, <1>7, <1>8, <1>9, <1>10, <1>11, <1>12, <1>13, <1>14, <1>15, <1>16, <1>17, <1>18,
     <1>19, <1>a, <1>b, <1>c, <1>d, PlansAssumption
     DEF Next, Acquire, Proceed, RefreshFails, InsertFails

(* Everything that holds at every step of the reconciliation. *)
LEMMA DeletionInvariant == Spec => [](IInv /\ DeletionInv)
<1>1. Init => IInv /\ DeletionInv
  <2>1. Init => DeletionInv
    BY ValuesAssumption DEF Init, DeletionInv, PackageInv, MarkedInv
  <2> QED  BY <2>1, InitHolds
<1>2. (IInv /\ DeletionInv) /\ [Next]_vars => (IInv /\ DeletionInv)'
  BY Invariance, DeletionStep DEF IInv
<1> QED  BY <1>1, <1>2, PTL DEF Spec

\* A deletion that has selected its bookings holds the locks of its package rows and
\* knows every booking in them, so none that joins can break it.
THEOREM CascadesMissNothing == Spec => []CascadeKnowsEveryBooking
<1>1. DeletionInv => CascadeKnowsEveryBooking
  BY DEF DeletionInv, PackageInv, CascadeKnowsEveryBooking
<1> QED  BY <1>1, DeletionInvariant, PTL

\* Only a lock holder or a deletion of a linked booking makes a conflict vanish.
LEMMA VanishingStep ==
  ASSUME IInv, DeletionInv, [Next]_vars, NEW r \in Resources, NEW s \in Slots,
         conflicts[r][s] # {}, conflicts'[r][s] = {}
  PROVE  lock[r] # Free \/ \E a \in conflicts[r][s] : booking'[a] = Gone
<1> USE DEF IInv
<1>f. \A p \in Processes : p # Free
  BY ValuesAssumption
<1>1. ASSUME NEW p \in Processes, DeleteAssignment(p)
      PROVE  \E a \in conflicts[r][s] : booking'[a] = Gone
  <2>1. pc[p] = "unlink" /\ booking' = [booking EXCEPT ![seen[p].assignment] = Gone]
        /\ conflicts' = WithoutMarked(p)
    BY <1>1 DEF DeleteAssignment, Working
  <2>2. <<r, s>> \in marked[p]
    BY <2>1 DEF WithoutMarked
  <2>3. seen[p].assignment \in conflicts[r][s]
    BY <2>1, <2>2 DEF DeletionInv, MarkedInv
  <2>4. seen[p].assignment \in Assignments
    BY <2>1 DEF SeenInv, Loaded
  <2> QED  BY <2>1, <2>3, <2>4 DEF TypeOK
<1>2. ASSUME NEW p \in Processes, CascadeCommit(p) PROVE lock[r] # Free
  <2>1. r \in now[p]
    BY <1>2 DEF CascadeCommit
  <2> QED  BY <1>2, <1>f, <2>1 DEF CascadeCommit, AllLocked
<1>3. ASSUME NEW p \in Processes, NEW q \in Resources, ReplacePeriods(p, q) PROVE lock[r] # Free
  <2>1. lock[q] = p
    BY <1>3 DEF ReplacePeriods, Working, LockInv, Holds
  <2>2. q = r
    BY <1>3 DEF ReplacePeriods, TypeOK
  <2> QED  BY <1>f, <2>1, <2>2
<1>4. conflicts' # conflicts
  OBVIOUS
<1> QED
  BY <1>1, <1>2, <1>3, <1>4
     DEF Next, vars, database, Request, CreateAssignment, LoadAssignment, EditAbsence, EditCalendar,
         DeletePackages, Acquire, TakeLock, CascadeLock, LockPackage, Proceed, LockBooking,
         UpdateAssignment, SelectBookings, BreakDeadlock, SelectLinkedConflicts, Refuse,
         CascadeRefused, ReadBookings, ReadCapacity, InsertFails,
         RefreshFails, Abandon, Crash, StartCheck

\* AssignmentService.delete takes no lock and acts on the ids of an earlier
\* statement; the conflicts it deletes are still those of its booking.
THEOREM NoConflictIsLost == Spec => ConflictsVanishForAReason
<1> DEFINE Reasons == \A r \in Resources, s \in Slots :
              conflicts[r][s] # {} /\ conflicts'[r][s] = {}
                => lock[r] # Free \/ \E a \in conflicts[r][s] : booking'[a] = Gone
<1>1. (IInv /\ DeletionInv) /\ [Next]_vars => [Reasons]_vars
  BY VanishingStep
<1> QED  BY <1>1, DeletionInvariant, PTL DEF Spec, ConflictsVanishForAReason
=============================================================================
