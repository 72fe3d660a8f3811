----------------------- MODULE ConflictReconciliation -----------------------
(***************************************************************************)
(* Stored conflicts are derived data: a planning write commits first and   *)
(* the conflicts of the resources it touched are recalculated afterwards,  *)
(* in transactions of their own.  This module is the protocol between the  *)
(* requests that edit bookings, packages and calendars, the conflict       *)
(* refresh each of them runs after its commit, and the periodic full       *)
(* check, all against one PostgreSQL database under READ COMMITTED.        *)
(*                                                                         *)
(* What a conflict IS is kept small: a booking occupies one slot of one    *)
(* resource, a resource has a capacity, and a slot whose bookings outnumber*)
(* the capacity is one conflict period linked to all of them.              *)
(***************************************************************************)
EXTENDS Integers, FiniteSets

CONSTANTS
  Resources,      \* resource ids; numbers, because refreshes run in id order
  Assignments,    \* booking ids
  Packages,       \* work package ids; numbers, because a project locks them in id order
  Deletions,      \* what one request deletes: a package, or those of a project
  Slots,          \* stretches of time a booking can occupy
  Capacities,     \* what a resource can carry in a slot
  InitialCapacities, \* what the resources carry at first
  Handlers,       \* request handlers
  Checker,        \* the scheduler's full conflict check
  Unborn, Gone,   \* a booking not yet created, a booking deleted
  Free, Nothing,  \* a lock nobody holds, a read that was not made
  InitialPlans,   \* bookings a run may start from
  Wishes,         \* bound: what requests ask a booking to be
  MaxRequests,    \* bound: planning writes that are started
  MaxFailures     \* bound: refreshes that fail and processes that die

ASSUME ResourcesAssumption == Resources \subseteq Nat
ASSUME PackagesAssumption == Packages \subseteq Nat /\ Deletions \subseteq SUBSET Packages
ASSUME CapacitiesAssumption ==
  Capacities \subseteq Nat /\ InitialCapacities \subseteq [Resources -> Capacities]
ASSUME BoundsAssumption == MaxRequests \in Nat /\ MaxFailures \in Nat

Processes == Handlers \cup {Checker}
Row == [resource : Resources, slot : Slots, package : Packages]
ASSUME ValuesAssumption == /\ Checker \notin Handlers
                           /\ Unborn \notin Row /\ Gone \notin Row
                           /\ Free \notin Processes

ASSUME PlansAssumption ==
  InitialPlans \subseteq [Assignments -> Row \cup {Unborn, Gone}] /\ Wishes \subseteq Row

VARIABLES
  booking,      \* assignments table: a row, Unborn or Gone
  packages,     \* work_packages table
  capacity,     \* calendars, profiles and absences, as what they grant
  conflicts,    \* conflicts + conflict_assignments: links per resource and slot
  lock,         \* per-resource transaction advisory lock
  packageLock,  \* FOR UPDATE lock on a work package row
  rowLock,      \* lock of an UPDATE on a booking's row
  pc,           \* where each process is
  now,          \* resources of the refresh_resources call a process is in
  later,        \* resources of the call it makes after that one
  strict,       \* whether a refresh that fails fails the request with it
  seen,         \* the assignment row an update or a delete loaded, and wants
  marked,       \* the conflict rows a delete selected, while they exist
  condemned,    \* the packages a deletion has still to lock
  victims,      \* the assignments a package deletion selected
  periods,      \* the periods a refresh has calculated so far
  failed,       \* history: resources whose refresh failed or died
  overlooked,   \* history: resources a write changed and did not refresh
  misreported,  \* history: a saved edit was answered with an error
  requests, failures  \* counters for the bounds

database == <<booking, packages, capacity, conflicts>>
locks == <<lock, packageLock, rowLock>>
session == <<pc, now, later, strict, seen, marked, condemned, victims, periods>>
history == <<failed, overlooked, misreported>>
vars == <<database, locks, session, history, requests, failures>>

-----------------------------------------------------------------------------
\* Bookings, capacity and the conflicts they make.

Exists(a) == booking[a] \in Row

On(r, s, b) == {a \in Assignments : b[a] \in Row /\ b[a].resource = r /\ b[a].slot = s}
Demand(r, b) == [s \in Slots |-> On(r, s, b)]
Exceeding(demand, c) ==
  [s \in Slots |-> IF Cardinality(demand[s]) > c THEN demand[s] ELSE {}]

\* What a refresh of r would store if it read everything now.
Calculated(r) == Exceeding(Demand(r, booking), capacity[r])
Stale(r) == conflicts[r] # Calculated(r)

\* Mutant: old conflicts of a resource without bookings are forgotten.
KnownByBooking == {r \in Resources : \E s \in Slots : On(r, s, booking) # {}}

\* refresh_resources(session, None): resources with assignments or old conflicts.
Known == {r \in Resources : \E s \in Slots : On(r, s, booking) \cup conflicts[r][s] # {}}

NoPeriods == [s \in Slots |-> {}]
ConflictRows == Resources \X Slots
RowsOf(R) == {k \in ConflictRows : k[1] \in R}

\* Mutant: conflicts are selected by resource and time and not by their ids.
SelectedByTime(q, gone) == marked[q]

\* Selected rows that are deleted, or replaced by rows with new ids, are lost.
StillSelected(q, gone) == marked[q] \ gone
Lose(p, gone) ==
  marked' = [q \in Processes |-> IF q = p THEN {} ELSE StillSelected(q, gone)]

\* Mutant: the row is looked up, its lock is not waited for.
AttachableWhileLocked(w) == w \in packages

\* A foreign key to a package waits for a FOR UPDATE holder, then needs the row.
Attachable(w) == w \in packages /\ packageLock[w] = Free

Unique(row, a) == \A b \in Assignments \ {a} : booking[b] # row

-----------------------------------------------------------------------------
Init ==
  /\ booking \in InitialPlans
  /\ packages = Packages
  /\ capacity \in InitialCapacities
  /\ conflicts = [r \in Resources |-> Calculated(r)]
  /\ lock = [r \in Resources |-> Free]
  /\ packageLock = [w \in Packages |-> Free]
  /\ rowLock = [a \in Assignments |-> Free]
  /\ pc = [p \in Processes |-> "idle"]
  /\ now = [p \in Processes |-> {}]
  /\ later = [p \in Processes |-> {}]
  /\ strict = [p \in Processes |-> FALSE]
  /\ seen = [p \in Processes |-> Nothing]
  /\ marked = [p \in Processes |-> {}]
  /\ condemned = [p \in Processes |-> {}]
  /\ victims = [p \in Processes |-> {}]
  /\ periods = [p \in Processes |-> NoPeriods]
  /\ failed = {} /\ overlooked = {} /\ misreported = FALSE
  /\ requests = 0 /\ failures = 0

-----------------------------------------------------------------------------
\* Control shared by the operations.

Begin(p) == /\ p \in Handlers /\ pc[p] = "idle"
            /\ requests < MaxRequests
            /\ requests' = requests + 1
            /\ UNCHANGED failures

Working(p, at) == pc[p] = at /\ UNCHANGED <<requests, failures>>

Fault == /\ failures < MaxFailures
         /\ failures' = failures + 1
         /\ UNCHANGED requests

\* After its commit the request refreshes `first`, then `second`.
RefreshReporting(p, first, second, failing) ==
  /\ pc' = [pc EXCEPT ![p] = IF first \cup second = {} THEN "idle" ELSE "refresh"]
  /\ now' = [now EXCEPT ![p] = IF first = {} THEN second ELSE first]
  /\ later' = [later EXCEPT ![p] = IF first = {} THEN {} ELSE second]
  /\ strict' = [strict EXCEPT ![p] = failing]
  /\ seen' = [seen EXCEPT ![p] = Nothing]
  /\ condemned' = [condemned EXCEPT ![p] = {}]
  /\ victims' = [victims EXCEPT ![p] = {}]
  /\ periods' = [periods EXCEPT ![p] = NoPeriods]

\* refresh_after_commit logs a failure; the edit stays answered as saved.
Refresh(p, first, second) == RefreshReporting(p, first, second, FALSE)

Release(p) ==
  /\ lock' = [r \in Resources |-> IF lock[r] = p THEN Free ELSE lock[r]]
  /\ packageLock' = [w \in Packages |-> IF packageLock[w] = p THEN Free ELSE packageLock[w]]
  /\ rowLock' = [a \in Assignments |-> IF rowLock[a] = p THEN Free ELSE rowLock[a]]

-----------------------------------------------------------------------------
\* Planning writes.

CreateAssignment(p, a, row) ==
  /\ Begin(p)
  /\ booking[a] = Unborn
  /\ Attachable(row.package)
  /\ Unique(row, a)
  /\ booking' = [booking EXCEPT ![a] = row]
  /\ Refresh(p, {row.resource}, {})
  /\ UNCHANGED <<packages, capacity, conflicts, locks, marked, history>>

\* get_by_id of an update or of a delete: a plain read, no row lock.
LoadAssignment(p, a, next) ==
  /\ Begin(p)
  /\ Exists(a)
  /\ pc' = [pc EXCEPT ![p] = next]
  /\ seen' = [seen EXCEPT ![p] = [assignment |-> a, row |-> booking[a], wanted |-> Nothing]]
  /\ UNCHANGED <<database, locks, now, later, strict, marked, condemned, victims, periods, history>>

\* The UPDATE writes the columns that differ from the row that was loaded.
Pick(loaded, wanted, current) == IF wanted # loaded THEN wanted ELSE current
Merged(loaded, wanted, current) ==
  [resource |-> Pick(loaded.resource, wanted.resource, current.resource),
   slot |-> Pick(loaded.slot, wanted.slot, current.slot),
   package |-> Pick(loaded.package, wanted.package, current.package)]

\* The UPDATE waits for the row, locks it, and only then looks up the package.
LockBooking(p, wanted) ==
  LET a == seen[p].assignment
  IN /\ Working(p, "update")
     /\ Exists(a) /\ rowLock[a] = Free
     /\ rowLock' = [rowLock EXCEPT ![a] = p]
     /\ pc' = [pc EXCEPT ![p] = "write"]
     /\ seen' = [seen EXCEPT ![p].wanted = wanted]
     /\ UNCHANGED <<database, lock, packageLock, now, later, strict, marked, condemned,
                    victims, periods, history>>

Moves(p) == seen[p].wanted.package # seen[p].row.package
Updated(p) == Merged(seen[p].row, seen[p].wanted, booking[seen[p].assignment])

\* The booking's row stays locked while its foreign key waits for the package.
UpdateAssignment(p) ==
  LET a == seen[p].assignment
      old == seen[p].row.resource
      new == seen[p].wanted.resource
      changed == IF Updated(p) = booking[a] THEN {}
                 ELSE {Updated(p).resource, booking[a].resource}
  IN /\ Working(p, "write")
     /\ Exists(a)
     /\ Moves(p) => Attachable(seen[p].wanted.package)
     /\ Unique(Updated(p), a)
     /\ booking' = [booking EXCEPT ![a] = Updated(p)]
     /\ Release(p)
     /\ Refresh(p, {new}, {old} \ {new})
     /\ overlooked' = overlooked \cup (changed \ {new, old})
     /\ UNCHANGED <<packages, capacity, conflicts, marked, failed, misreported>>

\* The delete selects the conflicts linked to the booking ...
SelectLinkedConflicts(p) ==
  LET a == seen[p].assignment
  IN /\ Working(p, "delete")
     /\ pc' = [pc EXCEPT ![p] = "unlink"]
     /\ marked' = [marked EXCEPT ![p] =
          {k \in ConflictRows : a \in conflicts[k[1]][k[2]]}]
     /\ UNCHANGED <<database, locks, now, later, strict, seen, condemned, victims, periods,
                    history>>

WithoutMarked(p) ==
  [r \in Resources |-> [s \in Slots |->
     IF <<r, s>> \in marked[p] THEN {} ELSE conflicts[r][s]]]

StillRefersTo(p, a) == \E r \in Resources, s \in Slots : a \in WithoutMarked(p)[r][s]

\* ... and deletes those, then the booking, which no link may refer to any more.
DeleteAssignment(p) ==
  LET a == seen[p].assignment
      home == seen[p].row.resource
      changed == {r \in Resources : WithoutMarked(p)[r] # conflicts[r]}
                   \cup (IF Exists(a) THEN {booking[a].resource} ELSE {})
  IN /\ Working(p, "unlink")
     /\ rowLock[a] = Free /\ ~StillRefersTo(p, a)
     /\ booking' = [booking EXCEPT ![a] = Gone]
     /\ conflicts' = WithoutMarked(p)
     /\ Refresh(p, {home}, {})
     /\ overlooked' = overlooked \cup (changed \ {home})
     /\ Lose(p, marked[p])
     /\ UNCHANGED <<packages, capacity, locks, failed, misreported>>

\* Validation or a missing row refuses a request before it writes; a duplicate, a
\* package that is gone or a link that is left refuses what it writes.
Refused(p) ==
  \/ pc[p] \in {"update", "delete"}
  \/ /\ pc[p] = "write"
     /\ \/ ~Unique(Updated(p), seen[p].assignment)
        \/ Moves(p) /\ seen[p].wanted.package \notin packages
  \/ pc[p] = "unlink" /\ StillRefersTo(p, seen[p].assignment)

Refuse(p) ==
  /\ Refused(p)
  /\ Release(p)
  /\ Refresh(p, {}, {})
  /\ Lose(p, {})
  /\ UNCHANGED <<database, history, requests, failures>>

EditAbsence(p, r, c) ==
  /\ Begin(p)
  /\ capacity' = [capacity EXCEPT ![r] = c]
  /\ RefreshReporting(p, {r}, {}, TRUE)
  /\ UNCHANGED <<booking, packages, conflicts, locks, marked, history>>

\* A site calendar, holiday or week profile reaches any number of resources.
EditCalendar(p, granted) ==
  /\ Begin(p)
  /\ capacity' = granted
  /\ Refresh(p, Known, {})
  /\ UNCHANGED <<booking, packages, conflicts, locks, marked, history>>

-----------------------------------------------------------------------------
\* Deleting a work package, or those of a project: one transaction, its conflicts
\* staged inside it.

DeletePackages(p, W) ==
  /\ Begin(p)
  /\ pc' = [pc EXCEPT ![p] = "packages"]
  /\ condemned' = [condemned EXCEPT ![p] = W]
  /\ UNCHANGED <<database, locks, now, later, strict, seen, marked, victims, periods, history>>

NextPackage(p, w) == w \in condemned[p] /\ \A v \in condemned[p] : w <= v

\* SELECT ... FOR UPDATE, in id order; a row that is gone is passed over.
LockPackage(p, w) ==
  /\ Working(p, "packages")
  /\ NextPackage(p, w) /\ packageLock[w] = Free
  /\ packageLock' = [packageLock EXCEPT ![w] = IF w \in packages THEN p ELSE Free]
  /\ condemned' = [condemned EXCEPT ![p] = @ \ {w}]
  /\ UNCHANGED <<database, lock, rowLock, pc, now, later, strict, seen, marked, victims,
                 periods, history>>

SelectBookings(p) ==
  LET found == {a \in Assignments : Exists(a) /\ packageLock[booking[a].package] = p}
  IN /\ Working(p, "packages")
     /\ condemned[p] = {}
     /\ pc' = [pc EXCEPT ![p] = "cascade"]
     /\ victims' = [victims EXCEPT ![p] = found]
     /\ now' = [now EXCEPT ![p] = {booking[a].resource : a \in found}]
     /\ UNCHANGED <<database, locks, later, strict, seen, marked, condemned, periods, history>>

\* Mutant: the resources of a deletion are locked as they come, in no order.
LockInAnyOrder(p, r) ==
  /\ Working(p, "cascade")
  /\ r \in now[p] /\ lock[r] = Free
  /\ lock' = [lock EXCEPT ![r] = p]
  /\ UNCHANGED <<database, packageLock, rowLock, session, history>>

\* lock_resource, in id order, for every resource the package is booked on.
CascadeLock(p, r) ==
  /\ Working(p, "cascade")
  /\ r \in now[p] /\ lock[r] = Free
  /\ \A q \in now[p] : q < r => lock[q] = p
  /\ lock' = [lock EXCEPT ![r] = p]
  /\ UNCHANGED <<database, packageLock, rowLock, session, history>>

Remaining(p) == [a \in Assignments |-> IF a \in victims[p] THEN Gone ELSE booking[a]]
StillLinked(p) ==
  \E r \in Resources \ now[p], s \in Slots : conflicts[r][s] \cap victims[p] # {}
AllLocked(p) == \A r \in now[p] : lock[r] = p
RowsFree(p) == \A a \in victims[p] : rowLock[a] = Free

\* The rows selected at the start are deleted by id, whatever they say by now,
\* once nobody else is updating them.
CascadeCommit(p) ==
  LET staged(r) == Exceeding(Demand(r, Remaining(p)), capacity[r])
      touched == {booking[a].resource : a \in {v \in victims[p] : Exists(v)}}
  IN /\ Working(p, "cascade")
     /\ AllLocked(p) /\ RowsFree(p) /\ ~StillLinked(p)
     /\ booking' = Remaining(p)
     /\ packages' = {w \in packages : packageLock[w] # p}
     /\ conflicts' = [r \in Resources |-> IF r \in now[p] THEN staged(r) ELSE conflicts[r]]
     /\ Lose(p, RowsOf(now[p]))
     /\ Release(p)
     /\ overlooked' = overlooked \cup (touched \ now[p])
     /\ Refresh(p, {}, {})
     /\ UNCHANGED <<capacity, failed, misreported>>

\* A conflict of another resource still links one of the bookings: rolled back.
CascadeRefused(p) ==
  /\ Working(p, "cascade")
  /\ AllLocked(p) /\ RowsFree(p) /\ StillLinked(p)
  /\ Release(p)
  /\ Refresh(p, {}, {})
  /\ UNCHANGED <<database, marked, history>>

-----------------------------------------------------------------------------
\* refresh_resources: each resource in id order, each in its own transaction.

IsNext(p, r) == r \in now[p] /\ \A q \in now[p] : r <= q

\* Mutant: the advisory lock is asked for and not waited for.
TakeLockAtOnce(p, r) ==
  /\ Working(p, "refresh")
  /\ IsNext(p, r)
  /\ lock' = [lock EXCEPT ![r] = p]
  /\ pc' = [pc EXCEPT ![p] = "locked"]
  /\ UNCHANGED <<database, packageLock, rowLock, now, later, strict, seen, marked, condemned,
                 victims, periods, history>>

TakeLock(p, r) ==
  /\ Working(p, "refresh")
  /\ IsNext(p, r)
  /\ lock[r] = Free
  /\ lock' = [lock EXCEPT ![r] = p]
  /\ pc' = [pc EXCEPT ![p] = "locked"]
  /\ UNCHANGED <<database, packageLock, rowLock, now, later, strict, seen, marked, condemned,
                 victims, periods, history>>

\* From here on this refresh answers for everything committed to r before.
ReadBookings(p, r) ==
  /\ Working(p, "locked")
  /\ IsNext(p, r)
  /\ periods' = [periods EXCEPT ![p] = Demand(r, booking)]
  /\ pc' = [pc EXCEPT ![p] = "demand"]
  /\ failed' = failed \ {r}
  /\ overlooked' = overlooked \ {r}
  /\ UNCHANGED <<database, locks, now, later, strict, seen, marked, condemned, victims,
                 misreported>>

ReadCapacity(p, r) ==
  /\ Working(p, "demand")
  /\ IsNext(p, r)
  /\ periods' = [periods EXCEPT ![p] = Exceeding(periods[p], capacity[r])]
  /\ pc' = [pc EXCEPT ![p] = "calculated"]
  /\ UNCHANGED <<database, locks, now, later, strict, seen, marked, condemned, victims, history>>

Insertable(p) == \A s \in Slots : \A a \in periods[p][s] : Exists(a)
Differs(p, r) == periods[p] # conflicts[r]

\* Equal results keep their rows; otherwise every row of r is deleted and inserted.
ReplacePeriods(p, r) ==
  /\ Working(p, "calculated")
  /\ IsNext(p, r)
  /\ Differs(p, r) => Insertable(p)
  /\ conflicts' = [conflicts EXCEPT ![r] = periods[p]]
  /\ Lose(p, IF Differs(p, r) THEN RowsOf({r}) ELSE {})
  /\ Release(p)
  /\ Refresh(p, now[p] \ {r}, later[p])
  /\ UNCHANGED <<booking, packages, capacity, history>>

\* Any exception rolls the resource back and ends this refresh_resources call.
Abandon(p) ==
  /\ Release(p)
  /\ failed' = failed \cup now[p]
  /\ misreported' = (misreported \/ (p \in Handlers /\ strict[p]))
  /\ Refresh(p, {}, later[p])
  /\ UNCHANGED <<database, marked, overlooked>>

Refreshing(p) == pc[p] \in {"refresh", "locked", "demand", "calculated"}

RefreshFails(p) == Refreshing(p) /\ Fault /\ Abandon(p)

\* A link to a booking deleted since it was read breaks the foreign key.
InsertFails(p) ==
  \E r \in Resources :
    /\ Working(p, "calculated")
    /\ IsNext(p, r) /\ Differs(p, r) /\ ~Insertable(p)
    /\ Abandon(p)

\* The process dies: its transaction rolls back and what it owed is forgotten.
Crash(p) ==
  /\ pc[p] # "idle" /\ Fault
  /\ Release(p)
  /\ failed' = failed \cup (IF Refreshing(p) THEN now[p] \cup later[p] ELSE {})
  /\ Refresh(p, {}, {})
  /\ Lose(p, {})
  /\ UNCHANGED <<database, overlooked, misreported>>

-----------------------------------------------------------------------------
\* Circular waits.  An update holds its booking while it waits for a package; a
\* deletion holds packages and resources while it waits for one more of them, or
\* for a booking.  A request that holds nothing keeps nobody waiting.

AwaitedPackages(p) ==
  CASE pc[p] = "write" /\ Moves(p) -> {seen[p].wanted.package}
    [] pc[p] = "packages" -> {w \in Packages : NextPackage(p, w)}
    [] OTHER -> {}
AwaitedResources(p) ==
  IF pc[p] = "cascade" THEN {r \in now[p] : lock[r] # p /\ \A q \in now[p] : q < r => lock[q] = p}
  ELSE {}
AwaitedRows(p) == IF pc[p] = "cascade" /\ AllLocked(p) THEN victims[p] ELSE {}

WaitsFor(p) == ({packageLock[w] : w \in AwaitedPackages(p)}
                \cup {lock[r] : r \in AwaitedResources(p)}
                \cup {rowLock[a] : a \in AwaitedRows(p)}) \ {p, Free}

\* Each of them waits for another of them.
Stuck(S) == S # {} /\ \A p \in S : WaitsFor(p) \cap S # {}

\* Mutant: the waiter that is failed starts over with what it set out to do.
StartOver(p) ==
  LET again == {w \in Packages : packageLock[w] = p}
  IN /\ \E S \in SUBSET Processes : p \in S /\ Stuck(S)
     /\ Release(p)
     /\ pc' = [pc EXCEPT ![p] = IF again = {} THEN "update" ELSE "packages"]
     /\ condemned' = [condemned EXCEPT ![p] = @ \cup again]
     /\ now' = [now EXCEPT ![p] = {}]
     /\ victims' = [victims EXCEPT ![p] = {}]
     /\ UNCHANGED <<database, later, strict, seen, marked, periods, history, requests, failures>>

\* PostgreSQL fails the transaction of one waiter in the circle.
BreakDeadlock(p) ==
  /\ \E S \in SUBSET Processes : p \in S /\ Stuck(S)
  /\ Release(p)
  /\ Refresh(p, {}, {})
  /\ UNCHANGED <<database, marked, history, requests, failures>>

StartCheck ==
  /\ Working(Checker, "idle")
  /\ Refresh(Checker, Known, {})
  /\ UNCHANGED <<database, locks, marked, history>>

-----------------------------------------------------------------------------
Request(p) ==
  \/ \E a \in Assignments, row \in Wishes : CreateAssignment(p, a, row)
  \/ \E a \in Assignments : LoadAssignment(p, a, "update")
  \/ \E a \in Assignments : LoadAssignment(p, a, "delete")
  \/ \E r \in Resources, c \in Capacities : EditAbsence(p, r, c)
  \/ \E granted \in [Resources -> Capacities] : EditCalendar(p, granted)
  \/ \E W \in Deletions : DeletePackages(p, W)

Acquire(p) ==
  \/ \E r \in Resources : TakeLock(p, r) \/ CascadeLock(p, r)
  \/ \E w \in Packages : LockPackage(p, w)

Proceed(p) ==
  \/ \E wanted \in Wishes : LockBooking(p, wanted)
  \/ UpdateAssignment(p) \/ SelectBookings(p) \/ BreakDeadlock(p)
  \/ SelectLinkedConflicts(p) \/ DeleteAssignment(p) \/ Refuse(p)
  \/ CascadeCommit(p) \/ CascadeRefused(p)
  \/ \E r \in Resources :
       ReadBookings(p, r) \/ ReadCapacity(p, r) \/ ReplacePeriods(p, r)
  \/ InsertFails(p)

Next ==
  \/ \E p \in Handlers : Request(p)
  \/ \E p \in Processes : Acquire(p) \/ Proceed(p) \/ RefreshFails(p) \/ Crash(p)
  \/ StartCheck

Spec == Init /\ [][Next]_vars

(***************************************************************************)
(* Requests arrive or not, and failures happen or not.  A process that has *)
(* work runs on; PostgreSQL queues the waiters of an advisory lock, so a   *)
(* waiter is not passed over for ever (strong fairness); the scheduler     *)
(* loop starts another check.                                              *)
(***************************************************************************)
Fairness == /\ \A p \in Processes : WF_vars(Proceed(p)) /\ SF_vars(Acquire(p))
            /\ WF_vars(StartCheck)
FairSpec == Spec /\ Fairness

-----------------------------------------------------------------------------
Periods == [Slots -> SUBSET Assignments]
Loaded == [assignment : Assignments, row : Row, wanted : Row \cup {Nothing}]

\* Every table, lock and local keeps the shape its column or variable has.
TypeOK ==
  /\ booking \in [Assignments -> Row \cup {Unborn, Gone}]
  /\ packages \subseteq Packages
  /\ capacity \in [Resources -> Capacities]
  /\ conflicts \in [Resources -> Periods]
  /\ lock \in [Resources -> Processes \cup {Free}]
  /\ packageLock \in [Packages -> Processes \cup {Free}]
  /\ rowLock \in [Assignments -> Processes \cup {Free}]
  /\ pc \in [Processes -> {"idle", "update", "write", "delete", "unlink", "packages", "cascade",
                           "refresh", "locked", "demand", "calculated"}]
  /\ now \in [Processes -> SUBSET Resources]
  /\ later \in [Processes -> SUBSET Resources]
  /\ strict \in [Processes -> BOOLEAN]
  /\ seen \in [Processes -> Loaded \cup {Nothing}]
  /\ marked \in [Processes -> SUBSET ConflictRows]
  /\ condemned \in [Processes -> SUBSET Packages]
  /\ victims \in [Processes -> SUBSET Assignments]
  /\ periods \in [Processes -> Periods]
  /\ failed \subseteq Resources /\ overlooked \subseteq Resources
  /\ misreported \in BOOLEAN
  /\ requests \in 0 .. MaxRequests /\ failures \in 0 .. MaxFailures

Owed(p) == IF Refreshing(p) THEN now[p] \cup later[p] ELSE {}
InDebt == failed \cup overlooked \cup UNION {Owed(p) : p \in Processes}

\* Nobody's stale result: conflicts that do not match the committed plan belong
\* to a refresh still to be run, to one that failed, or to a write that changed
\* a resource it did not know about.  The advisory lock is what makes the last
\* refresh to commit also the last one to have read.
StaleOnlyIfOwed == \A r \in Resources : Stale(r) => r \in InDebt

\* conflict-detection.md, "Assignment edits and absence edits check the affected
\* resource after committing": stale without a failure means a check is coming.
EditsCheckAffected == \A r \in Resources : Stale(r) => r \in InDebt \ (overlooked \ failed)

\* conflict-detection.md, "the API still returns the successful result of the
\* saved edit": no request whose write is committed is answered with an error.
SavedEditsAreReportedSaved == ~misreported

\* WorkPackageService.delete, "Delete a work package and all associated
\* assignments": a deletion that removes a package removes no other booking.
DeletesOnlyItsOwn ==
  [][packages' # packages =>
       \A a \in Assignments : Exists(a) /\ booking'[a] = Gone
                                => booking[a].package \in packages \ packages']_vars

\* _delete_work_packages selects the bookings of packages that are locked, so that
\* none can join them afterwards and fail the deletion on its foreign key.
CascadeKnowsEveryBooking ==
  \A p \in Processes, w \in Packages : pc[p] = "cascade" /\ packageLock[w] = p =>
     \A a \in Assignments : Exists(a) /\ booking[a].package = w => a \in victims[p]

\* A conflict disappears without a successor only under its resource's advisory
\* lock or together with a booking it links, although AssignmentService.delete
\* takes no lock and acts on conflict ids it read in an earlier statement.
ConflictsVanishForAReason ==
  [][\A r \in Resources, s \in Slots :
        conflicts[r][s] # {} /\ conflicts'[r][s] = {}
           => lock[r] # Free \/ \E a \in conflicts[r][s] : booking'[a] = Gone]_vars

\* Deletions lock packages and resources in id order: they and refreshes never wait
\* for one another in a circle.  Only a booking on its way to another package, held
\* by an update that waits for the package, can close one.
DeadlocksNeedAMove ==
  \A S \in SUBSET Processes : Stuck(S) => \E p \in S : pc[p] = "write" /\ Moves(p)

\* Lock order, lock release and PostgreSQL's deadlock detector: whatever a request
\* waits for, it ends; every process is idle again and again.
EveryRequestEnds == \A p \in Processes : []<>(pc[p] = "idle")

\* Eventual consistency: stale conflicts are replaced by current ones, whether
\* the refresh that owed them ran, failed, died or was never promised.
StaleIsRepaired == \A r \in Resources : []<>~Stale(r)
=============================================================================
