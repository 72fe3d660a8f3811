---------------------------- MODULE BookingEdits ----------------------------
(***************************************************************************)
(* Creating, changing and deleting a booking (routers/assignments.py,      *)
(* assignment_service.py) under a planning freeze (planning_freeze.py,     *)
(* freeze_enforcement.py).  A request loads the row, asks for the freeze,  *)
(* validates what the row would be, and writes the columns that change.    *)
(* No lock is taken: between these steps other requests and settings       *)
(* commit.  Rows are of one work package, and the percentage is left out:  *)
(* no rule relates either to another column.                               *)
(***************************************************************************)
EXTENDS Integers

CONSTANTS
  Bookings, Sessions,
  Admins,                 \* the sessions of administrators
  People, Machines,       \* the resources of either type
  Days, Instants,         \* dates, and the instants between which a machine is booked
  InstantsPerDay,         \* of the planning zone
  Null,                   \* a column without value; a field that was not sent
  Unborn, Gone,           \* a booking not yet created, or deleted
  Nothing,                \* no request
  InitialRows,
  Proposals,              \* the bookings that are asked for
  Patches,                \* the changes that are asked for
  MaxRequests

\* A record of the columns of the table.
Columns(Of(_)) ==
  [resource_type |-> Of("resource_type"), resource_id |-> Of("resource_id"),
   start_date |-> Of("start_date"), end_date |-> Of("end_date"),
   start_at |-> Of("start_at"), end_at |-> Of("end_at")]

Row == [resource_type : {"personal", "infrastructure"}, resource_id : People \cup Machines,
        start_date : Days \cup {Null}, end_date : Days \cup {Null},
        start_at : Instants \cup {Null}, end_at : Instants \cup {Null}]

Patch == [resource_type : {"personal", "infrastructure", Null},
          resource_id : People \cup Machines \cup {Null},
          start_date : Days \cup {Null}, end_date : Days \cup {Null},
          start_at : Instants \cup {Null}, end_at : Instants \cup {Null}]

VARIABLES
  rows,        \* the table
  freeze,      \* the first day that may still be edited, or Null
  pc,          \* where a session's request is
  request,     \* what it asks: a kind, a booking, and a proposal or a patch
  loaded,      \* the row it has read
  requests,    \* how many there have been
  \* History.
  moved,       \* the sessions during whose request the freeze was moved
  overtaken,   \* the sessions whose booking another has written since they read it
  crossed      \* the bookings that an overtaken session has written

editVars == <<rows, freeze, pc, request, loaded, requests, moved, overtaken, crossed>>

Stored(b) == rows[b] \notin {Unborn, Gone}

-----------------------------------------------------------------------------
\* Rules.

\* Dates for a person, instants for a machine, in order.
ValidShape(row) ==
  IF row.resource_type = "personal"
  THEN /\ row.start_at = Null /\ row.end_at = Null
       /\ row.start_date # Null /\ row.end_date # Null /\ row.start_date <= row.end_date
  ELSE /\ row.start_date = Null /\ row.end_date = Null
       /\ row.start_at # Null /\ row.end_at # Null /\ row.start_at < row.end_at

ResourceExists(row) ==
  row.resource_id \in (IF row.resource_type = "personal" THEN People ELSE Machines)

Sensible(row) == ValidShape(row) /\ ResourceExists(row)

\* A patch over a row; with another type the fields of the old shape are dropped.
Effective(row, patch) ==
  LET Sent(c) == IF patch[c] = Null THEN row[c] ELSE patch[c]
      type == Sent("resource_type")
      Dropped(c) == /\ type # row.resource_type
                    /\ c \in (IF type = "personal" THEN {"start_at", "end_at"}
                             ELSE {"start_date", "end_date"})
  IN Columns(LAMBDA c : IF Dropped(c) THEN Null ELSE Sent(c))

DayOf(instant) == instant \div InstantsPerDay

\* The first day of a booking in either shape, or Null.
FirstDay(row) ==
  IF row.start_date # Null /\ row.end_date # Null THEN row.start_date
  ELSE IF row.start_at # Null /\ row.end_at # Null THEN DayOf(row.start_at)
  ELSE Null

\* The first day that a request asks for; what it does not send stays.
RequestedDay(patch, otherwise) ==
  IF patch.start_date # Null THEN patch.start_date
  ELSE IF patch.start_at # Null THEN DayOf(patch.start_at)
  ELSE otherwise

\* A booking without a first day reaches back for ever.
touches_frozen_period(day) == freeze # Null /\ (day = Null \/ day < freeze)

\* The unique indexes; rows with a column that has no value are never identical.
Identical(row, other) ==
  /\ row.resource_type = other.resource_type /\ row.resource_id = other.resource_id
  /\ \A c \in (IF row.resource_type = "personal" THEN {"start_date", "end_date"}
               ELSE {"start_at", "end_at"}) : row[c] # Null /\ row[c] = other[c]

Duplicate(b, row) == \E d \in Bookings \ {b} : Stored(d) /\ Identical(row, rows[d])

\* What clients ask for: every screen sends the dates of one type, and none stores
\* what the table does not hold.
ASSUME RequestsAssumption ==
  /\ Days \subseteq Int /\ Instants \subseteq Int /\ MaxRequests \in Nat
  /\ Null \notin Days /\ Null \notin Instants
  /\ Null \notin {"personal", "infrastructure"} /\ Null \notin People \cup Machines
  /\ \A initial \in InitialRows :
       /\ initial \in [Bookings -> Row \cup {Unborn, Gone}]
       /\ \A b \in Bookings : initial[b] \in {Unborn, Gone} \/ Sensible(initial[b])
  /\ Proposals \subseteq Row /\ Patches \subseteq Patch
  /\ \A p \in Patches : \/ p.start_date = Null /\ p.end_date = Null
                        \/ p.start_at = Null /\ p.end_at = Null

-----------------------------------------------------------------------------
EditsInit ==
  /\ rows \in InitialRows /\ freeze \in Days \cup {Null}
  /\ pc = [s \in Sessions |-> "idle"] /\ requests = 0
  /\ request = [s \in Sessions |-> Nothing] /\ loaded = [s \in Sessions |-> Unborn]
  /\ moved = {} /\ overtaken = {} /\ crossed = {}

\* A request goes on, or it is answered.
Step(s, from, to) == pc[s] = from /\ pc' = [pc EXCEPT ![s] = to]

\* A request arrives; it is about the row that is there now.
Begin(s, kind, b, patch) ==
  /\ Step(s, "idle", "loaded")
  /\ requests < MaxRequests /\ requests' = requests + 1
  /\ request' = [request EXCEPT ![s] = [kind |-> kind, booking |-> b, patch |-> patch]]
  /\ loaded' = [loaded EXCEPT ![s] = rows[b]]
  /\ UNCHANGED <<rows, freeze, moved, overtaken, crossed>>

AskCreate(s, b) == rows[b] = Unborn /\ \E p \in Proposals : Begin(s, "create", b, p)
AskUpdate(s, b) == Stored(b) /\ \E p \in Patches : Begin(s, "update", b, p)
AskDelete(s, b) == Stored(b) /\ Begin(s, "delete", b, Null)

Kind(s) == request[s].kind
Target(s) == request[s].booking

\* The row that the request would leave.
Wanted(s) == IF Kind(s) = "create" THEN request[s].patch
             ELSE Effective(loaded[s], request[s].patch)

\* Mutant: an update is judged by where the booking will be, not by where it is.
DaysAfter(s) ==
  {IF Kind(s) = "delete" THEN FirstDay(loaded[s])
   ELSE RequestedDay(request[s].patch,
                     IF Kind(s) = "create" THEN Null ELSE FirstDay(loaded[s]))}

\* The first days of the booking before and after: both count.
TouchedDays(s) ==
  (IF Kind(s) = "create" THEN {} ELSE {FirstDay(loaded[s])}) \cup
  (IF Kind(s) = "delete" THEN {}
   ELSE {RequestedDay(request[s].patch,
                      IF Kind(s) = "create" THEN Null ELSE FirstDay(loaded[s]))})

EnforceFreeze(s) ==
  /\ Step(s, "loaded", IF Kind(s) = "delete" THEN "save" ELSE "validate")
  /\ s \in Admins \/ \A day \in TouchedDays(s) : ~touches_frozen_period(day)
  /\ UNCHANGED <<rows, freeze, request, loaded, requests, moved, overtaken, crossed>>

\* Mutant: a change of type alone looks no resource up.
ValidateNamed(s) ==
  /\ Step(s, "validate", "save")
  /\ ValidShape(Wanted(s))
  /\ Kind(s) = "create" \/ request[s].patch.resource_id # Null => ResourceExists(Wanted(s))
  /\ ~Duplicate(Target(s), Wanted(s))
  /\ UNCHANGED <<rows, freeze, request, loaded, requests, moved, overtaken, crossed>>

\* The resource is looked up when the request names it or its type.
Validate(s) ==
  /\ Step(s, "validate", "save")
  /\ ValidShape(Wanted(s))
  /\ Kind(s) = "create" \/ request[s].patch.resource_id # Null
       \/ request[s].patch.resource_type # Null => ResourceExists(Wanted(s))
  /\ ~Duplicate(Target(s), Wanted(s))
  /\ UNCHANGED <<rows, freeze, request, loaded, requests, moved, overtaken, crossed>>

End(s) ==
  /\ pc' = [pc EXCEPT ![s] = "idle"] /\ request' = [request EXCEPT ![s] = Nothing]
  /\ loaded' = [loaded EXCEPT ![s] = Unborn] /\ moved' = moved \ {s}

\* An error ends it, whatever it is.
Refuse(s) ==
  /\ pc[s] # "idle" /\ End(s) /\ overtaken' = overtaken \ {s}
  /\ UNCHANGED <<rows, freeze, requests, crossed>>

\* A commit of the request's booking: others that have read it are overtaken.
Commit(s, row) ==
  /\ End(s)
  /\ rows' = [rows EXCEPT ![Target(s)] = row]
  /\ overtaken' = (overtaken \ {s}) \cup
       {t \in Sessions \ {s} : pc[t] # "idle" /\ Target(t) = Target(s)}
  /\ crossed' = IF s \in overtaken THEN crossed \cup {Target(s)} ELSE crossed
  /\ UNCHANGED <<freeze, requests>>

Saves(s, kind) == pc[s] = "save" /\ Kind(s) = kind

Create(s) ==
  /\ Saves(s, "create") /\ ~Duplicate(Target(s), Wanted(s))
  /\ rows[Target(s)] = Unborn
  /\ Commit(s, Wanted(s))

\* The columns whose value the request changes; the others stay as they are by now.
Changed(s) ==
  Columns(LAMBDA c : IF Wanted(s)[c] # loaded[s][c] THEN Wanted(s)[c] ELSE rows[Target(s)][c])

Update(s) ==
  /\ Saves(s, "update") /\ Stored(Target(s)) /\ ~Duplicate(Target(s), Changed(s))
  /\ Commit(s, Changed(s))

Delete(s) ==
  /\ Saves(s, "delete") /\ Stored(Target(s))
  /\ Commit(s, Gone)

\* An administrator saves the settings.
SetFreeze(day) ==
  /\ freeze' = day /\ day # freeze
  /\ moved' = moved \cup {s \in Sessions : pc[s] # "idle"}
  /\ UNCHANGED <<rows, pc, request, loaded, requests, overtaken, crossed>>

Handle(s) == EnforceFreeze(s) \/ Validate(s) \/ Create(s) \/ Update(s) \/ Delete(s) \/ Refuse(s)

EditsNext ==
  \/ \E s \in Sessions : \/ Handle(s)
                         \/ \E b \in Bookings : AskCreate(s, b) \/ AskUpdate(s, b) \/ AskDelete(s, b)
  \/ \E day \in Days \cup {Null} : SetFreeze(day)

EditsSpec == EditsInit /\ [][EditsNext]_editVars

-----------------------------------------------------------------------------
(***************************************************************************)
(* Properties.                                                             *)
(***************************************************************************)

Request == [kind : {"create", "update", "delete"}, booking : Bookings,
            patch : Proposals \cup Patches \cup {Null}]

EditsTypeOK ==
  /\ rows \in [Bookings -> Row \cup {Unborn, Gone}] /\ freeze \in Days \cup {Null}
  /\ pc \in [Sessions -> {"idle", "loaded", "validate", "save"}]
  /\ request \in [Sessions -> Request \cup {Nothing}]
  /\ \A s \in Sessions : IF pc[s] = "idle" THEN request[s] = Nothing
       ELSE /\ request[s] \in Request
            /\ \/ Kind(s) = "create" /\ request[s].patch \in Proposals
               \/ Kind(s) = "update" /\ request[s].patch \in Patches /\ loaded[s] \in Row
               \/ Kind(s) = "delete" /\ loaded[s] \in Row
  /\ loaded \in [Sessions -> Row \cup {Unborn, Gone}] /\ requests \in 0..MaxRequests
  /\ moved \subseteq Sessions /\ overtaken \subseteq Sessions /\ crossed \subseteq Bookings

\* Partial updates add up: a booking stays one of a person with a range of days or of a
\* machine with a range of instants, and its resource is of its type, through any
\* sequence of validated patches, changes of type included.  It may lose that when one
\* request writes its columns over another's (assignment_service.py:502): then it can
\* end before it starts, or have the columns of both types.
UncrossedEditsMakeSense ==
  \A b \in Bookings : Stored(b) /\ b \notin crossed => Sensible(rows[b])

Frozen(row) == row \notin {Unborn, Gone} /\ touches_frozen_period(FirstDay(row))

\* The booking is written by an administrator, or by a request that a new freeze date or
\* another's edit of the booking has overtaken since it read them.
WrittenByExempt(b) ==
  \E s \in Sessions : /\ pc[s] = "save" /\ pc'[s] = "idle" /\ Target(s) = b
                      /\ s \in Admins \cup moved \cup overtaken \/ b \in crossed

\* "The only reading under which the frozen period is actually stable"
\* (planning_freeze.py): a booking that reaches before the freeze is not changed, removed
\* or brought there, whatever shape it has or gets, but by those who are exempt
\* (freeze_enforcement.py:66).
FrozenBookingsStand ==
  [][\A b \in Bookings :
       rows'[b] # rows[b] /\ (Frozen(rows[b]) \/ Frozen(rows'[b])) => WrittenByExempt(b)]_editVars
=============================================================================
