---------------------------- MODULE MCPlanRules ----------------------------
(* The rules of a plan: the edits of bookings under a freeze, and the         *)
(* calculations that any bookings, calendars and links may meet.  A behaviour *)
(* is of one part: either the edits run, or one step picks the input of a     *)
(* calculation, and the rest stands still.                                    *)
EXTENDS BookingEdits, ConflictSweep, PlanDates, TLC

CONSTANTS ann, ben, hall, staff, admin, b1, b2

VARIABLES
  part,      \* the part that moves
  calendar,  \* of a calculation: its calendar, zone or links
  input      \* and its bookings or packages

ruleVars == <<editVars, part, calendar, input>>

-----------------------------------------------------------------------------
\* Edits.  Two instants are a day.
ForPerson(r, from, to) ==
  [resource_type |-> "personal", resource_id |-> r, start_date |-> from, end_date |-> to,
   start_at |-> Null, end_at |-> Null]
ForMachine(r, from, to) ==
  [resource_type |-> "infrastructure", resource_id |-> r, start_date |-> Null,
   end_date |-> Null, start_at |-> from, end_at |-> to]
Keep == Columns(LAMBDA c : Null)

Tables == {b1 :> ForPerson(ann, 0, 1) @@ b2 :> Unborn,
           b1 :> ForPerson(ann, 0, 1) @@ b2 :> ForPerson(ann, 1, 1),
           b1 :> ForMachine(hall, 1, 3) @@ b2 :> Unborn}
NewBookings == {ForPerson(ben, 1, 1), ForMachine(hall, 2, 3)}
Changes ==
  {[Keep EXCEPT !.end_date = 0], [Keep EXCEPT !.start_date = 1], [Keep EXCEPT !.resource_id = ben],
   [Keep EXCEPT !.start_at = 2], [Keep EXCEPT !.end_at = 2],
   ForMachine(hall, 0, 2), ForMachine(Null, 0, 2), ForPerson(ann, 1, 1)}

-----------------------------------------------------------------------------
\* People: week profiles that change, a half day, absences that overlap or add up to more
\* than the day, no profile at all; bookings that touch, overlap and leave gaps.
Full == [w \in 0..6 |-> IF w < 5 THEN 480 ELSE 0]
Short == [w \in 0..6 |-> IF w = 4 THEN 0 ELSE IF w < 4 THEN 450 ELSE 0]
Exceptions(days, minutes) == [d \in days |-> minutes]
NoHolidays == Exceptions({}, 0)
Off(a, b, p) == [start |-> a, end |-> b, percent |-> p]
Bind(from, until, p) == [from |-> from, until |-> until, profile |-> p]
Person(levels, holidays, absences) ==
  [levels |-> levels, default |-> Full, holidays |-> holidays, absences |-> absences, windows |-> {}]
PersonCalendars ==
  {Person(<<>>, [d \in {3, 5} |-> IF d = 3 THEN 0 ELSE 240], {Off(2, 2, 50)}),
   Person(<<{}, {Bind(0, 3, Short), Bind(4, 9, Full)}>>, NoHolidays, {Off(3, 7, 60), Off(4, 4, 60)}),
   Person(<<{Bind(2, 4, Short)}, {Bind(0, 9, Full)}>>, Exceptions({7}, 240), {Off(4, 4, 15)}),
   [Person(<<{Bind(2, 7, Short)}>>, NoHolidays, {Off(7, 7, 100)}) EXCEPT !.default = NoProfile]}
Booked(starts, lengths, percents) ==
  {[start |-> x, end |-> x + l, percent |-> p] : x \in starts, l \in lengths, p \in percents}
PersonBookings ==
  {<<a, b>> : a \in Booked(2..4, {0, 2, 5}, {50, 100}), b \in Booked(2..8, {0, 1, 4}, {50, 60})}
  \cup {<<a, b, c>> : a \in Booked({2, 3}, {2, 5}, {60}),
                       b \in Booked(2..8, {0, 2}, {60}), c \in Booked({4, 7}, {1}, {40, 94})}
PreviewWindows == {{<<2, 4>>}, {<<2, 3>>, <<5, 6>>}, {<<4, 7>>, <<3, 5>>}}

\* Machines: a day of eight minutes, shifts that overlap, meet or cross midnight, a
\* holiday, and a clock that is put forward or back.
Zones == {[change |-> 0, before |-> 1, after |-> 1], [change |-> 9, before |-> 1, after |-> 2],
          [change |-> 9, before |-> 2, after |-> 1]}
Shifts == {w \in [weekday : {0, 1}, start : {0, 2, 6}, end : {0, 2, 3, 6}] : w.start # w.end}
MachineCalendars ==
  {[cal |-> [Person(<<>>, h, {}) EXCEPT !.windows = {a, b}], zone |-> z] :
     h \in {NoHolidays, Exceptions({1}, 0), Exceptions({0}, 0)}, a, b \in Shifts, z \in Zones}
Hours(starts, lengths) == Booked(starts, lengths, {0})
MachineBookings ==
  {<<a>> : a \in Hours(5..20, {1, 3, 10})}
  \cup {<<a, b>> : a \in Hours({5, 12}, {3}), b \in Hours(8..18, {3})}
Crowds ==
  {<<a, b, c>> : a \in Hours(4..8, {1, 4}), b \in Hours(4..9, {1, 3, 6}),
                 c \in Hours(4..9, {2, 5})}

\* Plans: chains, a fork, a join and a triangle, with lags; weeks without work, with
\* weekends, and of two days.
Link(a, b, l) == [predecessor |-> a, successor |-> b, lag |-> l]
Plans ==
  [week : {{}, {0, 1, 2, 3, 4}, {1, 4}}, deadline : {8, 13},
   edges : {{}, {Link(1, 2, 0)}, {Link(1, 2, 0), Link(2, 3, 1)}, {Link(1, 2, 2), Link(1, 3, 0)},
            {Link(1, 3, 0), Link(2, 3, 2)}, {Link(1, 2, 0), Link(2, 3, 0), Link(1, 3, 4)}}]
Packages(starts, lengths, leads) ==
  {[start |-> s, end |-> s + l, lead |-> k] : s \in starts, l \in lengths, k \in leads}
PackageDates ==
  {<<a, b, c>> : a \in Packages({0, 5}, {0, 3}, {0, 2}), b \in Packages({3, 6}, {0, 4}, {0, 3}),
                 c \in Packages({7, 9}, {2}, {0, 1})}

-----------------------------------------------------------------------------
Still == EditsInit /\ freeze = Null /\ rows[b2] # Unborn

RulesInit ==
  /\ input = <<>>
  /\ \/ part = "edits" /\ EditsInit /\ calendar = <<>>
     \/ part = "people" /\ Still /\ calendar \in PersonCalendars
     \/ part = "machines" /\ Still /\ calendar \in MachineCalendars
     \/ part = "crowds" /\ Still /\ calendar \in Zones
     \/ part = "dates" /\ Still /\ calendar \in Plans

Pick(name, inputs) ==
  /\ part = name /\ input = <<>> /\ input' \in inputs
  /\ UNCHANGED <<editVars, part, calendar>>

RulesNext ==
  \/ part = "edits" /\ EditsNext /\ UNCHANGED <<part, calendar, input>>
  \/ Pick("people", PersonBookings)
  \/ Pick("machines", MachineBookings)
  \/ Pick("crowds", Crowds)
  \/ Pick("dates", PackageDates)

RulesSpec == RulesInit /\ [][RulesNext]_ruleVars

Picked(name) == part = name /\ input # <<>>

\* Conflicts are found exactly where bookings exceed the calendar: the sweep over the
\* bounds of bookings, the periods that are stored, the dashboard and the preview tell
\* of the same days (conflict_service.py:444), overlaps of machines are those of their
\* holders, and a booking outside the shifts is reported for the minutes outside.
ConflictsAreFound ==
  /\ Picked("people") => /\ SweepFindsTheDays(calendar, input)
                         /\ PeriodsTellTheDays(calendar, input)
                         /\ DashboardAgrees(calendar, input)
                         /\ \A windows \in PreviewWindows :
                              PreviewShowsWhatIsStored(calendar, input, windows)
  /\ Picked("machines") => ReportsWhatIsLoaded(calendar.cal, calendar.zone, input)
  /\ part = "machines" => \A d \in 0..2 : DayBookingFits(calendar.cal, calendar.zone, d)
  /\ Picked("crowds") => /\ OverlapsAreShared(calendar, input)
                         /\ \A windows \in {{<<0, 0>>}, {<<1, 1>>, <<1, 2>>}} :
                              OverlapsAreShown(calendar, input, windows)

\* The dates of a plan mean what they say: passes of the critical path are earliest and
\* latest, float is what a package may slip, missing days are the fewest that help, and
\* a plan without warnings is on time (critical_path.py, lead_time.py, dependencies.py).
DatesKeepTheirMeaning ==
  Picked("dates") =>
    LET plan == [nodes |-> input, edges |-> calendar.edges]
    IN /\ ForwardIsEarliest(plan, calendar.deadline, calendar.week)
       /\ BackwardIsLatest(plan, calendar.deadline, calendar.week)
       /\ FloatIsWhatMaySlip(plan, calendar.deadline, calendar.week)
       /\ QuietPlansAreOnTime(plan, calendar.deadline, calendar.week)
       /\ \A planned \in {6, 9} :
            ShortfallsAreLeast(plan, calendar.deadline, planned, calendar.week)
=============================================================================
