--------------------------- MODULE ConflictSweep ---------------------------
(***************************************************************************)
(* Which conflicts a resource has (conflict_service.py), what the          *)
(* dashboard says of the same days (capacity_service.py), and what a       *)
(* preview shows before a booking is saved (assignment_preview.py).        *)
(* `bookings` maps ids to [start, end, percent]; start and end are days,   *)
(* both included, or for a machine instants, the end excluded.  Amounts    *)
(* stay in minutes: a percentage of the normative day is a fixed multiple. *)
(***************************************************************************)
EXTENDS WorkingTime, Functions

Ids(bookings) == DOMAIN bookings
Starts(bookings) == {bookings[i].start : i \in Ids(bookings)}
Ends(bookings) == {bookings[i].end : i \in Ids(bookings)}

\* The day after d, the next element of S after x.
Following(x, S) == Min({y \in S : y > x})

\* prepare(): of the site's exceptional days, those of the range are loaded.
Loaded(cal, from, to) ==
  [cal EXCEPT !.holidays = Restrict(@, {d \in DOMAIN @ : from <= d /\ d <= to})]

-----------------------------------------------------------------------------
\* A person: demand of a day against the minutes of the day.

\* Mutant: a span ends on the last day of a booking instead of after it.
BoundariesAtEnds(bookings) == Starts(bookings) \cup Ends(bookings)

Boundaries(bookings) == Starts(bookings) \cup {e + 1 : e \in Ends(bookings)}

\* The bookings that cover all days from first to last.
Covering(bookings, first, last) ==
  {i \in Ids(bookings) : bookings[i].start <= first /\ last <= bookings[i].end}

Percent(bookings, ids) == MapThenSumSet(LAMBDA i : bookings[i].percent, ids)

\* The conflict days of the span that begins at boundary b.
SpanDays(cal, bookings, b) ==
  LET last == Following(b, Boundaries(bookings)) - 1
      ids == Covering(bookings, b, last)
      Day(d) == [date |-> d, ids |-> ids, available |-> available_minutes(cal, d),
                 assigned |-> demand_minutes(cal, d, Percent(bookings, ids))]
  IN {day \in {Day(d) : d \in b..last} : day.assigned > day.available}

ConflictDays(cal, bookings) ==
  LET spans == Boundaries(bookings) \ {Max(Boundaries(bookings))}
  IN UNION {SpanDays(cal, bookings, b) : b \in spans}

\* Days in a row, or with the same bookings, are one group.
Grouped(days) ==
  FoldLeft(LAMBDA groups, day :
             IF /\ groups # <<>>
                /\ LET previous == Last(Last(groups))
                   IN day.date = previous.date + 1 \/ day.ids = previous.ids
             THEN Front(groups) \o <<Append(Last(groups), day)>>
             ELSE Append(groups, <<day>>),
           <<>>, Ranked(days, LAMBDA d, e : d.date < e.date))

\* One period of a group: its peak demand, and what the worst of its days has.
PersonalPeriod(days) ==
  LET Gap(d) == d.assigned - d.available
      worst == Min({i \in DOMAIN days : \A j \in DOMAIN days : Gap(days[j]) <= Gap(days[i])})
  IN [cause |-> "over_allocation", start |-> days[1].date, end |-> Last(days).date,
      assigned |-> Max({d.assigned : d \in Range(days)}),
      available |-> days[worst].available,
      ids |-> UNION {d.ids : d \in Range(days)}]

PersonalPeriods(cal, bookings) ==
  IF bookings = <<>> THEN <<>>
  ELSE LET loaded == Loaded(cal, Min(Starts(bookings)), Max(Ends(bookings)))
           groups == Grouped(ConflictDays(loaded, bookings))
       IN [i \in DOMAIN groups |-> PersonalPeriod(groups[i])]

-----------------------------------------------------------------------------
\* A machine: bookings that overlap, and bookings outside its windows.

\* Active between a moment and the next one.  At equal moments ends come first, so
\* a booking that ended before it began would never be closed.
ActiveAfter(bookings, moment) ==
  {i \in Ids(bookings) :
     /\ bookings[i].start <= moment
     /\ bookings[i].end <= moment => bookings[i].end <= bookings[i].start}

\* One period for each stretch between two moments with more than one booking.
infrastructure_overlaps(zone, bookings) ==
  LET moments == Starts(bookings) \cup Ends(bookings)
      Crowded(m) == m # Max(moments) /\ Cardinality(ActiveAfter(bookings, m)) > 1
  IN [m \in {n \in moments : Crowded(n)} |->
        [cause |-> "booking_overlap", start |-> local_date(zone, m),
         end |-> local_date(zone, Following(m, moments) - 1),
         assigned |-> 100 * Cardinality(ActiveAfter(bookings, m)), available |-> 100,
         ids |-> ActiveAfter(bookings, m)]]

\* The part of a booking that lies on a day: minutes booked, minutes a window covers.
PartOn(cal, zone, booking, day) ==
  LET bounds == local_day_bounds(zone, day)
      from == Max({booking.start, bounds[1]})
      to == Min({booking.end, bounds[2]})
      minute == MinuteOfDay(zone, from)
      spans == covered_spans(cal, day)
      InSpan(m) == \E s \in Range(spans) : s[1] <= m /\ m < s[2]
  IN [booked |-> Max({0, to - from}),
      covered |->
        IF to <= from THEN 0
        ELSE IF bounds[2] - bounds[1] = MINUTES_PER_DAY
        THEN covered_minutes_within(cal, day, minute, minute + to - from)
        ELSE Cardinality({i \in from..(to - 1) : InSpan(MinuteOfDay(zone, i))})]

WindowViolation(cal, zone, bookings, id) ==
  LET booking == bookings[id]
      days == local_date(zone, booking.start)..local_date(zone, booking.end)
      part == [d \in days |-> PartOn(cal, zone, booking, d)]
      offending == {d \in days : part[d].covered < part[d].booked}
  IN IF offending = {} THEN {}
     ELSE {[cause |-> "outside_availability", start |-> Min(offending), end |-> Max(offending),
            assigned |-> MapThenSumSet(LAMBDA d : part[d].booked, days),
            available |-> MapThenSumSet(LAMBDA d : part[d].covered, days), ids |-> {id}]}

detect_window_violations(cal, zone, bookings) ==
  IF ~has_windows(cal) \/ bookings = <<>> THEN {}
  ELSE LET loaded == Loaded(cal, local_date(zone, Min(Starts(bookings))),
                            local_date(zone, Max(Ends(bookings))))
       IN UNION {WindowViolation(loaded, zone, bookings, id) : id \in Ids(bookings)}

-----------------------------------------------------------------------------
\* The dashboard: demand and supply of a day, their ratio and its colour.

PersonDay(cal, bookings, day) ==
  [available |-> available_minutes(cal, day),
   assigned |-> demand_minutes(cal, day, Percent(bookings, Covering(bookings, day, day)))]

\* A machine counts as a whole day for each booking that touches the day.
MachineDay(zone, bookings, day) ==
  LET bounds == local_day_bounds(zone, day)
      touching == {i \in Ids(bookings) : Max({bookings[i].start, bounds[1]})
                                          < Min({bookings[i].end, bounds[2]})}
  IN [available |-> NORMATIVE_DAY_MINUTES,
      assigned |-> percent_to_minutes(100 * Cardinality(touching))]

\* Utilization against a percentage; demand without supply counts as 100 percent.
Exceeds(day, percent) ==
  IF day.available = 0 THEN day.assigned > 0 /\ 100 > percent
  ELSE 100 * day.assigned > percent * day.available

get_utilization_color(day) ==
  IF Exceeds(day, 100) THEN "red"
  ELSE IF Exceeds(day, 80) \/ (day.available > 0 /\ 100 * day.assigned = 80 * day.available)
  THEN "yellow" ELSE "green"

\* Monday to Sunday; what one day has to spare does not help another.
PersonWeek(cal, bookings, monday) ==
  LET day == [d \in monday..(monday + 6) |-> PersonDay(cal, bookings, d)]
      Sum(Amount(_)) == MapThenSumSet(LAMBDA d : Amount(day[d]), DOMAIN day)
  IN [available |-> Sum(LAMBDA d : d.available), assigned |-> Sum(LAMBDA d : d.assigned),
      excess |-> Sum(LAMBDA d : Max({0, d.assigned - d.available})),
      days |-> Cardinality({d \in DOMAIN day : day[d].available > 0 \/ day[d].assigned > 0})]

\* The red segment: excess as a share of the supply, nothing where there is none.
Overbooked(week) == week.available > 0 /\ week.excess > 0

-----------------------------------------------------------------------------
\* The preview: the same calculations on bookings cut to the old and the new period.

ClipTo(bookings, from, to, least) ==
  LET cut == [i \in Ids(bookings) |-> [bookings[i] EXCEPT !.start = Max({from, @}), !.end = Min({to, @})]]
  IN Restrict(cut, {i \in Ids(bookings) : cut[i].end - cut[i].start >= least})

\* Windows are spans of days; those that share a day become one.
PreviewPeriods(cal, bookings, windows) ==
  {PersonalPeriods(cal, ClipTo(bookings, w[1], w[2], 0)) : w \in Range(Merged(windows))}

PreviewOverlaps(zone, bookings, windows) ==
  {infrastructure_overlaps(zone, ClipTo(bookings, DayStart(zone, w[1]), DayStart(zone, w[2] + 1), 1)) :
     w \in Range(Merged(windows))}

-----------------------------------------------------------------------------
(***************************************************************************)
(* What the calculations must agree on.                                    *)
(***************************************************************************)

Span(bookings) == Min(Starts(bookings))..Max(Ends(bookings))

\* Day by day instead of by spans: the demand of all who are booked against the day.
OverbookedOn(cal, bookings, d) ==
  LET day == PersonDay(cal, bookings, d) IN day.assigned > day.available

\* The sweep finds the overbooked days and nobody else's bookings on them, wherever
\* bookings begin, end, touch or leave a gap (conflict_service.py:444).
SweepFindsTheDays(cal, bookings) ==
  LET found == ConflictDays(cal, bookings)
  IN /\ {day.date : day \in found} = {d \in Span(bookings) : OverbookedOn(cal, bookings, d)}
     /\ \A day \in found : day.ids = Covering(bookings, day.date, day.date)

\* The stored periods tell the overbooked days apart: each lies in one period, which
\* begins and ends with such a day, names the bookings of its days, the peak of their
\* demand and the supply of a worst day; a day between that is none of them stands
\* between two of the same bookings, and neighbours differ in theirs.
PeriodsTellTheDays(cal, bookings) ==
  LET periods == PersonalPeriods(cal, bookings)
      days == {d \in Span(bookings) : OverbookedOn(cal, bookings, d)}
      Of(p) == {d \in days : p.start <= d /\ d <= p.end}
      Who(d) == Covering(bookings, d, d)
      Day(d) == PersonDay(cal, bookings, d)
      Gap(d) == Day(d).assigned - Day(d).available
  IN /\ \A d \in days : \E p \in Range(periods) : d \in Of(p)
     /\ \A p \in Range(periods) :
          /\ {p.start, p.end} \subseteq days
          /\ p.ids = UNION {Who(d) : d \in Of(p)}
          /\ p.assigned = Max({Day(d).assigned : d \in Of(p)})
          /\ \E d \in Of(p) : p.available = Day(d).available /\ \A e \in Of(p) : Gap(e) <= Gap(d)
          /\ \A d \in Of(p) \ {p.end} :
               LET next == Following(d, days) IN next = d + 1 \/ Who(next) = Who(d)
     /\ \A i \in DOMAIN periods \ {1} :
          LET end == periods[i - 1].end
          IN periods[i].start > end + 1 /\ Who(periods[i].start) # Who(end)

\* The dashboard and the conflicts agree on every day, but for one case: a day without
\* supply is a conflict and yet not red.  So a week has a red segment when one of its
\* days is a conflict, provided that the week has supply at all.
DashboardAgrees(cal, bookings) ==
  /\ \A d \in Span(bookings) :
       LET day == PersonDay(cal, bookings, d)
       IN get_utilization_color(day) = "red"
            <=> OverbookedOn(cal, bookings, d) /\ day.available > 0
  /\ \A monday \in {d \in Span(bookings) : Weekday(d) = 0} :
       LET week == PersonWeek(cal, bookings, monday)
       IN Overbooked(week) <=> /\ week.available > 0
                               /\ \E d \in monday..(monday + 6) : OverbookedOn(cal, bookings, d)

\* What planners are promised, and the dashboard does not keep: "Where availability is
\* zero and demand is not, utilization is reported as over-allocated"
\* (docs/explanation/capacity-model.md).
OnLeaveIsOverAllocated(cal, bookings) ==
  \A d \in Span(bookings) :
    OverbookedOn(cal, bookings, d) => get_utilization_color(PersonDay(cal, bookings, d)) = "red"

\* The preview of a change shows on the days of its windows what saving it would store.
PreviewShowsWhatIsStored(cal, bookings, windows) ==
  LET DaysOf(periods) ==
        {d \in UNION {w[1]..w[2] : w \in windows} :
           \E p \in Range(periods) : p.start <= d /\ d <= p.end /\ OverbookedOn(cal, bookings, d)}
  IN DaysOf(PersonalPeriods(cal, bookings))
       = UNION {DaysOf(periods) : periods \in PreviewPeriods(cal, bookings, windows)}

-----------------------------------------------------------------------------
\* So does the preview of a change to a machine, and the dashboard has every day of an
\* overlap in red (it may have more: bookings that share a day but no minute).
OverlapsAreShown(zone, bookings, windows) ==
  LET DaysOf(periods) == {d \in UNION {w[1]..w[2] : w \in windows} :
                            \E p \in Range(periods) : p.start <= d /\ d <= p.end}
      stored == infrastructure_overlaps(zone, bookings)
  IN /\ DaysOf(stored) = UNION {DaysOf(periods) : periods \in PreviewOverlaps(zone, bookings, windows)}
     /\ \A p \in Range(stored) : \A d \in p.start..p.end :
          get_utilization_color(MachineDay(zone, bookings, d)) = "red"

\* Who has the machine at an instant.
Holders(bookings, instant) ==
  {i \in Ids(bookings) : bookings[i].start <= instant /\ instant < bookings[i].end}

Horizon(bookings) == Min(Starts(bookings))..(Max(Ends(bookings)) - 1)

\* At every instant with several holders one period covers that date and names exactly
\* them; and no period names bookings that do not all hold the machine at once on each
\* of its first and last days: a third booking nearby inherits nothing.
OverlapsAreShared(zone, bookings) ==
  LET periods == Range(infrastructure_overlaps(zone, bookings))
      Crowd(i) == Cardinality(Holders(bookings, i)) > 1
      On(p, i) == LET d == local_date(zone, i) IN p.start <= d /\ d <= p.end
  IN /\ \A i \in Horizon(bookings) : Crowd(i) =>
          \E p \in periods : On(p, i) /\ p.ids = Holders(bookings, i)
     /\ \A p \in periods : \A day \in {p.start, p.end} :
          \E i \in Horizon(bookings) :
            local_date(zone, i) = day /\ Crowd(i) /\ p.ids = Holders(bookings, i)

\* A shift that starts on day `shift` is under way at the reading, and not cancelled.
UnderWay(cal, w, shift, reading) ==
  LET since == reading - shift * MINUTES_PER_DAY
  IN /\ w.weekday = Weekday(shift) /\ shift \notin DOMAIN cal.holidays
     /\ w.start <= since
     /\ since < (IF Overnight(w) THEN w.end + MINUTES_PER_DAY ELSE w.end)

Bookable(cal, zone, instant) ==
  \/ ~has_windows(cal)
  \/ \E w \in cal.windows, back \in {0, 1} :
       UnderWay(cal, w, local_date(zone, instant) - back, local_time(zone, instant))

\* A booking is reported for the minutes of it in which nobody may book the machine,
\* from the first to the last of their days, however shifts overlap or cross midnight
\* and whatever the clock does.
ReportsTheUnbookable(cal, zone, bookings) ==
  \A id \in Ids(bookings) :
    LET b == bookings[id]
        minutes == b.start..(b.end - 1)
        closed == {i \in minutes : ~Bookable(cal, zone, i)}
        dates == {local_date(zone, i) : i \in closed}
        reported == {p \in detect_window_violations(cal, zone, bookings) : p.ids = {id}}
    IN IF closed = {} THEN reported = {}
       ELSE reported = {[cause |-> "outside_availability", start |-> Min(dates), end |-> Max(dates),
                         assigned |-> Cardinality(minutes),
                         available |-> Cardinality(minutes \ closed), ids |-> {id}]}

\* The day before the first booking is not loaded: its holiday does not cancel the shift
\* that runs into the first day.  With that day's calendar as a plain day, the report is
\* exact.
FirstDate(zone, bookings) == local_date(zone, Min(Starts(bookings)))
ReportsWhatIsLoaded(cal, zone, bookings) ==
  LET first == FirstDate(zone, bookings)
  IN ReportsTheUnbookable([cal EXCEPT !.holidays = Restrict(@, DOMAIN @ \ {first - 1})],
                          zone, bookings)

\* A booking for a whole day begins and ends where the machine may be booked, and is
\* reported only for the gaps between its shifts.
DayBookingFits(cal, zone, day) ==
  \A bounds \in day_booking_bounds(cal, zone, day) :
    bounds[1] < bounds[2] /\ Bookable(cal, zone, bounds[1]) /\ Bookable(cal, zone, bounds[2] - 1)
=============================================================================
