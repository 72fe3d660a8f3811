---------------------------- MODULE WorkingTime ----------------------------
(***************************************************************************)
(* How much time a day holds (working_time_service.py): the minutes a      *)
(* person has after week profile, site calendar and absences, and the      *)
(* clock spans in which a machine may be booked.  A calendar `cal` is what *)
(* prepare() has loaded of one resource:                                   *)
(*   levels    the bindings of the resource, of its group, of that group's *)
(*             parent and so on; the periods of one level do not overlap   *)
(*   default   the default profile, or NoProfile                           *)
(*   holidays  minutes of the exceptional days of its site                 *)
(*   absences, windows                                                     *)
(* Days are numbers and day 0 is a Monday; percentages are whole.          *)
(***************************************************************************)
EXTENDS Integers, FiniteSets, FiniteSetsExt, SequencesExt, Ranks

CONSTANTS
  MINUTES_PER_DAY,
  NORMATIVE_DAY_MINUTES,
  NoProfile

ASSUME DayAssumption == MINUTES_PER_DAY \in Nat \ {0} /\ NORMATIVE_DAY_MINUTES \in Nat \ {0}

Weekday(day) == day % 7

\* a / b to the nearest whole number, halves to the even one.
Round(a, b) ==
  LET whole == a \div b
      rest == 2 * (a % b)
  IN IF rest < b \/ (rest = b /\ whole % 2 = 0) THEN whole ELSE whole + 1

percent_to_minutes(percent) == Round(percent * NORMATIVE_DAY_MINUTES, 100)

-----------------------------------------------------------------------------
\* What a person has.

Covers(binding, day) == binding.from <= day /\ day <= binding.until

\* The nearest level that says anything of the day; else the default.
profile_for(cal, day) ==
  LET saying == {i \in DOMAIN cal.levels : \E b \in cal.levels[i] : Covers(b, day)}
  IN IF saying = {} THEN cal.default
     ELSE (CHOOSE b \in cal.levels[Min(saying)] : Covers(b, day)).profile

calendar_minutes(cal, day) ==
  IF day \in DOMAIN cal.holidays THEN cal.holidays[day]
  ELSE LET profile == profile_for(cal, day)
       IN IF profile = NoProfile THEN 0 ELSE profile[Weekday(day)]

is_working_day(cal, day) == calendar_minutes(cal, day) > 0

\* Requested absences count like granted ones, and a day cannot lose more than itself.
absence_percent(cal, day) ==
  Min({100, MapThenSumSet(LAMBDA a : a.percent,
                          {a \in cal.absences : a.start <= day /\ day <= a.end})})

available_minutes(cal, day) ==
  Round(calendar_minutes(cal, day) * (100 - absence_percent(cal, day)), 100)

demand_minutes(cal, day, percent) ==
  IF is_working_day(cal, day) THEN percent_to_minutes(percent) ELSE 0

-----------------------------------------------------------------------------
\* When a machine may be booked.

\* The windows that start on the day: a holiday of the site cancels them all.
windows_for(cal, day) ==
  IF day \in DOMAIN cal.holidays THEN {}
  ELSE {w \in cal.windows : w.weekday = Weekday(day)}

has_windows(cal) == cal.windows # {}

\* A window that ends before it starts runs past midnight.
Overnight(w) == w.end <= w.start

\* Spans that meet or overlap become one.
Merged(spans) ==
  LET sorted == Ranked(spans, LAMBDA s, t : s[1] < t[1] \/ (s[1] = t[1] /\ s[2] < t[2]))
  IN FoldLeft(LAMBDA merged, s :
                IF merged # <<>> /\ s[1] <= Last(merged)[2]
                THEN Front(merged) \o << <<Last(merged)[1], Max({Last(merged)[2], s[2]})>> >>
                ELSE Append(merged, s),
              <<>>, sorted)

covered_spans(cal, day) ==
  IF ~has_windows(cal) THEN << <<0, MINUTES_PER_DAY>> >>
  ELSE Merged({<<w.start, IF Overnight(w) THEN MINUTES_PER_DAY ELSE w.end>> : w \in windows_for(cal, day)}
              \cup {<<0, w.end>> : w \in {v \in windows_for(cal, day - 1) : Overnight(v) /\ v.end > 0}})

\* The minutes of [from, to) that lie in a span.
covered_minutes_within(cal, day, from, to) ==
  LET spans == covered_spans(cal, day)
  IN MapThenSumSet(LAMBDA i : Max({0, Min({to, spans[i][2]}) - Max({from, spans[i][1]})}),
                   DOMAIN spans)

-----------------------------------------------------------------------------
\* The planning clock (time_zone.py): local reading = instant + offset, and the
\* offset of a zone changes at one instant.  Readings count from midnight of day 0.

local_time(zone, instant) ==
  instant + (IF instant < zone.change THEN zone.before ELSE zone.after)

local_date(zone, instant) == local_time(zone, instant) \div MINUTES_PER_DAY

MinuteOfDay(zone, instant) == local_time(zone, instant) % MINUTES_PER_DAY

\* The instants with a reading: none in the hour that is skipped, two in the repeated one.
InstantsOf(zone, reading) ==
  {i \in {reading - zone.before, reading - zone.after} : local_time(zone, i) = reading}

DayStart(zone, day) == Min(InstantsOf(zone, day * MINUTES_PER_DAY))
local_day_bounds(zone, day) == <<DayStart(zone, day), DayStart(zone, day + 1)>>

\* None when the reading is skipped or ambiguous.
local_wall_time_to_utc(zone, reading) ==
  IF Cardinality(InstantsOf(zone, reading)) = 1 THEN InstantsOf(zone, reading) ELSE {}

\* From the start of the day's first span to the end of its last, if it has any and
\* the clock shows both once.
day_booking_bounds(cal, zone, day) ==
  LET spans == covered_spans(cal, day)
      midnight == day * MINUTES_PER_DAY
  IN IF spans = <<>> THEN {}
     ELSE local_wall_time_to_utc(zone, midnight + spans[1][1])
            \X local_wall_time_to_utc(zone, midnight + Last(spans)[2])
=============================================================================
