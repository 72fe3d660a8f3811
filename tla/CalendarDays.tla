---------------------------- MODULE CalendarDays ----------------------------
(* The dates of the browser (utils/date.ts).  An ISO date or a form value is  *)
(* the day it spells, [y, m, d]; a DayAnchor is the number of days since the  *)
(* first of January 1970; a moment is a number of hours, and a time zone the  *)
(* offset it has at every moment.                                             *)
EXTENDS Integers, FiniteSets

-----------------------------------------------------------------------------
(* JavaScript's Date in UTC: months count from 0, and an argument out of its  *)
(* range carries into the next larger one.                                    *)
LeapDays(y) == (y \div 4) - (y \div 100) + (y \div 400)
DaysBefore(y) == 365 * y + LeapDays(y - 1)
IsLeap(y) == y % 4 = 0 /\ (y % 100 # 0 \/ y % 400 = 0)
MonthOffsets == <<0, 31, 59, 90, 120, 151, 181, 212, 243, 273, 304, 334>>

DateUTC(y, m, d) ==
  LET year == y + (m \div 12)
      month == (m % 12) + 1
  IN  DaysBefore(year) - DaysBefore(1970) + MonthOffsets[month]
        + (IF IsLeap(year) /\ month > 2 THEN 1 ELSE 0) + d - 1

FirstOfYear(y) == DateUTC(y, 0, 1)
UTCFullYear(a) ==
  LET guess == 1970 + ((400 * a) \div 146097)
  IN  CHOOSE y \in guess - 1 .. guess + 1 : FirstOfYear(y) <= a /\ a < FirstOfYear(y + 1)
UTCMonth(a) ==
  LET y == UTCFullYear(a)
  IN  CHOOSE m \in 0..11 : DateUTC(y, m, 1) <= a /\ a < DateUTC(y, m + 1, 1)
UTCDate(a) == a - DateUTC(UTCFullYear(a), UTCMonth(a), 1) + 1
UTCDay(a) == (a + 4) % 7
-----------------------------------------------------------------------------
Day(y, m, d) == [y |-> y, m |-> m, d |-> d]
NoDay == Day(0, 0, 0)

startOfDayUtc(iso) == DateUTC(iso.y, iso.m - 1, iso.d)
dayAnchorToIso(a) == Day(UTCFullYear(a), UTCMonth(a) + 1, UTCDate(a))

\* Mutant: the overflow of an impossible day is not noticed.
parseLenientDate(y, m, d) == dayAnchorToIso(DateUTC(y, m - 1, d))

(* A typed date is taken if it is a day of the calendar. *)
parseDisplayDate(y, m, d) ==
  LET candidate == DateUTC(y, m - 1, d)
  IN  IF UTCFullYear(candidate) = y /\ UTCMonth(candidate) = m - 1 /\ UTCDate(candidate) = d
      THEN Day(y, m, d) ELSE NoDay

compareDates(a, b) ==
  CASE a = b -> 0
    [] a.y < b.y \/ (a.y = b.y /\ (a.m < b.m \/ (a.m = b.m /\ a.d < b.d))) -> -1
    [] OTHER -> 1

addDaysUtc(a, days) == a + days
startOfMonthUtc(a) == DateUTC(UTCFullYear(a), UTCMonth(a), 1)
addMonthsUtc(a, months) == DateUTC(UTCFullYear(a), UTCMonth(a) + months, UTCDate(a))
startOfIsoWeekUtc(a) == addDaysUtc(a, -((UTCDay(a) + 6) % 7))
differenceInDays(later, earlier) == later - earlier

\* Mutant: the year of the day itself owns its week.
weekOfOwnYear(a) ==
  LET thursday == addDaysUtc(a, 3 - ((UTCDay(a) + 6) % 7))
      week1 == DateUTC(UTCFullYear(a), 0, 4)
  IN  ((2 * (thursday - week1) + 7) \div 14) + 1

\* Math.round of sevenths: the fraction is never a half.
isoWeekNumber(a) ==
  LET thursday == addDaysUtc(a, 3 - ((UTCDay(a) + 6) % 7))
      week1 == DateUTC(UTCFullYear(thursday), 0, 4)
  IN  ((2 * (thursday - week1) + 7) \div 14) + 1
-----------------------------------------------------------------------------
(* Clock times: a zone changes its offset at one moment.  An API timestamp is *)
(* an instant; what a form holds is a local time, or an instant already       *)
(* chosen by the user.                                                        *)
Offset(zone, instant) == IF instant < zone.changes THEN zone.before ELSE zone.after
Instant(t) == [kind |-> "instant", at |-> t]
Local(t) == [kind |-> "local", at |-> t]
NoInstant == [kind |-> "none", at |-> 0]

instantToLocalDateTime(value, zone) ==
  IF value.kind = "local" THEN value ELSE Local(value.at + Offset(zone, value.at))

\* The moments a clock of the zone shows the local time.
Moments(zone, t) ==
  {i \in {t - zone.before, t - zone.after} : i + Offset(zone, i) = t}

localDateTimeToUtc(value, zone) ==
  CASE value.kind = "instant" -> value
    [] value.kind = "local" /\ Cardinality(Moments(zone, value.at)) = 1 ->
         Instant(CHOOSE i \in Moments(zone, value.at) : TRUE)
    [] OTHER -> NoInstant

localTimeChoices(value, zone) ==
  LET moments == Moments(zone, instantToLocalDateTime(value, zone).at)
  IN  IF Cardinality(moments) = 2 THEN {Instant(i) : i \in moments} ELSE {}
-----------------------------------------------------------------------------
(* What the calendar says without arithmetic: every day follows the one       *)
(* before it.                                                                 *)
DaysIn(y, m) ==
  CASE m = 2 -> IF IsLeap(y) THEN 29 ELSE 28
    [] m \in {4, 6, 9, 11} -> 30
    [] OTHER -> 31

NextDay(iso) ==
  CASE iso.d < DaysIn(iso.y, iso.m) -> Day(iso.y, iso.m, iso.d + 1)
    [] iso.d = DaysIn(iso.y, iso.m) /\ iso.m < 12 -> Day(iso.y, iso.m + 1, 1)
    [] OTHER -> Day(iso.y + 1, 1, 1)

IsDay(y, m, d) == m \in 1..12 /\ d \in 1..DaysIn(y, m)

(* Anchors count the days of the calendar, written and read back; a typed day *)
(* is accepted if and only if it exists; and comparing spelled dates is       *)
(* comparing anchors.                                                         *)
AnchorsAreDays(a) ==
  LET iso == dayAnchorToIso(a)
  IN  /\ startOfDayUtc(iso) = a
      /\ dayAnchorToIso(addDaysUtc(a, 1)) = NextDay(iso)
      /\ \A d \in 1..32 : (parseDisplayDate(iso.y, iso.m, d) # NoDay) = IsDay(iso.y, iso.m, d)
      /\ \A n \in {-31, -1, 0, 1, 31} :
           LET other == addDaysUtc(a, n)
           IN  /\ (compareDates(iso, dayAnchorToIso(other)) < 0) = (n > 0)
               /\ differenceInDays(other, a) = n

(* A week begins on its Monday, belongs to the year of its Thursday, and is   *)
(* the n-th of that year if n Thursdays of the year have been.                *)
WeeksAreOfTheirThursday(a) ==
  LET monday == startOfIsoWeekUtc(a)
      thursday == monday + 3
      first == FirstOfYear(UTCFullYear(thursday))
  IN  /\ UTCDay(monday) = 1 /\ a - monday \in 0..6
      /\ isoWeekNumber(a) = Cardinality({t \in first..thursday : (thursday - t) % 7 = 0})

(* From the first of a month, a month further is the first of the next one.   *)
MonthsFollow(a) ==
  LET first == startOfMonthUtc(a)
      iso == dayAnchorToIso(a)
  IN  /\ dayAnchorToIso(first) = Day(iso.y, iso.m, 1)
      /\ addMonthsUtc(first, 1) = first + DaysIn(iso.y, iso.m)

(* An entered time becomes the one moment at which clocks show it: in a gap   *)
(* there is none, and in a fold the form offers exactly the two to choose     *)
(* from, each of which keeps what was entered.                                *)
ClockTimesAreKept(zone, t) ==
  LET utc == localDateTimeToUtc(Local(t), zone)
      choices == localTimeChoices(Local(t), zone)
  IN  /\ utc # NoInstant => instantToLocalDateTime(utc, zone) = Local(t) /\ choices = {}
      /\ utc = NoInstant =>
           IF choices = {} THEN \A i \in t - 20 .. t + 20 : i + Offset(zone, i) # t
                           ELSE choices = {Instant(i) : i \in {j \in t - 20 .. t + 20 : j + Offset(zone, j) = t}}
      /\ \A c \in choices : /\ localDateTimeToUtc(c, zone) = c
                            /\ instantToLocalDateTime(c, zone) = Local(t)
=============================================================================
