------------------------------ MODULE TimeAxis ------------------------------
(* The time axis of the Gantt charts (gantt/timeAxis.ts) and the two orders   *)
(* its rows come in (sortProjects.ts, groupByResource.ts).  A bar is a record *)
(* with the anchors start and end, both inclusive; a slot is its first day.   *)
(* Pixels are fractions of the span: [px, over] stands for px / over.         *)
EXTENDS CalendarDays, Sequences, SequencesExt, Ranks

TimeScales == {"day", "week", "month"}

getSlotWidth(scale) == CASE scale = "day" -> 40 [] scale = "week" -> 80 [] scale = "month" -> 120
paddingDays(scale) == CASE scale = "day" -> 1 [] scale = "week" -> 3 [] scale = "month" -> 7

Earliest(items) == CHOOSE t \in {i.start : i \in items} : \A i \in items : t <= i.start
Latest(items) == CHOOSE t \in {i.end : i \in items} : \A i \in items : i.end <= t

FirstSlot(min, scale) ==
  CASE scale = "day" -> min
    [] scale = "week" -> startOfIsoWeekUtc(min)
    [] scale = "month" -> startOfMonthUtc(min)

\* The column n further on.
SlotAfter(slot, n, scale) ==
  CASE scale = "day" -> addDaysUtc(slot, n)
    [] scale = "week" -> addDaysUtc(slot, 7 * n)
    [] scale = "month" -> addMonthsUtc(slot, n)
NextSlot(slot, scale) == SlotAfter(slot, 1, scale)

\* Columns until one would begin after the last day.
timeSlots(min, max, scale) ==
  LET first == FirstSlot(min, scale)
      after(n) == SlotAfter(first, n, scale)
      count == CHOOSE n \in 0 .. max - first + 1 :
                 after(n) > max /\ (n > 0 => after(n - 1) <= max)
  IN  [n \in 1..count |-> after(n - 1)]

computeTimeAxis(items, scale, today) ==
  IF items = {} THEN [slots |-> <<>>, min |-> today, total |-> 0]
  ELSE LET min == addDaysUtc(Earliest(items), -paddingDays(scale))
           max == addDaysUtc(Latest(items), paddingDays(scale))
       IN  [slots |-> timeSlots(min, max, scale), min |-> min, total |-> max - min]

getTimeSpanEnd(slots, scale, today) ==
  IF slots = <<>> THEN today ELSE NextSlot(slots[Len(slots)], scale)

AtLeast(least, n) == IF n < least THEN least ELSE n

\* Mutant: the end day is taken for exclusive.
barUpToItsEnd(item, axis, scale) ==
  LET width == Len(axis.slots) * getSlotWidth(scale)
      span == getTimeSpanEnd(axis.slots, scale, axis.min) - axis.min
  IN  IF span <= 0 THEN [left |-> 0, width |-> 4, over |-> 1]
      ELSE [left |-> (item.start - axis.min) * width,
            width |-> AtLeast(4 * span, (item.end - item.start) * width),
            over |-> span]

computeBarGeometry(item, axis, scale) ==
  LET width == Len(axis.slots) * getSlotWidth(scale)
      span == getTimeSpanEnd(axis.slots, scale, axis.min) - axis.min
  IN  IF span <= 0 THEN [left |-> 0, width |-> 4, over |-> 1]
      ELSE [left |-> (item.start - axis.min) * width,
            width |-> AtLeast(4 * span, (item.end - item.start + 1) * width),
            over |-> span]

isCurrentSlot(slot, scale, today) ==
  CASE scale = "day" -> slot = today
    [] scale = "week" -> slot <= today /\ today <= addDaysUtc(slot, 6)
    [] scale = "month" -> UTCFullYear(slot) = UTCFullYear(today) /\ UTCMonth(slot) = UTCMonth(today)
-----------------------------------------------------------------------------
(* A project is [id, name, start, end]; names and ids are ordered numbers.    *)
byName(a, b) == a.name < b.name \/ (a.name = b.name /\ a.id < b.id)
sortProjects(projects, key) ==
  LET before(a, b) ==
        CASE key = "start" -> a.start < b.start \/ (a.start = b.start /\ byName(a, b))
          [] key = "end" -> a.end < b.end \/ (a.end = b.end /\ byName(a, b))
          [] key = "name" -> byName(a, b)
  IN  Ranked(projects, before)

(* Bars of a group's chart, [id, project, resource, start, end], one for each *)
(* booking and named by its package, folded by resource: rows read as time.   *)
groupByResource(bars) ==
  LET inTime(a, b) ==
        \/ a.start < b.start
        \/ a.start = b.start /\ a.end < b.end
        \/ a.start = b.start /\ a.end = b.end /\ a.id < b.id
  IN  [r \in {b.resource : b \in bars} |-> Ranked({b \in bars : b.resource = r}, inTime)]
-----------------------------------------------------------------------------
(* The columns cover every day between the first and the last bar, follow one *)
(* another without a gap, and exactly one is today's if today is on the axis. *)
ColumnsCoverTheBars(items, scale, today) ==
  LET axis == computeTimeAxis(items, scale, today)
      slots == axis.slots
      end == getTimeSpanEnd(slots, scale, today)
  IN  items # {} =>
      /\ slots[1] <= axis.min /\ axis.min < Earliest(items) /\ Latest(items) < end
      /\ \A n \in 1 .. Len(slots) - 1 : NextSlot(slots[n], scale) = slots[n + 1]
      /\ Cardinality({n \in 1 .. Len(slots) : isCurrentSlot(slots[n], scale, today)})
           = IF slots[1] <= today /\ today < end THEN 1 ELSE 0

(* A bar is as wide as its days, lies on the axis, and of two bars the one    *)
(* that begins the day after the other ends touches it: a gap on the chart is *)
(* a gap in the plan, but for bars drawn wider than they are to be seen.      *)
BarsCoverTheirDays(items, scale, today) ==
  LET axis == computeTimeAxis(items, scale, today)
      px(i) == computeBarGeometry(i, axis, scale)
      right(i) == px(i).left + px(i).width
  IN  \A i \in items :
        /\ px(i).left >= 0
        /\ right(i) <= Len(axis.slots) * getSlotWidth(scale) * px(i).over
        /\ \A j \in items : px(i).width > 4 * px(i).over =>
             /\ (right(i) <= px(j).left) = (i.end < j.start)
             /\ (right(i) = px(j).left) = (i.end + 1 = j.start)
        /\ scale = "day" => px(i).left = 40 * (i.start - axis.slots[1]) * px(i).over

(* gantt/timeAxis.ts of the axis: "the anchors bars are placed against".  A   *)
(* bar begins inside the column of its first day.                             *)
BarsSitInTheirColumns(items, scale, today) ==
  LET axis == computeTimeAxis(items, scale, today)
      w == getSlotWidth(scale)
  IN  \A i \in items : \A n \in 1 .. Len(axis.slots) :
        axis.slots[n] <= i.start /\ i.start < NextSlot(axis.slots[n], scale) =>
          LET px == computeBarGeometry(i, axis, scale)
          IN  (n - 1) * w * px.over <= px.left /\ px.left < n * w * px.over

(* Both charts of a group are folds of the same rows: each bar is in one row  *)
(* of its own resource, in the order of time.                                 *)
GroupingKeepsTheBars(bars) ==
  LET groups == groupByResource(bars)
  IN  /\ \A r \in DOMAIN groups : \A n \in 1 .. Len(groups[r]) :
           /\ groups[r][n].resource = r
           /\ n > 1 => groups[r][n - 1].start <= groups[r][n].start
      /\ bars = UNION {ToSet(groups[r]) : r \in DOMAIN groups}
=============================================================================
