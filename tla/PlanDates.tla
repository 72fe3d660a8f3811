----------------------------- MODULE PlanDates -----------------------------
(***************************************************************************)
(* The dates of a plan in working days: lead times and commitments         *)
(* (lead_time.py), links whose packages overlap (dependencies.py) and the  *)
(* critical path (critical_path.py).  The calendar is the default week     *)
(* profile, as all callers pass it: `week` is the set of its weekdays with *)
(* work.  A plan is [nodes, edges]; nodes maps packages to [start, end,    *)
(* lead], lead 0 when none is recorded; edges are [predecessor, successor, *)
(* lag] without a cycle (DependencyPlan).                                  *)
(***************************************************************************)
EXTENDS Integers, FiniteSets, FiniteSetsExt

CONSTANTS
  MAX_LOOKAHEAD_DAYS,   \* how far a search for working days goes
  NoDate

ASSUME DatesAssumption == MAX_LOOKAHEAD_DAYS \in Nat /\ NoDate \notin Int

Works(week, day) == day % 7 \in week

count_working_days(from, to, week) == Cardinality({d \in from..to : Works(week, d)})

\* The n-th working day at or after start.
add_working_days(start, n, week) ==
  LET reached == {d \in start..(start + MAX_LOOKAHEAD_DAYS - 1) :
                    Works(week, d) /\ count_working_days(start, d, week) = n}
  IN IF n < 1 \/ reached = {} THEN NoDate ELSE Min(reached)

\* The n-th working day at or before reference; without one, reference itself.
working_days_before(reference, n, week) ==
  LET reached == {d \in (reference - MAX_LOOKAHEAD_DAYS + 1)..reference :
                    Works(week, d) /\ count_working_days(d, reference, week) = n}
  IN IF n < 1 \/ reached = {} THEN reference ELSE Max(reached)

-----------------------------------------------------------------------------
\* Warnings.  Each is the number of working days that are missing, or nothing.

schedule_warning(node, week) ==
  LET derived == add_working_days(node.start, node.lead, week)
  IN IF node.lead < 1 \/ derived = NoDate \/ derived <= node.end THEN {}
     ELSE {[derived |-> derived, short |-> count_working_days(node.end + 1, derived, week)]}

earliest_successor_start(end, lag, week) == add_working_days(end + 1, lag + 1, week)

check_violation(lag, end, start, week) ==
  LET earliest == earliest_successor_start(end, lag, week)
  IN IF earliest = NoDate \/ start >= earliest THEN {}
     ELSE {[earliest |-> earliest, short |-> count_working_days(start + 1, earliest, week)]}

\* Measured against the later of the planned end and the end of the lead times.
assess_commitment(committed, planned, derived, week) ==
  LET late(end) == end # NoDate /\ end > committed
      effective == Max({planned} \cup ({derived} \ {NoDate}))
  IN IF committed = NoDate \/ ~(late(planned) \/ late(derived)) THEN {}
     ELSE {[short |-> count_working_days(committed + 1, effective, week), hidden |-> ~late(planned)]}

\* What the project overview reports; nothing is judged by a week without work.
Lateness(plan, week) ==
  [n \in DOMAIN plan.nodes |-> IF week = {} THEN {} ELSE schedule_warning(plan.nodes[n], week)]
Violations(plan, week) ==
  [e \in plan.edges |-> IF week = {} THEN {}
     ELSE check_violation(e.lag, plan.nodes[e.predecessor].end, plan.nodes[e.successor].start, week)]
Breach(plan, committed, planned, week) ==
  LET derived == {w.derived : w \in UNION {Lateness(plan, week)[n] : n \in DOMAIN plan.nodes}}
  IN assess_commitment(committed, planned, IF derived = {} THEN NoDate ELSE Max(derived), week)

-----------------------------------------------------------------------------
\* The critical path: a pass forward from the entered starts, one backward from the
\* deadline.  Both follow the links, so each value is known before it is asked for.

\* A package takes its lead time, else its entered span, and never less than a day.
duration_working_days(node, week) ==
  IF node.lead > 0 THEN node.lead ELSE Max({1, count_working_days(node.start, node.end, week)})

Duration(plan, week, n) == duration_working_days(plan.nodes[n], week)
Before(plan, n) == {e \in plan.edges : e.successor = n}
After(plan, n) == {e \in plan.edges : e.predecessor = n}

EarliestStarts(plan, week) ==
  LET early[n \in DOMAIN plan.nodes] ==
        LET Allowed(e) == earliest_successor_start(
              add_working_days(early[e.predecessor], Duration(plan, week, e.predecessor), week),
              e.lag, week)
        IN Max({plan.nodes[n].start} \cup {Allowed(e) : e \in Before(plan, n)})
  IN early

\* Mutant: anchored on the successor's start itself instead of the day before.
FinishesOnTheStart(plan, deadline, week) ==
  LET late[n \in DOMAIN plan.nodes] ==
        LET Allowed(e) == working_days_before(
              working_days_before(late[e.successor], Duration(plan, week, e.successor), week),
              e.lag + 1, week)
        IN Min({deadline} \cup {Allowed(e) : e \in After(plan, n)})
  IN late

LatestFinishes(plan, deadline, week) ==
  LET late[n \in DOMAIN plan.nodes] ==
        LET Allowed(e) == working_days_before(
              working_days_before(late[e.successor], Duration(plan, week, e.successor), week) - 1,
              e.lag + 1, week)
        IN Min({deadline} \cup {Allowed(e) : e \in After(plan, n)})
  IN late

Slack(earliest, latest, week) ==
  IF latest >= earliest THEN count_working_days(earliest, latest, week) - 1
  ELSE -(count_working_days(latest, earliest, week) - 1)

\* Nothing for a week without work, else the dates and the float of every package.
analyse(plan, deadline, week) ==
  LET early == EarliestStarts(plan, week)
      late == LatestFinishes(plan, deadline, week)
      Entry(n) ==
        LET latest == working_days_before(late[n], Duration(plan, week, n), week)
            slack == Slack(early[n], latest, week)
        IN [id |-> n, earliest_start |-> early[n],
            earliest_finish |-> add_working_days(early[n], Duration(plan, week, n), week),
            latest_start |-> latest, latest_finish |-> late[n],
            float_working_days |-> slack, is_critical |-> slack <= 0]
  IN IF week = {} THEN {} ELSE {Entry(n) : n \in DOMAIN plan.nodes}

-----------------------------------------------------------------------------
(***************************************************************************)
(* What the numbers must mean.                                             *)
(***************************************************************************)

\* The day k working days after start: the first working day from start on, and k more.
Slipped(start, k, week) == add_working_days(start, k + 1, week)

Finish(plan, week, n, start) == add_working_days(start, Duration(plan, week, n), week)

\* When n starts on that day and everything after it as soon as it may, n and all that
\* follows is finished by the deadline: the chain is walked forward, not backward.
Meets(plan, deadline, week, n, start) ==
  LET from[m \in DOMAIN plan.nodes] ==
        \* the starts of the packages after n; NoDate for the others
        LET begun == {e \in Before(plan, m) : from[e.predecessor] # NoDate}
        IN IF m = n THEN start
           ELSE IF begun = {} THEN NoDate
           ELSE Max({earliest_successor_start(Finish(plan, week, e.predecessor, from[e.predecessor]),
                                              e.lag, week) : e \in begun})
  IN \A m \in DOMAIN plan.nodes :
       from[m] # NoDate => Finish(plan, week, m, from[m]) <= deadline

\* The forward pass starts each package as early as its entered start and its
\* predecessors allow, and not a day later.
ForwardIsEarliest(plan, deadline, week) ==
  LET result == analyse(plan, deadline, week)
      Ok(n, start) ==
        /\ start >= plan.nodes[n].start
        /\ \A e \in Before(plan, n), r \in result :
             r.id = e.predecessor => check_violation(e.lag, r.earliest_finish, start, week) = {}
  IN \A r \in result : Ok(r.id, r.earliest_start) /\ ~Ok(r.id, r.earliest_start - 1)

\* The backward pass is the forward one read from the end: a package that starts on its
\* latest start still meets the deadline with all that follows, and one that starts on
\* the next working day does not.  "Anchoring on the successor's start itself instead is
\* the off-by-one that makes every float one day too generous" (critical_path.py).
BackwardIsLatest(plan, deadline, week) ==
  \A r \in analyse(plan, deadline, week) :
    /\ Meets(plan, deadline, week, r.id, r.latest_start)
    /\ ~Meets(plan, deadline, week, r.id, Slipped(r.latest_start, 1, week))

\* Float is the number of working days a package may slip, and a critical package may
\* slip by none.  A negative float is the number of working days that are missing; it is
\* one too few when the earliest start is a day without work, so that a package which is
\* a single day late has float 0 there.
FloatIsWhatMaySlip(plan, deadline, week) ==
  \A r \in analyse(plan, deadline, week) :
    LET float == r.float_working_days
        first == Slipped(r.earliest_start, 0, week)
        missing == IF Works(week, r.earliest_start) THEN -float ELSE 1 - float
        Ok(start) == Meets(plan, deadline, week, r.id, start)
        reachable == Ok(first)
    IN /\ r.is_critical <=> ~Ok(Slipped(first, 1, week))
       /\ reachable => Ok(Slipped(first, float, week)) /\ ~Ok(Slipped(first, float + 1, week))
       /\ ~reachable => /\ missing > 0
                        /\ Ok(working_days_before(first, missing + 1, week))
                        /\ ~Ok(working_days_before(first, missing, week))

\* "Negative means the deadline is already unreachable through this package"
\* (critical_path.py): out of reach and negative are one.  Violated by a package one day
\* late that may start on a weekend.
NegativeMeansUnreachable(plan, deadline, week) ==
  \A r \in analyse(plan, deadline, week) :
    r.float_working_days < 0
      <=> ~Meets(plan, deadline, week, r.id, Slipped(r.earliest_start, 0, week))

\* The missing working days of a warning are the fewest that help: an end so much later
\* fits the lead time, a start so much later respects the link, a promise so much later
\* is kept; one less does not.
ShortfallsAreLeast(plan, committed, planned, week) ==
  LET Later(day, k) == IF k = 0 THEN day ELSE add_working_days(day + 1, k, week)
  IN /\ \A n \in DOMAIN plan.nodes : \A w \in Lateness(plan, week)[n] :
          LET Fits(k) == schedule_warning([plan.nodes[n] EXCEPT !.end = Later(@, k)], week) = {}
          IN Fits(w.short) /\ ~Fits(w.short - 1)
     /\ \A e \in plan.edges : \A v \in Violations(plan, week)[e] :
          LET Fits(k) == check_violation(e.lag, plan.nodes[e.predecessor].end,
                                         Later(plan.nodes[e.successor].start, k), week) = {}
          IN Fits(v.short) /\ ~Fits(v.short - 1)
     /\ \A b \in Breach(plan, committed, planned, week) :
          LET Kept(k) == LET later == Breach(plan, Later(committed, k), planned, week)
                         IN \A c \in later : c.short = 0
          IN Kept(b.short) /\ (b.short > 0 => ~Kept(b.short - 1))

\* A plan without a warning, in which each package has a day to work on and ends by the
\* deadline, reaches it: the overview and the critical path do not contradict each other.
QuietPlansAreOnTime(plan, deadline, week) ==
  LET quiet == /\ \A n \in DOMAIN plan.nodes :
                    /\ Lateness(plan, week)[n] = {}
                    /\ plan.nodes[n].end <= deadline
                    /\ count_working_days(plan.nodes[n].start, plan.nodes[n].end, week) > 0
               /\ \A e \in plan.edges : Violations(plan, week)[e] = {}
  IN quiet => \A r \in analyse(plan, deadline, week) :
                /\ r.float_working_days >= 0
                /\ r.earliest_finish <= plan.nodes[r.id].end
=============================================================================
