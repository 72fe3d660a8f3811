----------------------------- MODULE PlanCharts -----------------------------
(* The page of the charts: all projects on one axis, each open to its         *)
(* packages, or the bookings of one group.  Every list, chart and count is a  *)
(* query of its own that may fail alone.  An answer is the set of what it     *)
(* lists; scale, order and geometry are in TimeAxis.                          *)
CONSTANTS ChartProjects, ChartGroups

NoGroup == "none"
ChartBars == {"beyond"}     \* a package outside the dates of its project
Sources == {"projects", "counts", "groups"} \cup ChartProjects \cup ChartGroups
-----------------------------------------------------------------------------
VARIABLES perspective,     \* the projects, or the groups of one kind of resource
          selected,        \* the group whose chart is shown
          error,           \* whether the page reports an error
          expanded,        \* the projects that are open
          everExpanded,    \* those that were: their queries stay
          answers          \* what is known of each: [read, rows, failed]

chartVars == <<perspective, selected, error, expanded, everExpanded, answers>>

Unread == [read |-> FALSE, rows |-> {}, failed |-> FALSE]

ChartsInit ==
  /\ perspective = "project" /\ selected = NoGroup /\ error = FALSE
  /\ expanded = {} /\ everExpanded = {}
  /\ answers = [q \in Sources |-> Unread]
-----------------------------------------------------------------------------
RowsOf(q) == answers[q].rows
isPending(q) == ~answers[q].read /\ ~answers[q].failed

\* The group that was picked, as long as it is listed.
selectedGroup == {selected} \cap RowsOf("groups")

Enabled(view, group, opened) ==
  IF view = "project" THEN {"projects", "counts"} \cup opened ELSE {"groups"} \cup group

Mounted == Enabled(perspective, selectedGroup, everExpanded)

\* The errors the page listens to; the list of projects is listened to in all views.
Heard(view, group) == {"projects"} \cup (IF view = "project" THEN {} ELSE {"groups"} \cup group)

ErrorsOf(known, view, group) == {q \in Heard(view, group) : known[q].failed}

\* What was never read is asked for again when it comes into view, its error forgotten.
AskedFor(qs) == [q \in Sources |-> IF q \in qs /\ ~answers[q].read THEN Unread ELSE answers[q]]

(* The effect: an error that comes or goes has the page report any there is.  *)
(* Nothing but a switch of the perspective takes a report back.               *)
Effect(reported, known, view, group) ==
  LET before == ErrorsOf(answers, perspective, selectedGroup)
      now == ErrorsOf(known, view, group)
  IN  reported \/ (before # now /\ now # {})
-----------------------------------------------------------------------------
handlePerspectiveChange(view) ==
  /\ view # perspective /\ perspective' = view /\ selected' = NoGroup
  /\ expanded' = {} /\ everExpanded' = {}
  /\ answers' = AskedFor(Enabled(view, {}, {}))
  /\ error' = Effect(FALSE, answers', view, {})

SelectGroup(g) ==
  /\ perspective # "project" /\ RowsOf("groups") # {}
  /\ g \in RowsOf("groups") \cup {NoGroup} /\ g # selected /\ selected' = g
  /\ answers' = AskedFor({g} \cap ChartGroups)
  /\ error' = Effect(error, answers', perspective, {g} \cap ChartGroups)
  /\ UNCHANGED <<perspective, expanded, everExpanded>>

Listed == IF perspective = "project" THEN RowsOf("projects") ELSE {}

Toggle(p) ==
  /\ p \in Listed
  /\ expanded' = (expanded \ {p}) \cup ({p} \ expanded)
  /\ everExpanded' = everExpanded \cup {p}
  /\ answers' = IF p \in everExpanded THEN answers ELSE AskedFor({p})
  /\ UNCHANGED <<perspective, selected, error>>

(* An answer, asked for by a mount, a poll, a write or a return to the window. *)
Answered(q, rows) ==
  /\ q \in Mounted
  /\ answers' = [answers EXCEPT ![q] = [read |-> TRUE, rows |-> rows, failed |-> FALSE]]
  /\ error' = Effect(error, answers', perspective, {selected} \cap answers'["groups"].rows)
  /\ UNCHANGED <<perspective, selected, expanded, everExpanded>>

(* A failure is a new error, whether or not there was one; the rows stay.     *)
Failed(q) ==
  /\ q \in Mounted /\ answers' = [answers EXCEPT ![q].failed = TRUE]
  /\ error' = (error \/ q \in Heard(perspective, selectedGroup))
  /\ UNCHANGED <<perspective, selected, expanded, everExpanded>>

AskAgain(q) ==
  /\ q \in Mounted /\ answers[q].failed /\ ~answers[q].read
  /\ answers' = AskedFor({q})
  /\ error' = Effect(error, answers', perspective, selectedGroup)
  /\ UNCHANGED <<perspective, selected, expanded, everExpanded>>
-----------------------------------------------------------------------------
Unfolded(p) == p \in Listed /\ p \in expanded

\* A badge says that a project is affected by conflicts.
Badged(p) == p \in RowsOf("counts")

\* Where a bar may be red: under an open project, and in the chart of the group.
PackageBars(p) == IF Unfolded(p) THEN RowsOf(p) ELSE {}
GroupBars(g) == IF perspective # "project" /\ g \in selectedGroup THEN RowsOf(g) ELSE {}

(* To the conflicts of a badge or a red bar, and back to a page that opens    *)
(* anew over the same answers.                                                *)
OpenConflicts(p) ==
  /\ (p \in Listed /\ Badged(p)) \/ PackageBars(p) \cup GroupBars(p) # {}
  /\ perspective' = "project" /\ selected' = NoGroup
  /\ expanded' = {} /\ everExpanded' = {}
  /\ answers' = AskedFor({"projects", "counts"})
  /\ error' = (ErrorsOf(answers', "project", {}) # {})

ChartsNext ==
  \/ \E view \in {"project", "resources"} : handlePerspectiveChange(view)
  \/ \E g \in ChartGroups \cup {NoGroup} : SelectGroup(g)
  \/ \E p \in ChartProjects : Toggle(p)
  \/ \E p \in ChartProjects \cup ChartGroups : OpenConflicts(p)
  \/ \E q \in Sources : Failed(q) \/ AskAgain(q)
  \/ \E q \in {"projects", "counts"}, rows \in SUBSET ChartProjects : Answered(q, rows)
  \/ \E rows \in SUBSET ChartGroups : Answered("groups", rows)
  \/ \E q \in ChartProjects \cup ChartGroups, rows \in SUBSET ChartBars : Answered(q, rows)

ChartsSpec == ChartsInit /\ [][ChartsNext]_chartVars

ChartsTypeOK ==
  /\ perspective \in {"project", "resources"} /\ selected \in ChartGroups \cup {NoGroup}
  /\ expanded \subseteq everExpanded /\ everExpanded \subseteq ChartProjects /\ error \in BOOLEAN
  /\ answers \in [Sources -> [read : BOOLEAN, failed : BOOLEAN,
                              rows : SUBSET (ChartProjects \cup ChartGroups \cup ChartBars)]]
-----------------------------------------------------------------------------
\* What the page says of nothing.
SaysNoProjects == perspective = "project" /\ ~isPending("projects") /\ Listed = {}
SaysNoGroups ==
  perspective # "project" /\ ~isPending("groups") /\ RowsOf("groups") = {}

SaidToBeEmpty(q) == answers[q].read /\ RowsOf(q) = {}

(* GanttSection.tsx:145-165: whatever failed, was switched away from, asked   *)
(* for or read again, the page says that there are no projects, or no groups, *)
(* only if an answer said so or while it reports an error: the failure that   *)
(* left it without rows is not reset by a switch, a link or another list's    *)
(* answer.  (What it says of the packages of a project, of the bookings of a  *)
(* group and of missing badges is decided by the state of one query each.)    *)
ChartsRestOnAnswers ==
  /\ SaysNoProjects => SaidToBeEmpty("projects") \/ error
  /\ SaysNoGroups => SaidToBeEmpty("groups") \/ error
=============================================================================
