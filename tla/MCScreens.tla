----------------------------- MODULE MCScreens -----------------------------
(* The parts of the screens that share no state, side by side: a behaviour is *)
(* of one part, and the others stand still.  In the cache part every view of  *)
(* the program meets one write of each kind that has an invalidation list or  *)
(* tables of its own.                                                         *)
EXTENDS PlanCoherence, SignInPages, Editors, Lists, FolderTree, TimeAxis, PlanCharts,
  ProblemCards

VARIABLES part,     \* the part that moves
          sample    \* in a part without steps: the input of its calculation

screenVars == <<cacheVars, pageVars, editorVars, listVars, chartVars, part, sample>>
still == <<part, sample>>

\* One write of each kind that has an invalidation list or tables of its own.
CacheChanges ==
  {saveUser, createBaseline, resolveConflict, applySuggestion, deleteAssignment,
   saveAssignment, assignResource, addDependency, changeLag, removeDependency,
   updateFolder, deleteProject, saveProject, saveTemplate, addRequirement, deletePackage,
   completePackage, savePackage, saveCustomer, removeCustomer, createAbsence, addWindow,
   addBinding, toggleQualification, renameGroup, saveResource, deactivateResource,
   renameSkill, deleteAttribute, saveSettings, saveHoliday, saveSite, saveWeekProfile,
   importBundle}

\* One screen and its write: the bookings and a booking that is saved.
BookingViews == {AssignmentList, CheckStatus}
BookingSave == {saveAssignment}

\* The parts that stand still look at one of the views.
ASSUME StillViewAssumption == CheckStatus \in Queries

StillCache ==
  /\ entry = [view |-> CheckStatus, shown |-> FALSE, full |-> FALSE, missed |-> {},
              invalid |-> FALSE, aged |-> FALSE]
  /\ fetch = NoFetch /\ change = NoChange

StillPages ==
  /\ page = "login" /\ session = [loading |-> FALSE, user |-> FALSE]
  /\ check = [at |-> "idle", data |-> "none", aged |-> FALSE]
  /\ form = "none" /\ leaving = FALSE /\ admin = TRUE /\ visits = 0

StillEditors ==
  /\ editor = "password" /\ open = Closed /\ opening = {} /\ saves = <<>>
  /\ rows = [r \in Records |-> 0] /\ made = {} /\ told = {}

StillLists ==
  /\ list = "projects" /\ reading = "pending" /\ known = [i \in {} |-> {}] /\ tree = {}
  /\ scope = All /\ wanted = AnyKind /\ marks = FALSE /\ ticked = {} /\ narrowed = FALSE
  /\ lostScope = FALSE

StillCharts ==
  /\ perspective = "project" /\ selected = NoGroup /\ error = FALSE
  /\ expanded = {} /\ everExpanded = {} /\ answers = [q \in {} |-> Unread]

(* Inputs of the calculations.  Days: the ends of years that begin on every   *)
(* day of the week, leap years by every rule, and whole months around them.   *)
SampleDays ==
  DateUTC(2019, 11, 20) .. DateUTC(2021, 0, 12)
    \cup (UNION {DateUTC(y, 11, 25) .. DateUTC(y + 1, 0, 10) : y \in 2021..2027})
    \cup (UNION {DateUTC(y, 1, 25) .. DateUTC(y, 2, 3) : y \in {1900, 2000, 2024, 2100}})

\* A clock that is put forward or back by up to six hours at hour ten.
SampleClocks ==
  [zone : [changes : {10}, before : -3..3, after : -3..3], time : 0..20]

\* Bars from the end of a year on, short, long and very long, apart and overlapping.
Bar(start, days) == [start |-> start, end |-> start + days]
SampleCharts ==
  LET first == DateUTC(2025, 11, 20)
  IN  [bars : {{}} \cup {{Bar(first + a, b)} : a \in 0..6, b \in {0, 40}}
                \cup {{Bar(first + a, 4), Bar(first + c, d)} :
                         a \in {0, 3, 10}, c \in {5, 14, 36}, d \in {0, 100, 700}},
       scale : TimeScales, today : {first - 50, first, first + 40}]

\* Bookings of two resources in the order of rows.
SampleRows ==
  LET row == [id : {1, 2}, resource : {1, 2}, start : 0..1, end : 1..2]
  IN  [rows : {{r, q} : r, q \in row}]

\* Every forest of four folders.
SampleTrees == {parent \in [1..4 -> 0..4] : Forest(parent)}

\* Three bookings, one of them of a second resource, and one that is gone.
SampleBookings ==
  LET b(n, r, w, p) == [id |-> n, resource |-> r, package |-> w, project |-> p]
  IN  [one |-> b(1, "r1", "w1", "p1"), two |-> b(2, "r1", "w2", "p2"),
       other |-> b(3, "r2", "w1", "p1"), gone |-> b(4, "r1", None, None)]

\* Two conflicts of any kinds, one resource's or two's, in touch or apart.
SampleProblems ==
  LET s == SampleBookings
      of(r, sets) == [id : 1..2, resource : {r}, bookings : sets, first : {1}, last : {1, 3},
                      severity : {0, 2}, ratio : {0, 4}]
      conflict == of("r1", {{s.one}, {s.one, s.two}, {s.two, s.gone}}) \cup of("r2", {{s.other}})
  IN  [conflicts : {{}} \cup {{c, d} : c \in {c \in conflict : c.id = 1},
                                     d \in {d \in conflict : d.id = 2}},
       mismatches : {{}, {s.one}, {s.one, s.two, s.other}}]

SampleFocus == [project : {None, "p1"}, package : {None, "w1", "w2"}, resource : {None, "r1"}]

Calculations ==
  \/ part = "days" /\ sample \in [day : SampleDays]
  \/ part = "clocks" /\ sample \in SampleClocks
  \/ part = "charts" /\ sample \in SampleCharts
  \/ part = "rows" /\ sample \in SampleRows
  \/ part = "problems" /\ sample \in SampleProblems
  \/ part = "trees" /\ sample \in [parent : SampleTrees]
-----------------------------------------------------------------------------
ScreensInit ==
  /\ \/ part = "cache" /\ CacheInit /\ sample = {}
     \/ part = "pages" /\ PagesInit /\ sample = {}
     \/ part = "editors" /\ EditorsInit /\ sample = {}
     \/ part = "lists" /\ ListsInit /\ sample = {}
     \/ part = "gantt" /\ ChartsInit /\ sample = {}
     \/ Calculations
  /\ part # "cache" => StillCache
  /\ part # "pages" => StillPages
  /\ part # "editors" => StillEditors
  /\ part # "lists" => StillLists
  /\ part # "gantt" => StillCharts

ScreensNext ==
  /\ UNCHANGED still
  /\ \/ part = "cache" /\ CacheNext /\ UNCHANGED <<pageVars, editorVars, listVars, chartVars>>
     \/ part = "pages" /\ PagesNext /\ UNCHANGED <<cacheVars, editorVars, listVars, chartVars>>
     \/ part = "editors" /\ EditorsNext /\ UNCHANGED <<cacheVars, pageVars, listVars, chartVars>>
     \/ part = "lists" /\ ListsNext /\ UNCHANGED <<cacheVars, pageVars, editorVars, chartVars>>
     \/ part = "gantt" /\ ChartsNext /\ UNCHANGED <<cacheVars, pageVars, editorVars, listVars>>

ScreensSpec ==
  /\ ScreensInit /\ [][ScreensNext]_screenVars
  /\ CacheFairness /\ PagesFairness

\* The type invariants of the parts.
ScreensTypeOK == CacheTypeOK /\ PagesTypeOK /\ EditorsTypeOK /\ ListsTypeOK
  /\ (part = "gantt" => ChartsTypeOK)

(* No screen hides what it has read without a reason to be seen: the lists,   *)
(* but for a filter of the bookings (see MissingForAReason), and the cards of *)
(* the planning page, whatever link leads to them.  And the page of the charts*)
(* says that there are no projects, or no groups, on an answer or beside an   *)
(* error (see ChartsRestOnAnswers); the lists do not (see EmptyIsAnAnswer).   *)
ScreensHideNothing ==
  /\ ListsHideNothing
  /\ part = "gantt" => ChartsRestOnAnswers
  /\ part = "problems" =>
       /\ LinksLeadToTheirProblems(sample.conflicts, sample.mismatches)
       /\ \A focus \in SampleFocus :
            CardsShowEveryProblem(sample.conflicts, sample.mismatches, focus)

(* utils/date.ts and timeAxis.ts: a day stays that day through anchors, ISO   *)
(* weeks, months and forms; an entered time becomes the moment it names or is *)
(* asked about; and a chart covers all its bars with columns and each bar all *)
(* of its days, whatever the scale.                                           *)
ChartsKeepTheDay ==
  CASE part = "days" -> /\ AnchorsAreDays(sample.day)
                        /\ WeeksAreOfTheirThursday(sample.day)
                        /\ MonthsFollow(sample.day)
    [] part = "clocks" -> ClockTimesAreKept(sample.zone, sample.time)
    [] part = "charts" -> /\ ColumnsCoverTheBars(sample.bars, sample.scale, sample.today)
                          /\ BarsCoverTheirDays(sample.bars, sample.scale, sample.today)
    [] part = "rows" -> GroupingKeepsTheBars(sample.rows)
    [] part = "trees" -> \A f \in DOMAIN sample.parent : OffersWhatCanBe(sample.parent, f)
                          /\ FoldersCanBeFound(sample.parent)
    [] OTHER -> TRUE
=============================================================================
