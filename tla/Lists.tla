-------------------------------- MODULE Lists --------------------------------
(* The lists of projects, resources and bookings: filters, the folder that is *)
(* open beside the projects, the rows that are ticked, and the rows that are  *)
(* read again underneath them.  The effects of the tables run before the next *)
(* event and are part of every action.                                        *)
EXTENDS FiniteSets

CONSTANTS Items,      \* the rows there may be
          Kinds,      \* what a filter filters by: a customer, a group, a project
          Folders     \* the folders of the tree

All == "all"
Unfiled == "unfiled"
AnyKind == "any"
-----------------------------------------------------------------------------
VARIABLES list,      \* the list of this behaviour
          reading,   \* the query of the rows: "pending", "read", "failed" without an
                      \* answer, or "stale", failed after one
          known,     \* the rows read, by item: [kind, folder, marked]
          tree,      \* the folders read
          scope,     \* the folder that is open, All or Unfiled
          wanted,    \* the kind that is filtered by, or AnyKind
          marks,     \* whether only marked rows are wanted: those with conflicts, or the
                      \* bookings a link asked for
          ticked,    \* the items that are ticked
          narrowed,  \* whether only ticked rows are shown
          lostScope  \* whether somebody else deleted the open folder

listVars == <<list, reading, known, tree, scope, wanted, marks, ticked, narrowed, lostScope>>

Row == [kind : Kinds, folder : Folders \cup {Unfiled}, marked : BOOLEAN]

ListsInit ==
  /\ list \in {"projects", "resources", "assignments"}
  /\ reading = "pending" /\ known = [i \in {} |-> {}] /\ tree = Folders
  /\ scope = All /\ wanted = AnyKind /\ ticked = {} /\ narrowed = FALSE
  /\ lostScope = FALSE
  /\ marks \in IF list = "assignments" THEN BOOLEAN ELSE {FALSE}

-----------------------------------------------------------------------------
\* The rows a table is given: those of the open folder, or with conflicts.
Given(rows, s, m) ==
  {i \in DOMAIN rows : /\ s \in {All, rows[i].folder}
                       /\ m => rows[i].marked}

Filtered(rows, s, m, w) == {i \in Given(rows, s, m) : w \in {AnyKind, rows[i].kind}}

Visible == Filtered(known, scope, marks, wanted)
Shown == IF narrowed THEN Visible \cap ticked ELSE Visible

\* The options of the filter: the kinds at hand, and the one filtered by, except
\* among the bookings.
CustomersOffered == {known[i].kind : i \in Given(known, scope, FALSE)} \cup ({wanted} \ {AnyKind})
GroupOptions == {known[i].kind : i \in DOMAIN known} \cup ({wanted} \ {AnyKind})
ProjectOptions == {known[i].kind : i \in DOMAIN known}

Options ==
  CASE list = "projects" -> CustomersOffered
    [] list = "resources" -> GroupOptions
    [] list = "assignments" -> ProjectOptions

\* The bar of a selection: how many rows are ticked, and whether only they show.
HasBar == narrowed \/ Visible \cap ticked # {}

\* Mutant: ticks are forgotten with the rows that are gone, not those that are hidden.
RetainKnown(rows, s, m, w) == ticked' = ticked \cap DOMAIN rows

(* The effect of both tables after every render.                              *)
Retain(rows, s, m, w) == ticked' = ticked \cap Filtered(rows, s, m, w)
-----------------------------------------------------------------------------
(* The first answer, whatever rows there are.                                 *)
FirstRead ==
  /\ reading = "pending"
  /\ \E at \in SUBSET Items : known' \in [at -> {r \in Row : r.folder \in tree \cup {Unfiled}}]

(* The list is read again: a row has changed, is new or is gone.              *)
ReadAgain ==
  /\ reading \in {"read", "stale"}
  /\ \E i \in Items :
       \/ known' = [j \in DOMAIN known \ {i} |-> known[j]]
       \/ \E r \in Row : r.folder \in tree \cup {Unfiled}
            /\ known' = [j \in DOMAIN known \cup {i} |-> IF j = i THEN r ELSE known[j]]

RowsRead ==
  /\ FirstRead \/ ReadAgain
  /\ reading' = "read"
  /\ Retain(known', scope, marks, wanted)
  /\ UNCHANGED <<list, tree, scope, wanted, marks, narrowed, lostScope>>

(* A failure is reported; the rows stay, and without any the list is empty.   *)
ReadFails ==
  /\ reading \in {"pending", "read"}
  /\ reading' = IF reading = "read" THEN "stale" ELSE "failed"
  /\ UNCHANGED <<list, known, tree, scope, wanted, marks, ticked, narrowed, lostScope>>

(* The button beside the report, or whatever else has the query fetched.      *)
AskForRows ==
  /\ reading = "failed" /\ reading' = "pending"
  /\ UNCHANGED <<list, known, tree, scope, wanted, marks, ticked, narrowed, lostScope>>

FilterBy(k) ==
  /\ k \in Options \cup {AnyKind} /\ wanted' = k
  /\ Retain(known, scope, marks, k)
  /\ UNCHANGED <<list, reading, known, tree, scope, marks, narrowed, lostScope>>

ConflictsOnly ==
  /\ list = "resources" /\ marks' = ~marks
  /\ Retain(known, scope, ~marks, wanted)
  /\ UNCHANGED <<list, reading, known, tree, scope, wanted, narrowed, lostScope>>

(* The bookings a link asked for are shown with a way to see all.             *)
ShowAllBookings ==
  /\ list = "assignments" /\ marks /\ marks' = FALSE
  /\ UNCHANGED <<list, reading, known, tree, scope, wanted, ticked, narrowed, lostScope>>

(* Another folder: nothing is ticked there.                                   *)
OpenScope(s) ==
  /\ list = "projects" /\ s # scope /\ scope' = s
  /\ ticked' = {} /\ narrowed' = FALSE /\ lostScope' = FALSE
  /\ UNCHANGED <<list, reading, known, tree, wanted, marks>>

SelectFolder(s) == s \in tree \cup {All, Unfiled} /\ OpenScope(s)

FolderDeleted(f) ==
  /\ list = "projects" /\ f \in tree /\ tree' = tree \ {f}
  /\ UNCHANGED <<reading, known>>

(* Here: the answer closes the folder, and the folders are read again; the    *)
(* projects are another request.                                              *)
DeleteFolder(f) ==
  /\ FolderDeleted(f)
  /\ scope' = IF scope = f THEN All ELSE scope
  /\ IF scope = f THEN ticked' = {} /\ narrowed' = FALSE ELSE UNCHANGED <<ticked, narrowed>>
  /\ UNCHANGED <<list, wanted, marks, lostScope>>

(* By somebody else: the folder stays open without being in the tree.         *)
FolderGone(f) ==
  /\ FolderDeleted(f) /\ lostScope' = (lostScope \/ scope = f)
  /\ UNCHANGED <<list, scope, wanted, marks, ticked, narrowed>>

Tick(i) ==
  /\ list # "assignments" /\ i \in Shown
  /\ ticked' = IF i \in ticked THEN ticked \ {i} ELSE ticked \cup {i}
  /\ UNCHANGED <<list, reading, known, tree, scope, wanted, marks, narrowed, lostScope>>

TickAll ==
  /\ list # "assignments" /\ Shown # {}
  /\ ticked' = IF Shown \subseteq ticked THEN ticked \ Shown ELSE ticked \cup Shown
  /\ UNCHANGED <<list, reading, known, tree, scope, wanted, marks, narrowed, lostScope>>

ShowTicked ==
  /\ HasBar /\ narrowed' = ~narrowed
  /\ UNCHANGED <<list, reading, known, tree, scope, wanted, marks, ticked, lostScope>>

ClearTicks ==
  /\ HasBar /\ ticked' = {} /\ narrowed' = FALSE
  /\ UNCHANGED <<list, reading, known, tree, scope, wanted, marks, lostScope>>
-----------------------------------------------------------------------------
ListsNext ==
  \/ RowsRead \/ ReadFails \/ AskForRows \/ ConflictsOnly \/ ShowAllBookings
  \/ TickAll \/ ShowTicked \/ ClearTicks
  \/ \E k \in Kinds \cup {AnyKind} : FilterBy(k)
  \/ \E s \in Folders \cup {All, Unfiled} : SelectFolder(s)
  \/ \E f \in Folders : DeleteFolder(f) \/ FolderGone(f)
  \/ \E i \in Items : Tick(i)

ListsSpec == ListsInit /\ [][ListsNext]_listVars

ListsTypeOK ==
  /\ reading \in {"pending", "read", "failed", "stale"}
  /\ DOMAIN known \subseteq Items /\ \A i \in DOMAIN known : known[i] \in Row
  /\ tree \subseteq Folders /\ scope \in Folders \cup {All, Unfiled}
  /\ wanted \in Kinds \cup {AnyKind} /\ ticked \subseteq Items
  /\ {marks, narrowed, lostScope} \subseteq BOOLEAN
-----------------------------------------------------------------------------
(* What is ticked is on the screen or would be without the narrowing: a       *)
(* hidden or deleted row does not spring back ticked.                         *)
TicksAreVisible == ticked \subseteq Visible

(* A row is missing for a reason the screen names: a filter whose option is   *)
(* there, the conflicts box, the bar of the selection or an open folder.  Not *)
(* so the bookings: their project filter goes on filtering when its option    *)
(* went with the last booking of the project (AssignmentsPanel.tsx:230-240),  *)
(* so any filter excuses a missing booking.                                   *)
MissingForAReason ==
  Shown # DOMAIN known =>
    \/ wanted \in Options \/ (list = "assignments" /\ wanted # AnyKind)
    \/ marks \/ HasBar
    \/ scope \in tree \cup {Unfiled} \/ lostScope

(* A deleted folder does not stay open for who deleted it.                    *)
ScopeIsInTheTree == scope \in tree \cup {All, Unfiled} \/ lostScope

(* A list that says it has no rows was read.  This does not hold and is not   *)
(* part of what the lists promise: after a failed first read the projects     *)
(* keep a report beside "no projects", but the bookings and the resources     *)
(* (AssignmentsPanel.tsx:303, ResourcesTable.tsx:272) have only a passing     *)
(* notification beside theirs.                                                *)
EmptyIsAnAnswer ==
  reading # "pending" /\ DOMAIN known = {} => reading \in {"read", "stale"} \/ list = "projects"

ListsHideNothing == TicksAreVisible /\ MissingForAReason /\ ScopeIsInTheTree
=============================================================================
