------------------------------ MODULE Editors ------------------------------
(* The forms in which the browser edits records: a dialog, a drawer or a row  *)
(* that turns into a field, with one mutation that saves it.  They differ in  *)
(* what the mutation reads from the screen and when, in what may be done      *)
(* while a save is under way, and in what its answer does to the screen.  A   *)
(* browser that is offline holds a save back and sends it later, with the     *)
(* functions of the last render.                                              *)
EXTENDS Naturals, FiniteSets

CONSTANTS Records,      \* the rows of the list
          MaxTurns,     \* bound: how often a form is opened
          MaxDrafts,    \* bound: openings and edits
          MaxPresses    \* bound: how often Save is pressed

New == "new"

ASSUME EditorsAssumption ==
  New \notin Records /\ {MaxTurns, MaxDrafts, MaxPresses} \subseteq Nat

Nothing == [record |-> "nothing", draft |-> 0]
-----------------------------------------------------------------------------
(* A dialog whose mutation gets all it needs when Save is pressed.            *)
Dialog ==
  [edits |-> TRUE, creates |-> TRUE,
   overlay |-> TRUE,      \* nothing else can be opened while it is open
   pinned |-> FALSE,      \* it cannot be left
   aims |-> "press",      \* when the mutation reads which record it saves,
   takes |-> "press",     \* and what is typed
   forgets |-> FALSE,     \* leaving it also forgets which record was open
   queues |-> FALSE,      \* Save works while a save is under way
   lingers |-> FALSE,     \* a success with warnings leaves it open
   fetches |-> FALSE,     \* a record is read before the form opens
   unique |-> FALSE,      \* the server has no room for the same record twice
   removes |-> FALSE,     \* the save removes the record, which works once
   ends |-> "closes"]     \* what a success does: closes, clears or keeps it

\* Mutant: an absence is filed for whom the drawer is open for when it leaves.
AbsencesOfTheScreen == [Dialog EXCEPT !.creates = FALSE, !.ends = "clears", !.aims = "screen"]

\* The mutation is a function of the values, and of the record of the render.
RecordOfTheScreen == [Dialog EXCEPT !.aims = "screen"]
Forgetting == [RecordOfTheScreen EXCEPT !.forgets = TRUE]

AssignmentsEditor == [Forgetting EXCEPT !.lingers = TRUE, !.unique = TRUE]
PackagesEditor == [Forgetting EXCEPT !.lingers = TRUE]
ProjectsEditor == Forgetting
UsersEditor == [Forgetting EXCEPT !.unique = TRUE]
HolidaysEditor == [Forgetting EXCEPT !.unique = TRUE]
SitesEditor == RecordOfTheScreen
ProfilesEditor == [RecordOfTheScreen EXCEPT !.unique = TRUE]
ResourcesEditor == [RecordOfTheScreen EXCEPT !.fetches = TRUE]
TemplatesEditor == [RecordOfTheScreen EXCEPT !.takes = "screen"]
BaselinesEditor == [Dialog EXCEPT !.edits = FALSE, !.takes = "screen"]
CustomersEditor == [Dialog EXCEPT !.unique = TRUE]
FoldersEditor == Dialog
PasswordEditor == [Dialog EXCEPT !.creates = FALSE, !.takes = "screen", !.pinned = TRUE]

\* Drawers hold a form that adds to the record they are open for.
AbsencesEditor == [Dialog EXCEPT !.creates = FALSE, !.ends = "clears"]
BindingsEditor == [Dialog EXCEPT !.creates = FALSE, !.ends = "clears"]
WindowsEditor == [Dialog EXCEPT !.creates = FALSE, !.ends = "keeps"]
LinksEditor == [RecordOfTheScreen EXCEPT !.creates = FALSE, !.ends = "clears", !.forgets = TRUE]

\* Fields in the list itself, saved with Enter or with every digit.
RowField == [Dialog EXCEPT !.overlay = FALSE, !.queues = TRUE]
GroupNamesEditor == [RowField EXCEPT !.creates = FALSE]
GroupsEditor == [RowField EXCEPT !.edits = FALSE]
SkillNamesEditor == [RowField EXCEPT !.creates = FALSE]
SkillsEditor == [RowField EXCEPT !.edits = FALSE, !.unique = TRUE]
AttributesEditor == [RowField EXCEPT !.creates = FALSE]
AttributeNamesEditor == [RowField EXCEPT !.creates = FALSE]
LagsEditor == [RowField EXCEPT !.creates = FALSE, !.ends = "keeps"]

\* One popover for each booking of a conflict.
ResolutionEditor == [Dialog EXCEPT !.creates = FALSE]

\* A question before a record is deleted, whose red button can be pressed again.
Question == [Dialog EXCEPT !.creates = FALSE, !.removes = TRUE, !.queues = TRUE]
AssignmentDeletion == Question
PackageDeletion == Question
ProjectDeletion == Question
UserDeactivation == Question
UserDeletion == Question
FolderDeletion == [Question EXCEPT !.queues = FALSE]
ResourceDeletion == [Question EXCEPT !.fetches = TRUE, !.queues = FALSE]

EditorOf ==
  [assignments |-> AssignmentsEditor, packages |-> PackagesEditor, projects |-> ProjectsEditor,
   users |-> UsersEditor, holidays |-> HolidaysEditor, sites |-> SitesEditor,
   profiles |-> ProfilesEditor, resources |-> ResourcesEditor, templates |-> TemplatesEditor,
   baselines |-> BaselinesEditor, customers |-> CustomersEditor, password |-> PasswordEditor,
   absences |-> AbsencesEditor, bindings |-> BindingsEditor, windows |-> WindowsEditor,
   links |-> LinksEditor, groupNames |-> GroupNamesEditor, groups |-> GroupsEditor,
   skillNames |-> SkillNamesEditor, skills |-> SkillsEditor,
   attributes |-> AttributesEditor, attributeNames |-> AttributeNamesEditor, lags |-> LagsEditor,
   resolution |-> ResolutionEditor, deletion |-> AssignmentDeletion,
   packageDeletion |-> PackageDeletion, projectDeletion |-> ProjectDeletion,
   deactivation |-> UserDeactivation, userDeletion |-> UserDeletion,
   resourceDeletion |-> ResourceDeletion, folders |-> FoldersEditor,
   folderDeletion |-> FolderDeletion]

Questions == {e \in DOMAIN EditorOf : EditorOf[e].removes}
-----------------------------------------------------------------------------
VARIABLES editor,    \* the editor of this behaviour
          open,      \* [shown, record, turn, draft]: what is on the screen
          opening,   \* the records being read to be opened
          saves,     \* the saves under way, by the number of their press
          rows,      \* the press whose values a record has
          made,      \* the records created: of which draft, in which turn
          told       \* the turns in which a save was reported to have failed

editorVars == <<editor, open, opening, saves, rows, made, told>>

Form == EditorOf[editor]
Closed == [shown |-> FALSE, record |-> New, turn |-> 0, draft |-> 0]

EditorsInit ==
  /\ editor \in DOMAIN EditorOf
  /\ open = Closed /\ opening = {} /\ saves = <<>>
  /\ rows = [r \in Records |-> 0] /\ made = {} /\ told = {}

Openable == (IF Form.edits THEN Records ELSE {}) \cup (IF Form.creates THEN {New} ELSE {})
Pressed == DOMAIN saves
UnderWay == {n \in Pressed : saves[n].at # "over"}
-----------------------------------------------------------------------------
Shows(r) ==
  /\ open.turn < MaxTurns /\ open.draft < MaxDrafts
  /\ open' = [shown |-> TRUE, record |-> r, turn |-> open.turn + 1, draft |-> open.draft + 1]

(* Add, or the pencil of a row.  A row that is open already offers neither.   *)
OpenForm(r) ==
  /\ r \in Openable /\ ~(open.shown /\ (Form.overlay \/ open.record = r))
  /\ IF Form.fetches /\ r # New
     THEN opening' = opening \cup {r} /\ UNCHANGED open
     ELSE Shows(r) /\ UNCHANGED opening
  /\ UNCHANGED <<editor, saves, rows, made, told>>

(* The record has been read: the form opens, or turns into that record's.     *)
RecordRead(r) ==
  /\ r \in opening /\ opening' = opening \ {r}
  /\ IF open.shown /\ open.record = r THEN UNCHANGED open ELSE Shows(r)
  /\ UNCHANGED <<editor, saves, rows, made, told>>

RecordNotRead(r) ==
  /\ r \in opening /\ opening' = opening \ {r}
  /\ UNCHANGED <<editor, open, saves, rows, made, told>>

Left == [open EXCEPT !.shown = FALSE, !.record = IF Form.forgets THEN New ELSE @]

LeaveForm ==
  /\ open.shown /\ ~Form.pinned /\ open' = Left
  /\ UNCHANGED <<editor, opening, saves, rows, made, told>>

EditForm ==
  /\ open.shown /\ open.draft < MaxDrafts
  /\ open' = [open EXCEPT !.draft = @ + 1]
  /\ UNCHANGED <<editor, opening, saves, rows, made, told>>

OnScreen == [record |-> open.record, draft |-> open.draft]

(* Save: the request leaves at once, or the browser is offline and holds it.  *)
PressSave ==
  /\ open.shown /\ Cardinality(Pressed) < MaxPresses
  /\ Form.queues \/ UnderWay = {}
  /\ \E at \in {"held", "sent"} :
       saves' = [n \in Pressed \cup {Cardinality(Pressed) + 1} |->
                   IF n \in Pressed THEN saves[n]
                   ELSE [at |-> at, turn |-> open.turn, wanted |-> OnScreen,
                         sends |-> IF at = "sent" THEN OnScreen ELSE Nothing]]
  /\ UNCHANGED <<editor, open, opening, rows, made, told>>

SaveBecomes(n, at) == saves' = [saves EXCEPT ![n].at = at]

(* Online again: the mutation runs, with the functions of the last render.    *)
SaveLeaves(n) ==
  /\ saves[n].at = "held"
  /\ saves' = [saves EXCEPT ![n].at = "sent",
                 ![n].sends = [record |-> IF Form.aims = "press" THEN saves[n].wanted.record ELSE open.record,
                               draft |-> IF Form.takes = "press" THEN saves[n].wanted.draft ELSE open.draft]]
  /\ UNCHANGED <<editor, open, opening, rows, made, told>>

SaveCommits(n) ==
  /\ saves[n].at = "sent" /\ SaveBecomes(n, "committed")
  /\ LET sent == saves[n].sends
     IN  IF sent.record = New
         THEN /\ ~(Form.unique /\ \E m \in made : m.draft = sent.draft)
              /\ made' = made \cup {[press |-> n, draft |-> sent.draft, turn |-> saves[n].turn]}
              /\ UNCHANGED rows
         ELSE /\ ~(Form.removes /\ rows[sent.record] # 0)
              /\ rows' = [rows EXCEPT ![sent.record] = n] /\ UNCHANGED made
  /\ UNCHANGED <<editor, open, opening, told>>

(* Refused by the server, or the answer of a committed save is lost.          *)
SaveFails(n) ==
  /\ saves[n].at \in {"sent", "committed"} /\ SaveBecomes(n, "over")
  /\ told' = told \cup {saves[n].turn}
  /\ UNCHANGED <<editor, open, opening, rows, made>>

AfterSuccess ==
  CASE Form.ends = "closes" -> Left
    [] Form.ends = "clears" -> [open EXCEPT !.draft = @ + 1]
    [] Form.ends = "keeps" -> open

(* The answer is shown; the save is under way until the lists are read again. *)
SaveLands(n) ==
  /\ saves[n].at = "committed" /\ SaveBecomes(n, "landed")
  /\ open' = AfterSuccess \/ (Form.lingers /\ open' = open)
  /\ UNCHANGED <<editor, opening, rows, made, told>>

SaveSettles(n) ==
  /\ saves[n].at = "landed" /\ SaveBecomes(n, "over")
  /\ UNCHANGED <<editor, open, opening, rows, made, told>>
-----------------------------------------------------------------------------
EditorsNext ==
  \/ \E r \in Records \cup {New} : OpenForm(r) \/ RecordRead(r) \/ RecordNotRead(r)
  \/ LeaveForm \/ EditForm \/ PressSave
  \/ \E n \in Pressed : \/ SaveLeaves(n) \/ SaveCommits(n) \/ SaveFails(n)
                         \/ SaveLands(n) \/ SaveSettles(n)

EditorsSpec == EditorsInit /\ [][EditorsNext]_editorVars

EditorsTypeOK ==
  /\ editor \in DOMAIN EditorOf
  /\ open \in [shown : BOOLEAN, record : Records \cup {New}, turn : 0..MaxTurns,
              draft : 0 .. MaxDrafts + MaxPresses]
  /\ opening \subseteq Records
  /\ Pressed = 1 .. Cardinality(Pressed)
  /\ \A n \in Pressed : saves[n].at \in {"held", "sent", "committed", "landed", "over"}
  /\ rows \in [Records -> 0..MaxPresses] /\ told \subseteq 1..MaxTurns
-----------------------------------------------------------------------------
(* The editors that keep their promise whatever the network and the user do.  *)
SendWhatWasPressed ==
  {"customers", "folders", "absences", "bindings", "windows", "groupNames", "groups",
   "skillNames", "skills", "attributes", "attributeNames",
   "lags", "resolution"} \cup Questions
CreateOnce == DOMAIN EditorOf \ {"packages", "groups"}
KeepTheOrder == DOMAIN EditorOf \ {"groupNames", "skillNames", "attributes", "attributeNames", "lags"}
EndTheirOwnForm == {"password", "windows", "lags"}

(* What a save sends is what was on the form when it was pressed, for the     *)
(* record the form was for.                                                   *)
SendsWhatWasPressed ==
  editor \in SendWhatWasPressed =>
    \A n \in Pressed : saves[n].sends \in {Nothing, saves[n].wanted}

(* One form makes one record, unless its user was told that a save failed.    *)
CreatesOnce ==
  editor \in CreateOnce =>
    \A a, b \in made : a.draft = b.draft => a = b \/ {a.turn, b.turn} \cap told # {}

(* A record ends as its last save says.                                       *)
RowsFollowThePresses ==
  [][(editor \in KeepTheOrder) => \A r \in Records : rows[r] <= rows'[r]]_editorVars

(* An answer leaves a form alone that was opened after its save was pressed.  *)
AnswersEndTheirOwnForm ==
  [][(editor \in EndTheirOwnForm) =>
       \A n \in Pressed : SaveLands(n) /\ saves[n].turn # open.turn => open' = open]_editorVars

EditorsKeepTheirRecord ==
  [](SendsWhatWasPressed /\ CreatesOnce) /\ RowsFollowThePresses /\ AnswersEndTheirOwnForm
=============================================================================
