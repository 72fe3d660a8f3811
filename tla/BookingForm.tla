---------------------------- MODULE BookingForm ----------------------------
(* The form of a booking: the field that searches a resource, the switch      *)
(* between people and machines, the suggestions below, a project and one of   *)
(* its work packages, and the preview.  Days, times and the percentage are    *)
(* left out: they are fields of their own.  A name stands for its resource,   *)
(* and a package is named by its project.  Effects run before the next event. *)
EXTENDS FiniteSets

CONSTANTS People, Machines, Projects

\* A resource has one type.
ASSUME KindsAssumption == People \cap Machines = {}

None == "none"
Typed == "typed"       \* a text that nobody has picked
Kinds2 == {"personal", "infrastructure"}

KindOf(r) == IF r \in People THEN "personal" ELSE "infrastructure"
OfKind(k) == IF k = "personal" THEN People ELSE Machines
-----------------------------------------------------------------------------
VARIABLES editing,    \* whether the form was opened on a booking
          kind,       \* the kind the switch shows
          values,     \* the values of the form: [resource, kind, package]
          project,    \* the project whose packages are offered
          field,      \* the search field: [text, picked, dismissed, searched]
          inside,     \* whether the keyboard is in the field
          blurs,      \* the timer of a blur, with what its function has closed over
          pending,     \* the values a preview is being asked for
          preview,    \* the last preview: [signature, about]
          steered     \* whether a suggestion below the field was picked last

bookingVars ==
  <<editing, kind, values, project, field, inside, blurs, pending, preview, steered>>
fieldVars == <<editing, kind, values, field, inside, blurs, steered>>

NoValues == [resource |-> None, kind |-> "personal", package |-> None]
NoPreview == [signature |-> NoValues, about |-> NoValues]
EmptyField == [text |-> None, picked |-> FALSE, dismissed |-> FALSE, searched |-> FALSE]

\* The form of a booking shows it.
Seeded(r, p) ==
  /\ values = [resource |-> r, kind |-> KindOf(r), package |-> p]
  /\ kind = KindOf(r) /\ project = p
  /\ field = [EmptyField EXCEPT !.text = r, !.picked = TRUE]

BookingInit ==
  /\ editing \in BOOLEAN
  /\ IF editing THEN \E r \in People \cup Machines, p \in Projects : Seeded(r, p)
     ELSE values = NoValues /\ kind = "personal" /\ project = None /\ field = EmptyField
  /\ inside = FALSE /\ blurs = {}
  /\ pending = NoValues /\ preview = NoPreview /\ steered = FALSE
-----------------------------------------------------------------------------
(* The form takes a resource over from its field, with the kind that the      *)
(* field's function knows.                                                    *)
Chosen(r, k) == values' = [values EXCEPT !.resource = r, !.kind = k]

\* The effect of the field: nothing chosen and nothing picked empties it.
Settle(f, r, wasPicked) ==
  LET changed == (values.resource = None) # (r = None) \/ f.picked # wasPicked
  IN  IF r = None /\ ~f.picked /\ changed
      THEN [f EXCEPT !.text = None, !.searched = FALSE] ELSE f

(* Typing takes back what was picked; emptying the field unchooses it.        *)
Type(text) ==
  /\ inside
  /\ LET typed == [text |-> text, picked |-> FALSE, dismissed |-> FALSE,
                   searched |-> field.searched /\ text # None]
         chosen == IF text = None THEN None ELSE values.resource
     IN  /\ field' = Settle(typed, chosen, field.picked)
         /\ IF text = None THEN Chosen(None, kind) ELSE UNCHANGED values
  /\ steered' = FALSE
  /\ UNCHANGED <<editing, kind, project, inside, blurs, pending, preview>>

(* The text has rested: it becomes the term that is searched for.             *)
Debounce ==
  /\ field.text # None /\ ~field.searched /\ field' = [field EXCEPT !.searched = TRUE]
  /\ UNCHANGED <<editing, kind, values, project, inside, blurs, pending, preview, steered>>

IsOpen == ~field.picked /\ ~field.dismissed /\ field.searched

\* Answers are kept by kind and term: what is offered is of the kind that is shown.
Results == OfKind(kind)

\* The field names what was picked, and its list closes.
Picked(r) == [field EXCEPT !.text = r, !.picked = TRUE, !.searched = TRUE]

(* With the mouse, which does not take the keyboard from the field, or Enter. *)
Select(r) ==
  /\ IsOpen /\ r \in Results /\ field' = Picked(r)
  /\ Chosen(r, kind) /\ steered' = FALSE
  /\ UNCHANGED <<editing, kind, project, inside, blurs, pending, preview>>

Escape ==
  /\ inside /\ IsOpen /\ field' = [field EXCEPT !.dismissed = TRUE]
  /\ UNCHANGED <<editing, kind, values, project, inside, blurs, pending, preview, steered>>

Focus ==
  /\ ~inside /\ inside' = TRUE
  /\ UNCHANGED <<editing, kind, values, project, field, blurs, pending, preview, steered>>

(* Bound: one timer; a second blur within its 200 ms is left out.             *)
Blur ==
  /\ inside /\ blurs = {} /\ inside' = FALSE
  /\ blurs' = {[picked |-> field.picked, kind |-> kind]}
  /\ UNCHANGED <<editing, kind, values, project, field, pending, preview, steered>>

\* Mutant: the timer of a blur only closes the list.
BlurOnlyCloses(b) ==
  /\ b \in blurs /\ blurs' = {}
  /\ field' = IF inside THEN field ELSE [field EXCEPT !.dismissed = TRUE]
  /\ UNCHANGED <<editing, kind, values, project, inside, pending, preview, steered>>

(* The keyboard did not come back: the list closes, and a text that was not   *)
(* picked when it left unchooses.                                             *)
BlurTimer(b) ==
  /\ b \in blurs /\ blurs' = {}
  /\ IF inside THEN UNCHANGED <<field, values>>
     ELSE LET closed == [field EXCEPT !.dismissed = TRUE]
          IN  IF b.picked THEN field' = closed /\ UNCHANGED values
              ELSE field' = Settle(closed, None, closed.picked) /\ Chosen(None, b.kind)
  /\ UNCHANGED <<editing, kind, project, inside, pending, preview, steered>>
-----------------------------------------------------------------------------
(* What is clicked outside takes the keyboard out of the field first.         *)
SwitchKind(k) ==
  /\ ~editing /\ ~inside /\ k # kind /\ kind' = k
  /\ Chosen(None, k)
  /\ field' = Settle(field, None, field.picked)
  /\ UNCHANGED <<editing, project, inside, blurs, pending, preview, steered>>

(* The suggestions are below the form of a new booking of people; who of them *)
(* is free is left out.                                                       *)
Suggestions == IF kind = "personal" /\ ~editing THEN People ELSE {}

Suggest(r) ==
  /\ ~inside /\ r \in Suggestions
  /\ Chosen(r, "personal") /\ steered' = TRUE
  /\ UNCHANGED <<editing, kind, project, field, inside, blurs, pending, preview>>

SelectProject(p) ==
  /\ ~inside /\ project' = p
  /\ values' = [values EXCEPT !.package = None]
  /\ UNCHANGED <<editing, kind, field, inside, blurs, pending, preview, steered>>

\* The packages offered are those read under the key of the project.
SelectPackage(p) ==
  /\ ~inside /\ project # None /\ p \in {None, project}
  /\ values' = [values EXCEPT !.package = p]
  /\ UNCHANGED <<editing, kind, project, field, inside, blurs, pending, preview, steered>>
-----------------------------------------------------------------------------
\* The inputs on display, by the switch.
Drawn == IF kind = "personal" THEN {"days", "percentage"} ELSE {"times"}

\* What is sent, by the values.
Payload(v) ==
  [resource |-> v.resource, package |-> v.package,
   inputs |-> IF v.kind = "personal" THEN {"days", "percentage"} ELSE {"times"}]

Valid == values.resource # None /\ values.package # None

RequestPreview ==
  /\ ~inside /\ Valid /\ pending = NoValues
  /\ pending' = values /\ preview' = NoPreview
  /\ UNCHANGED <<fieldVars, project>>

PreviewLands ==
  /\ pending # NoValues /\ pending' = NoValues
  /\ preview' = [signature |-> pending, about |-> pending]
  /\ UNCHANGED <<fieldVars, project>>

RequestFails ==
  /\ pending # NoValues /\ pending' = NoValues
  /\ UNCHANGED <<fieldVars, project, preview>>

VisiblePreview == preview # NoPreview /\ preview.signature = values
-----------------------------------------------------------------------------
BookingNext ==
  \/ Debounce \/ Escape \/ Focus \/ Blur \/ RequestPreview \/ PreviewLands \/ RequestFails
  \/ \E text \in {None, Typed} : Type(text)
  \/ \E r \in People \cup Machines : Select(r) \/ Suggest(r)
  \/ \E b \in blurs : BlurTimer(b)
  \/ \E k \in Kinds2 : SwitchKind(k)
  \/ \E p \in Projects \cup {None} : SelectProject(p) \/ SelectPackage(p)

BookingSpec == BookingInit /\ [][BookingNext]_bookingVars

BookingTypeOK ==
  /\ kind \in Kinds2 /\ project \in Projects \cup {None}
  /\ {values, pending, preview.signature, preview.about} \subseteq
       [resource : People \cup Machines \cup {None}, kind : Kinds2,
        package : Projects \cup {None}]
  /\ field \in [text : People \cup Machines \cup {None, Typed}, picked : BOOLEAN,
                dismissed : BOOLEAN, searched : BOOLEAN]
  /\ blurs \subseteq [picked : BOOLEAN, kind : Kinds2]
  /\ {editing, inside, steered} \subseteq BOOLEAN
-----------------------------------------------------------------------------
(* A booking that can be saved is of one kind: what is sent is what can be    *)
(* entered, and the switch is on the kind of the resource.                    *)
OfOneKind ==
  values.resource # None =>
    Payload(values).inputs = Drawn /\ kind = KindOf(values.resource)

(* Once the keyboard has left the field and its timer has fired, the resource *)
(* that would be booked is the one the field names, unless a suggestion was   *)
(* picked, which the field does not show.                                     *)
FieldNamesTheResource ==
  ~inside /\ blurs = {} /\ ~steered /\ values.resource # None =>
    field.text = values.resource

\* The package is one of the project shown.
PackageIsOfTheProject == values.package # None => values.package = project

(* A preview on display is about the values on display, whatever was edited   *)
(* while it was asked for.                                                    *)
PreviewIsOfTheForm == VisiblePreview => preview.about = values

FormBooksWhatItShows ==
  OfOneKind /\ FieldNamesTheResource /\ PackageIsOfTheProject /\ PreviewIsOfTheForm
=============================================================================
