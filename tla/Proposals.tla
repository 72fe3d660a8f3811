------------------------------ MODULE Proposals ------------------------------
(* A proposal is previewed before it is applied: a suggestion that changes a  *)
(* booking in conflict, and a booking that would meet a requirement.  The     *)
(* server applies a change to the booking it has by then; a booking is what   *)
(* its fields hold, with periods as whole steps.                              *)
EXTENDS Naturals

CONSTANTS Value,          \* what a field may hold: 0..n
          MaxForeign,     \* bound: changes of the booking by others
          MaxTries        \* bound: confirmations of one preview

ASSUME ProposalsAssumption == 0 \in Value /\ MaxForeign \in Nat /\ MaxTries \in Nat

Fields == {"resource", "period", "share"}
Bookings == [Fields -> Value]
Next1(v) == IF v + 1 \in Value THEN v + 1 ELSE 0

\* shift: the days of a person; interval: the hours of a machine, or of a window.
Suggestion ==
  [type : {"swap_resource", "reduce_allocation", "interval"}, to : Value]
    \cup [type : {"shift"}]
-----------------------------------------------------------------------------
VARIABLES screen,     \* "conflict" or "unmet"
          booking,    \* the booking on the server
          foreign,    \* the fields others have changed since it was read, how often in all
          listed,     \* whether there are suggestions to show
          asking,     \* the preview that is being asked for
          active,     \* the preview on display
          applying,   \* the change on its way: [patch, about, done]
          outcome     \* of the preview on display: [sent, made, lost]

proposalVars == <<screen, booking, foreign, listed, asking, active, applying, outcome>>

NoAsking == [at |-> "idle"]
NoActive == [patch |-> <<>>]
NoApply == [patch |-> <<>>, about |-> <<>>, done |-> FALSE]
NoOutcome == [sent |-> 0, made |-> 0, lost |-> 0]

ProposalsInit ==
  /\ screen \in {"conflict", "unmet"} /\ booking = [f \in Fields |-> 0]
  /\ foreign = [fields |-> {}, times |-> 0] /\ listed = TRUE
  /\ asking = NoAsking /\ active = NoActive /\ applying = NoApply
  /\ outcome = NoOutcome
-----------------------------------------------------------------------------
Merged(b, patch) == [f \in Fields |-> IF f \in DOMAIN patch THEN patch[f] ELSE b[f]]

patchForSuggestion(s, b) ==
  CASE s.type = "swap_resource" -> [f \in {"resource"} |-> s.to]
    [] s.type = "reduce_allocation" -> [f \in {"share"} |-> s.to]
    [] s.type = "interval" -> [f \in {"period"} |-> s.to]
    [] s.type = "shift" -> [f \in {"period"} |-> Next1(b.period)]

previewPayloadForPatch(b, patch) == Merged(b, patch)

\* A requirement is met by the whole package of a resource, all of its time.
proposedAssignment(s) ==
  [f \in Fields |-> IF f = "resource" THEN s.to ELSE 0]
-----------------------------------------------------------------------------
(* Buttons of the suggestions wait for a preview and for a change.            *)
PressPreview(s) ==
  /\ listed /\ active = NoActive /\ asking = NoAsking /\ applying = NoApply
  /\ screen = "unmet" => s.type = "swap_resource"
  /\ asking' = [at |-> "reading", suggestion |-> s]
  /\ outcome' = NoOutcome
  /\ UNCHANGED <<screen, booking, foreign, listed, active, applying>>

(* The booking is read again, the change is made of it, and both are sent off.*)
ReadAssignment ==
  /\ asking.at = "reading"
  /\ LET patch == IF screen = "unmet" THEN proposedAssignment(asking.suggestion)
                  ELSE patchForSuggestion(asking.suggestion, booking)
     IN  asking' = [at |-> "previewing", patch |-> patch, before |-> booking,
                    about |-> previewPayloadForPatch(booking, patch)]
  /\ foreign' = [foreign EXCEPT !.fields = {}]
  /\ UNCHANGED <<screen, booking, listed, active, applying, outcome>>

PreviewAnswers ==
  /\ asking.at = "previewing"
  /\ active' = [patch |-> asking.patch, before |-> asking.before, about |-> asking.about]
  /\ asking' = NoAsking
  /\ UNCHANGED <<screen, booking, foreign, listed, applying, outcome>>

PreviewFails ==
  /\ asking # NoAsking /\ asking' = NoAsking
  /\ UNCHANGED <<screen, booking, foreign, listed, active, applying, outcome>>

\* The rows that the summary of a preview marks as changed.
Changed(p) == {f \in Fields : p.before[f] # p.about[f]}

\* Without suggestions the preview is not drawn.
OnDisplay == active # NoActive /\ listed

ClosePreview ==
  /\ OnDisplay /\ applying = NoApply /\ active' = NoActive
  /\ UNCHANGED <<screen, booking, foreign, listed, asking, applying, outcome>>

\* Mutant: the change is made of the booking as it is known by now.
ApplyToTheLatest ==
  /\ OnDisplay /\ applying = NoApply /\ outcome.sent < MaxTries
  /\ applying' = [patch |-> booking, about |-> active.about, done |-> FALSE]
  /\ outcome' = [outcome EXCEPT !.sent = @ + 1]
  /\ UNCHANGED <<screen, booking, foreign, listed, asking, active>>

(* Bound: MaxTries.                                                           *)
PressApply ==
  /\ OnDisplay /\ applying = NoApply /\ outcome.sent < MaxTries
  /\ applying' = [patch |-> active.patch, about |-> active.about, done |-> FALSE]
  /\ outcome' = [outcome EXCEPT !.sent = @ + 1]
  /\ UNCHANGED <<screen, booking, foreign, listed, asking, active>>

(* The server: a partial update of the booking it has, or a new booking.      *)
ServerApplies ==
  /\ applying # NoApply /\ ~applying.done
  /\ applying' = [applying EXCEPT !.done = TRUE]
  /\ booking' = Merged(booking, applying.patch)
  /\ outcome' = [outcome EXCEPT !.made = @ + 1]
  /\ UNCHANGED <<screen, foreign, listed, asking, active>>

(* The screens are read again before the buttons are released.                *)
ApplyLands ==
  /\ applying.done /\ applying' = NoApply /\ active' = NoActive
  /\ listed' \in {listed, FALSE}
  /\ UNCHANGED <<screen, booking, foreign, asking, outcome>>

(* The server refuses, or its answer is lost: the preview stays.              *)
ApplyFails ==
  /\ applying # NoApply /\ applying' = NoApply
  /\ outcome' = [outcome EXCEPT !.lost = @ + (IF applying.done THEN 1 ELSE 0)]
  /\ UNCHANGED <<screen, booking, foreign, listed, asking, active>>

(* The suggestions are read again: the card of a package that is met goes,    *)
(* with its preview.  That it comes back while its change is still on its way *)
(* is left out.                                                               *)
ListRead ==
  /\ listed' = ~listed
  /\ IF screen = "unmet"
     THEN /\ listed' => applying = NoApply
          /\ active' = NoActive /\ asking' = NoAsking
     ELSE UNCHANGED <<active, asking>>
  /\ UNCHANGED <<screen, booking, foreign, applying, outcome>>

(* Bound: MaxForeign.                                                         *)
ForeignChange(f) ==
  /\ foreign.times < MaxForeign
  /\ booking' = [booking EXCEPT ![f] = Next1(@)]
  /\ foreign' = [fields |-> foreign.fields \cup {f}, times |-> foreign.times + 1]
  /\ UNCHANGED <<screen, listed, asking, active, applying, outcome>>
-----------------------------------------------------------------------------
ProposalsNext ==
  \/ ReadAssignment \/ PreviewAnswers \/ PreviewFails \/ ClosePreview \/ PressApply
  \/ ServerApplies \/ ApplyLands \/ ApplyFails \/ ListRead
  \/ \E s \in Suggestion : PressPreview(s)
  \/ \E f \in Fields : ForeignChange(f)

ProposalsSpec == ProposalsInit /\ [][ProposalsNext]_proposalVars

ProposalsTypeOK ==
  /\ booking \in Bookings /\ foreign \in [fields : SUBSET Fields, times : 0..MaxForeign]
  /\ listed \in BOOLEAN /\ DOMAIN active.patch \subseteq Fields
  /\ DOMAIN applying.patch \subseteq Fields
  /\ outcome \in [sent : 0..MaxTries, made : 0..MaxTries, lost : 0..MaxTries]
-----------------------------------------------------------------------------
(* Every field of the booking becomes what the preview said of it, unless it  *)
(* is one the change does not name and somebody else has changed it since.    *)
WritesWhatWasPreviewed ==
  [][(outcome'.made = outcome.made + 1) =>
       \A f \in Fields : \/ booking'[f] = applying.about[f]
                         \/ f \in foreign.fields \ DOMAIN applying.patch]_proposalVars

\* A preview is applied once, and again only after an answer was lost.
AppliedOnce == outcome.made <= outcome.lost + 1

\* A change that is on its way belongs to the preview on display, if there is one.
ChangeOfThePreview ==
  applying # NoApply /\ OnDisplay =>
    active.patch = applying.patch /\ active.about = applying.about

(* What the summary of a suggestion marks as changed is in the change that is *)
(* sent, however old the suggestion was when its booking was read.            *)
MarksWhatIsSent ==
  screen = "conflict" /\ OnDisplay => Changed(active) \subseteq DOMAIN active.patch

ProposalsKeepTheirWord ==
  [](AppliedOnce /\ ChangeOfThePreview /\ MarksWhatIsSent) /\ WritesWhatWasPreviewed
=============================================================================
