------------------------------ MODULE MCForms ------------------------------
(* What a signed-in tab sends: the session that carries its requests, and the *)
(* forms that make them.  A form waits for an answer or an error, however     *)
(* many refreshes the session needs for it, so a behaviour is of one part,    *)
(* and the others stand still.                                                *)
EXTENDS BrowserSession, BookingForm, Proposals, SettingsForm, SkillMatrix

VARIABLE part       \* the part that moves

formVars == <<sessionVars, bookingVars, proposalVars, settingsVars, matrixVars, part>>

\* Signed out, with nothing on its way.
StillSession ==
  /\ tab = [user |-> FALSE, token |-> 0, seen |-> 0, loading |-> FALSE, timer |-> FALSE]
  /\ refreshCall = NoRefresh /\ logouts = [i \in 1..MaxLogouts |-> UnusedLogout]
  /\ loginCall = NoLogin /\ calls = [c \in Requests |-> Unsent] /\ isRefreshing = FALSE
  /\ server = [issued |-> 0, live |-> {}, rotated |-> {}, expired |-> {}, cookie |-> 0]

StillBooking == BookingInit /\ editing = FALSE
StillProposals == ProposalsInit /\ screen = "unmet"
-----------------------------------------------------------------------------
FormsInit ==
  /\ \/ part = "session" /\ SessionInit
     \/ part = "booking" /\ BookingInit
     \/ part = "proposals" /\ ProposalsInit
     \/ part \in {"settings", "matrix"}
  /\ part # "session" => StillSession
  /\ part # "booking" => StillBooking
  /\ part # "proposals" => StillProposals
  /\ SettingsInit /\ MatrixInit

\* A step of one part.
Only(name) ==
  /\ part = name /\ UNCHANGED part
  /\ name # "session" => UNCHANGED sessionVars
  /\ name # "booking" => UNCHANGED bookingVars
  /\ name # "proposals" => UNCHANGED proposalVars
  /\ name # "settings" => UNCHANGED settingsVars
  /\ name # "matrix" => UNCHANGED matrixVars

FormsNext ==
  \/ Only("session") /\ SessionNext
  \/ Only("booking") /\ BookingNext
  \/ Only("proposals") /\ ProposalsNext
  \/ Only("settings") /\ SettingsNext
  \/ Only("matrix") /\ MatrixNext

FormsSpec == FormsInit /\ [][FormsNext]_formVars /\ SessionFairness

\* The type invariants of the parts.
FormsTypeOK ==
  /\ SessionTypeOK /\ BookingTypeOK /\ ProposalsTypeOK /\ SettingsTypeOK /\ MatrixTypeOK

(* AssignmentForm, UnmetRequirementsAlert, ConflictSuggestions, SettingsPage  *)
(* and SkillMatrix: what a screen sends to the server is what it shows, and   *)
(* what it shows when it has come to rest is what the server holds.  A        *)
(* booking is of the resource, kind and project its form names; a change      *)
(* writes what was previewed; settings are sent as they were read or typed,   *)
(* and a password only if it was; a matrix whose changes are over is that of  *)
(* the server.                                                                *)
ScreensSendWhatTheyShow ==
  /\ [](FormBooksWhatItShows /\ MatrixTellsTheTruth)
  /\ ProposalsKeepTheirWord /\ SavesWhatWasReadOrTyped
=============================================================================
