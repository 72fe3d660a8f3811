---------------------------- MODULE SettingsForm ----------------------------
(* The settings page: a form that an answer fills, the settings on the server *)
(* and the answer that the page shares with the header of every screen.  A    *)
(* field stands for a group of them: what the header shows, the plan with     *)
(* retention, freeze, maintenance and mail server, and the password of the    *)
(* mail server, which is never sent back.                                     *)
EXTENDS Naturals

CONSTANTS MaxOthers,   \* bound: saves by another administrator and changes of the logo
          MaxSaves     \* bound: saves pressed here

Default == 0           \* what a form holds that has read nothing
Original == 1          \* what the server holds at first
Entered == 2           \* what is typed here
Foreign == 3           \* what somebody else saved
Keep == "keep"         \* a password that is not touched
-----------------------------------------------------------------------------
VARIABLES stored,      \* the settings: the groups, the password, whether there is a logo
          answer,      \* the answer in the cache
          reading,     \* the answer on its way
          fields,      \* the form: closed, or what its fields hold
          seeded,      \* whether an answer has filled it
          touched,     \* the fields edited since
          clearing,    \* whether the button says the password will be cleared
          saving,      \* the save on its way
          counts       \* changes by others, and of the logo, and saves here

settingsVars ==
  <<stored, answer, reading, fields, seeded, touched, clearing, saving, counts>>

NoAnswer == [brand |-> Default, plan |-> Default, password |-> FALSE, logo |-> FALSE,
             read |-> FALSE]
NoForm == [brand |-> Default, plan |-> Default, password |-> Keep, shown |-> FALSE]
NoSave == [body |-> NoForm, sent |-> {}, at |-> "none"]

SettingsInit ==
  /\ stored = [brand |-> Original, plan |-> Original, password |-> "old", logo |-> FALSE]
  /\ answer = NoAnswer /\ reading = NoAnswer
  /\ fields = NoForm /\ seeded = FALSE /\ touched = {} /\ clearing = FALSE
  /\ saving = NoSave /\ counts = [others |-> 0, saves |-> 0]
-----------------------------------------------------------------------------
\* The password is never returned, only whether there is one.
Reading(s) == [brand |-> s.brand, plan |-> s.plan, password |-> s.password # "none",
               logo |-> s.logo, read |-> TRUE]

\* Mutant: the form of the mail server begins with an empty password.
seedEmptyPassword(f, a) == [f EXCEPT !.plan = a.plan, !.password = ""]

(* What an answer fills: all but what the header shows, which the form has    *)
(* from the moment it opened.                                                 *)
seed(f, a) == [f EXCEPT !.plan = a.plan, !.password = Keep]

(* The page opens with what the header has by then, and the effect of its     *)
(* first render.                                                              *)
OpenSettings ==
  /\ ~fields.shown
  /\ LET opened == [NoForm EXCEPT !.brand = answer.brand, !.shown = TRUE]
     IN  fields' = IF answer.read THEN seed(opened, answer) ELSE opened
  /\ seeded' = answer.read
  /\ UNCHANGED <<stored, answer, reading, touched, clearing, saving, counts>>

LeaveSettings ==
  /\ fields.shown /\ fields' = NoForm
  /\ seeded' = FALSE /\ touched' = {} /\ clearing' = FALSE
  /\ UNCHANGED <<stored, answer, reading, saving, counts>>

\* The settings are read: by the header, by the page, on coming back to the window.
StartRead ==
  /\ reading = NoAnswer /\ reading' = Reading(stored)
  /\ UNCHANGED <<stored, answer, fields, seeded, touched, clearing, saving, counts>>

\* The button of a save waits for the read that follows it.
Released == IF saving.at = "rereading" THEN NoSave ELSE saving

(* An answer that says something new fills the form again; one that does not  *)
(* is the old one.                                                            *)
AnswerLands ==
  /\ reading # NoAnswer /\ reading' = NoAnswer /\ answer' = reading
  /\ IF fields.shown /\ reading # answer
     THEN fields' = seed(fields, reading) /\ seeded' = TRUE /\ touched' = touched \cap {"brand"}
     ELSE UNCHANGED <<fields, seeded, touched>>
  /\ saving' = Released /\ UNCHANGED <<stored, clearing, counts>>

ReadFails ==
  /\ reading # NoAnswer /\ reading' = NoAnswer /\ saving' = Released
  /\ UNCHANGED <<stored, answer, fields, seeded, touched, clearing, counts>>
-----------------------------------------------------------------------------
TypeInto(g) ==
  /\ fields.shown /\ fields' = [fields EXCEPT ![g] = Entered] /\ touched' = touched \cup {g}
  /\ UNCHANGED <<stored, answer, reading, seeded, clearing, saving, counts>>

\* The fields of the mail server are drawn once an answer has filled them.
TypePassword ==
  /\ seeded
  /\ fields' = [fields EXCEPT !.password = "new"] /\ touched' = touched \cup {"password"}
  /\ UNCHANGED <<stored, answer, reading, seeded, clearing, saving, counts>>

ClearPassword ==
  /\ seeded /\ answer.password /\ ~clearing /\ clearing' = TRUE
  /\ fields' = [fields EXCEPT !.password = ""] /\ touched' = touched \cup {"password"}
  /\ UNCHANGED <<stored, answer, reading, seeded, saving, counts>>

\* Everything is sent, whether it was read or not; the password if it was touched.
SaveSettings ==
  /\ fields.shown /\ saving = NoSave /\ counts.saves < MaxSaves
  /\ saving' = [body |-> fields, at |-> "sent",
                sent |-> {"brand", "plan"}
                           \cup (IF fields.password # Keep THEN {"password"} ELSE {})]
  /\ counts' = [counts EXCEPT !.saves = @ + 1]
  /\ UNCHANGED <<stored, answer, reading, fields, seeded, touched, clearing>>

\* An empty password is none; one that is not sent stays.
ServerSaves ==
  /\ saving.at = "sent" /\ saving' = [saving EXCEPT !.at = "done"]
  /\ stored' = [stored EXCEPT
       !.brand = saving.body.brand, !.plan = saving.body.plan,
       !.password = IF "password" \notin saving.sent THEN @
                    ELSE IF saving.body.password = "" THEN "none" ELSE saving.body.password]
  /\ UNCHANGED <<answer, reading, fields, seeded, touched, clearing, counts>>

\* Once a save was answered the settings are read again, and not after a failure.
SettingsLand ==
  /\ \/ /\ saving.at = "done" /\ saving' = [NoSave EXCEPT !.at = "rereading"]
        /\ reading' = Reading(stored)
     \/ saving.at \in {"sent", "done"} /\ saving' = NoSave /\ UNCHANGED reading
  /\ UNCHANGED <<stored, answer, fields, seeded, touched, clearing, counts>>

(* A logo is another request, whose success reads the settings again.         *)
ChangeLogo ==
  /\ fields.shown /\ counts.others < MaxOthers /\ counts' = [counts EXCEPT !.others = @ + 1]
  /\ \E logo \in {TRUE} \cup {~answer.logo} : stored' = [stored EXCEPT !.logo = logo]
  /\ reading' = Reading(stored')
  /\ UNCHANGED <<answer, fields, seeded, touched, clearing, saving>>

SomebodySaves(g) ==
  /\ counts.others < MaxOthers /\ counts' = [counts EXCEPT !.others = @ + 1]
  /\ stored' = [stored EXCEPT ![g] = Foreign]
  /\ UNCHANGED <<answer, reading, fields, seeded, touched, clearing, saving>>
-----------------------------------------------------------------------------
SettingsNext ==
  \/ OpenSettings \/ LeaveSettings \/ StartRead \/ AnswerLands \/ ReadFails \/ TypePassword
  \/ ClearPassword \/ SaveSettings \/ ServerSaves \/ SettingsLand \/ ChangeLogo
  \/ \E g \in {"brand", "plan"} : TypeInto(g) \/ SomebodySaves(g)

SettingsSpec == SettingsInit /\ [][SettingsNext]_settingsVars

SettingsTypeOK ==
  /\ stored \in [brand : 0..3, plan : 0..3, password : {"none", "old", "new"}, logo : BOOLEAN]
  /\ {answer, reading} \subseteq [brand : 0..3, plan : 0..3, password : BOOLEAN,
                                  logo : BOOLEAN, read : BOOLEAN]
  /\ fields \in [brand : 0..3, plan : 0..3, password : {Keep, "", "new"}, shown : BOOLEAN]
  /\ touched \subseteq {"brand", "plan", "password"} /\ {seeded, clearing} \subseteq BOOLEAN
-----------------------------------------------------------------------------
(* Once an answer has filled the form, a save sends of the plan what was      *)
(* typed or what the last answer said, however many answers came before; and  *)
(* a stored password is replaced or cleared only by a save whose form had it  *)
(* typed or cleared since the last answer that filled it.                     *)
SavesWhatWasReadOrTyped ==
  [][saving = NoSave /\ saving' # NoSave =>
       /\ "plan" \notin touched /\ seeded => saving'.body.plan = answer.plan
       /\ "password" \in saving'.sent => "password" \in touched]_settingsVars

(* What the page says of a failed read: the fields keep their defaults, and   *)
(* saving goes by what the server has anyway.  A form that no answer has      *)
(* filled then sends nothing that was not typed.                              *)
UnreadSettingsAreKept ==
  [][saving = NoSave /\ saving' # NoSave /\ ~seeded =>
       saving'.sent \subseteq touched]_settingsVars
=============================================================================
