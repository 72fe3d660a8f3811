----------------------------- MODULE PlanCache -----------------------------
(* One entry of the browser's query cache: the answer a screen shows, the     *)
(* request that brings the next one, and one write of the same browser at a   *)
(* time, from the moment it is sent until its screen knows how it ended.  The *)
(* library (TanStack Query) is external: its steps are modelled from how      *)
(* api/queryClient.ts and the screens configure it.                           *)
(*                                                                            *)
(* An answer is judged by the writes it does not contain:                     *)
(*   "covered"    a write whose success invalidates this entry                *)
(*   "uncovered"  a write that changes what the entry reads and invalidates   *)
(*                other entries only                                          *)
(*   "unheard"    a covered write that was committed but answered by an error *)
(*   "crossed"    a covered write that was acknowledged while a request ran   *)
(*                that the server had answered before it, for an entry that   *)
(*                has no answer yet or that no screen shows                   *)
(*   "foreign"    a write of somebody else                                    *)
(* The code leaves "crossed" and "unheard" writes unflagged: they are exempt  *)
(* from what is promised below, and both are decided by the state the write's *)
(* answer meets, never by what its invalidation does.                         *)
EXTENDS PlanKeys

CONSTANTS Queries,      \* the views: what they read, and how they ask
          Mutations     \* the writes: what they change, and what they invalidate

\* The only thing the steps need to know of them.
ASSUME SettlesAssumption == \A m \in Mutations : m.settles \in BOOLEAN

VARIABLES entry,        \* the view, whether it is shown, and its answer
          fetch,        \* the request under way, if any
          change        \* the browser's own write under way, if any

cacheVars == <<entry, fetch, change>>

Causes == {"covered", "uncovered", "unheard", "crossed", "foreign"}

NoFetch == [at |-> "none", missed |-> {}]
NewFetch == [at |-> "sent", missed |-> {}]
NoChange == [at |-> "none", cause |-> "uncovered", settles |-> FALSE]

\* The write changes a table the view is computed from.
Touches(m, v) == m.writes \cap v.reads # {}

\* The screen's invalidation reaches the view.
Clears(m, v) == \E prefix \in m.clears : Invalidates(prefix, v.key)

CauseOf(m, v) == IF Clears(m, v) THEN "covered" ELSE "uncovered"

\* No request is under way; the last one may have failed.
Idle == fetch.at \in {"none", "failed"}

CacheInit ==
  /\ entry \in [view : Queries, shown : {FALSE}, full : {FALSE}, missed : {{}},
                invalid : {FALSE}, aged : {FALSE}]
  /\ fetch = NoFetch
  /\ change = NoChange

(* A screen shows the view.  A recent answer is used as it is; without one,   *)
(* with an old or an invalidated one, and where the screen always asks, a     *)
(* request starts unless one is under way already.                            *)
Mount ==
  /\ ~entry.shown
  /\ entry' = [entry EXCEPT !.shown = TRUE]
  /\ fetch' = IF /\ Idle
                 /\ ~entry.full \/ entry.invalid \/ entry.aged \/ entry.view.always
              THEN NewFetch ELSE fetch
  /\ UNCHANGED change

(* The last screen leaves.  A request that listens to the signal is given up; *)
(* any other goes on and lands in the cache.                                  *)
Unmount ==
  /\ entry.shown
  /\ entry' = [entry EXCEPT !.shown = FALSE]
  /\ fetch' = IF entry.view.aborts THEN NoFetch ELSE fetch
  /\ UNCHANGED change

(* staleTime has passed since the answer landed. *)
Age ==
  /\ entry.full /\ ~entry.aged
  /\ entry' = [entry EXCEPT !.aged = TRUE]
  /\ UNCHANGED <<fetch, change>>

(* Nobody has shown the entry for the library's five minutes. *)
Collect ==
  /\ entry.full /\ ~entry.shown /\ Idle
  /\ entry' = [entry EXCEPT !.full = FALSE, !.missed = {}, !.invalid = FALSE, !.aged = FALSE]
  /\ UNCHANGED <<fetch, change>>

\* Mutant: only an entry that has an answer is polled.
PollKnown ==
  /\ entry.shown /\ entry.view.polls /\ Idle /\ entry.full
  /\ fetch' = NewFetch
  /\ UNCHANGED <<entry, change>>

(* refetchInterval, while the view is shown. *)
Poll ==
  /\ entry.shown /\ entry.view.polls /\ Idle
  /\ fetch' = NewFetch
  /\ UNCHANGED <<entry, change>>

(* The server computes the answer from what is committed at this moment. *)
ServerAnswers ==
  /\ fetch.at = "sent"
  /\ fetch' = [fetch EXCEPT !.at = "read"]
  /\ UNCHANGED <<entry, change>>

(* The answer reaches the cache and is trusted again. *)
Land ==
  /\ fetch.at = "read"
  /\ entry' = [entry EXCEPT !.full = TRUE, !.missed = fetch.missed,
                            !.invalid = FALSE, !.aged = FALSE]
  /\ fetch' = NoFetch
  /\ UNCHANGED change

\* Mutant: a failed request is kept in the entry as an error.
FetchBreaks ==
  /\ ~Idle
  /\ entry' = [entry EXCEPT !.invalid = entry.full]
  /\ fetch' = [NoFetch EXCEPT !.at = "error"]
  /\ UNCHANGED change

\* Mutant: a failed request leaves no trace.
FetchFailsSilently ==
  /\ ~Idle
  /\ UNCHANGED <<entry, change>>
  /\ fetch' = NoFetch

(* The request failed, its one retry too: the old answer stays, flagged. *)
FetchFails ==
  /\ ~Idle
  /\ entry' = [entry EXCEPT !.invalid = entry.full]
  /\ fetch' = [NoFetch EXCEPT !.at = "failed"]
  /\ UNCHANGED change

(* What a committed write adds to the answers that do not contain it. *)
Missing(cause) ==
  /\ entry' = IF entry.full THEN [entry EXCEPT !.missed = @ \cup {cause}] ELSE entry
  /\ fetch' = IF fetch.at = "read" THEN [fetch EXCEPT !.missed = @ \cup {cause}] ELSE fetch

ForeignWrite ==
  /\ Missing("foreign")
  /\ UNCHANGED change

(* A write of this browser that matters to the view is sent. *)
Send(m) ==
  /\ change.at = "none"
  /\ Touches(m, entry.view)
  /\ change' = [at |-> "sent", cause |-> CauseOf(m, entry.view), settles |-> m.settles]
  /\ UNCHANGED <<entry, fetch>>

Commit ==
  /\ change.at = "sent"
  /\ Missing(change.cause)
  /\ change' = [change EXCEPT !.at = "committed"]

(* One cause gives way to another in what an answer misses. *)
Blame(missed, old, new) == IF old \in missed THEN (missed \ {old}) \cup {new} ELSE missed

(* The exemption of a crossing request: it would not be asked for anew.       *)
Crossing ==
  IF entry.shown /\ entry.full THEN fetch
  ELSE [fetch EXCEPT !.missed = Blame(@, "covered", "crossed")]

\* Mutant: a request under way is taken for the one that is needed.
InvalidateJoining(running) ==
  /\ entry' = [entry EXCEPT !.invalid = entry.full]
  /\ fetch' = IF entry.shown /\ Idle THEN NewFetch ELSE running

(* invalidateQueries: the entry is flagged, and a shown one is asked for anew.*)
(* The new request replaces one under way, except a first load, which it      *)
(* joins.                                                                     *)
Invalidate(running) ==
  /\ entry' = [entry EXCEPT !.invalid = entry.full]
  /\ fetch' = IF entry.shown /\ (entry.full \/ Idle) THEN NewFetch ELSE running

(* The write's success reaches its screen, whose onSuccess invalidates. *)
Acknowledge ==
  /\ change.at = "committed"
  /\ IF change.cause = "covered" THEN Invalidate(Crossing) ELSE UNCHANGED <<entry, fetch>>
  /\ change' = NoChange

(* The write was refused, or never reached the server. *)
Refuse ==
  /\ change.at = "sent"
  /\ IF change.cause = "covered" /\ change.settles THEN Invalidate(fetch)
     ELSE UNCHANGED <<entry, fetch>>
  /\ change' = NoChange

(* The write is in the database and its answer is lost or is an error: onError*)
(* reports it and invalidates nothing, unless the screen uses onSettled.  (An  *)
(* answer that was flagged already stays owed.)                               *)
LoseAnswer ==
  /\ change.at = "committed"
  /\ change' = NoChange
  /\ IF change.cause = "covered" /\ change.settles THEN Invalidate(Crossing)
     ELSE /\ entry' = [entry EXCEPT !.missed = IF entry.invalid THEN @
                                               ELSE Blame(@, "covered", "unheard")]
          /\ fetch' = [fetch EXCEPT !.missed = Blame(@, "covered", "unheard")]

CacheNext ==
  \/ Mount \/ Unmount \/ Age \/ Collect \/ Poll
  \/ ServerAnswers \/ Land \/ FetchFails
  \/ ForeignWrite \/ Commit \/ Acknowledge \/ Refuse \/ LoseAnswer
  \/ \E m \in Mutations : Send(m)

(* The server answers, an answer lands, the timer of a polled view fires. *)
CacheFairness ==
  /\ WF_cacheVars(ServerAnswers) /\ SF_cacheVars(Land)
  /\ WF_cacheVars(Poll)

CacheSpec == CacheInit /\ [][CacheNext]_cacheVars /\ CacheFairness
-----------------------------------------------------------------------------
CacheTypeOK ==
  /\ entry \in [view : Queries, shown : BOOLEAN, full : BOOLEAN, missed : SUBSET Causes,
                invalid : BOOLEAN, aged : BOOLEAN]
  /\ fetch \in [at : {"none", "sent", "read", "failed"}, missed : SUBSET Causes]
  /\ change \in [at : {"none", "sent", "committed"}, cause : {"covered", "uncovered"},
                 settles : BOOLEAN]

\* A covered write is in the database and its screen does not know yet.
Pending == change.at = "committed" /\ change.cause = "covered"

(* A screen reads its own browser's writes: an answer that misses a write of  *)
(* this browser, whose success invalidates the entry, is flagged as out of    *)
(* date or the write is still unanswered, whatever was asked, landed, left or *)
(* failed in between.  Exempt are writes whose answer was lost ("unheard")    *)
(* and requests answered before the write that its acknowledgement finds      *)
(* running for an entry without an answer or without a screen ("crossed").    *)
OwnWriteIsFlagged ==
  "covered" \in entry.missed => entry.invalid \/ Pending

(* Every request that may still land and misses such a write belongs to an    *)
(* unanswered write, with the same two exemptions: what was asked for an      *)
(* answer on display is asked for anew when the write is acknowledged.        *)
RunningRequestIsAccountedFor ==
  "covered" \in fetch.missed => Pending

OwnWrites == {"covered", "crossed", "unheard"}

(* The entry as an implementation of ReadYourWrites. *)
Stage == IF entry.missed \cap OwnWrites = {} THEN "in step"
         ELSE IF entry.invalid THEN "flagged"
         ELSE IF "covered" \in entry.missed THEN "behind" ELSE "excused"

Promise == INSTANCE ReadYourWrites
             WITH stage <- Stage, pending <- Pending,
                  watched <- entry.shown /\ entry.full,
                  crossing <- fetch.missed \cap (OwnWrites \ {"covered"}) # {}

(* Every step of the cache, of the server and of the screens keeps the promise*)
(* of ReadYourWrites for every entry and every write that invalidates it: an  *)
(* answer without the write is unflagged only while the write is unanswered,  *)
(* if its answer was lost, or if the acknowledgement met a request from       *)
(* before the write where no answer was on display.                           *)
KeepsThePromise == Promise!Spec

(* What AssignmentsPanel.tsx:166-171 says of a save, that keeping the old     *)
(* figures "while the write has landed is how somebody ends up acting on a    *)
(* number that is no longer true": an acknowledged write that invalidates the *)
(* entry is not missing from an unflagged answer.  It does not hold: the      *)
(* answer of a request that crossed the write lands unflagged.                *)
AcknowledgedWritesShow ==
  entry.missed \cap {"covered", "crossed"} # {} => entry.invalid \/ Pending

(* No screen waits on a flag that nobody acts on: while a flagged answer is   *)
(* shown, the next one is being asked for, unless the last request failed.    *)
ShownFlagIsServed ==
  entry.shown /\ entry.invalid => fetch.at # "none"

(* A polled view that stays on screen ends up with whatever was written, by   *)
(* anybody and covered by an invalidation or not, once writing and failing    *)
(* pause: the only guarantee an uncovered or a foreign write has.             *)
PolledViewCatchesUp ==
  (/\ <>[](entry.shown /\ entry.view.polls)
   /\ <>[][~ForeignWrite /\ ~Commit /\ ~FetchFails]_cacheVars)
    => <>[](entry.full /\ entry.missed = {})
=============================================================================
