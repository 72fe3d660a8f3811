--------------------------- MODULE ReadYourWrites ---------------------------
(* What a screen promises the user about a write made in the same browser, if *)
(* that write is one the screen is told of: the answer on display may be      *)
(* behind while the write is unanswered, is flagged from the moment it is     *)
(* acknowledged, and a flag is lifted by an answer that has the write.  Two   *)
(* answers are excused: one to a write whose own answer was lost, and one to  *)
(* a request that crossed the acknowledgement where no answer was on display. *)

VARIABLES stage,    \* "in step", "behind" (unflagged), "flagged" or "excused"
          pending,  \* a write is committed and not acknowledged yet
          watched,  \* an answer is on display
          crossing  \* a request runs that may bring an excused answer

vars == <<stage, pending, watched, crossing>>

Init == stage = "in step" /\ pending = FALSE /\ watched = FALSE /\ crossing = FALSE

Write ==
  /\ ~pending /\ pending' = TRUE
  /\ \/ stage' = stage
     \/ stage \in {"in step", "excused"} /\ stage' \in {"behind", "flagged"}
  /\ UNCHANGED <<watched, crossing>>

(* A display leaves no request behind that was asked before. *)
Acknowledge ==
  /\ pending /\ pending' = FALSE
  /\ stage' = IF stage = "in step" THEN "in step" ELSE "flagged"
  /\ watched => crossing' = FALSE
  /\ UNCHANGED watched

(* The browser never learns that the write took place: nothing is owed. *)
Excuse ==
  /\ pending /\ pending' = FALSE
  /\ stage' = IF stage = "behind" THEN "excused" ELSE stage
  /\ crossing' \in BOOLEAN
  /\ UNCHANGED watched

(* A new answer, or none any more.  It lacks the write while the write is     *)
(* pending, or by an excuse.                                                  *)
Refresh ==
  /\ \/ stage' = "in step"
     \/ pending /\ stage' = "behind"
     \/ crossing /\ stage' = "excused"
  /\ crossing' => crossing
  /\ UNCHANGED pending

Flag ==
  /\ stage \in {"behind", "excused"} /\ stage' = "flagged"
  /\ crossing' => crossing
  /\ UNCHANGED <<pending, watched>>

(* A screen comes or leaves, a request is given up. *)
Turn ==
  /\ crossing' => crossing
  /\ UNCHANGED <<stage, pending>>

Next == Write \/ Acknowledge \/ Excuse \/ Refresh \/ Flag \/ Turn

Spec == Init /\ [][Next]_vars
=============================================================================
