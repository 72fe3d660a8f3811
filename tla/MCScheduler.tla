------------------------------ MODULE MCScheduler ------------------------------
(***************************************************************************)
(* Instances of Scheduler for TLC.                                         *)
(***************************************************************************)
EXTENDS Scheduler

CONSTANTS check, audit

\* JOBS lists the conflict check first; sorted by name it comes last.
CheckFirst == <<check, audit>>
CheckLast == <<audit, check>>
=============================================================================
