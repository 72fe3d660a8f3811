---------------------- MODULE MCConflictReconciliation ----------------------
(***************************************************************************)
(* Instances of ConflictReconciliation for TLC.                            *)
(***************************************************************************)
EXTENDS ConflictReconciliation, TLC

CONSTANTS a1, a2, a3, a4, w1, w2, s1, s2, h1, h2

Row1(r, s, w) == [resource |-> r, slot |-> s, package |-> w]

\* Anything may be asked for, or staying as it was and moving to the other side.
AnyRow == Row
MoveOver == {Row1(2, s1, w2)}

\* Two bookings side by side on resource 1, in different packages; a third to come.
PairPlan == {[a \in Assignments |->
               CASE a = a1 -> Row1(1, s1, w1) [] a = a2 -> Row1(1, s1, w2)
                 [] OTHER -> Unborn]}

\* One booking on each of two resources, one to come.
SpreadPlan == {[a \in Assignments |->
                 CASE a = a1 -> Row1(1, s1, w1) [] a = a2 -> Row1(2, s1, w2)
                   [] OTHER -> Unborn]}

\* One booking, and one to come.
FirstPlan == {[a \in Assignments |-> IF a = a1 THEN Row1(1, s1, w1) ELSE Unborn]}

\* A pair side by side, its second booking made or to come; or two packages, each with
\* a booking on each of two resources.
PairsAndCrosses ==
  {[a \in Assignments |->
      CASE a = a1 -> Row1(1, s1, w1) [] a = a2 -> second [] OTHER -> Gone] :
     second \in {Row1(1, s1, w2), Unborn}}
  \cup {[a \in Assignments |->
           CASE a = a1 -> Row1(1, s1, w1) [] a = a2 -> Row1(2, s1, w1)
             [] a = a3 -> Row1(1, s1, w2) [] OTHER -> Row1(2, s1, w2)]}

\* Every resource carries what it may, or resource 1 carries a booking and 2 does not.
AnyCapacities == [Resources -> Capacities]
OneCarries == {[r \in Resources |-> IF r = 1 THEN 1 ELSE 0]}

\* Handlers are interchangeable, and no liveness property is checked with it.
HandlerSymmetry == Permutations(Handlers)
=============================================================================
