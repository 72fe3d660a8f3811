--------------------------- MODULE MCGroupCalendars ---------------------------
(***************************************************************************)
(* Instances of GroupCalendars for TLC.                                    *)
(***************************************************************************)
EXTENDS GroupCalendars, TLC

CONSTANTS g1, g2, g3, r1, p1, p2, c1, c2

\* A chain of two groups; the third is still to be created or beside it.
Chained == {(g1 :> Top @@ g2 :> g1 @@ g3 :> Unborn)}
Beside == {(g1 :> Top @@ g2 :> g1 @@ g3 :> Top)}

Outside == {(r1 :> g3)}
InsideOrUnborn == {(r1 :> g2), (r1 :> Unborn)}

BoundAbove == {[t \in Targets |-> IF t = g1 THEN p1 ELSE NoProfile]}
BoundBeside == {[t \in Targets |-> IF t = g3 THEN p2 ELSE NoProfile]}
=============================================================================
