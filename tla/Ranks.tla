------------------------------- MODULE Ranks -------------------------------
(* The order that sort() brings elements into, by their rank: the number of   *)
(* elements that come before.  `before` is a total order without equality.    *)
EXTENDS Naturals, FiniteSets

Rank(x, S, before(_, _)) == Cardinality({y \in S : before(y, x)})

Ranked(S, before(_, _)) ==
  [n \in 1..Cardinality(S) |-> CHOOSE x \in S : Rank(x, S, before) = n - 1]
=============================================================================
