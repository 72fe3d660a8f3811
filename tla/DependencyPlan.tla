--------------------------- MODULE DependencyPlan ---------------------------
(***************************************************************************)
(* What the dependency writes promise, without locks or transactions:      *)
(* each of them happens at once, and a link is added only when it closes   *)
(* no cycle.                                                               *)
(***************************************************************************)
EXTENDS Naturals

CONSTANTS
  Packages,      \* work package ids; numbers, because rows are locked in id order
  Lags,          \* waiting times in working days
  InitialLinks   \* the links that exist at the start

Link == [predecessor : Packages, successor : Packages, lag : Lags]

VARIABLES packages, links

-----------------------------------------------------------------------------
Touches(l, W) == l.predecessor \in W \/ l.successor \in W
SamePair(k, l) == k.predecessor = l.predecessor /\ k.successor = l.successor

\* A set of packages that following successors never leaves.
Closed(C, L) == \A l \in L : l.predecessor \in C => l.successor \in C

\* Following successors from `from` arrives at `to`: nothing closed keeps them apart.
Reaches(from, to, L) ==
  \A C \in SUBSET Packages : from \in C /\ Closed(C, L) => to \in C

WouldCreateCycle(l, L) == Reaches(l.successor, l.predecessor, L)

\* Every group of packages has one that waits for none of the others to be
\* followed: none of its successors is in the group.
Acyclic(L) ==
  \A S \in SUBSET Packages : S # {} =>
     \E n \in S : \A l \in L : l.predecessor = n => l.successor \notin S

\* Where a plan may start from; a module that uses this one assumes it.
Sound == Packages \subseteq Nat /\ Lags \subseteq Nat /\ InitialLinks \subseteq Link
          /\ Acyclic(InitialLinks)

-----------------------------------------------------------------------------
Init == packages = Packages /\ links = InitialLinks

AddLink(l) ==
  /\ l.predecessor \in packages /\ l.successor \in packages
  /\ l.predecessor # l.successor
  /\ \A k \in links : ~SamePair(k, l)
  /\ ~WouldCreateCycle(l, links)
  /\ links' = links \cup {l}
  /\ UNCHANGED packages

RemoveLink(l) == /\ l \in links
                 /\ links' = links \ {l}
                 /\ UNCHANGED packages

SetLag(l, days) == /\ l \in links
                   /\ links' = (links \ {l}) \cup {[l EXCEPT !.lag = days]}
                   /\ UNCHANGED packages

RemovePackages(W) == /\ packages' = packages \ W
                     /\ links' = {l \in links : ~Touches(l, W)}

Next ==
  \/ \E l \in Link : AddLink(l) \/ RemoveLink(l) \/ (\E days \in Lags : SetLag(l, days))
  \/ \E W \in SUBSET Packages : RemovePackages(W)

Spec == Init /\ [][Next]_<<packages, links>>

\* Packages and links are what their tables hold.
TypeOK == packages \subseteq Packages /\ links \subseteq Link

\* "A after B after A" is never in the plan (dependencies.py: a cycle has no
\* valid reading and every consumer would otherwise have to defend against it).
NoCycle == Acyclic(links)

\* A link joins two packages that exist.
LinksAttached == \A l \in links : l.predecessor \in packages /\ l.successor \in packages

=============================================================================
