---------------------------- MODULE MCPlanGraphs ----------------------------
(* The two graphs of a plan side by side: the dependencies of packages and    *)
(* the tree of folders.  They share no table and no lock, so a behaviour is   *)
(* of one of them and the other stands still.                                 *)
EXTENDS DependencyGraph, FolderFiling, TLC

CONSTANTS c1, c2, f1, f2, f3, f4, p1, p2, s1, s2

LinkOf(p, s) == [predecessor |-> p, successor |-> s, lag |-> 0]

\* A plan whose only link can be closed to a cycle from either side.
OneLink == {LinkOf(1, 2)}

\* A chain, two roots, a fork: with and without a folder still to be created.
Trees == {(f1 :> Top @@ f2 :> f1 @@ f3 :> f2 @@ f4 :> Top),
          (f1 :> Top @@ f2 :> Top @@ f3 :> f1 @@ f4 :> Unborn),
          (f1 :> Top @@ f2 :> f1 @@ f3 :> f1 @@ f4 :> f3)}

FiledInTwo == {(p1 :> f1 @@ p2 :> f2), (p1 :> f3 @@ p2 :> Unfiled)}
FiledOnce == {(p1 :> f1), (p1 :> Unborn)}

VARIABLE graph

graphVars == <<vars, filingVars, graph>>

StillFiling == FilingInit /\ parent = f1 :> Top @@ f2 :> Top @@ f3 :> f1 @@ f4 :> Unborn /\ filed[p1] = f1

GraphsInit ==
  \/ graph = "dependencies" /\ Init /\ StillFiling
  \/ graph = "folders" /\ Init /\ FilingInit

GraphsNext ==
  /\ UNCHANGED graph
  /\ \/ graph = "dependencies" /\ Next /\ UNCHANGED filingVars
     \/ graph = "folders" /\ FilingNext /\ UNCHANGED vars

GraphsSpec ==
  /\ GraphsInit /\ [][GraphsNext]_graphVars
  /\ \A c \in Clients : WF_vars(Work(c))
=============================================================================
