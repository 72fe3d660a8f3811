-------------------------- MODULE PlanGraphsProofs --------------------------
(***************************************************************************)
(* Both graphs of a plan, for any number of packages, folders, projects    *)
(* and sessions: the dependencies of packages, which implement their       *)
(* abstract plan, and the folders, which stay a tree.  The last section    *)
(* brings both to the specification that runs them side by side.           *)
(***************************************************************************)
EXTENDS MCPlanGraphs, TLAPS

-----------------------------------------------------------------------------
(***************************************************************************)
(* DependencyGraph implements DependencyPlan, for any number of packages   *)
(* and sessions.  The heart of the argument is what a create that has      *)
(* validated its link may rely on until it inserts it: the graph lock      *)
(* keeps other links out, so the plan can only have lost links and changed *)
(* lags since, and the pins keep the two packages in.                      *)
(***************************************************************************)

\* Who may hold what, by where a session is.
LockInv ==
  /\ \A c \in Clients : pc[c] \in {"pin", "insert", "delete"} => graphLock = c
  /\ \A c \in Clients, w \in Packages : c \in pins[w] => pc[c] \in {"pin", "insert"}
  /\ \A c \in Clients, w \in Packages :
        rowLock[w] = c => pc[c] \in {"lockRows", "purge"} /\ pins[w] = {}

\* What a session knows about the request it works on.
RequestInv ==
  /\ \A c \in Clients : pc[c] \in {"lockToCreate", "pin", "insert"} => wanted[c] \in Link
  /\ \A c \in Clients, w \in Packages :
        pc[c] = "purge" /\ w \in doomed[c] => rowLock[w] = c

\* A validated link is still valid when it is inserted.
ValidatedInv ==
  \A c \in Clients : pc[c] = "insert" =>
    /\ Valid(wanted[c], links)
    /\ \A w \in Ends(c) : w \in packages /\ c \in pins[w]

IInv == TypeOK /\ LockInv /\ RequestInv /\ ValidatedInv

-----------------------------------------------------------------------------
(***************************************************************************)
(* Why an accepted link closes no cycle.                                   *)
(***************************************************************************)

\* M says no more than L does about what comes before what.
Within(M, L) == \A k \in M : \E l \in L : Plan!SamePair(k, l)

\* Forgetting links, or changing lags, opens no path.
LEMMA WithinClosed ==
  ASSUME NEW L, NEW M, Within(M, L), NEW C \in SUBSET Packages, Plan!Closed(C, L)
  PROVE  Plan!Closed(C, M)
BY DEF Within, Plan!Closed, Plan!SamePair

\* So a pair of packages that was apart stays apart ...
LEMMA WithinReaches ==
  ASSUME NEW L, NEW M, Within(M, L), NEW m, NEW n, ~Plan!Reaches(m, n, L)
  PROVE  ~Plan!Reaches(m, n, M)
BY WithinClosed DEF Plan!Reaches

\* ... and a plan without cycles stays without cycles.
LEMMA WithinAcyclic ==
  ASSUME NEW L, NEW M, Within(M, L), Plan!Acyclic(L)
  PROVE  Plan!Acyclic(M)
<1> SUFFICES ASSUME NEW S \in SUBSET Packages, S # {}
             PROVE  \E n \in S : \A k \in M : k.predecessor = n => k.successor \notin S
  BY DEF Plan!Acyclic
<1>1. PICK n \in S : \A l \in L : l.predecessor = n => l.successor \notin S
  BY DEF Plan!Acyclic
<1> QED  BY <1>1 DEF Within, Plan!SamePair

\* The accepted link l enters a closed set C that its predecessor lies outside
\* of.  A group that meets C has its end inside C, where l does not start; a
\* group that misses C has its end where l does not arrive.
LEMMA AcceptedLinkAcyclic ==
  ASSUME NEW L, NEW l, Plan!Acyclic(L), ~Plan!WouldCreateCycle(l, L)
  PROVE  Plan!Acyclic(L \cup {l})
<1>1. PICK C \in SUBSET Packages :
        l.successor \in C /\ Plan!Closed(C, L) /\ l.predecessor \notin C
  BY DEF Plan!WouldCreateCycle, Plan!Reaches
<1> SUFFICES ASSUME NEW S \in SUBSET Packages, S # {}
             PROVE  \E n \in S : \A k \in L \cup {l} :
                       k.predecessor = n => k.successor \notin S
  BY DEF Plan!Acyclic
<1>2. CASE S \cap C # {}
  <2>1. PICK n \in S \cap C : \A k \in L : k.predecessor = n => k.successor \notin S \cap C
    BY <1>2 DEF Plan!Acyclic
  <2>2. \A k \in L : k.predecessor = n => k.successor \in C
    BY <1>1, <2>1 DEF Plan!Closed
  <2> QED  BY <1>1, <2>1, <2>2
<1>3. CASE S \cap C = {}
  <2>1. PICK n \in S : \A k \in L : k.predecessor = n => k.successor \notin S
    BY DEF Plan!Acyclic
  <2> QED  BY <1>1, <1>3, <2>1
<1> QED  BY <1>2, <1>3

-----------------------------------------------------------------------------
\* The tables of the plan keep their types.
THEOREM PlanTyped ==
  ASSUME Plan!Sound PROVE Plan!Spec => []Plan!TypeOK
<1>1. Plan!Init => Plan!TypeOK
  BY DEF Plan!Sound, Plan!Init, Plan!TypeOK
<1>2. Plan!TypeOK /\ [Plan!Next]_<<packages, links>> => Plan!TypeOK'
  BY DEF Plan!TypeOK, Plan!Next, Plan!AddLink, Plan!RemoveLink, Plan!SetLag,
         Plan!RemovePackages, Plan!Link
<1> QED  BY <1>1, <1>2, PTL DEF Plan!Spec

\* The plan never has a cycle: NoCycle is inductive by itself.
THEOREM PlanHasNoCycle ==
  ASSUME Plan!Sound PROVE Plan!Spec => []Plan!NoCycle
<1>1. Plan!Init => Plan!NoCycle
  BY DEF Plan!Sound, Plan!Init, Plan!NoCycle
<1>2. Plan!NoCycle /\ [Plan!Next]_<<packages, links>> => Plan!NoCycle'
  <2> SUFFICES ASSUME Plan!NoCycle, [Plan!Next]_<<packages, links>>
               PROVE  Plan!Acyclic(links')
    BY DEF Plan!NoCycle, Plan!Acyclic
  <2>1. CASE Within(links', links)
    BY <2>1, WithinAcyclic DEF Plan!NoCycle
  <2>2. ASSUME NEW l \in Plan!Link, Plan!AddLink(l) PROVE Plan!Acyclic(links')
    BY <2>2, AcceptedLinkAcyclic DEF Plan!NoCycle, Plan!AddLink
  <2>3. ASSUME NEW l \in Plan!Link, Plan!RemoveLink(l) PROVE Within(links', links)
    BY <2>3 DEF Plan!RemoveLink, Within, Plan!SamePair
  <2>4. ASSUME NEW l \in Plan!Link, NEW days \in Lags, Plan!SetLag(l, days)
        PROVE  Within(links', links)
    BY <2>4 DEF Plan!SetLag, Within, Plan!SamePair, Plan!Link
  <2>5. ASSUME NEW W \in SUBSET Packages, Plan!RemovePackages(W)
        PROVE  Within(links', links)
    BY <2>5 DEF Plan!RemovePackages, Within, Plan!SamePair
  <2>6. CASE UNCHANGED <<packages, links>>
    BY <2>6 DEF Plan!NoCycle
  <2> QED  BY <2>1, <2>2, <2>3, <2>4, <2>5, <2>6 DEF Plan!Next
<1> QED  BY <1>1, <1>2, PTL DEF Plan!Spec

\* No link outlives the packages it joins.
THEOREM PlanLinksAttached ==
  ASSUME Plan!Sound PROVE Plan!Spec => []Plan!LinksAttached
<1>1. Plan!Init => Plan!LinksAttached
  BY DEF Plan!Sound, Plan!Init, Plan!LinksAttached, Plan!Link
<1>2. Plan!LinksAttached /\ [Plan!Next]_<<packages, links>> => Plan!LinksAttached'
  BY DEF Plan!LinksAttached, Plan!Next, Plan!AddLink, Plan!RemoveLink, Plan!SetLag,
         Plan!RemovePackages, Plan!Link, Plan!Touches
<1> QED  BY <1>1, <1>2, PTL DEF Plan!Spec

-----------------------------------------------------------------------------
\* Losing links and changing lags keeps a valid link valid.
LEMMA ValidWithin ==
  ASSUME NEW L, NEW M, Within(M, L), NEW l, Valid(l, L)
  PROVE  Valid(l, M)
<1>1. ~Plan!WouldCreateCycle(l, M)
  BY WithinReaches, PlanAssumption DEF Plan!Sound, Valid, Plan!WouldCreateCycle, Link
<1>2. \A k \in M : ~Plan!SamePair(k, l)
  BY DEF Valid, Within, Plan!SamePair
<1> QED  BY <1>1, <1>2 DEF Valid


-----------------------------------------------------------------------------
\* The invariant holds at the start.
THEOREM InitHolds == Init => IInv
BY PlanAssumption, ClientsAssumption, BoundAssumption
   DEF Plan!Sound, Init, Plan!Init, IInv, TypeOK, Plan!TypeOK, LockInv, RequestInv, ValidatedInv, Link

\* Each action keeps the types; only Insert needs more than the types for it.
LEMMA TypeStep == IInv /\ [Next]_vars => TypeOK'
<1> SUFFICES ASSUME IInv, [Next]_vars PROVE TypeOK'
  OBVIOUS
<1> USE ClientsAssumption, BoundAssumption DEF IInv, TypeOK, Plan!TypeOK
<1>1. ASSUME NEW c \in Clients, NEW l \in Link, RequestCreate(c, l) PROVE TypeOK'
  BY <1>1 DEF RequestCreate, Start, tables, locks
<1>2. ASSUME NEW c \in Clients, RequestDelete(c) PROVE TypeOK'
  BY <1>2 DEF RequestDelete, Start, tables, locks, local
<1>3. ASSUME NEW c \in Clients, NEW l \in Link, NEW days \in Lags, UpdateLag(c, l, days)
      PROVE  TypeOK'
  <2>1. [l EXCEPT !.lag = days] \in Link
    BY DEF Link, Plan!Link
  <2> QED  BY <1>3, <2>1 DEF UpdateLag, Start, locks, local, Link
<1>4. ASSUME NEW c \in Clients, NEW W \in SUBSET Packages, RequestPackageDeletion(c, W)
      PROVE  TypeOK'
  BY <1>4 DEF RequestPackageDeletion, Start, tables, locks
<1>5. ASSUME NEW c \in Clients, LockGraph(c, "lockToCreate", "pin") PROVE TypeOK'
  BY <1>5 DEF LockGraph, Step, tables, local
<1>6. ASSUME NEW c \in Clients, LockGraph(c, "lockToDelete", "delete") PROVE TypeOK'
  BY <1>6 DEF LockGraph, Step, tables, local
<1>7. ASSUME NEW c \in Clients, NEW w \in Packages, PinEnd(c, w) PROVE TypeOK'
  BY <1>7 DEF PinEnd, tables, local
<1>8. ASSUME NEW c \in Clients, NEW w \in Packages, LockRow(c, w) PROVE TypeOK'
  BY <1>8 DEF LockRow, tables, local
<1>9. ASSUME NEW c \in Clients, Validate(c) PROVE TypeOK'
  BY <1>9 DEF Validate, Step, tables, locks, local
<1>10. ASSUME NEW c \in Clients, Insert(c) PROVE TypeOK'
  BY <1>10 DEF Insert, Step, EndTransaction, RequestInv, Link
<1>11. ASSUME NEW c \in Clients, NEW l \in Link, Delete(c, l) PROVE TypeOK'
  BY <1>11 DEF Delete, Step, EndTransaction
<1>12. ASSUME NEW c \in Clients, SelectLinks(c) PROVE TypeOK'
  BY <1>12 DEF SelectLinks, Step, tables, locks, Link
<1>13. ASSUME NEW c \in Clients, Purge(c) PROVE TypeOK'
  BY <1>13 DEF Purge, Step, EndTransaction
<1>14. ASSUME NEW c \in Clients, Abort(c) PROVE TypeOK'
  BY <1>14 DEF Abort, EndTransaction, tables
<1>15. CASE UNCHANGED vars
  BY <1>15 DEF vars, tables, locks, local
<1> QED
  BY <1>1, <1>2, <1>3, <1>4, <1>5, <1>6, <1>7, <1>8, <1>9, <1>10, <1>11, <1>12,
     <1>13, <1>14, <1>15 DEF Next, Work, Refuse

\* Locks: a session takes one only on the way to the state that holds it, and
\* every end of a transaction returns all of them.
LEMMA LockStep == IInv /\ [Next]_vars => LockInv'
<1> SUFFICES ASSUME IInv, [Next]_vars PROVE LockInv'
  OBVIOUS
<1> USE ClientsAssumption DEF IInv, TypeOK, LockInv
<1>1. ASSUME NEW c \in Clients, NEW l \in Link, RequestCreate(c, l) PROVE LockInv'
  BY <1>1 DEF RequestCreate, Start, locks
<1>2. ASSUME NEW c \in Clients, RequestDelete(c) PROVE LockInv'
  BY <1>2 DEF RequestDelete, Start, locks
<1>3. ASSUME NEW c \in Clients, NEW l \in Link, NEW days \in Lags, UpdateLag(c, l, days)
      PROVE  LockInv'
  BY <1>3 DEF UpdateLag, Start, locks
<1>4. ASSUME NEW c \in Clients, NEW W \in SUBSET Packages, RequestPackageDeletion(c, W)
      PROVE  LockInv'
  BY <1>4 DEF RequestPackageDeletion, Start, locks
<1>5. ASSUME NEW c \in Clients, LockGraph(c, "lockToCreate", "pin") PROVE LockInv'
  BY <1>5 DEF LockGraph, Step
<1>6. ASSUME NEW c \in Clients, LockGraph(c, "lockToDelete", "delete") PROVE LockInv'
  BY <1>6 DEF LockGraph, Step
<1>7. ASSUME NEW c \in Clients, NEW w \in Packages, PinEnd(c, w) PROVE LockInv'
  BY <1>7 DEF PinEnd
<1>8. ASSUME NEW c \in Clients, NEW w \in Packages, LockRow(c, w) PROVE LockInv'
  <2>1. pins[w] = {}
    BY <1>8 DEF LockRow
  <2> QED  BY <1>8, <2>1 DEF LockRow
<1>9. ASSUME NEW c \in Clients, Validate(c) PROVE LockInv'
  BY <1>9 DEF Validate, Step, locks
<1>10. ASSUME NEW c \in Clients, Insert(c) PROVE LockInv'
  BY <1>10 DEF Insert, Step, EndTransaction
<1>11. ASSUME NEW c \in Clients, NEW l \in Link, Delete(c, l) PROVE LockInv'
  BY <1>11 DEF Delete, Step, EndTransaction
<1>12. ASSUME NEW c \in Clients, SelectLinks(c) PROVE LockInv'
  BY <1>12 DEF SelectLinks, Step, locks
<1>13. ASSUME NEW c \in Clients, Purge(c) PROVE LockInv'
  BY <1>13 DEF Purge, Step, EndTransaction
<1>14. ASSUME NEW c \in Clients, Abort(c) PROVE LockInv'
  BY <1>14 DEF Abort, EndTransaction
<1>15. CASE UNCHANGED vars
  BY <1>15 DEF vars, locks
<1> QED
  BY <1>1, <1>2, <1>3, <1>4, <1>5, <1>6, <1>7, <1>8, <1>9, <1>10, <1>11, <1>12,
     <1>13, <1>14, <1>15 DEF Next, Work, Refuse

\* Requests: the link to create and the packages to delete are fixed while the
\* session works on them, and a deletion gives up no row lock before it ends.
LEMMA RequestStep == IInv /\ [Next]_vars => RequestInv'
<1> SUFFICES ASSUME IInv, [Next]_vars PROVE RequestInv'
  OBVIOUS
<1> USE ClientsAssumption DEF IInv, TypeOK, RequestInv
<1>1. ASSUME NEW c \in Clients, NEW l \in Link, RequestCreate(c, l) PROVE RequestInv'
  BY <1>1 DEF RequestCreate, Start, locks
<1>2. ASSUME NEW c \in Clients, RequestDelete(c) PROVE RequestInv'
  BY <1>2 DEF RequestDelete, Start, locks, local
<1>3. ASSUME NEW c \in Clients, NEW l \in Link, NEW days \in Lags, UpdateLag(c, l, days)
      PROVE  RequestInv'
  BY <1>3 DEF UpdateLag, Start, locks, local
<1>4. ASSUME NEW c \in Clients, NEW W \in SUBSET Packages, RequestPackageDeletion(c, W)
      PROVE  RequestInv'
  BY <1>4 DEF RequestPackageDeletion, Start, locks
<1>5. ASSUME NEW c \in Clients, LockGraph(c, "lockToCreate", "pin") PROVE RequestInv'
  BY <1>5 DEF LockGraph, Step, local
<1>6. ASSUME NEW c \in Clients, LockGraph(c, "lockToDelete", "delete") PROVE RequestInv'
  BY <1>6 DEF LockGraph, Step, local
<1>7. ASSUME NEW c \in Clients, NEW w \in Packages, PinEnd(c, w) PROVE RequestInv'
  BY <1>7 DEF PinEnd, local
<1>8. ASSUME NEW c \in Clients, NEW w \in Packages, LockRow(c, w) PROVE RequestInv'
  BY <1>8 DEF LockRow, local
<1>9. ASSUME NEW c \in Clients, Validate(c) PROVE RequestInv'
  BY <1>9 DEF Validate, Step, locks, local
<1>10. ASSUME NEW c \in Clients, Insert(c) PROVE RequestInv'
  BY <1>10 DEF Insert, Step, EndTransaction
<1>11. ASSUME NEW c \in Clients, NEW l \in Link, Delete(c, l) PROVE RequestInv'
  BY <1>11 DEF Delete, Step, EndTransaction
<1>12. ASSUME NEW c \in Clients, SelectLinks(c) PROVE RequestInv'
  BY <1>12 DEF SelectLinks, Step, locks, Locked
<1>13. ASSUME NEW c \in Clients, Purge(c) PROVE RequestInv'
  BY <1>13 DEF Purge, Step, EndTransaction
<1>14. ASSUME NEW c \in Clients, Abort(c) PROVE RequestInv'
  BY <1>14 DEF Abort, EndTransaction
<1>15. CASE UNCHANGED vars
  BY <1>15 DEF vars, locks, local
<1> QED
  BY <1>1, <1>2, <1>3, <1>4, <1>5, <1>6, <1>7, <1>8, <1>9, <1>10, <1>11, <1>12,
     <1>13, <1>14, <1>15 DEF Next, Work, Refuse

\* A session that has validated stays validated through a step of another one,
\* as long as the step adds no link and leaves both packages in place.
LEMMA StaysValidated ==
  ASSUME ValidatedInv, NEW d \in Clients, pc[d] = "insert", wanted'[d] = wanted[d],
         Within(links', links),
         \A w \in Ends(d) : w \in packages' /\ d \in pins'[w]
  PROVE  /\ Valid(wanted'[d], links')
         /\ \A w \in {wanted'[d].predecessor, wanted'[d].successor} :
               w \in packages' /\ d \in pins'[w]
<1>1. Valid(wanted[d], links')
  BY ValidWithin DEF ValidatedInv
<1> QED  BY <1>1 DEF Ends

\* Other sessions that are about to insert: none while this one holds the graph
\* lock; pinned packages are in nobody's deletion.
LEMMA ValidatedStep == IInv /\ [Next]_vars => ValidatedInv'
<1> SUFFICES ASSUME IInv, [Next]_vars, NEW d \in Clients, pc'[d] = "insert"
             PROVE  /\ Valid(wanted'[d], links')
                    /\ \A w \in {wanted'[d].predecessor, wanted'[d].successor} :
                          w \in packages' /\ d \in pins'[w]
  BY DEF ValidatedInv, Ends, Valid
<1> DEFINE Kept == /\ pc[d] = "insert" /\ wanted'[d] = wanted[d]
                   /\ Within(links', links)
                   /\ \A w \in Ends(d) : w \in packages' /\ d \in pins'[w]
<1>0. CASE Kept
  BY <1>0, StaysValidated DEF IInv
<1>s. Within(links, links)
  BY DEF Within, Plan!SamePair
<1> USE ClientsAssumption DEF IInv, TypeOK
<1>1. ASSUME NEW c \in Clients, NEW l \in Link, RequestCreate(c, l) PROVE Kept
  BY <1>1, <1>s DEF RequestCreate, Start, tables, locks, ValidatedInv
<1>2. ASSUME NEW c \in Clients, RequestDelete(c) PROVE Kept
  BY <1>2, <1>s DEF RequestDelete, Start, tables, locks, local, ValidatedInv
<1>3. ASSUME NEW c \in Clients, NEW l \in Link, NEW days \in Lags, UpdateLag(c, l, days)
      PROVE  Kept
  <2>1. Within(links', links)
    BY <1>3 DEF UpdateLag, Within, Plan!SamePair, Link, Plan!Link
  <2> QED  BY <1>3, <2>1 DEF UpdateLag, Start, locks, local, ValidatedInv
<1>4. ASSUME NEW c \in Clients, NEW W \in SUBSET Packages, RequestPackageDeletion(c, W)
      PROVE  Kept
  BY <1>4, <1>s DEF RequestPackageDeletion, Start, tables, locks, ValidatedInv
<1>5. ASSUME NEW c \in Clients, LockGraph(c, "lockToCreate", "pin") PROVE Kept
  BY <1>5, <1>s DEF LockGraph, Step, tables, local, ValidatedInv
<1>6. ASSUME NEW c \in Clients, LockGraph(c, "lockToDelete", "delete") PROVE Kept
  BY <1>6, <1>s DEF LockGraph, Step, tables, local, ValidatedInv
<1>7. ASSUME NEW c \in Clients, NEW w \in Packages, PinEnd(c, w) PROVE Kept
  <2>1. pc[d] = "insert" /\ wanted'[d] = wanted[d] /\ Within(links', links)
    BY <1>7, <1>s DEF PinEnd, tables, local
  <2>2. \A v \in Packages : pins[v] \subseteq pins'[v]
    BY <1>7 DEF PinEnd
  <2>3. \A v \in Ends(d) : v \in Packages /\ v \in packages' /\ d \in pins[v]
    BY <1>7, <2>1 DEF PinEnd, tables, ValidatedInv, Plan!TypeOK
  <2> QED  BY <2>1, <2>2, <2>3
<1>8. ASSUME NEW c \in Clients, NEW w \in Packages, LockRow(c, w) PROVE Kept
  BY <1>8, <1>s DEF LockRow, tables, local, ValidatedInv
<1>9. ASSUME NEW c \in Clients, Validate(c), c # d PROVE Kept
  BY <1>9, <1>s DEF Validate, Step, tables, locks, local, ValidatedInv
<1>10. ASSUME Validate(d)
       PROVE  /\ Valid(wanted'[d], links')
              /\ \A w \in {wanted'[d].predecessor, wanted'[d].successor} :
                    w \in packages' /\ d \in pins'[w]
  BY <1>10 DEF Validate, Step, tables, locks, local, Ends
<1>11. ASSUME NEW c \in Clients, Insert(c) PROVE FALSE
  BY <1>11 DEF Insert, Step, LockInv
<1>12. ASSUME NEW c \in Clients, NEW l \in Link, Delete(c, l) PROVE FALSE
  BY <1>12 DEF Delete, Step, LockInv
<1>13. ASSUME NEW c \in Clients, SelectLinks(c) PROVE Kept
  BY <1>13, <1>s DEF SelectLinks, Step, tables, locks, ValidatedInv
<1>14. ASSUME NEW c \in Clients, Purge(c) PROVE Kept
  <2>1. pc[d] = "insert" /\ c # d /\ wanted'[d] = wanted[d]
    BY <1>14 DEF Purge, Step, EndTransaction
  <2>2. Within(links', links)
    BY <1>14 DEF Purge, Within, Plan!SamePair
  <2>3. \A w \in Ends(d) : w \in Packages /\ w \in packages /\ d \in pins[w]
    BY <2>1 DEF ValidatedInv, Plan!TypeOK
  <2>4. \A w \in Ends(d) : w \notin doomed[c]
    BY <1>14, <2>3 DEF Purge, Step, RequestInv, LockInv
  <2> QED  BY <1>14, <2>1, <2>2, <2>3, <2>4 DEF Purge, EndTransaction
<1>15. ASSUME NEW c \in Clients, Abort(c) PROVE Kept
  <2>1. pc[d] = "insert" /\ c # d /\ wanted'[d] = wanted[d]
    BY <1>15 DEF Abort, EndTransaction
  <2>2. \A w \in Ends(d) : w \in Packages /\ w \in packages /\ d \in pins[w]
    BY <2>1 DEF ValidatedInv, Plan!TypeOK
  <2> QED  BY <1>15, <1>s, <2>1, <2>2 DEF Abort, EndTransaction, tables
<1>16. ASSUME UNCHANGED vars PROVE Kept
  BY <1>16, <1>s DEF vars, tables, locks, local, ValidatedInv
<1> QED
  BY <1>0, <1>1, <1>2, <1>3, <1>4, <1>5, <1>6, <1>7, <1>8, <1>9, <1>10, <1>11, <1>12,
     <1>13, <1>14, <1>15, <1>16 DEF Next, Work, Refuse

\* The inductive invariant holds in every reachable state.
THEOREM Invariance == Spec => []IInv
<1>1. IInv /\ [Next]_vars => IInv'
  BY TypeStep, LockStep, RequestStep, ValidatedStep DEF IInv
<1> QED  BY InitHolds, <1>1, PTL DEF Spec

\* Every table, lock and local keeps its shape.
THEOREM Typed == Spec => []TypeOK
BY Invariance, PTL DEF IInv

-----------------------------------------------------------------------------
\* The writes are serializable: each step commits one change of the plan or none.
THEOREM Refinement == Spec => ImplementsPlan
<1>1. Init => Plan!Init
  BY DEF Init
<1>2. IInv /\ [Next]_vars => [Plan!Next]_<<packages, links>>
  <2> SUFFICES ASSUME IInv, [Next]_vars, ~UNCHANGED <<packages, links>>
               PROVE  Plan!Next
    OBVIOUS
  <2>1. ASSUME NEW c \in Clients, Insert(c) PROVE Plan!Next
    <3>1. wanted[c] \in Link /\ pc[c] = "insert"
      BY <2>1 DEF Insert, Step, IInv, RequestInv
    <3>2. Plan!AddLink(wanted[c])
      BY <2>1, <3>1 DEF Insert, Step, IInv, ValidatedInv, Valid, Ends, Plan!AddLink
    <3> QED  BY <3>1, <3>2 DEF Plan!Next, Link
  <2>2. ASSUME NEW c \in Clients, NEW l \in Link, Delete(c, l) PROVE Plan!Next
    <3>1. Plan!RemoveLink(l)
      BY <2>2 DEF Delete, Plan!RemoveLink
    <3> QED  BY <3>1 DEF Plan!Next, Link
  <2>3. ASSUME NEW c \in Clients, NEW l \in Link, NEW days \in Lags, UpdateLag(c, l, days)
        PROVE  Plan!Next
    <3>1. Plan!SetLag(l, days)
      BY <2>3 DEF UpdateLag, Plan!SetLag
    <3> QED  BY <3>1 DEF Plan!Next, Link
  <2>4. ASSUME NEW c \in Clients, Purge(c) PROVE Plan!Next
    <3>1. Plan!RemovePackages(doomed[c])
      BY <2>4 DEF Purge, Plan!RemovePackages
    <3>2. doomed[c] \in SUBSET Packages
      BY DEF IInv, TypeOK
    <3> QED  BY <3>1, <3>2 DEF Plan!Next
  <2> QED
    BY <2>1, <2>2, <2>3, <2>4
       DEF Next, Work, Refuse, vars, tables, RequestCreate, RequestDelete,
           RequestPackageDeletion, LockGraph, PinEnd, LockRow, Validate, SelectLinks, Abort
<1> QED  BY <1>1, <1>2, Invariance, PTL DEF Spec, ImplementsPlan, Plan!Spec

\* No interleaving commits a cycle: inherited from the plan.
THEOREM NeverACycle == Spec => []NoCycle
<1>1. Plan!Spec => []Plan!NoCycle
  BY PlanHasNoCycle, PlanAssumption DEF Plan!Sound, Link
<1> QED  BY <1>1, Refinement, PTL DEF ImplementsPlan, NoCycle

-----------------------------------------------------------------------------
\* The silent cascade finds nothing: a link at a locked package was either there
\* when the links were read, or is inserted by a session that pins the package.
THEOREM PurgeAudited == Spec => []EveryPurgedLinkIsAudited
<1>1. Init => EveryPurgedLinkIsAudited
  BY DEF Init, EveryPurgedLinkIsAudited
<1>2. IInv /\ EveryPurgedLinkIsAudited /\ [Next]_vars => EveryPurgedLinkIsAudited'
  <2> SUFFICES ASSUME IInv, EveryPurgedLinkIsAudited, [Next]_vars,
                      NEW d \in Clients, pc'[d] = "purge",
                      NEW l \in links', Plan!Touches(l, doomed'[d])
               PROVE  \E k \in selected'[d] : Plan!SamePair(k, l)
    BY DEF EveryPurgedLinkIsAudited, Plan!Touches, Plan!SamePair
  <2> USE ClientsAssumption DEF IInv, TypeOK
  <2> DEFINE Waits == pc[d] = "purge" /\ doomed'[d] = doomed[d] /\ selected'[d] = selected[d]
  <2>1. ASSUME Waits, Within(links', links)
        PROVE  \E k \in selected'[d] : Plan!SamePair(k, l)
    BY <2>1 DEF EveryPurgedLinkIsAudited, Within, Plan!SamePair, Plan!Touches
  <2>2. ASSUME NEW c \in Clients, Insert(c)
        PROVE  \E k \in selected'[d] : Plan!SamePair(k, l)
    <3>1. Waits /\ pc[c] = "insert"
      BY <2>2 DEF Insert, Step, EndTransaction
    <3>2. CASE l \in links
      BY <3>1, <3>2 DEF EveryPurgedLinkIsAudited
    <3>3. CASE l = wanted[c]
      <4>1. \A w \in Ends(c) : w \in Packages /\ c \in pins[w]
        BY <3>1 DEF ValidatedInv, Plan!TypeOK
      <4>2. \A w \in Ends(c) : w \notin doomed[d]
        BY <3>1, <4>1 DEF RequestInv, LockInv
      <4> QED  BY <3>1, <3>3, <4>2 DEF Ends, Plan!Touches
    <3> QED  BY <2>2, <3>2, <3>3 DEF Insert
  <2>3. ASSUME SelectLinks(d)
        PROVE  \E k \in selected'[d] : Plan!SamePair(k, l)
    BY <2>3 DEF SelectLinks, Step, tables, Plan!Touches, Plan!SamePair
  <2>4. ASSUME NEW c \in Clients, SelectLinks(c), c # d
        PROVE  Waits /\ Within(links', links)
    BY <2>4 DEF SelectLinks, Step, tables, Within, Plan!SamePair
  <2>5. ASSUME NEW c \in Clients, NEW k \in Link, RequestCreate(c, k)
        PROVE  Waits /\ Within(links', links)
    BY <2>5 DEF RequestCreate, Start, tables, Within, Plan!SamePair
  <2>6. ASSUME NEW c \in Clients, RequestDelete(c)
        PROVE  Waits /\ Within(links', links)
    BY <2>6 DEF RequestDelete, Start, tables, local, Within, Plan!SamePair
  <2>7. ASSUME NEW c \in Clients, NEW k \in Link, NEW days \in Lags, UpdateLag(c, k, days)
        PROVE  Waits /\ Within(links', links)
    BY <2>7 DEF UpdateLag, Start, local, Within, Plan!SamePair, Link, Plan!Link
  <2>8. ASSUME NEW c \in Clients, NEW W \in SUBSET Packages, RequestPackageDeletion(c, W)
        PROVE  Waits /\ Within(links', links)
    BY <2>8 DEF RequestPackageDeletion, Start, tables, Within, Plan!SamePair
  <2>9. ASSUME NEW c \in Clients,
               LockGraph(c, "lockToCreate", "pin") \/ LockGraph(c, "lockToDelete", "delete")
        PROVE  Waits /\ Within(links', links)
    BY <2>9 DEF LockGraph, Step, tables, local, Within, Plan!SamePair
  <2>10. ASSUME NEW c \in Clients, NEW w \in Packages, PinEnd(c, w) \/ LockRow(c, w)
         PROVE  Waits /\ Within(links', links)
    BY <2>10 DEF PinEnd, LockRow, tables, local, Within, Plan!SamePair
  <2>11. ASSUME NEW c \in Clients, Validate(c)
         PROVE  Waits /\ Within(links', links)
    BY <2>11 DEF Validate, Step, tables, local, Within, Plan!SamePair
  <2>12. ASSUME NEW c \in Clients, NEW k \in Link, Delete(c, k)
         PROVE  Waits /\ Within(links', links)
    BY <2>12 DEF Delete, Step, EndTransaction, Within, Plan!SamePair
  <2>13. ASSUME NEW c \in Clients, Purge(c)
         PROVE  Waits /\ Within(links', links)
    BY <2>13 DEF Purge, Step, EndTransaction, Within, Plan!SamePair
  <2>14. ASSUME NEW c \in Clients, Abort(c)
         PROVE  Waits /\ Within(links', links)
    BY <2>14 DEF Abort, EndTransaction, tables, Within, Plan!SamePair
  <2>15. ASSUME UNCHANGED vars
         PROVE  Waits /\ Within(links', links)
    BY <2>15 DEF vars, tables, local, Within, Plan!SamePair
  <2> HIDE DEF Waits
  <2> QED
    BY <2>1, <2>2, <2>3, <2>4, <2>5, <2>6, <2>7, <2>8, <2>9, <2>10, <2>11, <2>12,
       <2>13, <2>14, <2>15 DEF Next, Work, Refuse
<1> QED  BY <1>1, <1>2, Invariance, PTL DEF Spec

-----------------------------------------------------------------------------
(***************************************************************************)
(* Whatever sessions do at once, the folders stay a tree, for any number of*)
(* folders, projects and sessions.  Two ideas carry the proof.  The holder *)
(* of the graph lock is the only one that changes parents of folders that  *)
(* exist, so what it checked stays true until it writes.  And a folder not *)
(* beneath another is kept apart from it by a set of folders that parents  *)
(* never leave, from which each write builds the set it needs.             *)
(***************************************************************************)

\* Sessions between taking the graph lock and their commit.
Holding(c) == filingPc[c] \in {"create", "insert", "move", "place", "delete", "unfile"}
FoldersLockInv == \A c \in Filers : Holding(c) => folderLock = c

\* A session's request is of the kind its step is about.
AskInv == \A c \in Filers :
  /\ filingPc[c] \in {"lockToCreate", "create", "insert"} => ask[c] \in Asks
  /\ filingPc[c] \in {"lockToMove", "move", "place", "lockToDelete", "delete", "unfile"}
       => ask[c] \in Asks /\ ask[c].folder \in Folders
  /\ filingPc[c] = "file" => ask[c] \in Filing

FilingInv == FilingTypeOK /\ FoldersLockInv /\ AskInv /\ FoldersNoCycle /\ ChecksStayTrue

-----------------------------------------------------------------------------
(***************************************************************************)
(* Trees.                                                                  *)
(***************************************************************************)

\* A folder nobody is beneath can be hung anywhere but under itself.
LEMMA LeafAcyclic ==
  ASSUME NEW up \in [Folders -> Places \cup NoRow], Acyclic(up),
         NEW f \in Folders, NEW to, to # f, \A g \in Folders : up[g] # f
  PROVE  Acyclic([up EXCEPT ![f] = to])
<1> DEFINE new == [up EXCEPT ![f] = to]
<1> SUFFICES ASSUME NEW S \in SUBSET Folders, S # {} PROVE \E g \in S : new[g] \notin S
  BY DEF Acyclic
<1>1. CASE S = {f}
  BY <1>1
<1>2. CASE S # {f}
  <2>1. PICK g \in S \ {f} : up[g] \notin S \ {f}
    BY <1>2 DEF Acyclic
  <2> QED  BY <2>1
<1> QED  BY <1>1, <1>2

\* A folder that goes to the top level closes no cycle.
LEMMA TopAcyclic ==
  ASSUME NEW up \in [Folders -> Places \cup NoRow], Acyclic(up), NEW f \in Folders
  PROVE  Acyclic([up EXCEPT ![f] = Top])
<1> DEFINE new == [up EXCEPT ![f] = Top]
<1> SUFFICES ASSUME NEW S \in SUBSET Folders, S # {} PROVE \E g \in S : new[g] \notin S
  BY DEF Acyclic
<1>1. PICK g \in S : up[g] \notin S
  BY DEF Acyclic
<1> QED  BY <1>1, FilingValuesAssumption

\* C holds the new parent and what is above it, and f is outside.  A group
\* that meets C has its end in C, where nothing moved; one that does not has an
\* end whose parent is outside, if it is f then because that parent is in C.
LEMMA MovedAcyclic ==
  ASSUME NEW up \in [Folders -> Places \cup NoRow], Acyclic(up),
         NEW f \in Folders, NEW to \in Folders, ~Beneath(to, f, up)
  PROVE  Acyclic([up EXCEPT ![f] = to])
<1> DEFINE new == [up EXCEPT ![f] = to]
<1> SUFFICES ASSUME NEW S \in SUBSET Folders, S # {} PROVE \E g \in S : new[g] \notin S
  BY DEF Acyclic
<1>1. PICK C \in SUBSET Folders : to \in C /\ Closed(C, up) /\ f \notin C
  BY DEF Beneath
<1>2. CASE S \cap C # {}
  <2>1. PICK g \in S \cap C : up[g] \notin S \cap C
    BY <1>2 DEF Acyclic
  <2>2. up[g] \notin S
    BY <1>1, <2>1 DEF Closed
  <2> QED  BY <1>1, <2>1, <2>2
<1>3. CASE S \cap C = {}
  <2>1. PICK g \in S : up[g] \notin S
    BY DEF Acyclic
  <2> QED  BY <1>1, <1>3, <2>1
<1> QED  BY <1>2, <1>3

\* The tree without d, whose sub-folders have moved up to its parent.
Without(up, d) ==
  [g \in Folders |-> IF up[g] = d THEN up[d] ELSE IF g = d THEN Gone ELSE up[g]]

\* In an acyclic tree no folder is its own parent.
LEMMA NotItsOwnParent ==
  ASSUME NEW up, Acyclic(up), NEW d \in Folders
  PROVE  up[d] # d
<1>1. PICK g \in {d} : up[g] \notin {d}
  BY DEF Acyclic
<1> QED  BY <1>1

\* Lifting sub-folders over d shortens chains and closes none.
LEMMA WithoutAcyclic ==
  ASSUME NEW up \in [Folders -> Places \cup NoRow], Acyclic(up), NEW d \in Folders
  PROVE  Acyclic(Without(up, d))
<1> SUFFICES ASSUME NEW S \in SUBSET Folders, S # {}
             PROVE  \E g \in S : Without(up, d)[g] \notin S
  BY DEF Acyclic
<1>1. up[d] # d
  BY NotItsOwnParent
<1>2. CASE S = {d}
  BY <1>1, <1>2, FilingValuesAssumption DEF Without
<1>3. CASE S \ {d} # {}
  <2>1. PICK g \in S \cup {d} : up[g] \notin S \cup {d}
    BY DEF Acyclic
  <2>2. CASE g # d
    BY <2>1, <2>2 DEF Without
  <2>3. CASE g = d
    <3>1. PICK h \in S \ {d} : up[h] \notin S \ {d}
      BY <1>3 DEF Acyclic
    <3> QED  BY <2>1, <2>3, <3>1 DEF Without
  <2> QED  BY <2>2, <2>3
<1> QED  BY <1>2, <1>3

\* A set that parents do not leave in one tree gives one for the other tree
\* that differs from it in d at most.
LEMMA WithoutKeeps ==
  ASSUME NEW up \in [Folders -> Places \cup NoRow], Acyclic(up), NEW d \in Folders,
         NEW f \in Folders \ {d}, NEW g \in Folders \ {d}
  PROVE  Beneath(f, g, Without(up, d)) <=> Beneath(f, g, up)
<1>0. up[d] # d
  BY NotItsOwnParent
<1>1. ASSUME NEW C \in SUBSET Folders, Closed(C, up) PROVE Closed(C, Without(up, d))
  BY <1>1, FilingValuesAssumption DEF Closed, Without
<1>2. ASSUME NEW C \in SUBSET Folders, Closed(C, Without(up, d))
      PROVE  Closed(C \cup {d}, up) \/ Closed(C \ {d}, up)
  <2>1. CASE \E h \in C : up[h] = d
    BY <1>0, <1>2, <2>1 DEF Closed, Without
  <2>2. CASE \A h \in C : up[h] # d
    BY <1>2, <2>2 DEF Closed, Without
  <2> QED  BY <2>1, <2>2
<1>3. Beneath(f, g, Without(up, d)) => Beneath(f, g, up)
  BY <1>1 DEF Beneath
<1>4. Beneath(f, g, up) => Beneath(f, g, Without(up, d))
  <2> SUFFICES ASSUME Beneath(f, g, up), NEW C \in SUBSET Folders,
                      f \in C, Closed(C, Without(up, d))
               PROVE  g \in C
    BY DEF Beneath
  <2> QED  BY <1>2 DEF Beneath
<1> QED  BY <1>3, <1>4

-----------------------------------------------------------------------------
\* The forms of Acyclic(parent') and of a deletion the steps need.
LEMMA DeletionIsWithout ==
  ASSUME FilingInv, NEW c \in Filers, DeleteFolder(c)
  PROVE  /\ ask[c].folder \in Folders /\ Exists(ask[c].folder)
         /\ parent' = Without(parent, ask[c].folder)
<1>1. filingPc[c] = "unfile"
  BY DEF DeleteFolder, FilingStep
<1>2. ask[c].folder \in Folders
  BY <1>1 DEF FilingInv, AskInv
<1>3. /\ Exists(ask[c].folder) /\ above[c] = parent[ask[c].folder]
      /\ heirs[c] = {g \in Folders : parent[g] = ask[c].folder}
  BY <1>1 DEF FilingInv, ChecksStayTrue, Children
<1>4. parent' = Reparented(c)
  BY DEF DeleteFolder
<1> QED  BY <1>2, <1>3, <1>4 DEF Reparented, Without

-----------------------------------------------------------------------------
\* The invariant of the folders holds at the start.
THEOREM FilingInitHolds == FilingInit => FilingInv
<1> SUFFICES ASSUME FilingInit PROVE FilingInv
  OBVIOUS
<1>1. parent \in [Folders -> Places \cup NoRow] /\ Acyclic(parent)
      /\ \A f \in Folders : parent[f] \in Folders => parent[parent[f]] \notin NoRow
  BY TreesAssumption DEF FilingInit
<1>2. filed \in [Projects -> Filings]
      /\ \A p \in Projects : filed[p] \in Folders => parent[filed[p]] \notin NoRow
  BY TreesAssumption DEF FilingInit
<1>3. FilingTypeOK
  BY <1>1, <1>2, FilingBoundAssumption DEF FilingInit, FilingTypeOK, Exists, Places
<1>4. FoldersLockInv /\ AskInv /\ ChecksStayTrue
  BY DEF FilingInit, FoldersLockInv, AskInv, ChecksStayTrue, Holding
<1> QED  BY <1>1, <1>3, <1>4 DEF FilingInv, FoldersNoCycle

\* Control: who holds the lock and what the requests say.
LEMMA ControlStep == FilingInv /\ [FilingNext]_filingVars => FoldersLockInv' /\ AskInv'
<1> SUFFICES ASSUME FilingInv, [FilingNext]_filingVars PROVE FoldersLockInv' /\ AskInv'
  OBVIOUS
<1> USE FilingValuesAssumption DEF FilingInv, FilingTypeOK, FoldersLockInv, AskInv, Holding
<1>1. ASSUME NEW c \in Filers, NEW f \in Folders, CreateTopFolder(c, f)
      PROVE  FoldersLockInv' /\ AskInv'
  BY <1>1 DEF CreateTopFolder, StartFiling
<1>2. ASSUME NEW c \in Filers, NEW up \in Folders, RequestFolder(c, up)
      PROVE  FoldersLockInv' /\ AskInv'
  BY <1>2 DEF RequestFolder, StartFiling, Asked, Asks, Places
<1>3. ASSUME NEW c \in Filers, NEW f \in Folders, NEW up \in Places, RequestMove(c, f, up)
      PROVE  FoldersLockInv' /\ AskInv'
  BY <1>3 DEF RequestMove, StartFiling, Asked, Asks, Places
<1>4. ASSUME NEW c \in Filers, NEW f \in Folders, RequestFolderDelete(c, f)
      PROVE  FoldersLockInv' /\ AskInv'
  BY <1>4 DEF RequestFolderDelete, StartFiling, Asked, Asks, Places
<1>5. ASSUME NEW c \in Filers,
             \/ LockFolders(c, "lockToCreate", "create") \/ LockFolders(c, "lockToMove", "move")
             \/ LockFolders(c, "lockToDelete", "delete")
      PROVE  FoldersLockInv' /\ AskInv'
  BY <1>5 DEF LockFolders, FilingStep, filingLocal
<1>6. ASSUME NEW c \in Filers, CheckNew(c) \/ CheckMove(c) \/ SelectContents(c)
      PROVE  FoldersLockInv' /\ AskInv'
  BY <1>6 DEF CheckNew, CheckMove, SelectContents, FilingStep, filingLocal
<1>7. ASSUME NEW c \in Filers, EndFiling(c), filingPc' = [filingPc EXCEPT ![c] = "idle"]
      PROVE  FoldersLockInv' /\ AskInv'
  BY <1>7 DEF EndFiling
<1>8. ASSUME NEW c \in Filers,
             \/ (\E f \in Folders : InsertFolder(c, f)) \/ MoveFolder(c) \/ DeleteFolder(c)
             \/ FileProject(c) \/ AbortFiling(c)
      PROVE  FoldersLockInv' /\ AskInv'
  BY <1>7, <1>8 DEF InsertFolder, MoveFolder, DeleteFolder, FileProject, AbortFiling, FilingStep
<1>9. ASSUME NEW c \in Filers, NEW p \in Projects, NEW up \in Folders \cup {Unfiled},
             CreateProject(c, p, up) \/ DeleteProject(c, p)
      PROVE  FoldersLockInv' /\ AskInv'
  BY <1>9 DEF CreateProject, DeleteProject, StartFiling
<1>10. ASSUME NEW c \in Filers, NEW p \in Projects, NEW up \in Folders \cup {Unfiled},
              LoadProject(c, p, up)
       PROVE  FoldersLockInv' /\ AskInv'
  <2>1. [project |-> p, loaded |-> filed[p], up |-> up] \in Filing
    BY <1>10 DEF LoadProject, Filing, Filings, NoRow
  <2> QED  BY <1>10, <2>1 DEF LoadProject, StartFiling
<1>11. CASE UNCHANGED filingVars
  BY <1>11 DEF filingVars, filingLocal
<1> QED  BY <1>1, <1>2, <1>3, <1>4, <1>5, <1>6, <1>8, <1>9, <1>10, <1>11
     DEF FilingNext, Structural, OfProjects

\* The tree: each write is one of the lemmas above.
LEMMA TreeStep == FilingInv /\ [FilingNext]_filingVars => FoldersNoCycle'
<1> SUFFICES ASSUME FilingInv, [FilingNext]_filingVars PROVE Acyclic(parent')
  BY DEF FoldersNoCycle, Acyclic
<1>0. /\ parent \in [Folders -> Places \cup NoRow] /\ Acyclic(parent)
      /\ \A f, g \in Folders : parent[f] = Unborn => parent[g] # f
  BY DEF FilingInv, FoldersNoCycle, FilingTypeOK, Exists, NoRow
<1>1. ASSUME NEW c \in Filers, NEW f \in Folders, CreateTopFolder(c, f)
      PROVE  Acyclic(parent')
  BY <1>0, <1>1, TopAcyclic DEF CreateTopFolder
<1>2. ASSUME NEW c \in Filers, NEW f \in Folders, InsertFolder(c, f)
      PROVE  Acyclic(parent')
  <2>1. ask[c].up # f
    BY <1>2 DEF InsertFolder, Exists, NoRow
  <2> QED  BY <1>0, <1>2, <2>1, LeafAcyclic DEF InsertFolder
<1>3. ASSUME NEW c \in Filers, MoveFolder(c) PROVE Acyclic(parent')
  <2>1. ask[c].folder \in Folders /\ parent' = [parent EXCEPT ![ask[c].folder] = ask[c].up]
    BY <1>3 DEF MoveFolder, FilingStep, FilingInv, AskInv
  <2>2. CASE ask[c].up = Top
    BY <1>0, <2>1, <2>2, TopAcyclic
  <2>3. CASE ask[c].up # Top
    <3>1. ask[c].up \in Folders /\ ~Beneath(ask[c].up, ask[c].folder, parent)
      BY <1>3, <2>3 DEF MoveFolder, FilingStep, FilingInv, ChecksStayTrue, Exists, WouldCreateCycle
    <3> QED  BY <1>0, <2>1, <3>1, MovedAcyclic
  <2> QED  BY <2>2, <2>3
<1>4. ASSUME NEW c \in Filers, DeleteFolder(c) PROVE Acyclic(parent')
  BY <1>0, <1>4, DeletionIsWithout, WithoutAcyclic
<1>5. CASE UNCHANGED parent
  BY <1>0, <1>5
<1>6. ASSUME NEW c \in Filers, Structural(c) PROVE Acyclic(parent')
  BY <1>1, <1>2, <1>3, <1>4, <1>5, <1>6
     DEF Structural, RequestFolder, RequestMove, RequestFolderDelete, LockFolders, CheckNew, CheckMove,
         SelectContents, filingTables
<1>7. ASSUME NEW c \in Filers, OfProjects(c) \/ AbortFiling(c) PROVE UNCHANGED parent
  BY <1>7 DEF OfProjects, CreateProject, LoadProject, FileProject, DeleteProject, AbortFiling, filingTables
<1> QED  BY <1>5, <1>6, <1>7 DEF FilingNext, filingVars, filingTables

\* What one session checked.
CheckOf(c) ==
  /\ filingPc[c] = "insert" => Exists(ask[c].up)
  /\ filingPc[c] = "place" =>
       /\ Exists(ask[c].folder)
       /\ ask[c].up # Top =>
            Exists(ask[c].up) /\ ~WouldCreateCycle(ask[c].folder, ask[c].up)
  /\ filingPc[c] = "unfile" =>
       /\ Exists(ask[c].folder)
       /\ heirs[c] = Children(ask[c].folder)
       /\ above[c] = parent[ask[c].folder]

\* A new top-level folder, which takes no lock, disturbs nobody's check.
LEMMA TopFolderCheck ==
  ASSUME FilingInv, NEW c \in Filers, NEW f \in Folders, CreateTopFolder(c, f), NEW d \in Filers
  PROVE  CheckOf(d)'
<1>0. /\ parent \in [Folders -> Places \cup NoRow] /\ parent[f] = Unborn
      /\ parent' = [parent EXCEPT ![f] = Top]
      /\ UNCHANGED <<heirs, above>>
      /\ filingPc' = [filingPc EXCEPT ![c] = "idle"] /\ ask' = [ask EXCEPT ![c] = Nothing]
  BY DEF CreateTopFolder, StartFiling, FilingInv, FilingTypeOK
<1> SUFFICES ASSUME d # c, ask'[d] = ask[d], filingPc'[d] = filingPc[d] PROVE CheckOf(d)'
  BY <1>0 DEF CheckOf, FilingInv, FilingTypeOK
<1>1. ASSUME NEW g, Exists(g) PROVE Exists(g)' /\ g # f /\ parent'[g] = parent[g]
  BY <1>0, <1>1 DEF Exists, NoRow
<1>2. ASSUME NEW g, NEW up, ~WouldCreateCycle(g, up) PROVE ~WouldCreateCycle(g, up)'
  <2>1. PICK C \in SUBSET Folders : up \in C /\ Closed(C, parent) /\ g \notin C
    BY <1>2 DEF WouldCreateCycle, Beneath
  <2>2. Closed(C, parent')
    BY <1>0, <2>1, FilingValuesAssumption DEF Closed
  <2> QED  BY <2>1, <2>2 DEF WouldCreateCycle, Beneath
<1>3. ASSUME NEW g \in Folders PROVE Children(g)' = Children(g)
  BY <1>0, FilingValuesAssumption DEF Children
<1>4. CheckOf(d)
  BY DEF FilingInv, ChecksStayTrue, CheckOf
<1>5. filingPc[d] = "unfile" => ask[d].folder \in Folders
  BY DEF FilingInv, AskInv
<1>6. ask'[d] = ask[d] /\ heirs'[d] = heirs[d] /\ above'[d] = above[d]
  BY <1>0 DEF FilingInv, FilingTypeOK
<1> QED  BY <1>1, <1>2, <1>3, <1>4, <1>5, <1>6 DEF CheckOf

\* The lock keeps the other sessions out of the tree that was checked.
LEMMA CheckStep == FilingInv /\ [FilingNext]_filingVars => ChecksStayTrue'
<1> SUFFICES ASSUME FilingInv, [FilingNext]_filingVars, NEW d \in Filers PROVE CheckOf(d)'
  BY DEF ChecksStayTrue, CheckOf
<1>0. CheckOf(d)
  BY DEF FilingInv, ChecksStayTrue, CheckOf
<1>1. CASE UNCHANGED <<parent, filingPc, ask, heirs, above>>
  BY <1>0, <1>1 DEF CheckOf, Exists, WouldCreateCycle, Children
<1>2. ASSUME NEW c \in Filers, d # c, UNCHANGED parent,
             filingPc'[d] = filingPc[d], ask'[d] = ask[d], heirs'[d] = heirs[d], above'[d] = above[d]
      PROVE  CheckOf(d)'
  BY <1>0, <1>2 DEF CheckOf, Exists, WouldCreateCycle, Children
<1>3. ASSUME NEW c \in Filers, d = c, filingPc'[d] \notin {"insert", "place", "unfile"}
      PROVE  CheckOf(d)'
  BY <1>3 DEF CheckOf
<1>4. ASSUME NEW c \in Filers, NEW f \in Folders, CreateTopFolder(c, f) PROVE CheckOf(d)'
  BY <1>4, TopFolderCheck
<1>5. ASSUME NEW c \in Filers,
             (\E f \in Folders : InsertFolder(c, f)) \/ MoveFolder(c) \/ DeleteFolder(c)
      PROVE  CheckOf(d)'
  <2>1. Holding(c) /\ filingPc' = [filingPc EXCEPT ![c] = "idle"]
    BY <1>5 DEF InsertFolder, MoveFolder, DeleteFolder, FilingStep, Holding
  <2>2. d # c => ~Holding(d) /\ filingPc'[d] = filingPc[d]
    BY <2>1 DEF FilingInv, FoldersLockInv, FilingTypeOK
  <2> QED  BY <2>1, <2>2 DEF CheckOf, Holding, FilingInv, FilingTypeOK
<1>6. ASSUME NEW c \in Filers, CheckNew(c) PROVE CheckOf(d)'
  BY <1>2, <1>6 DEF CheckNew, FilingStep, CheckOf, Exists, filingTables, filingLocal, FilingInv, FilingTypeOK
<1>7. ASSUME NEW c \in Filers, CheckMove(c) PROVE CheckOf(d)'
  BY <1>2, <1>7 DEF CheckMove, FilingStep, CheckOf, Exists, WouldCreateCycle, filingTables, filingLocal, FilingInv, FilingTypeOK
<1>8. ASSUME NEW c \in Filers, SelectContents(c) PROVE CheckOf(d)'
  BY <1>2, <1>8 DEF SelectContents, FilingStep, CheckOf, Exists, Children, filingTables, FilingInv, FilingTypeOK
<1>9. ASSUME NEW c \in Filers,
             \/ \E up \in Folders : RequestFolder(c, up) \/ RequestFolderDelete(c, up)
             \/ \E f \in Folders, up \in Places : RequestMove(c, f, up)
      PROVE  CheckOf(d)'
  BY <1>2, <1>3, <1>9 DEF RequestFolder, RequestFolderDelete, RequestMove, StartFiling, filingTables, FilingInv, FilingTypeOK
<1>10. ASSUME NEW c \in Filers,
              \/ LockFolders(c, "lockToCreate", "create") \/ LockFolders(c, "lockToMove", "move")
              \/ LockFolders(c, "lockToDelete", "delete")
       PROVE  CheckOf(d)'
  BY <1>2, <1>3, <1>10 DEF LockFolders, FilingStep, filingTables, filingLocal, FilingInv, FilingTypeOK
<1>11. ASSUME NEW c \in Filers, NEW p \in Projects, NEW up \in Folders \cup {Unfiled},
              CreateProject(c, p, up) \/ LoadProject(c, p, up) \/ DeleteProject(c, p)
       PROVE  CheckOf(d)'
  BY <1>2, <1>3, <1>11
     DEF CreateProject, LoadProject, DeleteProject, StartFiling, filingTables, FilingInv, FilingTypeOK
<1>12. ASSUME NEW c \in Filers, FileProject(c) \/ AbortFiling(c) PROVE CheckOf(d)'
  BY <1>2, <1>3, <1>12 DEF FileProject, AbortFiling, FilingStep, EndFiling, filingTables, FilingInv, FilingTypeOK
<1> QED  BY <1>1, <1>4, <1>5, <1>6, <1>7, <1>8, <1>9, <1>10, <1>11, <1>12
     DEF FilingNext, Structural, OfProjects, filingVars, filingTables, filingLocal

-----------------------------------------------------------------------------
\* Every parent and every folder of a project is a row that exists.
Attached == /\ \A f \in Folders : parent[f] \in Folders => Exists(parent[f])
            /\ \A p \in Projects : filed[p] \in Folders => Exists(filed[p])

\* Sub-folders find their new parent, projects leave with the folder.
LEMMA DeletionTyped ==
  ASSUME FilingInv, NEW c \in Filers, DeleteFolder(c)
  PROVE  /\ parent' \in [Folders -> Places \cup NoRow]
         /\ filed' \in [Projects -> Filings]
         /\ Attached'
<1> DEFINE d == ask[c].folder
<1>1. d \in Folders /\ Exists(d) /\ parent' = Without(parent, d) /\ parent[d] # d
  BY DeletionIsWithout, NotItsOwnParent DEF FilingInv, FoldersNoCycle
<1>2. filed' = [p \in Projects |-> IF filed[p] = d \/ p \in found[c] THEN Unfiled ELSE filed[p]]
  BY DEF DeleteFolder, TakenOut, Inside
<1>3. parent \in [Folders -> Places \cup NoRow] /\ filed \in [Projects -> Filings] /\ Attached
  BY DEF FilingInv, FilingTypeOK, Attached
<1>4. ASSUME NEW g \in Folders, g # d, Exists(g) PROVE Exists(g)'
  BY <1>1, <1>3, <1>4 DEF Exists, Without
<1>5. ASSUME NEW g \in Folders, NEW h \in Folders, parent'[g] = h PROVE Exists(h)'
  <2>1. h # d /\ (h = parent[d] \/ h = parent[g])
    BY <1>1, <1>5, FilingValuesAssumption DEF Without, NoRow
  <2>2. Exists(h)
    BY <1>1, <1>3, <2>1 DEF Attached
  <2> QED  BY <1>4, <2>1, <2>2
<1>6. ASSUME NEW p \in Projects, NEW h \in Folders, filed'[p] = h PROVE Exists(h)'
  <2>1. h # d /\ h = filed[p]
    BY <1>2, <1>6, FilingValuesAssumption
  <2>2. Exists(h)
    BY <1>3, <2>1 DEF Attached
  <2> QED  BY <1>4, <2>1, <2>2
<1>7. parent' \in [Folders -> Places \cup NoRow] /\ filed' \in [Projects -> Filings]
  BY <1>1, <1>2, <1>3 DEF Without, NoRow, Filings
<1> QED  BY <1>5, <1>6, <1>7 DEF Attached

\* Every step keeps the types of the folders.
LEMMA FilingTypeStep == FilingInv /\ [FilingNext]_filingVars => FilingTypeOK'
<1> SUFFICES ASSUME FilingInv, [FilingNext]_filingVars PROVE FilingTypeOK'
  OBVIOUS
<1> USE FilingBoundAssumption DEF FilingTypeOK
<1>0. FilingTypeOK
  BY DEF FilingInv
<1>1. ASSUME NEW c \in Filers, NEW f \in Folders, CreateTopFolder(c, f) PROVE FilingTypeOK'
  BY <1>0, <1>1, FilingValuesAssumption DEF CreateTopFolder, StartFiling, Exists, Places, NoRow
<1>2. ASSUME NEW c \in Filers, NEW up \in Folders, RequestFolder(c, up) PROVE FilingTypeOK'
  BY <1>0, <1>2 DEF RequestFolder, StartFiling, Exists, filingTables, Asked, Asks, Places
<1>3. ASSUME NEW c \in Filers, NEW f \in Folders, NEW up \in Places, RequestMove(c, f, up)
      PROVE  FilingTypeOK'
  BY <1>0, <1>3 DEF RequestMove, StartFiling, Exists, filingTables, Asked, Asks
<1>4. ASSUME NEW c \in Filers, NEW f \in Folders, RequestFolderDelete(c, f) PROVE FilingTypeOK'
  BY <1>0, <1>4 DEF RequestFolderDelete, StartFiling, Exists, filingTables, Asked, Asks, Places
<1>5. ASSUME NEW c \in Filers,
             \/ LockFolders(c, "lockToCreate", "create") \/ LockFolders(c, "lockToMove", "move")
             \/ LockFolders(c, "lockToDelete", "delete")
      PROVE  FilingTypeOK'
  BY <1>0, <1>5 DEF LockFolders, FilingStep, Exists, filingTables, filingLocal
<1>6. ASSUME NEW c \in Filers, CheckNew(c) \/ CheckMove(c) PROVE FilingTypeOK'
  BY <1>0, <1>6 DEF CheckNew, CheckMove, FilingStep, Exists, filingTables, filingLocal
<1>7. ASSUME NEW c \in Filers, SelectContents(c) PROVE FilingTypeOK'
  BY <1>0, <1>7 DEF SelectContents, FilingStep, Exists, Inside, Children, filingTables, NoRow
<1>8. ASSUME NEW c \in Filers, EndFiling(c), filingPc' = [filingPc EXCEPT ![c] = "idle"],
             parent' \in [Folders -> Places \cup NoRow], filed' \in [Projects -> Filings],
             Attached', UNCHANGED filingRequests
      PROVE  FilingTypeOK'
  BY <1>0, <1>8 DEF EndFiling, Attached, Places
<1>9. ASSUME NEW c \in Filers, NEW f \in Folders, InsertFolder(c, f) PROVE FilingTypeOK'
  <2>1. parent' = [parent EXCEPT ![f] = ask[c].up] /\ Exists(ask[c].up) /\ UNCHANGED filed
    BY <1>9 DEF InsertFolder
  <2>2. parent' \in [Folders -> Places \cup NoRow]
    BY <1>0, <2>1 DEF Exists, Places
  <2>3. ASSUME NEW g, Exists(g) PROVE Exists(g)'
    BY <1>0, <2>1, <2>3, FilingValuesAssumption DEF Exists, NoRow
  <2>4. Attached'
    BY <1>0, <2>1, <2>3 DEF Attached
  <2> QED  BY <1>0, <1>8, <1>9, <2>1, <2>2, <2>4 DEF InsertFolder, FilingStep
<1>10. ASSUME NEW c \in Filers, MoveFolder(c) PROVE FilingTypeOK'
  <2>1. /\ parent' = [parent EXCEPT ![ask[c].folder] = ask[c].up] /\ UNCHANGED filed
        /\ Exists(ask[c].folder) /\ (ask[c].up # Top => Exists(ask[c].up))
    BY <1>10 DEF MoveFolder
  <2>2. parent' \in [Folders -> Places \cup NoRow]
    BY <1>0, <2>1 DEF Exists, Places
  <2>3. ASSUME NEW g, Exists(g) PROVE Exists(g)'
    BY <1>0, <2>1, <2>3, FilingValuesAssumption DEF Exists, NoRow
  <2>4. Attached'
    BY <1>0, <2>1, <2>3, FilingValuesAssumption DEF Attached
  <2> QED  BY <1>0, <1>8, <1>10, <2>1, <2>2, <2>4 DEF MoveFolder, FilingStep
<1>11. ASSUME NEW c \in Filers, DeleteFolder(c) PROVE FilingTypeOK'
  BY <1>8, <1>11, DeletionTyped DEF DeleteFolder, FilingStep
<1>12. ASSUME NEW c \in Filers, NEW p \in Projects, NEW up \in Folders \cup {Unfiled},
              CreateProject(c, p, up) \/ DeleteProject(c, p)
       PROVE  FilingTypeOK'
  BY <1>0, <1>12, FilingValuesAssumption
     DEF CreateProject, DeleteProject, StartFiling, CanHold, Exists, Filings, NoRow
<1>13. ASSUME NEW c \in Filers, NEW p \in Projects, NEW up \in Folders \cup {Unfiled},
              LoadProject(c, p, up)
       PROVE  FilingTypeOK'
  <2>1. [project |-> p, loaded |-> filed[p], up |-> up] \in Filing
    BY <1>0, <1>13 DEF LoadProject, Filing, Filings, NoRow
  <2> QED  BY <1>0, <1>13, <2>1 DEF LoadProject, StartFiling, Exists, filingTables
<1>14. ASSUME NEW c \in Filers, FileProject(c) PROVE FilingTypeOK'
  <2>1. ask[c] \in Filing
    BY <1>14 DEF FileProject, FilingStep, FilingInv, AskInv
  <2>2. filed' \in [Projects -> Filings] /\ Attached'
    BY <1>0, <1>14, <2>1, FilingValuesAssumption
       DEF FileProject, Filing, Filings, CanHold, Attached, Exists
  <2> QED  BY <1>0, <1>8, <1>14, <2>2 DEF FileProject, FilingStep
<1>15. ASSUME NEW c \in Filers, AbortFiling(c) PROVE FilingTypeOK'
  BY <1>0, <1>8, <1>15 DEF AbortFiling, filingTables, Attached, Exists
<1>16. CASE UNCHANGED filingVars
  BY <1>0, <1>16 DEF filingVars, filingTables, filingLocal, Exists
<1> QED  BY <1>1, <1>2, <1>3, <1>4, <1>5, <1>6, <1>7, <1>9, <1>10, <1>11, <1>12, <1>13, <1>14,
            <1>15, <1>16
     DEF FilingNext, Structural, OfProjects

-----------------------------------------------------------------------------
\* The invariant of the folders holds throughout.
LEMMA FilingInvariance == FilingSpec => []FilingInv
<1>1. FilingInv /\ [FilingNext]_filingVars => FilingInv'
  BY ControlStep, TreeStep, CheckStep, FilingTypeStep DEF FilingInv
<1> QED  BY FilingInitHolds, <1>1, PTL DEF FilingSpec

\* Types and foreign keys of the folder and project tables.
THEOREM FilingTyped == FilingSpec => []FilingTypeOK
<1>1. FilingInv => FilingTypeOK
  BY DEF FilingInv
<1> QED  BY FilingInvariance, <1>1, PTL

\* The folders are a forest, whatever moves, creates and deletions cross.
THEOREM FoldersStayATree == FilingSpec => []FoldersNoCycle
<1>1. FilingInv => FoldersNoCycle
  BY DEF FilingInv
<1> QED  BY FilingInvariance, <1>1, PTL

\* What a structural write checked under the graph lock is true when it writes.
THEOREM ChecksHold == FilingSpec => []ChecksStayTrue
<1>1. FilingInv => ChecksStayTrue
  BY DEF FilingInv
<1> QED  BY FilingInvariance, <1>1, PTL

\* Only a deletion removes a folder, and it removes the one it was asked for.
LEMMA OnlyDeletionRemoves ==
  ASSUME FilingInv, [FilingNext]_filingVars, NEW d \in Folders, Exists(d), parent'[d] = Gone
  PROVE  \E c \in Filers : DeleteFolder(c) /\ ask[c].folder = d
<1>0. parent \in [Folders -> Places \cup NoRow] /\ parent[d] \notin NoRow
      /\ Gone \notin Folders \cup {Top}
  BY FilingValuesAssumption DEF FilingInv, FilingTypeOK, Exists
<1>1. ASSUME NEW c \in Filers, DeleteFolder(c) PROVE ask[c].folder = d
  <2>1. parent' = Without(parent, ask[c].folder) /\ Exists(ask[c].folder)
    BY <1>1, DeletionIsWithout
  <2> QED  BY <1>0, <2>1 DEF Without, Exists, NoRow
<1>2. parent' # parent
  BY <1>0 DEF NoRow
<1>3. ASSUME NEW c \in Filers, NEW f \in Folders, CreateTopFolder(c, f) \/ InsertFolder(c, f)
      PROVE  FALSE
  BY <1>0, <1>3 DEF CreateTopFolder, InsertFolder, Exists, NoRow
<1>4. ASSUME NEW c \in Filers, MoveFolder(c) PROVE FALSE
  BY <1>0, <1>4 DEF MoveFolder, Exists, NoRow
<1> QED  BY <1>1, <1>2, <1>3, <1>4
     DEF FilingNext, Structural, OfProjects, RequestFolder, RequestMove, RequestFolderDelete, LockFolders,
         CheckNew, CheckMove, SelectContents, CreateProject, LoadProject, FileProject,
         DeleteProject, AbortFiling, filingVars, filingTables

\* Deleting a folder leaves everything else beneath what it was beneath.
THEOREM DeletionsLiftSubfolders == FilingSpec => DeletionKeepsTheTree
<1>1. ASSUME FilingInv, [FilingNext]_filingVars, NEW d \in Folders, Exists(d), parent'[d] = Gone,
             NEW f \in Folders \ {d}, NEW g \in Folders \ {d}
      PROVE  Beneath(f, g, parent') <=> Beneath(f, g, parent)
  <2>1. PICK c \in Filers : DeleteFolder(c) /\ ask[c].folder = d
    BY <1>1, OnlyDeletionRemoves
  <2>2. parent' = Without(parent, d)
    BY <1>1, <2>1, DeletionIsWithout
  <2> QED  BY <1>1, <2>2, WithoutKeeps DEF FilingInv, FoldersNoCycle, FilingTypeOK
<1>2. FilingInv /\ [FilingNext]_filingVars =>
        [\A d \in Folders : Exists(d) /\ parent'[d] = Gone =>
           \A f, g \in Folders \ {d} : Exists(f) /\ Exists(g)
              => (Beneath(f, g, parent') <=> Beneath(f, g, parent))]_filingVars
  BY <1>1
<1> QED  BY FilingInvariance, <1>2, PTL DEF FilingSpec, DeletionKeepsTheTree

-----------------------------------------------------------------------------
(***************************************************************************)
(* Side by side: the two graphs share no table, so a behaviour of both is  *)
(* a behaviour of each.                                                    *)
(***************************************************************************)
LEMMA GraphsAreBoth == GraphsSpec => Spec /\ FilingSpec
<1>1. GraphsInit => Init /\ FilingInit
  BY DEF GraphsInit, StillFiling
<1>2. [GraphsNext]_graphVars => [Next]_vars /\ [FilingNext]_filingVars
  BY DEF GraphsNext, graphVars
<1> QED  BY <1>1, <1>2, PTL DEF GraphsSpec, Spec, FilingSpec

\* What the run of both checks of the dependencies, for every plan and any sessions.
THEOREM DependenciesOfBoth ==
  GraphsSpec => []NoCycle /\ []EveryPurgedLinkIsAudited /\ ImplementsPlan
BY GraphsAreBoth, NeverACycle, PurgeAudited, Refinement, PTL

\* What it checks of the folders, for every tree and any sessions.
THEOREM FoldersOfBoth ==
  GraphsSpec => []FoldersNoCycle /\ []ChecksStayTrue /\ DeletionKeepsTheTree
BY GraphsAreBoth, FoldersStayATree, ChecksHold, DeletionsLiftSubfolders, PTL
=============================================================================
