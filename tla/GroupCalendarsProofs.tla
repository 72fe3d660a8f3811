------------------------- MODULE GroupCalendarsProofs -------------------------
(***************************************************************************)
(* Nobody's conflicts are made with hours that are not theirs, unless a    *)
(* refresh is owed, has failed, or a move missed who arrived late: for any *)
(* number of groups, resources, profiles and sessions.                     *)
(*                                                                         *)
(* What a resource inherits depends on the chain of groups above it and on *)
(* nothing else in the tree.  So a write that moves or removes a group     *)
(* changes the hours of who is beneath it only, and the graph lock keeps   *)
(* that set as the move found it but for late arrivals.  A refresh reads   *)
(* bindings, membership and tree one after the other; each change behind   *)
(* its back leaves its author owing a refresh that has to wait for it.     *)
(***************************************************************************)
EXTENDS GroupCalendars, TLAPS

\* What a session was asked for is of the kind its step is about.
AskOf(c) ==
  /\ pc[c] \in {"graphToMove", "lockToMove", "collect", "move"}
       => ask[c] \in [row : Groups, to : Groups \cup {Top}]
  /\ pc[c] \in {"graphToDelete", "lockToDelete", "count", "delete"}
       => ask[c] \in [row : Groups, to : {Top}]
  /\ pc[c] \in {"pinToEnter", "enter", "lockToJoin", "pinToJoin", "join"}
       => ask[c] \in [row : Resources, to : Groups]
  /\ pc[c] \in {"pinProfile", "pinGroup"} => ask[c] \in [row : Groups, to : Profiles]
  /\ pc[c] = "pinOnly" => ask[c] \in [row : Resources, to : Profiles]
  /\ pc[c] = "bind" => ask[c] \in [row : Targets, to : Profiles]
  /\ pc[c] \in {"pinOnly", "bind"} => ask[c].row \in Groups \/ member[ask[c].row] # Unborn
  /\ pc[c] \in {"lockDefault", "lockProfile", "bindings", "drop"}
       => ask[c] \in [row : Profiles, to : {Top}]
AskInv == \A c \in Clients : AskOf(c)

\* Where a session is tells which locks it has; nobody keeps the key of a row
\* that another has locked.
LockOf(c) ==
  /\ pc[c] \in {"lockToMove", "collect", "move", "lockToDelete", "count", "delete"}
       => graphLock = c
  /\ pc[c] \in {"lockProfile", "bindings", "drop"} => defaultLock = c
  /\ pc[c] \in {"collect", "move", "count", "delete", "pinToJoin", "join", "bindings", "drop"}
       => rowLock[ask[c].row] = c
  /\ pc[c] \in {"enter", "join", "pinGroup", "bind"} => ask[c].to \in pins[c]
  /\ pc[c] = "bind" /\ ask[c].row \in Groups => ask[c].row \in pins[c]
Exclusive == \A c, d \in Clients : \A x \in Rows : rowLock[x] = c /\ x \in pins[d] => d = c
LockInv == (\A c \in Clients : LockOf(c)) /\ Exclusive

\* A session that refreshes a resource holds the lock of its conflicts.
CheckInv == \A c \in Clients : pc[c] \in {"place", "tree", "save"} =>
  /\ view[c].resource \in Resources \cap owed[c]
  /\ checkLock[view[c].resource] = c

-----------------------------------------------------------------------------
(***************************************************************************)
(* Chains.                                                                 *)
(***************************************************************************)

SameParent(h, new, up) == new[h] = up[h] \/ (new[h] \notin Groups /\ up[h] \notin Groups)

\* A chain starts with its group, and following parents never leaves it.
LEMMA ChainClosed ==
  ASSUME NEW up, NEW g \in Groups
  PROVE  /\ Chain(g, up) \in SUBSET Groups /\ g \in Chain(g, up)
         /\ Closed(Chain(g, up), up)
BY DEF Chain, Closed

\* The chain of a group above g is a part of the chain of g.
LEMMA ChainWithin ==
  ASSUME NEW up, NEW g, NEW h \in Chain(g, up)
  PROVE  Chain(h, up) \subseteq Chain(g, up)
BY DEF Chain

\* Two trees that agree along a chain have that chain in common.
LEMMA ChainAgree ==
  ASSUME NEW up, NEW new, NEW g, \A h \in Chain(g, up) : SameParent(h, new, up)
  PROVE  Chain(g, new) = Chain(g, up)
<1>1. CASE g \notin Groups
  BY <1>1 DEF Chain
<1>2. CASE g \in Groups
  <2> DEFINE A == Chain(g, up)
  <2>1. A \in SUBSET Groups /\ g \in A /\ Closed(A, up)
    BY <1>2, ChainClosed
  <2>2. Closed(A, new)
    BY <2>1 DEF Closed, SameParent
  <2>3. Chain(g, new) \subseteq A
    BY <1>2, <2>1, <2>2 DEF Chain
  <2>4. ASSUME NEW C \in SUBSET Groups, g \in C, Closed(C, new)
        PROVE  A \subseteq C
    <3>1. Closed(C \cap A, up) /\ g \in C \cap A
      BY <2>1, <2>4 DEF Closed, SameParent
    <3> QED  BY <1>2, <2>1, <3>1 DEF Chain
  <2>5. A \subseteq Chain(g, new)
    BY <1>2, <2>1, <2>4 DEF Chain
  <2> QED  BY <2>3, <2>5
<1> QED  BY <1>1, <1>2

\* ... and the hours that are inherited along it.
LEMMA HoursAgree ==
  ASSUME NEW up, NEW new, NEW g, NEW own, NEW bound, NEW fallback,
         \A h \in Chain(g, up) : SameParent(h, new, up)
  PROVE  HoursOf(own, bound, fallback, g, new) = HoursOf(own, bound, fallback, g, up)
<1> DEFINE holders(t) == {h \in Chain(g, t) : bound[h] # NoProfile}
           nearest(t) == {h \in holders(t) : holders(t) \subseteq Chain(h, t)}
<1>1. Chain(g, new) = Chain(g, up)
  BY ChainAgree
<1>2. \A h \in Chain(g, up) : Chain(h, new) = Chain(h, up)
  BY ChainWithin, ChainAgree
<1>3. holders(new) = holders(up)
  BY <1>1
<1>4. nearest(new) = nearest(up)
  BY <1>2, <1>3
<1> HIDE DEF holders, nearest
<1>5. /\ HoursOf(own, bound, fallback, g, new) =
           IF own # NoProfile THEN own ELSE IF nearest(new) = {} THEN fallback
           ELSE bound[CHOOSE h \in nearest(new) : TRUE]
      /\ HoursOf(own, bound, fallback, g, up) =
           IF own # NoProfile THEN own ELSE IF nearest(up) = {} THEN fallback
           ELSE bound[CHOOSE h \in nearest(up) : TRUE]
  BY Zenon DEF HoursOf, holders, nearest
<1> QED  BY <1>4, <1>5

\* A group nobody has for a parent is in no chain but its own.
LEMMA LeafInNoChain ==
  ASSUME NEW up, NEW leaf \in Groups, \A h \in Groups : up[h] # leaf,
         NEW g, g # leaf
  PROVE  leaf \notin Chain(g, up)
<1> SUFFICES ASSUME leaf \in Chain(g, up) PROVE FALSE
  OBVIOUS
<1>1. g \in Groups
  BY DEF Chain
<1> DEFINE A == Chain(g, up)
<1>2. A \in SUBSET Groups /\ g \in A /\ Closed(A, up)
  BY <1>1, ChainClosed
<1>3. Closed(A \ {leaf}, up) /\ g \in A \ {leaf}
  BY <1>2 DEF Closed
<1> QED  BY <1>2, <1>3 DEF Chain

\* Hours are a profile, or nothing when there is no default to fall back on.
LEMMA HoursType ==
  ASSUME NEW own \in Profiles \cup {NoProfile}, NEW bound \in [Groups -> Profiles \cup {NoProfile}],
         NEW fallback \in Profiles \cup {NoProfile}, NEW g, NEW up
  PROVE  HoursOf(own, bound, fallback, g, up) \in Profiles \cup {NoProfile}
<1> DEFINE holders == {h \in Chain(g, up) : bound[h] # NoProfile}
           nearest == {h \in holders : holders \subseteq Chain(h, up)}
           first == CHOOSE h \in nearest : TRUE
<1>1. nearest \subseteq Groups
  BY DEF Chain
<1>2. nearest # {} => first \in nearest
  OBVIOUS
<1>3. nearest # {} => bound[first] \in Profiles \cup {NoProfile}
  BY <1>1, <1>2
<1> HIDE DEF nearest, first
<1>4. HoursOf(own, bound, fallback, g, up) =
        IF own # NoProfile THEN own ELSE IF nearest = {} THEN fallback ELSE bound[first]
  BY Zenon DEF HoursOf, holders, nearest, first
<1> QED  BY <1>3, <1>4

-----------------------------------------------------------------------------
(***************************************************************************)
(* Types.                                                                  *)
(***************************************************************************)

\* A session leaves a commit refreshing or idle.
LEMMA EndTypes ==
  ASSUME TypeOK, NEW c \in Clients, EndTransaction(c)
  PROVE  /\ graphLock' \in Clients \cup {Free} /\ defaultLock' \in Clients \cup {Free}
         /\ rowLock' \in [Rows -> Clients \cup {Free}]
         /\ pins' \in [Clients -> SUBSET Rows]
         /\ ask' \in [Clients -> {Nothing} \cup Ask]
         /\ affected' \in [Clients -> SUBSET Resources]
BY DEF EndTransaction, TypeOK

LEMMA AskTypes ==
  ASSUME AskInv, NEW c \in Clients, pc[c] \in Writing, TypeOK
  PROVE  ask[c] \in Ask
BY DEF AskInv, AskOf, TypeOK, Writing, Ask, Rows, Targets

LEMMA InitTyped == Init => TypeOK
<1> SUFFICES ASSUME Init PROVE TypeOK
  OBVIOUS
<1>1. /\ parent \in [Groups -> Groups \cup {Top} \cup NoRow]
      /\ member \in [Resources -> Groups \cup {Unborn}]
      /\ binding \in [Targets -> Profiles \cup {NoProfile}]
      /\ \A g \in Groups : parent[g] \in Groups => parent[parent[g]] \notin NoRow
  BY StartAssumption DEF Init
<1>2. /\ profile \in [Profiles -> BOOLEAN] /\ born \subseteq Profiles /\ default \in Profiles
      /\ profile[default]
      /\ \A t \in Targets : binding[t] \in Profiles => profile[binding[t]]
  BY DEF Init
<1>3. ForeignKeys
  BY <1>1, <1>2 DEF Init, ForeignKeys, Exists
<1>4. \A r \in Resources : Hours(r) \in Profiles \cup {NoProfile}
  BY <1>1, <1>2, HoursType DEF Hours, HoursIn, GroupBindings, Targets
<1>5. shown \in [Resources -> Profiles \cup {NoProfile, Unbooked}]
  BY <1>4 DEF Init
<1>6. NoView \in View
  BY DEF NoView, View
<1>7. requests \in 0 .. MaxRequests /\ failures \in 0 .. MaxFailures
  BY BoundsAssumption DEF Init
<1> QED  BY <1>1, <1>2, <1>3, <1>5, <1>6, <1>7 DEF Init, TypeOK

-----------------------------------------------------------------------------
\* What a step of c leaves alone of the other sessions.
Frame(c) == \A d \in Clients \ {c} :
  /\ pc'[d] = pc[d] /\ ask'[d] = ask[d] /\ pins'[d] = pins[d]
  /\ affected'[d] = affected[d] /\ owed'[d] = owed[d] /\ view'[d] = view[d]
  /\ graphLock' = d <=> graphLock = d
  /\ defaultLock' = d <=> defaultLock = d
  /\ \A x \in Rows : rowLock'[x] = d <=> rowLock[x] = d
  /\ \A r \in Resources : checkLock'[r] = d <=> checkLock[r] = d

Steps(c) == \/ LockGraph(c, "graphToMove", "lockToMove")
            \/ LockRow(c, "lockToMove", "collect") \/ CollectAffected(c)
            \/ LockGraph(c, "graphToDelete", "lockToDelete")
            \/ LockRow(c, "lockToDelete", "count") \/ CountReferences(c)
            \/ Pin(c, ask[c].to, "pinToEnter", "enter")
            \/ LockRow(c, "lockToJoin", "pinToJoin")
            \/ Pin(c, ask[c].to, "pinToJoin", "join")
            \/ Pin(c, ask[c].to, "pinProfile", "pinGroup")
            \/ Pin(c, ask[c].row, "pinGroup", "bind") \/ Pin(c, ask[c].to, "pinOnly", "bind")
            \/ LockDefault(c) \/ LockRow(c, "lockProfile", "bindings") \/ CountBindings(c)

Requests(c) ==
  \/ \E g \in Groups, up \in Groups \cup {Top} : Request(c, "graphToMove", g, up)
  \/ \E g \in Groups : Request(c, "graphToDelete", g, Top)
  \/ \E r \in Resources, g \in Groups :
       \/ member[r] = Unborn /\ Request(c, "pinToEnter", r, g)
       \/ Exists(r) /\ Request(c, "lockToJoin", r, g)
  \/ \E g \in Groups, p \in Profiles : Request(c, "pinProfile", g, p)
  \/ \E r \in Resources, p \in Profiles : Exists(r) /\ Request(c, "pinOnly", r, p)
  \/ \E p \in Profiles : Request(c, "lockDefault", p, Top)

Commits(c) ==
  \/ MoveGroup(c) \/ DeleteGroup(c) \/ InsertResource(c) \/ JoinGroup(c)
  \/ InsertBinding(c) \/ DeleteProfile(c)
  \/ \E t \in Targets : DeleteBinding(c, t)
  \/ \E p \in Profiles : CreateProfile(c, p, TRUE) \/ CreateProfile(c, p, FALSE)
                         \/ MakeDefault(c, p)

\* All that one session may do.
Acts(c) ==
  \/ Requests(c) \/ Steps(c) \/ Commits(c) \/ Abort(c)
  \/ \E g \in Groups, up \in Groups \cup {Top} : CreateGroup(c, g, up)
  \/ \E r \in Resources : Book(c, r)
  \/ FullCheck(c) \/ \E r \in Resources : StartRefresh(c, r)
  \/ ReadPlacement(c) \/ ReadHierarchy(c) \/ SaveConflicts(c) \/ FailRefresh(c)

LEMMA Cases == Next => \E c \in Clients : Acts(c)
<1> SUFFICES ASSUME Next PROVE \E c \in Clients : Acts(c)
  OBVIOUS
<1>1. PICK c \in Clients :
        OfGroups(c) \/ OfResources(c) \/ OfCalendars(c) \/ OfConflicts(c) \/ Abort(c)
  BY DEF Next
<1>2. CASE OfGroups(c)
  BY <1>2, Zenon DEF Acts, OfGroups, Requests, Steps, Commits
<1>3. CASE OfResources(c)
  BY <1>3, Zenon DEF Acts, OfResources, Requests, Steps, Commits
<1>4. CASE OfCalendars(c)
  BY <1>4, Zenon DEF Acts, OfCalendars, Requests, Steps, Commits
<1>5. CASE OfConflicts(c)
  BY <1>5, Zenon DEF Acts, OfConflicts
<1>6. CASE Abort(c)
  BY <1>6 DEF Acts
<1> QED  BY <1>1, <1>2, <1>3, <1>4, <1>5, <1>6

\* Every step is one session's, and touches nothing another session has.
LEMMA Framed ==
  ASSUME TypeOK, CheckInv, NEW c \in Clients,
         Acts(c)
  PROVE  Frame(c)
<1> USE ValuesAssumption
<1>1. CASE Requests(c)
  BY <1>1 DEF Requests, Request, Start, Frame, TypeOK, locks, refreshing
<1>2. CASE Steps(c)
  <2>1. \A at, to : LockRow(c, at, to) => ask[c].row \in Rows
    BY DEF LockRow, Exists, Rows, Targets
  <2> QED  BY <1>2, <2>1 DEF Steps, LockGraph, LockRow, Pin, CollectAffected, CountReferences,
        LockDefault, CountBindings, Step, Frame, TypeOK, locks, refreshing, local
<1>3. CASE Commits(c)
  <2>1. \E R : CommitAndRefresh(c, R)
    BY <1>3 DEF Commits, MoveGroup, DeleteGroup, InsertResource, JoinGroup, InsertBinding,
          DeleteProfile, DeleteBinding, CreateProfile, MakeDefault
  <2> QED  BY <2>1 DEF CommitAndRefresh, EndTransaction, Frame, TypeOK
<1>4. CASE Abort(c)
  BY <1>4 DEF Abort, EndTransaction, Frame, TypeOK, refreshing
<1>5. CASE \E g \in Groups, up \in Groups \cup {Top} : CreateGroup(c, g, up)
  BY <1>5 DEF CreateGroup, Frame, TypeOK, locks, refreshing, local
<1>6. CASE \E r \in Resources : Book(c, r)
  BY <1>6 DEF Book, Start, Frame, TypeOK, locks, local
<1>7. CASE FullCheck(c)
  BY <1>7 DEF FullCheck, Start, Frame, TypeOK, locks, local
<1>8. CASE \E r \in Resources : StartRefresh(c, r)
  <2>1. PICK r \in Resources : StartRefresh(c, r)
    BY <1>8
  <2>2. \A s \in Resources : checkLock'[s] = IF s = r THEN c ELSE checkLock[s]
    BY <2>1 DEF StartRefresh, TypeOK
  <2>3. checkLock[r] = Free
    BY <2>1 DEF StartRefresh
  <2> QED  BY <2>1, <2>2, <2>3 DEF StartRefresh, Frame, TypeOK, locks, local
<1>9. CASE ReadPlacement(c) \/ ReadHierarchy(c)
  BY <1>9 DEF ReadPlacement, ReadHierarchy, Frame, TypeOK, locks, local
<1>10. CASE FailRefresh(c)
  BY <1>10 DEF FailRefresh, Frame, TypeOK, locks, local
<1>11. CASE SaveConflicts(c)
  BY <1>11 DEF SaveConflicts, CheckInv, Frame, TypeOK, locks, local
<1> QED  BY <1>1, <1>2, <1>3, <1>4, <1>5, <1>6, <1>7, <1>8, <1>9, <1>10, <1>11 DEF Acts

LEMMA CheckStep ==
  ASSUME TypeOK, CheckInv, NEW c \in Clients, Acts(c)
  PROVE  CheckInv'
<1> USE ValuesAssumption
<1>1. Frame(c)
  BY Framed
<1> SUFFICES ASSUME pc'[c] \in {"place", "tree", "save"}
             PROVE  /\ view'[c].resource \in Resources \cap owed'[c]
                    /\ checkLock'[view'[c].resource] = c
  BY <1>1 DEF CheckInv, Frame
<1>2. CASE \E r \in Resources : StartRefresh(c, r)
  BY <1>2 DEF StartRefresh, TypeOK, NoView
<1>3. CASE ReadPlacement(c) \/ ReadHierarchy(c)
  <2>1. view[c] \in View
    BY DEF TypeOK
  <2>2. view'[c].resource = view[c].resource
    BY <1>3, <2>1 DEF ReadPlacement, ReadHierarchy, TypeOK, View
  <2> QED  BY <1>3, <2>2 DEF ReadPlacement, ReadHierarchy, CheckInv
<1>4. CASE Requests(c)
  BY <1>4 DEF Requests, Request, Start, TypeOK
<1>5. CASE Steps(c)
  BY <1>5 DEF Steps, LockGraph, LockRow, Pin, CollectAffected, CountReferences,
        LockDefault, CountBindings, Step, TypeOK
<1>6. CASE Commits(c)
  <2>1. \E R : CommitAndRefresh(c, R)
    BY <1>6 DEF Commits, MoveGroup, DeleteGroup, InsertResource, JoinGroup, InsertBinding,
          DeleteProfile, DeleteBinding, CreateProfile, MakeDefault
  <2> QED  BY <2>1 DEF CommitAndRefresh, TypeOK
<1>7. CASE \E g \in Groups, up \in Groups \cup {Top} : CreateGroup(c, g, up)
  BY <1>7 DEF CreateGroup, Start, refreshing
<1>8. CASE Abort(c) \/ FullCheck(c) \/ SaveConflicts(c) \/ FailRefresh(c)
  BY <1>8 DEF Abort, FullCheck, SaveConflicts, FailRefresh, TypeOK
<1>9. CASE \E r \in Resources : Book(c, r)
  BY <1>9 DEF Book, TypeOK
<1> QED  BY <1>2, <1>3, <1>4, <1>5, <1>6, <1>7, <1>8, <1>9 DEF Acts

\* The assumption on values, in the form the steps need.
LEMMA Values ==
  /\ Top \notin Groups /\ Unborn \notin Groups /\ Gone \notin Groups /\ Nothing \notin Resources
  /\ NoProfile \notin Profiles /\ Unbooked \notin Profiles /\ Unbooked # NoProfile
  /\ Top # Unborn /\ Top # Gone /\ Free \notin Clients
  /\ \A x \in Groups : x \notin Resources /\ x \notin Profiles
  /\ \A x \in Resources : x \notin Profiles
BY ValuesAssumption DEF Rows, Targets, NoRow

\* A row's kind decides which table has it.
LEMMA ExistsOf ==
  /\ \A g \in Groups : Exists(g) <=> parent[g] \notin NoRow
  /\ \A r \in Resources : Exists(r) <=> member[r] # Unborn
  /\ \A p \in Profiles : Exists(p) <=> profile[p]
  /\ \A x : Exists(x) => x \in Rows
BY ValuesAssumption DEF Exists, Rows, Targets

LEMMA ExistsNext ==
  /\ \A g \in Groups : Exists(g)' <=> parent'[g] \notin NoRow
  /\ \A r \in Resources : Exists(r)' <=> member'[r] # Unborn
  /\ \A p \in Profiles : Exists(p)' <=> profile'[p]
BY ValuesAssumption DEF Exists

Keys(up, in, on, week, usual) ==
  /\ \A g \in Groups : up[g] \in Groups => up[up[g]] \notin NoRow
  /\ \A r \in Resources : in[r] \in Groups => up[in[r]] \notin NoRow
  /\ \A t \in Targets : on[t] \in Profiles => week[on[t]]
  /\ \A g \in Groups : on[g] \in Profiles => up[g] \notin NoRow
  /\ week[usual]

LEMMA KeysOf ==
  /\ ForeignKeys <=> Keys(parent, member, binding, profile, default)
  /\ ForeignKeys' <=> Keys(parent', member', binding', profile', default')
BY ExistsOf, ExistsNext DEF ForeignKeys, Keys

LEMMA TypeStep ==
  ASSUME TypeOK, AskInv, CheckInv, ChecksStayTrue, NEW c \in Clients, Acts(c)
  PROVE  TypeOK'
<1> USE Values, BoundsAssumption
<1>1. CASE Requests(c)
  <2>1. PICK at \in Writing, row \in Rows, to \in Rows \cup {Top} : Request(c, at, row, to)
    BY <1>1 DEF Requests, Rows, Targets, Writing
  <2>2. UNCHANGED ForeignKeys
    BY <2>1 DEF Request, ForeignKeys, Exists, tables
  <2> QED  BY <2>1, <2>2 DEF Request, Start, TypeOK, tables, locks, refreshing, history, Ask
<1>2. CASE Steps(c)
  <2>1. UNCHANGED ForeignKeys /\ UNCHANGED <<tables, refreshing, history, requests>>
    BY <1>2 DEF Steps, LockGraph, LockRow, Pin, CollectAffected, CountReferences,
          LockDefault, CountBindings, Step, ForeignKeys, Exists, tables
  <2>2. \E to \in Writing : pc' = [pc EXCEPT ![c] = to]
    BY <1>2 DEF Steps, LockGraph, LockRow, Pin, CollectAffected, CountReferences,
          LockDefault, CountBindings, Step, Writing
  <2>3. /\ graphLock' \in Clients \cup {Free} /\ defaultLock' \in Clients \cup {Free}
        /\ rowLock' \in [Rows -> Clients \cup {Free}]
        /\ affected' \in [Clients -> SUBSET Resources]
        /\ UNCHANGED <<ask, late>>
    BY <1>2 DEF Steps, LockGraph, LockRow, Pin, CollectAffected, CountReferences,
          LockDefault, CountBindings, TypeOK, locks, local, Beneath
  <2>4. pins' \in [Clients -> SUBSET Rows]
    <3>1. ASSUME NEW x, NEW at, NEW to, Pin(c, x, at, to) PROVE pins' \in [Clients -> SUBSET Rows]
      BY <3>1 DEF Pin, Exists, TypeOK, Rows, Targets
    <3> QED  BY <1>2, <3>1 DEF Steps, LockGraph, LockRow, CollectAffected, CountReferences,
          LockDefault, CountBindings, TypeOK, locks
  <2>5. pc' \in [Clients -> Refreshing \cup Writing \cup {"idle"}]
    BY <2>2 DEF TypeOK
  <2>6. UNCHANGED <<parent, member, binding, profile, born, default, shown, checkLock, owed,
                    view, failed, missed, requests, failures>>
    BY <2>1 DEF tables, refreshing, history
  <2> QED  BY <2>1, <2>3, <2>4, <2>5, <2>6 DEF TypeOK
<1>3. CASE Commits(c)
  <2>1. PICK R : CommitAndRefresh(c, R)
    BY <1>3 DEF Commits, MoveGroup, DeleteGroup, InsertResource, JoinGroup, InsertBinding,
          DeleteProfile, DeleteBinding, CreateProfile, MakeDefault
  <2>2. /\ owed' \in [Clients -> SUBSET Resources]
        /\ pc' \in [Clients -> Refreshing \cup Writing \cup {"idle"}]
        /\ UNCHANGED <<shown, checkLock, view>>
    BY <2>1 DEF CommitAndRefresh, TypeOK, Booked, Refreshing
  <2>3. EndTransaction(c)
    BY <2>1 DEF CommitAndRefresh
  <2>4. late' \in [Clients -> SUBSET Resources] /\ missed' \subseteq Resources
    <3>1. CASE MoveGroup(c)
      BY <3>1 DEF MoveGroup, TypeOK, Booked
    <3>2. CASE InsertResource(c) \/ JoinGroup(c)
      BY <3>2 DEF InsertResource, JoinGroup, AskInv, AskOf, Arrives, TypeOK, history
    <3> QED  BY <1>3, <3>1, <3>2 DEF Commits, DeleteGroup, InsertBinding, DeleteProfile,
          DeleteBinding, CreateProfile, MakeDefault, history, TypeOK
  <2>5. requests' \in 0 .. MaxRequests /\ UNCHANGED <<failed, failures>>
    BY <1>3 DEF Commits, MoveGroup, DeleteGroup, InsertResource, JoinGroup, InsertBinding,
          DeleteProfile, DeleteBinding, CreateProfile, MakeDefault, Start, history, TypeOK
  <2>6. /\ parent' \in [Groups -> Groups \cup {Top} \cup NoRow]
        /\ member' \in [Resources -> Groups \cup {Unborn}]
        /\ binding' \in [Targets -> Profiles \cup {NoProfile}]
        /\ profile' \in [Profiles -> BOOLEAN] /\ born' \subseteq Profiles
        /\ default' \in Profiles /\ ForeignKeys'
    <3> DEFINE K == Keys(parent, member, binding, profile, default)
    <3>k. K
      BY KeysOf DEF TypeOK
    <3>1. CASE MoveGroup(c)
      <4>1. ask[c] \in [row : Groups, to : Groups \cup {Top}]
        BY <3>1 DEF MoveGroup, AskInv, AskOf, AskOf
      <4>2. ask[c].to = Top \/ parent[ask[c].to] \notin NoRow
        BY <3>1, <4>1, ExistsOf DEF MoveGroup
      <4>3. parent' = [parent EXCEPT ![ask[c].row] = ask[c].to]
            /\ UNCHANGED <<member, binding, profile, born, default>>
        BY <3>1 DEF MoveGroup
      <4>4. Keys(parent', member', binding', profile', default')
        BY <3>k, <4>1, <4>2, <4>3 DEF Keys, TypeOK, NoRow
      <4> QED  BY <4>1, <4>3, <4>4, KeysOf DEF TypeOK
    <3>2. CASE DeleteGroup(c)
      <4>1. Keys(parent', member', binding', profile', default')
        BY <3>2, <3>k DEF DeleteGroup, Keys, TypeOK, NoRow, Members
      <4> QED  BY <3>2, <4>1, KeysOf DEF DeleteGroup, TypeOK, NoRow
    <3>3. CASE InsertResource(c) \/ JoinGroup(c)
      <4>1. ask[c] \in [row : Resources, to : Groups]
        BY <3>3 DEF InsertResource, JoinGroup, AskInv, AskOf, AskOf
      <4>2. parent[ask[c].to] \notin NoRow
        BY <3>3, <4>1, ExistsOf DEF InsertResource, JoinGroup
      <4>3. member' = [member EXCEPT ![ask[c].row] = ask[c].to]
            /\ UNCHANGED <<parent, binding, profile, born, default>>
        BY <3>3 DEF InsertResource, JoinGroup
      <4>4. Keys(parent', member', binding', profile', default')
        BY <3>k, <4>1, <4>2, <4>3 DEF Keys, TypeOK
      <4> QED  BY <4>1, <4>3, <4>4, KeysOf DEF TypeOK
    <3>4. CASE InsertBinding(c)
      <4>1. ask[c] \in [row : Targets, to : Profiles]
        BY <3>4 DEF InsertBinding, AskInv, AskOf, AskOf
      <4>2. profile[ask[c].to] /\ (ask[c].row \in Groups => parent[ask[c].row] \notin NoRow)
        BY <3>4, <4>1, ExistsOf DEF InsertBinding
      <4>3. binding' = [binding EXCEPT ![ask[c].row] = ask[c].to]
            /\ UNCHANGED <<parent, member, profile, born, default>>
        BY <3>4 DEF InsertBinding
      <4>4. Keys(parent', member', binding', profile', default')
        BY <3>k, <4>1, <4>2, <4>3 DEF Keys, TypeOK, Targets
      <4> QED  BY <4>1, <4>3, <4>4, KeysOf DEF TypeOK
    <3>5. CASE \E t \in Targets : DeleteBinding(c, t)
      <4>1. Keys(parent', member', binding', profile', default')
        BY <3>5, <3>k DEF DeleteBinding, Keys, TypeOK, Targets
      <4> QED  BY <3>5, <4>1, KeysOf DEF DeleteBinding, TypeOK
    <3>6. CASE \E p \in Profiles : \/ CreateProfile(c, p, TRUE) \/ CreateProfile(c, p, FALSE)
                                   \/ MakeDefault(c, p)
      <4>1. Keys(parent', member', binding', profile', default')
        BY <3>6, <3>k, ExistsOf DEF CreateProfile, MakeDefault, Keys, TypeOK, Targets
      <4> QED  BY <3>6, <4>1, KeysOf DEF CreateProfile, MakeDefault, TypeOK
    <3>7. CASE DeleteProfile(c)
      <4>1. Keys(parent', member', binding', profile', default')
        BY <3>7, <3>k DEF DeleteProfile, AskInv, AskOf, ChecksStayTrue, Dispensable, Keys, TypeOK, Targets
      <4> QED  BY <3>7, <4>1, KeysOf DEF DeleteProfile, TypeOK
    <3> QED  BY <1>3, <3>1, <3>2, <3>3, <3>4, <3>5, <3>6, <3>7 DEF Commits
  <2> QED  BY <2>2, <2>3, <2>4, <2>5, <2>6, EndTypes DEF TypeOK
<1>4. CASE \E g \in Groups, up \in Groups \cup {Top} : CreateGroup(c, g, up)
  <2>1. Keys(parent, member, binding, profile, default)
    BY KeysOf DEF TypeOK
  <2>2. Keys(parent', member', binding', profile', default')
    BY <1>4, <2>1, ExistsOf DEF CreateGroup, Keys, TypeOK, NoRow
  <2>3. ForeignKeys'
    BY <2>2, KeysOf
  <2> QED  BY <1>4, <2>3 DEF CreateGroup, Start, TypeOK, locks, refreshing, local, history
<1>5. CASE Abort(c)
  <2>1. UNCHANGED ForeignKeys
    BY <1>5 DEF Abort, ForeignKeys, Exists, tables
  <2> QED  BY <1>5, <2>1, EndTypes DEF Abort, TypeOK, tables, refreshing, history
<1>7. CASE (\E r \in Resources : Book(c, r)) \/ FullCheck(c)
  <2>1. UNCHANGED ForeignKeys
    BY <1>7 DEF Book, FullCheck, ForeignKeys, Exists, tables
  <2>2. /\ shown' \in [Resources -> Profiles \cup {NoProfile, Unbooked}]
        /\ owed' \in [Clients -> SUBSET Resources]
        /\ pc' \in [Clients -> Refreshing \cup Writing \cup {"idle"}]
        /\ requests' \in 0 .. MaxRequests
    BY <1>7 DEF Book, FullCheck, Start, TypeOK, Booked, Refreshing
  <2>3. UNCHANGED <<parent, member, binding, profile, born, default, graphLock, defaultLock,
                    rowLock, pins, checkLock, ask, affected, late, view, failed, missed, failures>>
    BY <1>7 DEF Book, FullCheck, tables, locks, local, history
  <2> QED  BY <2>1, <2>2, <2>3 DEF TypeOK
<1>8. CASE \E r \in Resources : StartRefresh(c, r)
  <2>1. PICK r \in Resources : StartRefresh(c, r)
    BY <1>8
  <2>2. UNCHANGED ForeignKeys
    BY <2>1 DEF StartRefresh, ForeignKeys, Exists, tables
  <2>3. [NoView EXCEPT !.resource = r, !.own = binding[r], !.bound = GroupBindings,
                       !.fallback = default] \in View
    BY DEF NoView, View, GroupBindings, TypeOK, Targets
  <2> QED  BY <2>1, <2>2, <2>3 DEF StartRefresh, TypeOK, Refreshing, tables, locks, local
<1>9. CASE ReadPlacement(c)
  <2>1. UNCHANGED ForeignKeys
    BY <1>9 DEF ReadPlacement, ForeignKeys, Exists, tables
  <2>2. view[c] \in View /\ member[view[c].resource] \in Groups \cup {Unborn}
    BY <1>9 DEF ReadPlacement, TypeOK, CheckInv
  <2>3. view' \in [Clients -> View]
    BY <1>9, <2>2 DEF ReadPlacement, TypeOK, View
  <2> QED  BY <1>9, <2>1, <2>3 DEF ReadPlacement, TypeOK, Refreshing, tables, locks, local, history
<1>10. CASE ReadHierarchy(c)
  <2>1. UNCHANGED ForeignKeys
    BY <1>10 DEF ReadHierarchy, ForeignKeys, Exists, tables
  <2>2. view[c] \in View
    BY DEF TypeOK
  <2>3. HoursOf(view[c].own, view[c].bound, view[c].fallback, view[c].group, parent)
          \in Profiles \cup {NoProfile}
    BY <2>2, HoursType DEF View
  <2>4. view' \in [Clients -> View]
    BY <1>10, <2>2, <2>3 DEF ReadHierarchy, TypeOK, View
  <2> QED  BY <1>10, <2>1, <2>4 DEF ReadHierarchy, TypeOK, Refreshing, tables, locks, local, history
<1>11. CASE SaveConflicts(c) \/ FailRefresh(c)
  <2>1. UNCHANGED ForeignKeys
    BY <1>11 DEF SaveConflicts, FailRefresh, ForeignKeys, Exists, tables
  <2>2. NoView \in View /\ view[c].hours \in Profiles \cup {NoProfile}
    BY DEF NoView, View, TypeOK
  <2>3. /\ shown' \in [Resources -> Profiles \cup {NoProfile, Unbooked}]
        /\ owed' \in [Clients -> SUBSET Resources] /\ view' \in [Clients -> View]
        /\ checkLock' \in [Resources -> Clients \cup {Free}]
        /\ pc' \in [Clients -> Refreshing \cup Writing \cup {"idle"}]
    <3>1. CASE SaveConflicts(c)
      <4>1. view[c].resource \in Resources
        BY <3>1 DEF SaveConflicts, CheckInv
      <4>2. shown' \in [Resources -> Profiles \cup {NoProfile, Unbooked}]
            /\ checkLock' \in [Resources -> Clients \cup {Free}]
        BY <2>2, <3>1, <4>1 DEF SaveConflicts, TypeOK
      <4> QED  BY <2>2, <3>1, <4>2 DEF SaveConflicts, TypeOK, Refreshing
    <3>2. CASE FailRefresh(c)
      BY <2>2, <3>2 DEF FailRefresh, TypeOK, Refreshing
    <3> QED  BY <1>11, <3>1, <3>2
  <2>4. /\ failed' \subseteq Resources /\ missed' \subseteq Resources
        /\ failures' \in 0 .. MaxFailures
    BY <1>11 DEF SaveConflicts, FailRefresh, TypeOK, history
  <2>5. UNCHANGED <<parent, member, binding, profile, born, default, graphLock, defaultLock,
                    rowLock, pins, ask, affected, late, requests>>
    BY <1>11 DEF SaveConflicts, FailRefresh, tables, locks, local
  <2> QED  BY <2>1, <2>3, <2>4, <2>5 DEF TypeOK
<1> QED  BY <1>1, <1>2, <1>3, <1>4, <1>5, <1>7, <1>8, <1>9, <1>10, <1>11 DEF Acts

-----------------------------------------------------------------------------
(***************************************************************************)
(* Requests, locks, and the checks they protect.                           *)
(***************************************************************************)

\* Resources that exist go on existing.
LEMMA NobodyLeaves ==
  ASSUME TypeOK, AskInv, NEW c \in Clients, Acts(c), NEW r \in Resources, member[r] # Unborn
  PROVE  member'[r] # Unborn
<1>1. CASE InsertResource(c) \/ JoinGroup(c)
  <2>1. ask[c] \in [row : Resources, to : Groups]
    BY <1>1 DEF InsertResource, JoinGroup, AskInv, AskOf
  <2> QED  BY <1>1, <2>1, Values DEF InsertResource, JoinGroup, TypeOK
<1>2. CASE UNCHANGED member
  BY <1>2
<1> QED  BY <1>1, <1>2, ZenonT(60) DEF Acts, Requests, Request, Steps, LockGraph, LockRow, Pin,
      CollectAffected, CountReferences, LockDefault, CountBindings, Step, Commits, MoveGroup,
      DeleteGroup, InsertBinding, DeleteProfile, DeleteBinding, CreateProfile, MakeDefault,
      Abort, CreateGroup, Book, FullCheck, StartRefresh, ReadPlacement, ReadHierarchy,
      SaveConflicts, FailRefresh, tables

\* After any other step than these a session is done with its request.
LEMMA Done ==
  ASSUME TypeOK, NEW c \in Clients, Acts(c), ~Requests(c), ~Steps(c)
  PROVE  pc'[c] \in Refreshing \cup {"idle"}
<1>1. CASE Commits(c)
  <2>1. \E R : CommitAndRefresh(c, R)
    BY <1>1 DEF Commits, MoveGroup, DeleteGroup, InsertResource, JoinGroup, InsertBinding,
          DeleteProfile, DeleteBinding, CreateProfile, MakeDefault
  <2> QED  BY <2>1 DEF CommitAndRefresh, TypeOK, Refreshing
<1>2. CASE \E g \in Groups, up \in Groups \cup {Top} : CreateGroup(c, g, up)
  BY <1>2 DEF CreateGroup, Start, refreshing
<1>3. CASE Abort(c) \/ FullCheck(c) \/ SaveConflicts(c) \/ FailRefresh(c) \/ ReadPlacement(c)
           \/ ReadHierarchy(c)
  BY <1>3 DEF Abort, FullCheck, SaveConflicts, FailRefresh, ReadPlacement, ReadHierarchy,
        TypeOK, Refreshing
<1>4. CASE \E r \in Resources : Book(c, r) \/ StartRefresh(c, r)
  BY <1>4 DEF Book, StartRefresh, TypeOK, Refreshing
<1> QED  BY <1>1, <1>2, <1>3, <1>4 DEF Acts

LEMMA AskStep ==
  ASSUME TypeOK, AskInv, CheckInv, NEW c \in Clients, Acts(c)
  PROVE  AskInv'
<1>0. Frame(c)
  BY Framed
<1>1. ASSUME NEW d \in Clients \ {c} PROVE AskOf(d)'
  <2>1. AskOf(d) /\ pc'[d] = pc[d] /\ ask'[d] = ask[d]
    BY <1>0 DEF Frame, AskInv
  <2>2. \A r \in Resources : member[r] # Unborn => member'[r] # Unborn
    BY NobodyLeaves
  <2> QED  BY <2>1, <2>2 DEF AskOf, Targets
<1>2. CASE Requests(c)
  <2>1. UNCHANGED <<parent, member, profile>>
    BY <1>2 DEF Requests, Request, tables
  <2> QED  BY <1>1, <1>2, <2>1, Values, ExistsOf DEF Requests, Request, TypeOK, AskInv, AskOf, Targets
<1>3. CASE Steps(c)
  <2>1. UNCHANGED <<parent, member, profile, ask>>
    BY <1>3 DEF Steps, LockGraph, LockRow, Pin, CollectAffected, CountReferences, LockDefault,
          CountBindings, Step, tables, local
  <2>2. AskOf(c)
    BY DEF AskInv
  <2>3. AskOf(c)'
    BY <1>3, <2>1, <2>2, Values, ExistsOf DEF Steps, LockGraph, LockRow, Pin, CollectAffected,
       CountReferences, LockDefault, CountBindings, Step, AskOf, TypeOK, Targets
  <2> QED  BY <1>1, <2>3 DEF AskInv
<1>4. CASE ~Requests(c) /\ ~Steps(c)
  BY <1>1, <1>4, Done DEF AskInv, AskOf, Refreshing
<1> QED  BY <1>2, <1>3, <1>4

LEMMA LockStep ==
  ASSUME TypeOK, AskInv, CheckInv, LockInv, NEW c \in Clients, Acts(c)
  PROVE  LockInv'
<1> USE Values
<1>0. Frame(c)
  BY Framed
<1>1. ASSUME NEW d \in Clients \ {c} PROVE LockOf(d)'
  <2>1. pc[d] \in {"collect", "move", "count", "delete", "pinToJoin", "join", "bindings", "drop"}
          => ask[d].row \in Rows
    BY DEF AskInv, AskOf, Rows, Targets
  <2> QED  BY <1>0, <2>1 DEF LockInv, LockOf, Frame
<1>2. CASE Steps(c)
  <2>1. LockOf(c) /\ AskOf(c)
    BY DEF LockInv, AskInv
  <2>2. LockOf(c)'
    <3>1. CASE \E at, to : LockGraph(c, at, to)
      BY <1>2, <2>1, <3>1 DEF Steps, LockGraph, LockRow, Pin, CollectAffected,
         CountReferences, LockDefault, CountBindings, Step, LockOf, TypeOK, local
    <3>2. CASE LockRow(c, "lockToMove", "collect") \/ LockRow(c, "lockToDelete", "count")
               \/ LockRow(c, "lockToJoin", "pinToJoin") \/ LockRow(c, "lockProfile", "bindings")
      <4>1. rowLock'[ask[c].row] = c
        BY <3>2, ExistsOf DEF LockRow, TypeOK
      <4> QED  BY <2>1, <3>2, <4>1 DEF LockRow, Step, LockOf, TypeOK, local
    <3>3. CASE CollectAffected(c) \/ CountReferences(c) \/ LockDefault(c) \/ CountBindings(c)
      BY <2>1, <3>3 DEF CollectAffected, CountReferences, LockDefault, CountBindings, Step,
         LockOf, TypeOK, locks, local
    <3>4. CASE \/ Pin(c, ask[c].to, "pinToEnter", "enter") \/ Pin(c, ask[c].to, "pinToJoin", "join")
               \/ Pin(c, ask[c].to, "pinProfile", "pinGroup")
               \/ Pin(c, ask[c].row, "pinGroup", "bind") \/ Pin(c, ask[c].to, "pinOnly", "bind")
      <4>1. /\ pc[c] = "pinOnly" => ask[c].row \notin Groups
            /\ pc[c] # "pinGroup" => ask[c].to \in pins'[c]
            /\ pc[c] = "pinGroup" => ask[c].to \in pins'[c] /\ ask[c].row \in pins'[c]
        BY <2>1, <3>4 DEF Pin, Step, AskOf, LockOf, TypeOK
      <4> QED  BY <2>1, <3>4, <4>1 DEF Pin, Step, LockOf, TypeOK, local
    <3> QED  BY <1>2, <3>1, <3>2, <3>3, <3>4 DEF Steps
  <2>3. Exclusive'
    <3>1. Exclusive
      BY DEF LockInv
    <3>2. CASE \E at, to : LockRow(c, at, to)
      BY <3>1, <3>2 DEF LockRow, TypeOK, Exclusive
    <3>3. CASE \E x, at, to : Pin(c, x, at, to)
      BY <3>1, <3>3 DEF Pin, TypeOK, Exclusive
    <3>4. CASE UNCHANGED <<rowLock, pins>>
      BY <3>1, <3>4 DEF Exclusive
    <3> QED  BY <1>2, <3>2, <3>3, <3>4 DEF Steps, LockGraph, CollectAffected, CountReferences,
          LockDefault, CountBindings, locks
  <2> QED  BY <1>1, <2>2, <2>3 DEF LockInv
<1>3. CASE Requests(c)
  <2>1. LockOf(c)'
    BY <1>3 DEF Requests, Request, LockOf, TypeOK
  <2>2. UNCHANGED <<rowLock, pins>>
    BY <1>3 DEF Requests, Request, locks
  <2> QED  BY <1>1, <2>1, <2>2 DEF LockInv, Exclusive
<1>4. CASE ~Requests(c) /\ ~Steps(c)
  <2>1. LockOf(c)'
    BY <1>4, Done DEF LockOf, Refreshing
  <2>2. CASE UNCHANGED <<rowLock, pins>>
    BY <1>1, <2>1, <2>2 DEF LockInv, Exclusive
  <2>3. CASE EndTransaction(c)
    BY <1>1, <2>1, <2>3 DEF LockInv, Exclusive, EndTransaction, TypeOK
  <2> QED  BY <1>4, <2>2, <2>3, ZenonT(60) DEF Acts, Commits, MoveGroup, DeleteGroup, InsertResource, JoinGroup,
        InsertBinding, DeleteProfile, DeleteBinding, CreateProfile, MakeDefault, CommitAndRefresh,
        Abort, CreateGroup, Book, FullCheck, StartRefresh, ReadPlacement, ReadHierarchy,
        SaveConflicts, FailRefresh, locks
<1> QED  BY <1>2, <1>3, <1>4

\* Parents are changed by whoever holds the graph lock, or while it is free.
LEMMA HolderOnly ==
  ASSUME TypeOK, AskInv, LockInv, NEW c \in Clients, Acts(c),
         NEW d \in Clients \ {c}, graphLock = d
  PROVE  \A g \in Groups : /\ SameParent(g, parent', parent)
                            /\ (parent'[g] = parent[g] \/ parent[g] = Unborn)
<1> USE Values
<1>1. LockOf(c)
  BY DEF LockInv
<1>2. ASSUME NEW g \in Groups, NEW up \in Groups \cup {Top}, CreateGroup(c, g, up)
      PROVE  \A h \in Groups : /\ SameParent(h, parent', parent)
                                /\ (parent'[h] = parent[h] \/ parent[h] = Unborn)
  BY <1>2 DEF CreateGroup, SameParent, TypeOK
<1>3. ~MoveGroup(c) /\ ~DeleteGroup(c)
  BY <1>1 DEF MoveGroup, DeleteGroup, LockOf
<1>4. CASE UNCHANGED parent
  BY <1>4 DEF SameParent
<1> QED  BY <1>2, <1>3, <1>4, ZenonT(60) DEF Acts, Requests, Request, Steps, LockGraph, LockRow, Pin,
      CollectAffected, CountReferences, LockDefault, CountBindings, Step, Commits, InsertResource,
      JoinGroup, InsertBinding, DeleteProfile, DeleteBinding, CreateProfile, MakeDefault,
      Abort, Book, FullCheck, StartRefresh, ReadPlacement, ReadHierarchy, SaveConflicts,
      FailRefresh, tables

\* The key of a row that is kept keeps the row.
PinInv == \A c \in Clients : \A x \in pins[c] : Exists(x)

LEMMA PinnedStay ==
  ASSUME TypeOK, AskInv, LockInv, NEW c \in Clients, Acts(c),
         NEW d \in Clients \ {c}, NEW x \in pins[d], Exists(x)
  PROVE  Exists(x)'
<1> USE Values
<1>1. LockOf(c) /\ AskOf(c) /\ Exclusive /\ x \in Rows
  BY DEF LockInv, AskInv, TypeOK
<1>2. CASE x \in Resources
  BY <1>2, NobodyLeaves, ExistsOf, ExistsNext
<1>3. CASE x \in Groups
  <2>1. parent[x] \notin NoRow
    BY <1>3, ExistsOf
  <2>2. CASE DeleteGroup(c)
    <3>1. x # ask[c].row
      BY <1>1, <2>2 DEF DeleteGroup, LockOf, Exclusive
    <3> QED  BY <1>3, <2>1, <2>2, <3>1, ExistsNext DEF DeleteGroup, TypeOK, NoRow
  <2>3. CASE MoveGroup(c)
    BY <1>1, <1>3, <2>1, <2>3, ExistsNext DEF MoveGroup, AskOf, TypeOK, NoRow
  <2>4. CASE \E g \in Groups, up \in Groups \cup {Top} : CreateGroup(c, g, up)
    BY <1>3, <2>1, <2>4, ExistsNext DEF CreateGroup, TypeOK, NoRow
  <2>5. CASE UNCHANGED parent
    BY <1>3, <2>1, <2>5, ExistsNext
  <2> QED  BY <2>2, <2>3, <2>4, <2>5, ZenonT(60) DEF Acts, Requests, Request, Steps, LockGraph, LockRow, Pin,
        CollectAffected, CountReferences, LockDefault, CountBindings, Step, Commits,
        InsertResource, JoinGroup, InsertBinding, DeleteProfile, DeleteBinding, CreateProfile,
        MakeDefault, Abort, Book, FullCheck, StartRefresh, ReadPlacement, ReadHierarchy,
        SaveConflicts, FailRefresh, tables
<1>4. CASE x \in Profiles
  <2>1. profile[x]
    BY <1>4, ExistsOf
  <2>2. CASE DeleteProfile(c)
    <3>1. x # ask[c].row
      BY <1>1, <2>2 DEF DeleteProfile, LockOf, Exclusive
    <3> QED  BY <1>4, <2>1, <2>2, <3>1, ExistsNext DEF DeleteProfile, TypeOK
  <2>3. CASE \E p \in Profiles : CreateProfile(c, p, TRUE) \/ CreateProfile(c, p, FALSE)
    BY <1>4, <2>1, <2>3, ExistsNext DEF CreateProfile, TypeOK
  <2>4. CASE UNCHANGED profile
    BY <1>4, <2>1, <2>4, ExistsNext
  <2> QED  BY <2>2, <2>3, <2>4, ZenonT(60) DEF Acts, Requests, Request, Steps, LockGraph, LockRow, Pin,
        CollectAffected, CountReferences, LockDefault, CountBindings, Step, Commits, MoveGroup,
        DeleteGroup, InsertResource, JoinGroup, InsertBinding, DeleteBinding, MakeDefault,
        CreateGroup, Abort, Book, FullCheck, StartRefresh, ReadPlacement, ReadHierarchy,
        SaveConflicts, FailRefresh, tables
<1> QED  BY <1>1, <1>2, <1>3, <1>4 DEF Rows, Targets

LEMMA PinStep ==
  ASSUME TypeOK, AskInv, CheckInv, LockInv, PinInv, NEW c \in Clients, Acts(c)
  PROVE  PinInv'
<1>0. Frame(c)
  BY Framed
<1>1. ASSUME NEW d \in Clients \ {c}, NEW x \in pins'[d] PROVE Exists(x)'
  <2>1. x \in pins[d]
    BY <1>0, <1>1 DEF Frame
  <2>2. Exists(x)
    BY <2>1 DEF PinInv
  <2> QED  BY <2>1, <2>2, PinnedStay
<1>2. CASE EndTransaction(c)
  BY <1>1, <1>2 DEF EndTransaction, TypeOK, PinInv
<1>3. CASE Requests(c) \/ Steps(c)
  <2>1. UNCHANGED <<parent, member, profile>>
    BY <1>3 DEF Requests, Request, Steps, LockGraph, LockRow, Pin, CollectAffected,
          CountReferences, LockDefault, CountBindings, Step, tables
  <2>2. ASSUME NEW x \in pins'[c] PROVE Exists(x)
    <3>1. CASE \E at, to, y : Pin(c, y, at, to)
      BY <2>2, <3>1 DEF Pin, TypeOK, PinInv
    <3>2. CASE UNCHANGED pins
      BY <2>2, <3>2 DEF PinInv
    <3> QED  BY <1>3, <3>1, <3>2 DEF Requests, Request, Steps, LockGraph, LockRow,
          CollectAffected, CountReferences, LockDefault, CountBindings, locks
  <2> QED  BY <1>1, <2>1, <2>2 DEF PinInv, Exists
<1>4. CASE \E g \in Groups, up \in Groups \cup {Top} : CreateGroup(c, g, up)
  <2>1. UNCHANGED <<member, profile, pins>>
    BY <1>4 DEF CreateGroup, locks
  <2>2. \A x \in Groups : parent[x] \notin NoRow => parent'[x] \notin NoRow
    BY <1>4, Values DEF CreateGroup, TypeOK, NoRow
  <2> QED  BY <1>1, <2>1, <2>2 DEF PinInv, Exists
<1>5. CASE UNCHANGED <<parent, member, profile, pins>>
  BY <1>1, <1>5 DEF PinInv, Exists
<1> QED  BY <1>2, <1>3, <1>4, <1>5, ZenonT(60) DEF Acts, Commits, MoveGroup, DeleteGroup, InsertResource,
      JoinGroup, InsertBinding, DeleteProfile, DeleteBinding, CreateProfile, MakeDefault,
      CommitAndRefresh, Abort, Book, FullCheck, StartRefresh, ReadPlacement, ReadHierarchy,
      SaveConflicts, FailRefresh, tables, locks

\* What one session has checked.
ChecksOf(c) ==
  /\ pc[c] = "move" /\ ask[c].to # Top => ~WouldCreateCycle(ask[c].row, ask[c].to)
  /\ pc[c] \in {"enter", "join"} => Exists(ask[c].to)
  /\ pc[c] = "bind" => Exists(ask[c].to) /\ Exists(ask[c].row)
  /\ pc[c] = "delete" => Unused(ask[c].row)
  /\ pc[c] = "drop" => Dispensable(ask[c].row)

\* A group that is about to be deleted stays unused.
LEMMA UnusedStays ==
  ASSUME TypeOK, AskInv, CheckInv, LockInv, NEW c \in Clients, Acts(c),
         NEW d \in Clients \ {c}, pc[d] = "delete", Unused(ask[d].row)
  PROVE  Unused(ask[d].row)'
<1> USE Values
<1> DEFINE g == ask[d].row
<1>1. ask'[d] = ask[d]
  BY Framed DEF Frame
<1>2. g \in Groups /\ graphLock = d /\ rowLock[g] = d /\ Exclusive /\ LockOf(c) /\ AskOf(c)
  BY DEF AskInv, AskOf, LockInv, LockOf
<1> HIDE DEF g
<1>3. \A h \in Groups : parent'[h] # g
  BY <1>2, HolderOnly DEF SameParent, Unused, Subgroups, g
<1>4. \A r \in Resources : member'[r] # g
  <2>1. \A r \in Resources : member[r] # g
    BY DEF Unused, Members, g
  <2>2. CASE InsertResource(c) \/ JoinGroup(c)
    <3>1. ask[c].to # g
      BY <1>2, <2>2 DEF InsertResource, JoinGroup, LockOf, Exclusive, Rows, Targets
    <3> QED  BY <2>1, <2>2, <3>1 DEF InsertResource, JoinGroup, TypeOK
  <2>3. CASE UNCHANGED member
    BY <2>1, <2>3
  <2> QED  BY <2>2, <2>3, ZenonT(60) DEF Acts, Requests, Request, Steps, LockGraph, LockRow, Pin,
        CollectAffected, CountReferences, LockDefault, CountBindings, Step, Commits, MoveGroup,
        DeleteGroup, InsertBinding, DeleteProfile, DeleteBinding, CreateProfile, MakeDefault,
        Abort, CreateGroup, Book, FullCheck, StartRefresh, ReadPlacement, ReadHierarchy,
        SaveConflicts, FailRefresh, tables
<1>5. binding'[g] = NoProfile
  <2>1. binding[g] = NoProfile
    BY DEF Unused, g
  <2>2. CASE InsertBinding(c)
    <3>1. ask[c].row # g
      BY <1>2, <2>2 DEF InsertBinding, LockOf, Exclusive, Rows, Targets
    <3> QED  BY <1>2, <2>1, <2>2, <3>1 DEF InsertBinding, TypeOK, Targets
  <2>3. CASE \E t \in Targets : DeleteBinding(c, t)
    BY <1>2, <2>1, <2>3 DEF DeleteBinding, TypeOK, Targets
  <2>4. CASE UNCHANGED binding
    BY <2>1, <2>4
  <2> QED  BY <2>2, <2>3, <2>4, ZenonT(60) DEF Acts, Requests, Request, Steps, LockGraph, LockRow, Pin,
        CollectAffected, CountReferences, LockDefault, CountBindings, Step, Commits, MoveGroup,
        DeleteGroup, InsertResource, JoinGroup, DeleteProfile, CreateProfile, MakeDefault,
        Abort, CreateGroup, Book, FullCheck, StartRefresh, ReadPlacement, ReadHierarchy,
        SaveConflicts, FailRefresh, tables
<1> QED  BY <1>1, <1>3, <1>4, <1>5 DEF Unused, Subgroups, Members, g

\* A profile that is about to be deleted is not bound and not made the default.
LEMMA DispensableStays ==
  ASSUME TypeOK, AskInv, CheckInv, LockInv, NEW c \in Clients, Acts(c),
         NEW d \in Clients \ {c}, pc[d] = "drop", Dispensable(ask[d].row)
  PROVE  Dispensable(ask[d].row)'
<1> USE Values
<1> DEFINE p == ask[d].row
<1>1. ask'[d] = ask[d]
  BY Framed DEF Frame
<1>2. p \in Profiles /\ defaultLock = d /\ rowLock[p] = d /\ Exclusive /\ LockOf(c) /\ AskOf(c)
  BY DEF AskInv, AskOf, LockInv, LockOf
<1> HIDE DEF p
<1>3. default # p /\ \A t \in Targets : binding[t] # p
  BY DEF Dispensable, p
<1>4. default' # p /\ \A t \in Targets : binding'[t] # p
  <2>1. CASE InsertBinding(c)
    <3>1. ask[c].to # p
      BY <1>2, <2>1 DEF InsertBinding, LockOf, Exclusive, Rows
    <3> QED  BY <1>3, <2>1, <3>1 DEF InsertBinding, TypeOK
  <2>2. CASE \E t \in Targets : DeleteBinding(c, t)
    BY <1>2, <1>3, <2>2 DEF DeleteBinding, TypeOK
  <2>3. CASE \E q \in Profiles : CreateProfile(c, q, TRUE) \/ CreateProfile(c, q, FALSE)
                                 \/ MakeDefault(c, q)
    BY <1>2, <1>3, <2>3 DEF CreateProfile, MakeDefault
  <2>4. CASE UNCHANGED <<binding, default>>
    BY <1>3, <2>4
  <2> QED  BY <2>1, <2>2, <2>3, <2>4, ZenonT(60) DEF Acts, Requests, Request, Steps, LockGraph, LockRow, Pin,
        CollectAffected, CountReferences, LockDefault, CountBindings, Step, Commits, MoveGroup,
        DeleteGroup, InsertResource, JoinGroup, DeleteProfile,
        Abort, CreateGroup, Book, FullCheck, StartRefresh, ReadPlacement, ReadHierarchy,
        SaveConflicts, FailRefresh, tables
<1> QED  BY <1>1, <1>4 DEF Dispensable, p

LEMMA ChecksStep ==
  ASSUME TypeOK, AskInv, AskInv', CheckInv, LockInv, LockInv', PinInv', ChecksStayTrue,
         NEW c \in Clients, Acts(c)
  PROVE  ChecksStayTrue'
<1> USE Values
<1>0. Frame(c) /\ \A d \in Clients : ChecksOf(d)
  BY Framed DEF ChecksStayTrue, ChecksOf
<1>1. ASSUME NEW d \in Clients
      PROVE  /\ pc'[d] \in {"enter", "join"} => Exists(ask[d].to)'
             /\ pc'[d] = "bind" => Exists(ask[d].to)' /\ Exists(ask[d].row)'
  <2>1. pc'[d] \in {"enter", "join", "bind"} => ask'[d].to \in pins'[d]
    BY DEF LockInv, LockOf
  <2>2. pc'[d] = "bind" => \/ ask'[d].row \in pins'[d]
                           \/ (ask'[d].row \in Resources /\ member'[ask'[d].row] # Unborn)
    BY DEF LockInv, LockOf, AskInv, AskOf, Targets
  <2> QED  BY <2>1, <2>2, ExistsNext DEF PinInv
<1>2. ASSUME NEW d \in Clients \ {c}, pc[d] = "move", ask[d].to # Top
      PROVE  ~(ask[d].row \in Chain(ask[d].to, parent'))
  <2>1. \A g \in Groups : SameParent(g, parent', parent)
    BY <1>2, HolderOnly DEF LockInv, LockOf
  <2>2. Chain(ask[d].to, parent') = Chain(ask[d].to, parent)
    <3>1. Chain(ask[d].to, parent) \subseteq Groups
      BY DEF Chain
    <3> QED  BY <2>1, <3>1, ChainAgree
  <2> QED  BY <1>0, <1>2, <2>2 DEF ChecksOf, WouldCreateCycle
<1>3. ASSUME NEW d \in Clients \ {c} PROVE ChecksOf(d)'
  <2>1. pc'[d] = pc[d] /\ ask'[d] = ask[d]
    BY <1>0 DEF Frame
  <2> QED  BY <1>0, <1>1, <1>2, <2>1, UnusedStays, DispensableStays
           DEF ChecksOf, WouldCreateCycle
<1>4. CASE Steps(c)
  <2>1. UNCHANGED <<parent, member, binding, default, ask>>
    BY <1>4 DEF Steps, LockGraph, LockRow, Pin, CollectAffected, CountReferences,
          LockDefault, CountBindings, Step, tables, local
  <2>2. /\ pc'[c] = "move" => CollectAffected(c)
        /\ pc'[c] = "delete" => CountReferences(c)
        /\ pc'[c] = "drop" => CountBindings(c)
    BY <1>4 DEF Steps, LockGraph, LockRow, Pin, CollectAffected, CountReferences,
          LockDefault, CountBindings, Step, TypeOK
  <2>3. /\ pc'[c] = "move" /\ ask'[c].to # Top => ~(ask'[c].row \in Chain(ask'[c].to, parent'))
        /\ pc'[c] = "delete" => Unused(ask[c].row)'
        /\ pc'[c] = "drop" => Dispensable(ask[c].row)'
    BY <2>1, <2>2 DEF CollectAffected, CountReferences, CountBindings, WouldCreateCycle, Unused,
         Dispensable, Subgroups, Members
  <2> QED  BY <1>1, <1>3, <2>3 DEF ChecksStayTrue, ChecksOf, WouldCreateCycle
<1>5. CASE Requests(c)
  BY <1>1, <1>3, <1>5 DEF Requests, Request, TypeOK, ChecksStayTrue, ChecksOf
<1>6. CASE ~Requests(c) /\ ~Steps(c)
  BY <1>3, <1>6, Done DEF ChecksStayTrue, ChecksOf, Refreshing
<1> QED  BY <1>4, <1>5, <1>6

-----------------------------------------------------------------------------
(***************************************************************************)
(* The groups stay a tree.                                                 *)
(***************************************************************************)

\* Parents that are dropped close no cycle.
LEMMA PrunedAcyclic ==
  ASSUME NEW up, Acyclic(up), NEW new, \A h \in Groups : new[h] = up[h] \/ new[h] \notin Groups
  PROVE  Acyclic(new)
<1> SUFFICES ASSUME NEW S \in SUBSET Groups, S # {} PROVE \E g \in S : new[g] \notin S
  BY DEF Acyclic
<1>1. PICK g \in S : up[g] \notin S
  BY DEF Acyclic
<1> QED  BY <1>1

\* C is the chain of the new parent, and f is outside.  A set of groups that
\* meets C has its end in C, where nothing moved; in one that does not meet C
\* the end stays an end, f's new parent being in C.
LEMMA MovedAcyclic ==
  ASSUME NEW up, Acyclic(up), NEW f \in Groups, NEW to \in Groups, f \notin Chain(to, up),
         NEW new, new[f] = to, \A h \in Groups \ {f} : new[h] = up[h]
  PROVE  Acyclic(new)
<1> DEFINE C == Chain(to, up)
<1> SUFFICES ASSUME NEW S \in SUBSET Groups, S # {} PROVE \E g \in S : new[g] \notin S
  BY DEF Acyclic
<1>1. C \in SUBSET Groups /\ to \in C /\ Closed(C, up)
  BY ChainClosed
<1> HIDE DEF C
<1>2. CASE S \cap C # {}
  <2>1. PICK g \in S \cap C : up[g] \notin S \cap C
    BY <1>2 DEF Acyclic
  <2>2. up[g] \notin S
    BY <1>1, <2>1 DEF Closed
  <2> QED  BY <1>1, <2>1, <2>2 DEF C
<1>3. CASE S \cap C = {}
  <2>1. PICK g \in S : up[g] \notin S
    BY DEF Acyclic
  <2> QED  BY <1>1, <1>3, <2>1
<1> QED  BY <1>2, <1>3

\* A group nobody has for a parent is above nobody else.
LEMMA NewInNoChain ==
  ASSUME TypeOK, NEW g \in Groups, parent[g] = Unborn
  PROVE  \A h \in Groups : parent[h] # g
BY KeysOf DEF TypeOK, Keys, NoRow

LEMMA TreeStep ==
  ASSUME TypeOK, AskInv, ChecksStayTrue, NoCycle, NEW c \in Clients, Acts(c)
  PROVE  NoCycle'
<1> USE Values
<1>1. CASE MoveGroup(c)
  <2>1. ask[c] \in [row : Groups, to : Groups \cup {Top}] /\ ask[c] # Nothing
        /\ parent' = [parent EXCEPT ![ask[c].row] = ask[c].to]
    BY <1>1, ValuesAssumption DEF MoveGroup, AskInv, AskOf, Ask, Rows, Targets
  <2>2. CASE ask[c].to = Top
    BY <2>1, <2>2, PrunedAcyclic DEF NoCycle, TypeOK
  <2>3. CASE ask[c].to \in Groups
    <3>1. ask[c].row \notin Chain(ask[c].to, parent)
      BY <1>1, <2>3 DEF MoveGroup, ChecksStayTrue, WouldCreateCycle
    <3> QED  BY <2>1, <2>3, <3>1, MovedAcyclic, ZenonT(60) DEF NoCycle, TypeOK
  <2> QED  BY <2>1, <2>2, <2>3
<1>2. CASE DeleteGroup(c)
  <2>1. \A h \in Groups : parent'[h] = parent[h] \/ parent'[h] \notin Groups
    BY <1>2 DEF DeleteGroup
  <2> QED  BY <2>1, PrunedAcyclic DEF NoCycle
<1>3. ASSUME NEW g \in Groups, NEW up \in Groups \cup {Top}, CreateGroup(c, g, up)
      PROVE  NoCycle'
  <2>1. parent[g] = Unborn /\ parent' = [parent EXCEPT ![g] = up] /\ up # g
    BY <1>3, ExistsOf DEF CreateGroup, NoRow
  <2>2. CASE up = Top
    BY <2>1, <2>2, PrunedAcyclic DEF NoCycle, TypeOK
  <2>3. CASE up \in Groups
    <3>1. g \notin Chain(up, parent)
      BY <2>1, NewInNoChain, LeafInNoChain
    <3> QED  BY <2>1, <2>3, <3>1, MovedAcyclic, ZenonT(60) DEF NoCycle, TypeOK
  <2> QED  BY <2>2, <2>3
<1>4. CASE UNCHANGED parent
  BY <1>4 DEF NoCycle, Acyclic
<1> QED  BY <1>1, <1>2, <1>3, <1>4, ZenonT(60) DEF Acts, Requests, Request, Steps, LockGraph, LockRow, Pin,
      CollectAffected, CountReferences, LockDefault, CountBindings, Step, Commits, InsertResource,
      JoinGroup, InsertBinding, DeleteProfile, DeleteBinding, CreateProfile, MakeDefault,
      Abort, Book, FullCheck, StartRefresh, ReadPlacement, ReadHierarchy, SaveConflicts,
      FailRefresh, tables

-----------------------------------------------------------------------------
\* What sessions have checked stays so because of the locks they hold.
Locking == /\ TypeOK /\ AskInv /\ CheckInv /\ LockInv /\ PinInv
           /\ ChecksStayTrue /\ NoCycle

LEMMA LockingInit == Init => Locking
<1> SUFFICES ASSUME Init PROVE Locking
  OBVIOUS
<1>1. AskInv /\ CheckInv /\ LockInv /\ PinInv /\ ChecksStayTrue
  BY Values DEF Init, AskInv, AskOf, CheckInv, LockInv, LockOf, Exclusive, PinInv,
     ChecksStayTrue
<1>2. NoCycle
  BY StartAssumption DEF Init, NoCycle
<1> QED  BY <1>1, <1>2, InitTyped DEF Locking

LEMMA LockingStep == Locking /\ [Next]_vars => Locking'
<1> SUFFICES ASSUME Locking, [Next]_vars PROVE Locking'
  OBVIOUS
<1>1. CASE UNCHANGED vars
  <2>1. UNCHANGED <<parent, member, binding, profile, born, default, shown, graphLock,
                    defaultLock, rowLock, pins, checkLock, pc, ask, affected, late, owed,
                    view, failed, missed, requests, failures>>
    BY <1>1 DEF vars, tables, locks, refreshing, local, history
  <2>2. TypeOK'
    BY <2>1 DEF Locking, TypeOK, ForeignKeys, Exists
  <2>3. AskInv' /\ CheckInv' /\ LockInv' /\ PinInv' /\ NoCycle'
    BY <2>1 DEF Locking, AskInv, AskOf, CheckInv, LockInv, LockOf, Exclusive, PinInv, Exists,
       NoCycle, Acyclic
  <2>4. ChecksStayTrue'
    BY <2>1 DEF Locking, ChecksStayTrue, WouldCreateCycle, Chain, Closed, Exists, Unused,
       Subgroups, Members, Dispensable
  <2> QED  BY <2>2, <2>3, <2>4 DEF Locking
<1>2. ASSUME NEW c \in Clients, Acts(c) PROVE Locking'
  <2>1. TypeOK' /\ AskInv' /\ CheckInv' /\ LockInv' /\ PinInv' /\ NoCycle'
    BY <1>2, TypeStep, AskStep, CheckStep, LockStep, PinStep, TreeStep DEF Locking
  <2>2. ChecksStayTrue'
    BY <1>2, <2>1, ChecksStep DEF Locking
  <2> QED  BY <2>1, <2>2 DEF Locking
<1> QED  BY <1>1, <1>2, Cases

LEMMA Locked == Spec => []Locking
<1> QED  BY LockingInit, LockingStep, PTL DEF Spec

\* Columns keep their types and every reference its row: no foreign key of the
\* tables is left dangling, and there is always a default profile.
THEOREM Typed == Spec => []TypeOK
<1>1. Locking => TypeOK
  BY DEF Locking
<1> QED  BY <1>1, Locked, PTL

\* resource_group_service.py: moves and creations never close a cycle.
THEOREM GroupsStayATree == Spec => []NoCycle
<1>1. Locking => NoCycle
  BY DEF Locking
<1> QED  BY <1>1, Locked, PTL

\* What was checked under a lock still holds at the write it was checked for.
THEOREM ChecksHold == Spec => []ChecksStayTrue
<1>1. Locking => ChecksStayTrue
  BY DEF Locking
<1> QED  BY <1>1, Locked, PTL

-----------------------------------------------------------------------------
(***************************************************************************)
(* Whose hours a step changes.                                             *)
(***************************************************************************)

\* What hours are made of, the tree aside.
Inputs(r) == <<binding[r], GroupBindings, default, member[r]>>

\* Who has conflicts exists; only a session that refreshes owes.
OwedOf(c) == owed[c] \subseteq Booked /\ (pc[c] \notin Refreshing => owed[c] = {})
OwedInv == /\ \A r \in Booked : member[r] # Unborn
           /\ \A c \in Clients : OwedOf(c)

\* A move knows who is beneath its group, but for those who came since.
MoveInv == \A c \in Clients :
  pc[c] = "move" /\ ask[c].to # parent[ask[c].row] => Beneath(ask[c].row) \subseteq affected[c] \cup late[c]

\* A group that is deleted was above nobody.
LEMMA DeletionKeepsHours ==
  ASSUME Locking, NEW c \in Clients, DeleteGroup(c), NEW r \in Resources
  PROVE  Hours(r)' = Hours(r)
<1> USE Values
<1> DEFINE g == ask[c].row
<1>1. g \in Groups /\ Subgroups(g) = {} /\ Members(g) = {}
  BY DEF DeleteGroup, Locking, AskInv, AskOf, ChecksStayTrue, Unused
<1>2. g \notin Chain(member[r], parent)
  BY <1>1, LeafInNoChain DEF Subgroups, Members
<1>3. \A h \in Chain(member[r], parent) : SameParent(h, parent', parent)
  BY <1>1, <1>2 DEF DeleteGroup, SameParent, Chain, Subgroups
<1>4. UNCHANGED <<binding, default, member>>
  BY DEF DeleteGroup
<1> HIDE DEF g
<1>5. HoursOf(binding[r], GroupBindings, default, member[r], parent')
        = HoursOf(binding[r], GroupBindings, default, member[r], parent)
  BY <1>3, HoursAgree
<1> QED  BY <1>4, <1>5 DEF Hours, HoursIn, GroupBindings

\* Who has conflicts and gets other hours is owed a refresh, or was missed.
LEMMA WritesOwe ==
  ASSUME Locking, OwedInv, MoveInv, NEW c \in Clients, Acts(c), NEW r \in Booked
  PROVE  /\ Inputs(r)' # Inputs(r) => r \in owed'[c]
         /\ Hours(r)' # Hours(r) => r \in owed'[c] \cup missed'
<1> USE Values
<1>0. TypeOK /\ AskOf(c) /\ r \in Resources /\ member[r] # Unborn /\ r \in Targets
  BY DEF Locking, AskInv, Booked, OwedInv, Targets
<1>1. CASE UNCHANGED <<binding, default, member, parent>>
  BY <1>1 DEF Inputs, GroupBindings, Hours, HoursIn
<1>2. CASE MoveGroup(c)
  <2> DEFINE g == ask[c].row
             up == [parent EXCEPT ![g] = ask[c].to]
  <2>1. UNCHANGED <<binding, default, member>> /\ parent' = up /\ g \in Groups /\ pc[c] = "move"
    BY <1>0, <1>2 DEF MoveGroup, AskOf
  <2>2. Hours(r)' = HoursIn(r, up) /\ Inputs(r)' = Inputs(r)
    BY <2>1 DEF Hours, HoursIn, GroupBindings, Inputs
  <2>3. CASE ask[c].to = parent[g]
    <3>1. up = parent
      BY <1>0, <2>1, <2>3 DEF TypeOK
    <3> QED  BY <2>2, <3>1 DEF Hours
  <2>4. CASE r \notin Beneath(g)
    <3>1. g \notin Chain(member[r], parent)
      BY <1>0, <2>4 DEF Beneath
    <3>2. \A h \in Chain(member[r], parent) : SameParent(h, up, parent)
      BY <1>0, <3>1 DEF SameParent, Chain, TypeOK
    <3> HIDE DEF up
    <3>3. HoursIn(r, up) = HoursIn(r, parent)
      BY <3>2, HoursAgree DEF HoursIn
    <3> QED  BY <2>2, <3>3 DEF Hours
  <2>5. CASE r \in affected[c]
    BY <1>0, <1>2, <2>2, <2>5 DEF MoveGroup, CommitAndRefresh, TypeOK
  <2>6. CASE r \in late[c] \ affected[c]
    BY <1>2, <2>2, <2>6 DEF MoveGroup
  <2> QED  BY <2>1, <2>3, <2>4, <2>5, <2>6 DEF MoveInv
<1>3. CASE DeleteGroup(c)
  BY <1>0, <1>3, DeletionKeepsHours DEF DeleteGroup, Inputs, GroupBindings
<1>4. CASE InsertResource(c)
  <2>1. ask[c].row # r /\ UNCHANGED <<parent, binding, default>>
        /\ member' = [member EXCEPT ![ask[c].row] = ask[c].to]
    BY <1>0, <1>4 DEF InsertResource
  <2> QED  BY <1>0, <2>1 DEF Inputs, GroupBindings, Hours, HoursIn, TypeOK
<1>5. CASE JoinGroup(c)
  <2>1. CASE ask[c].row = r
    BY <1>0, <1>5, <2>1 DEF JoinGroup, CommitAndRefresh, TypeOK
  <2>2. CASE ask[c].row # r
    <3>1. UNCHANGED <<parent, binding, default>>
          /\ member' = [member EXCEPT ![ask[c].row] = ask[c].to]
      BY <1>5 DEF JoinGroup
    <3> QED  BY <1>0, <2>2, <3>1 DEF Inputs, GroupBindings, Hours, HoursIn, TypeOK
  <2> QED  BY <2>1, <2>2
<1>6. ASSUME NEW t \in Targets, CommitAndRefresh(c, Everyone(t)),
             UNCHANGED <<parent, member, default>>, \A s \in Targets \ {t} : binding'[s] = binding[s]
      PROVE  /\ Inputs(r)' # Inputs(r) => r \in owed'[c]
             /\ Hours(r)' # Hours(r) => r \in owed'[c] \cup missed'
  <2>1. CASE t \in Resources \ {r}
    <3>1. binding'[r] = binding[r] /\ GroupBindings' = GroupBindings
      BY <1>0, <1>6, <2>1 DEF GroupBindings, Targets
    <3> QED  BY <1>6, <3>1 DEF Inputs, Hours, HoursIn
  <2>2. CASE t \notin Resources \/ t = r
    <3>1. r \in Everyone(t)
      BY <1>0, <2>2 DEF Everyone
    <3> QED  BY <1>0, <1>6, <3>1 DEF CommitAndRefresh, TypeOK
  <2> QED  BY <2>1, <2>2
<1>7. CASE InsertBinding(c)
  BY <1>0, <1>6, <1>7 DEF InsertBinding, AskOf, TypeOK
<1>8. CASE \E t \in Targets : DeleteBinding(c, t)
  BY <1>0, <1>6, <1>8 DEF DeleteBinding, TypeOK
<1>9. CASE \E p \in Profiles : CreateProfile(c, p, TRUE) \/ CreateProfile(c, p, FALSE)
                                 \/ MakeDefault(c, p)
  <2>1. CommitAndRefresh(c, Resources)
    BY <1>9 DEF CreateProfile, MakeDefault
  <2> QED  BY <1>0, <2>1 DEF CommitAndRefresh, TypeOK
<1>10. ASSUME NEW g \in Groups, NEW up \in Groups \cup {Top}, CreateGroup(c, g, up)
       PROVE  Hours(r)' = Hours(r) /\ Inputs(r)' = Inputs(r)
  <2>1. g \notin Chain(member[r], parent)
    <3>1. member[r] # g
      BY <1>0, <1>10, KeysOf DEF CreateGroup, Keys, TypeOK, NoRow
    <3> QED  BY <1>0, <1>10, <3>1, NewInNoChain, LeafInNoChain DEF CreateGroup
  <2>2. \A h \in Chain(member[r], parent) : SameParent(h, parent', parent)
    BY <1>0, <1>10, <2>1 DEF CreateGroup, SameParent, Chain, TypeOK
  <2>3. UNCHANGED <<binding, default, member>>
    BY <1>10 DEF CreateGroup
  <2>4. HoursOf(binding[r], GroupBindings, default, member[r], parent')
          = HoursOf(binding[r], GroupBindings, default, member[r], parent)
    BY <2>2, HoursAgree
  <2> QED  BY <2>3, <2>4 DEF Hours, HoursIn, GroupBindings, Inputs
<1> QED  BY <1>1, <1>2, <1>3, <1>4, <1>5, <1>7, <1>8, <1>9, <1>10, ZenonT(60) DEF Acts, Requests, Request,
      Steps, LockGraph, LockRow, Pin, CollectAffected, CountReferences, LockDefault,
      CountBindings, Step, Commits, DeleteProfile, Abort, Book, FullCheck, StartRefresh,
      ReadPlacement, ReadHierarchy, SaveConflicts, FailRefresh, tables

LEMMA OwedStep ==
  ASSUME Locking, OwedInv, NEW c \in Clients, Acts(c)
  PROVE  OwedInv'
<1> USE Values
<1>0. TypeOK /\ AskInv /\ CheckInv /\ Frame(c) /\ OwedOf(c)
  BY Framed DEF Locking, OwedInv
<1>1. \A r \in Resources : member[r] # Unborn => member'[r] # Unborn
  BY <1>0, NobodyLeaves
<1>2. ASSUME Booked \subseteq Booked', NEW d \in Clients \ {c} PROVE OwedOf(d)'
  BY <1>0, <1>2 DEF OwedInv, OwedOf, Frame
<1>3. CASE Commits(c)
  <2>1. PICK R : CommitAndRefresh(c, R)
    BY <1>3 DEF Commits, MoveGroup, DeleteGroup, InsertResource, JoinGroup, InsertBinding,
          DeleteProfile, DeleteBinding, CreateProfile, MakeDefault
  <2>2. Booked' = Booked
    BY <2>1 DEF CommitAndRefresh, Booked
  <2>3. OwedOf(c)'
    BY <1>0, <2>1, <2>2 DEF CommitAndRefresh, OwedOf, TypeOK, Refreshing
  <2> QED  BY <1>1, <1>2, <2>2, <2>3 DEF OwedInv, Booked
<1>4. CASE Requests(c) \/ Steps(c) \/ Abort(c)
  <2>1. UNCHANGED <<shown, owed>> /\ pc[c] \notin Refreshing
    BY <1>4 DEF Requests, Request, Start, Steps, LockGraph, LockRow, Pin, CollectAffected,
          CountReferences, LockDefault, CountBindings, Step, Abort, refreshing, Refreshing, Writing
  <2>2. Booked' = Booked
    BY <2>1 DEF Booked
  <2>3. OwedOf(c)'
    BY <1>0, <2>1, <2>2 DEF OwedOf
  <2> QED  BY <1>1, <1>2, <2>2, <2>3 DEF OwedInv, Booked
<1>5. CASE \E g \in Groups, up \in Groups \cup {Top} : CreateGroup(c, g, up)
  <2>1. UNCHANGED <<shown, owed, pc>>
    BY <1>5 DEF CreateGroup, refreshing
  <2>2. Booked' = Booked
    BY <2>1 DEF Booked
  <2> QED  BY <1>0, <1>1, <1>2, <2>1, <2>2 DEF OwedInv, Booked, OwedOf
<1>6. ASSUME NEW r \in Resources, Book(c, r) PROVE OwedInv'
  <2>1. Booked' = Booked \cup {r} /\ member'[r] # Unborn
    BY <1>0, <1>6, <1>1, ExistsOf DEF Book, Booked, TypeOK
  <2>2. OwedOf(c)'
    BY <1>0, <1>6, <2>1 DEF Book, OwedOf, TypeOK, Refreshing
  <2> QED  BY <1>1, <1>2, <2>1, <2>2 DEF OwedInv, Booked
<1>7. CASE FullCheck(c)
  <2>1. Booked' = Booked
    BY <1>7 DEF FullCheck, Booked
  <2>2. OwedOf(c)'
    BY <1>0, <1>7, <2>1 DEF FullCheck, OwedOf, TypeOK, Refreshing
  <2> QED  BY <1>1, <1>2, <2>1, <2>2 DEF OwedInv, Booked
<1>8. CASE (\E r \in Resources : StartRefresh(c, r)) \/ ReadPlacement(c) \/ ReadHierarchy(c)
  <2>1. UNCHANGED <<shown, owed>> /\ pc'[c] \in Refreshing
    BY <1>0, <1>8 DEF StartRefresh, ReadPlacement, ReadHierarchy, Refreshing, TypeOK
  <2>2. Booked' = Booked
    BY <2>1 DEF Booked
  <2>3. OwedOf(c)'
    BY <1>0, <2>1, <2>2 DEF OwedOf
  <2> QED  BY <1>1, <1>2, <2>2, <2>3 DEF OwedInv, Booked
<1>9. CASE SaveConflicts(c)
  <2>1. view[c].resource \in Resources \cap owed[c] /\ view[c].hours # Unbooked
    BY <1>0, <1>9 DEF SaveConflicts, CheckInv, TypeOK, View
  <2>2. Booked' = Booked
    BY <1>0, <1>9, <2>1 DEF SaveConflicts, Booked, TypeOK, OwedOf
  <2>3. OwedOf(c)'
    BY <1>0, <1>9, <2>2 DEF SaveConflicts, OwedOf, TypeOK, Refreshing
  <2> QED  BY <1>1, <1>2, <2>2, <2>3 DEF OwedInv, Booked
<1>10. CASE FailRefresh(c)
  <2>1. Booked' = Booked
    BY <1>10 DEF FailRefresh, Booked
  <2>2. OwedOf(c)'
    BY <1>0, <1>10 DEF FailRefresh, OwedOf, TypeOK
  <2> QED  BY <1>1, <1>2, <2>1, <2>2 DEF OwedInv, Booked
<1> QED  BY <1>3, <1>4, <1>5, <1>6, <1>7, <1>8, <1>9, <1>10 DEF Acts

\* The graph lock keeps the tree, and late who came beneath the group.
LEMMA MoveStep ==
  ASSUME Locking, MoveInv, NEW c \in Clients, Acts(c)
  PROVE  MoveInv'
<1> USE Values
<1>0. TypeOK /\ AskInv /\ CheckInv /\ LockInv /\ Frame(c)
  BY Framed DEF Locking
<1> DEFINE Known(d) == Beneath(ask[d].row) \subseteq affected[d] \cup late[d]
<1>1. ASSUME NEW d \in Clients \ {c}, pc[d] = "move", ask[d].to # parent'[ask[d].row]
      PROVE  Known(d)'
  <2> DEFINE g == ask[d].row
  <2>1. g \in Groups /\ ask[d].to \in Groups \cup {Top} /\ graphLock = d
    BY <1>0, <1>1 DEF AskInv, AskOf, LockInv, LockOf
  <2>2. \A h \in Groups : /\ SameParent(h, parent', parent)
                          /\ (parent'[h] = parent[h] \/ parent[h] = Unborn)
    BY <1>0, <2>1, HolderOnly
  <2>3. ask[d].to # parent[g]
    BY <1>1, <2>1, <2>2
  <2>4. Beneath(g) \subseteq affected[d] \cup late[d]
    BY <1>1, <2>3 DEF MoveInv
  <2>5. ask'[d] = ask[d] /\ affected'[d] = affected[d]
    BY <1>0 DEF Frame
  <2>6. \A h : Chain(h, parent') = Chain(h, parent)
    <3>1. \A h : Chain(h, parent) \subseteq Groups
      BY DEF Chain
    <3> QED  BY <2>2, <3>1, ChainAgree
  <2>7. CASE InsertResource(c) \/ JoinGroup(c)
    <3>1. /\ ask[c].row \in Resources /\ ask[c].to \in Groups
          /\ member' = [member EXCEPT ![ask[c].row] = ask[c].to]
          /\ Arrives(ask[c].row, ask[c].to)
      BY <1>0, <2>7 DEF InsertResource, JoinGroup, AskInv, AskOf
    <3>2. late[d] \subseteq late'[d]
      BY <3>1 DEF Arrives
    <3>3. g \in Chain(ask[c].to, parent) => ask[c].row \in late'[d]
      BY <1>1, <3>1 DEF Arrives
    <3> QED  BY <1>0, <2>4, <2>5, <2>6, <3>1, <3>2, <3>3 DEF Beneath, TypeOK
  <2>8. CASE UNCHANGED member /\ late[d] \subseteq late'[d]
    BY <2>4, <2>5, <2>6, <2>8 DEF Beneath
  <2>9. late'[d] = late[d] \/ InsertResource(c) \/ JoinGroup(c)
    BY <1>0, ZenonT(60) DEF Acts, Requests, Request,
      Steps, LockGraph, LockRow, Pin, CollectAffected, CountReferences, LockDefault,
      CountBindings, Step, Commits, MoveGroup, DeleteGroup, InsertBinding, DeleteProfile,
      DeleteBinding, CreateProfile, MakeDefault, CreateGroup, Abort, Book, FullCheck,
      StartRefresh, ReadPlacement, ReadHierarchy, SaveConflicts, FailRefresh, local, TypeOK
  <2>10. UNCHANGED member \/ InsertResource(c) \/ JoinGroup(c)
    BY ZenonT(60) DEF Acts, Requests, Request,
      Steps, LockGraph, LockRow, Pin, CollectAffected, CountReferences, LockDefault,
      CountBindings, Step, Commits, MoveGroup, DeleteGroup, InsertBinding, DeleteProfile,
      DeleteBinding, CreateProfile, MakeDefault, CreateGroup, Abort, Book, FullCheck,
      StartRefresh, ReadPlacement, ReadHierarchy, SaveConflicts, FailRefresh, tables
  <2> QED  BY <2>7, <2>8, <2>9, <2>10
<1>2. ASSUME pc'[c] = "move", ask'[c].to # parent'[ask'[c].row] PROVE Known(c)'
  <2>1. CollectAffected(c)
    <3>1. CASE Steps(c)
      BY <1>0, <1>2, <3>1 DEF Steps, LockGraph, LockRow, Pin, CollectAffected, CountReferences,
         LockDefault, CountBindings, Step, TypeOK
    <3>2. CASE Requests(c)
      BY <1>0, <1>2, <3>2 DEF Requests, Request, TypeOK
    <3> QED  BY <1>0, <1>2, <3>1, <3>2, Done DEF Refreshing
  <2> QED  BY <1>0, <1>2, <2>1 DEF CollectAffected, Step, Beneath, tables, TypeOK
<1>3. \A d \in Clients \ {c} : pc'[d] = pc[d] /\ ask'[d] = ask[d]
  BY <1>0 DEF Frame
<1> QED  BY <1>1, <1>2, <1>3 DEF MoveInv

-----------------------------------------------------------------------------
(***************************************************************************)
(* Refreshes that read while others write.                                 *)
(***************************************************************************)

\* Somebody other than c is to refresh r, or tried, or missed it.
Elsewhere(r, c) == r \in failed \cup missed \/ \E d \in Clients \ {c} : r \in owed[d]

\* What c has read of r is what the tables say, unless r is excused elsewhere.
ReadOf(c) == pc[c] \in {"place", "tree", "save"} /\ ~Elsewhere(view[c].resource, c) =>
  LET v == view[c]
      r == v.resource
  IN /\ pc[c] \in {"place", "tree"} => /\ v.own = binding[r] /\ v.bound = GroupBindings
                                       /\ v.fallback = default
     /\ pc[c] = "tree" => v.group = member[r]
     /\ pc[c] = "save" => v.hours = Hours(r)
ReadInv == \A c \in Clients : ReadOf(c)

\* An excuse goes only by a refresh that takes the resource's lock.
LEMMA ExcuseKept ==
  ASSUME Locking, OwedInv, NEW c \in Clients, Acts(c), NEW r \in Resources
  PROVE  /\ r \in failed \cup missed /\ ~StartRefresh(c, r) => r \in failed' \cup missed'
         /\ r \in owed[c] /\ ~(SaveConflicts(c) /\ view[c].resource = r)
              => r \in owed'[c] \cup failed'
<1> USE Values
<1>0. TypeOK /\ OwedOf(c)
  BY DEF Locking, OwedInv
<1>1. CASE \E s \in Resources : StartRefresh(c, s)
  BY <1>1 DEF StartRefresh
<1>2. CASE SaveConflicts(c)
  BY <1>0, <1>2 DEF SaveConflicts, history, TypeOK
<1>3. CASE FailRefresh(c)
  BY <1>0, <1>3 DEF FailRefresh, TypeOK
<1>4. CASE ReadPlacement(c) \/ ReadHierarchy(c)
  BY <1>4 DEF ReadPlacement, ReadHierarchy, history
<1>5. ASSUME pc[c] \notin Refreshing, failed \subseteq failed', missed \subseteq missed'
      PROVE  /\ r \in failed \cup missed /\ ~StartRefresh(c, r) => r \in failed' \cup missed'
             /\ r \in owed[c] /\ ~(SaveConflicts(c) /\ view[c].resource = r)
                  => r \in owed'[c] \cup failed'
  BY <1>0, <1>5 DEF OwedOf
<1>6. ~Commits(c) /\ ~Steps(c) => \/ pc[c] \notin Refreshing /\ UNCHANGED <<failed, missed>>
                                  \/ \E s \in Resources : StartRefresh(c, s)
                                  \/ SaveConflicts(c) \/ FailRefresh(c)
                                  \/ ReadPlacement(c) \/ ReadHierarchy(c)
  BY ZenonT(60) DEF Acts, Requests, Request, Start, Abort, CreateGroup, Book, FullCheck, history,
     Refreshing, Writing
<1>7. CASE Commits(c)
  BY <1>5, <1>7 DEF Commits, MoveGroup, DeleteGroup, InsertResource, JoinGroup, InsertBinding,
     DeleteProfile, DeleteBinding, CreateProfile, MakeDefault, Start, history, Refreshing
<1>8. CASE Steps(c)
  BY <1>5, <1>8 DEF Steps, LockGraph, LockRow, Pin, CollectAffected, CountReferences,
     LockDefault, CountBindings, Step, history, Refreshing
<1> QED  BY <1>1, <1>2, <1>3, <1>4, <1>5, <1>6, <1>7, <1>8

\* ... so not while another session holds that lock.
LEMMA ElsewhereKept ==
  ASSUME Locking, OwedInv, NEW c \in Clients, Acts(c), NEW d \in Clients,
         NEW r \in Resources, checkLock[r] = d, Elsewhere(r, d), ~(SaveConflicts(c) /\ c = d)
  PROVE  Elsewhere(r, d)'
<1>0. TypeOK /\ CheckInv /\ Frame(c)
  BY Framed DEF Locking
<1>1. ~StartRefresh(c, r)
  BY Values DEF StartRefresh
<1>2. c # d => ~(SaveConflicts(c) /\ view[c].resource = r)
  BY <1>0 DEF SaveConflicts, CheckInv
<1>3. CASE r \in failed \cup missed
  BY <1>1, <1>3, ExcuseKept DEF Elsewhere
<1>4. CASE \E e \in Clients \ {d} : r \in owed[e]
  <2>1. PICK e \in Clients \ {d} : r \in owed[e]
    BY <1>4
  <2>2. CASE e = c
    BY <1>2, <2>1, <2>2, ExcuseKept DEF Elsewhere
  <2>3. CASE e # c
    BY <1>0, <2>1, <2>3 DEF Frame, Elsewhere
  <2> QED  BY <2>2, <2>3
<1> QED  BY <1>3, <1>4 DEF Elsewhere

LEMMA ReadStep ==
  ASSUME Locking, OwedInv, MoveInv, ReadInv, NEW c \in Clients, Acts(c)
  PROVE  ReadInv'
<1> USE Values
<1>0. TypeOK /\ CheckInv /\ Frame(c)
  BY Framed DEF Locking
<1>1. ASSUME NEW d \in Clients \ {c} PROVE ReadOf(d)'
  <2>1. pc'[d] = pc[d] /\ view'[d] = view[d]
    BY <1>0 DEF Frame
  <2> SUFFICES ASSUME pc[d] \in {"place", "tree", "save"} PROVE ReadOf(d)'
    BY <2>1 DEF ReadOf
  <2>2. PICK r \in Resources : r = view[d].resource /\ r \in Booked /\ checkLock[r] = d
    BY <1>0 DEF CheckInv, OwedInv, OwedOf
  <2> SUFFICES ASSUME ~Elsewhere(r, d)' PROVE ReadOf(d)'
    BY <2>1, <2>2 DEF ReadOf, Elsewhere
  <2>3. r = view'[d].resource
    BY <2>1, <2>2
  <2>4. ~Elsewhere(r, d)
    BY <2>2, ElsewhereKept
  <2>5. r \notin owed'[c] /\ r \notin missed'
    BY DEF Elsewhere
  <2>6. Inputs(r)' = Inputs(r) /\ Hours(r)' = Hours(r)
    BY <2>2, <2>5, WritesOwe
  <2> QED  BY <2>1, <2>2, <2>3, <2>4, <2>6 DEF ReadInv, ReadOf, Inputs
<1>2. ReadOf(c)'
  <2> SUFFICES ASSUME pc'[c] \in {"place", "tree", "save"}
               PROVE  ReadOf(c)'
    BY DEF ReadOf
  <2>1. CASE \E r \in Resources : StartRefresh(c, r)
    <3>1. PICK r \in Resources : StartRefresh(c, r)
      BY <2>1
    <3>2. /\ pc'[c] = "place" /\ view'[c].resource = r /\ view'[c].own = binding'[r]
          /\ view'[c].bound = GroupBindings' /\ view'[c].fallback = default'
      BY <1>0, <3>1 DEF StartRefresh, NoView, TypeOK, tables, GroupBindings
    <3> QED  BY <3>2 DEF ReadOf
  <2>2. CASE ReadPlacement(c) \/ ReadHierarchy(c)
    <3>1. PICK r \in Resources : r = view[c].resource /\ checkLock[r] = c
      BY <1>0, <2>2 DEF CheckInv, ReadPlacement, ReadHierarchy
    <3>2. view[c] \in View /\ UNCHANGED <<binding, default, member, parent>>
          /\ UNCHANGED <<failed, missed, owed>>
      BY <1>0, <2>2 DEF TypeOK, ReadPlacement, ReadHierarchy, tables, history
    <3>3. /\ view'[c].resource = r /\ view'[c].own = view[c].own
          /\ view'[c].bound = view[c].bound /\ view'[c].fallback = view[c].fallback
      BY <1>0, <2>2, <3>1, <3>2 DEF ReadPlacement, ReadHierarchy, TypeOK, View
    <3>4. SUFFICES ASSUME ~Elsewhere(r, c)' PROVE ReadOf(c)'
      BY <3>3 DEF ReadOf, Elsewhere
    <3>5. ~Elsewhere(r, c)
      BY <3>2, <3>4 DEF Elsewhere
    <3>6. CASE ReadPlacement(c)
      <4>1. view'[c].group = member[r] /\ pc[c] = "place" /\ pc'[c] = "tree"
        BY <1>0, <3>1, <3>2, <3>6 DEF ReadPlacement, TypeOK, View
      <4> QED  BY <3>1, <3>2, <3>3, <3>5, <4>1 DEF ReadInv, ReadOf, GroupBindings
    <3>7. CASE ReadHierarchy(c)
      <4>1. /\ view'[c].hours = HoursOf(view[c].own, view[c].bound, view[c].fallback,
                                        view[c].group, parent)
            /\ pc[c] = "tree" /\ pc'[c] = "save"
        BY <1>0, <3>1, <3>2, <3>7 DEF ReadHierarchy, TypeOK, View
      <4>2. view'[c].hours = Hours(r)
        BY <3>1, <3>5, <4>1 DEF ReadInv, ReadOf, Hours, HoursIn
      <4>3. Hours(r)' = Hours(r)
        BY <3>2 DEF Hours, HoursIn, GroupBindings
      <4> QED  BY <3>3, <4>1, <4>2, <4>3 DEF ReadOf
    <3> QED  BY <2>2, <3>6, <3>7
  <2>3. Refreshing = {"refresh", "place", "tree", "save"}
    BY DEF Refreshing
  <2>4. ~Requests(c) /\ ~Steps(c)
    BY <1>0 DEF Requests, Request, Steps, LockGraph, LockRow, Pin, CollectAffected,
       CountReferences, LockDefault, CountBindings, Step, TypeOK
  <2>5. ~Commits(c)
    <3>1. \A R : ~CommitAndRefresh(c, R)
      BY <1>0 DEF CommitAndRefresh, TypeOK
    <3> QED  BY <3>1 DEF Commits, MoveGroup, DeleteGroup, InsertResource, JoinGroup, InsertBinding,
          DeleteProfile, DeleteBinding, CreateProfile, MakeDefault
  <2>6. ~(\E g \in Groups, up \in Groups \cup {Top} : CreateGroup(c, g, up))
    BY DEF CreateGroup, Start, refreshing
  <2>7. ~Abort(c) /\ ~FullCheck(c) /\ ~SaveConflicts(c) /\ ~FailRefresh(c)
        /\ ~(\E r \in Resources : Book(c, r))
    BY <1>0 DEF Abort, FullCheck, SaveConflicts, FailRefresh, Book, TypeOK
  <2> QED  BY <2>1, <2>2, <2>4, <2>5, <2>6, <2>7 DEF Acts
<1> QED  BY <1>1, <1>2 DEF ReadInv

LEMMA StaleStep ==
  ASSUME Locking, OwedInv, MoveInv, ReadInv, StaleOnlyIfOwed, NEW c \in Clients, Acts(c)
  PROVE  StaleOnlyIfOwed'
<1> USE Values
<1>0. TypeOK /\ CheckInv /\ Frame(c)
  BY Framed DEF Locking
<1> SUFFICES ASSUME NEW r \in Resources, Stale(r)' PROVE Excused(r)'
  BY DEF StaleOnlyIfOwed
<1>1. (r \in failed' \cup missed' \/ \E d \in Clients : r \in owed'[d]) => Excused(r)'
  BY DEF Excused
<1>2. CASE \E s \in Resources : Book(c, s)
  <2>1. PICK s \in Resources : Book(c, s)
    BY <1>2
  <2>2. CASE s = r
    BY <1>0, <1>1, <2>1, <2>2 DEF Book, TypeOK
  <2>3. CASE s # r
    <3>1. Stale(r)
      BY <1>0, <2>1, <2>3 DEF Book, Stale, Booked, TypeOK, tables, Hours, HoursIn, GroupBindings
    <3>2. Excused(r)
      BY <3>1 DEF StaleOnlyIfOwed
    <3>3. owed[c] = {}
      BY <2>1 DEF Book, Start, OwedInv, OwedOf, Refreshing
    <3> QED  BY <1>0, <1>1, <2>1, <3>2, <3>3 DEF Book, Excused, Frame, history
  <2> QED  BY <2>2, <2>3
<1>3. CASE SaveConflicts(c)
  <2>1. PICK s \in Resources : s = view[c].resource /\ s \in owed[c] /\ checkLock[s] = c
    BY <1>0, <1>3 DEF SaveConflicts, CheckInv
  <2>2. UNCHANGED <<binding, default, member, parent>> /\ UNCHANGED <<failed, missed>>
    BY <1>3 DEF SaveConflicts, tables, history
  <2>3. CASE s = r
    <3>1. CASE Elsewhere(r, c)
      BY <1>0, <1>1, <2>2, <3>1 DEF Elsewhere, Frame
    <3>2. CASE ~Elsewhere(r, c)
      <4>1. pc[c] = "save" /\ shown' = [shown EXCEPT ![r] = view[c].hours]
        BY <1>3, <2>1, <2>3 DEF SaveConflicts
      <4>2. ReadOf(c)
        BY DEF ReadInv
      <4>3. view[c].hours = Hours(r)
        BY <2>1, <2>3, <3>2, <4>1, <4>2 DEF ReadOf
      <4>4. shown \in [Resources -> Profiles \cup {NoProfile, Unbooked}]
        BY <1>0 DEF TypeOK
      <4>5. shown'[r] = Hours(r)
        BY <4>1, <4>3, <4>4
      <4> QED  BY <2>2, <4>5 DEF Stale, Hours, HoursIn, GroupBindings
    <3> QED  BY <3>1, <3>2
  <2>4. CASE s # r
    <3>1. shown'[r] = shown[r]
      BY <1>0, <1>3, <2>1, <2>4 DEF SaveConflicts, TypeOK
    <3>2. Stale(r)
      BY <2>2, <3>1 DEF Stale, Booked, Hours, HoursIn, GroupBindings
    <3>3. Excused(r)
      BY <3>2 DEF StaleOnlyIfOwed
    <3>4. r \in owed[c] => r \in owed'[c]
      BY <1>0, <1>3, <2>1, <2>4 DEF SaveConflicts, TypeOK
    <3> QED  BY <1>0, <1>1, <2>2, <3>3, <3>4 DEF Excused, Frame
  <2> QED  BY <2>3, <2>4
<1>4. CASE StartRefresh(c, r)
  <2>1. r \in owed'[c]
    BY <1>4 DEF StartRefresh
  <2> QED  BY <1>1, <2>1
<1>5. CASE ~(\E s \in Resources : Book(c, s)) /\ ~SaveConflicts(c) /\ ~StartRefresh(c, r)
  <2>1. UNCHANGED shown
    BY <1>5, ZenonT(60) DEF Acts, Requests, Request, Start, Steps, LockGraph, LockRow, Pin, CollectAffected,
       CountReferences, LockDefault, CountBindings, Step, Commits, MoveGroup, DeleteGroup,
       InsertResource, JoinGroup, InsertBinding, DeleteProfile, DeleteBinding, CreateProfile,
       MakeDefault, CommitAndRefresh, CreateGroup, Abort, FullCheck, StartRefresh, ReadPlacement,
       ReadHierarchy, FailRefresh, refreshing
  <2>2. r \in Booked
    BY <2>1 DEF Stale, Booked
  <2>3. CASE Hours(r)' # Hours(r)
    BY <1>1, <2>2, <2>3, WritesOwe
  <2>4. CASE Hours(r)' = Hours(r)
    <3>1. Stale(r)
      BY <2>1, <2>2, <2>4 DEF Stale
    <3>2. Excused(r)
      BY <3>1 DEF StaleOnlyIfOwed
    <3>3. CASE r \in failed \cup missed \/ r \in owed[c]
      BY <1>1, <1>5, <3>3, ExcuseKept
    <3>4. CASE \E d \in Clients \ {c} : r \in owed[d]
      BY <1>0, <1>1, <3>4 DEF Frame
    <3> QED  BY <3>2, <3>3, <3>4 DEF Excused
  <2> QED  BY <2>3, <2>4
<1> QED  BY <1>2, <1>3, <1>4, <1>5

-----------------------------------------------------------------------------
Inv == Locking /\ OwedInv /\ MoveInv /\ ReadInv /\ StaleOnlyIfOwed

LEMMA InvInit == Init => Inv
<1> SUFFICES ASSUME Init PROVE Inv
  OBVIOUS
<1>1. OwedInv /\ MoveInv /\ ReadInv
  BY Values DEF Init, OwedInv, OwedOf, Booked, Refreshing, MoveInv, ReadInv, ReadOf
<1>2. StaleOnlyIfOwed
  BY DEF Init, StaleOnlyIfOwed, Stale, Booked
<1> QED  BY <1>1, <1>2, LockingInit DEF Inv

LEMMA InvStep == Inv /\ [Next]_vars => Inv'
<1> SUFFICES ASSUME Inv, [Next]_vars PROVE Inv'
  OBVIOUS
<1>0. Locking'
  BY LockingStep DEF Inv
<1>1. CASE UNCHANGED vars
  <2>1. UNCHANGED <<parent, member, binding, default, shown, pc, ask, affected, late, owed,
                    view, failed, missed>>
    BY <1>1 DEF vars, tables, refreshing, local, history
  <2>2. (\A r : Hours(r)' = Hours(r)) /\ Booked' = Booked /\ GroupBindings' = GroupBindings
    BY <2>1 DEF Hours, HoursIn, GroupBindings, Booked
  <2>3. OwedInv' /\ MoveInv'
    BY <2>1, <2>2 DEF Inv, OwedInv, OwedOf, MoveInv, Beneath
  <2>4. ReadInv'
    BY <2>1, <2>2 DEF Inv, ReadInv, ReadOf, Elsewhere
  <2>5. StaleOnlyIfOwed'
    BY <2>1, <2>2 DEF Inv, StaleOnlyIfOwed, Stale, Excused
  <2> QED  BY <1>0, <2>3, <2>4, <2>5 DEF Inv
<1>2. ASSUME NEW c \in Clients, Acts(c) PROVE Inv'
  BY <1>0, <1>2, OwedStep, MoveStep, ReadStep, StaleStep DEF Inv
<1> QED  BY <1>1, <1>2, Cases

\* Whoever's conflicts were made with other hours than the ones in force is owed
\* a refresh, or its refresh failed, or a move missed it: every write of groups,
\* memberships, bindings and profiles triggers the refreshes it has to, and a
\* refresh that reads around a write is followed by the one that write owes.
THEOREM NobodyForgotten == Spec => []StaleOnlyIfOwed
<1>1. Inv => StaleOnlyIfOwed
  BY DEF Inv
<1> QED  BY <1>1, InvInit, InvStep, PTL DEF Spec

\* Only the two deletions take rows away.
LEMMA OnlyDeletions ==
  ASSUME Locking, NEW c \in Clients, Acts(c), ~DeleteGroup(c), ~DeleteProfile(c),
         NEW x \in Groups \cup Profiles, Exists(x)
  PROVE  Exists(x)'
<1> USE Values
<1>0. TypeOK /\ AskOf(c)
  BY DEF Locking, AskInv
<1>1. CASE x \in Groups
  <2>1. parent[x] \notin NoRow
    BY <1>1, ExistsOf
  <2>2. CASE MoveGroup(c)
    BY <1>0, <1>1, <2>1, <2>2, ExistsNext DEF MoveGroup, AskOf, TypeOK, NoRow
  <2>3. CASE \E g \in Groups, up \in Groups \cup {Top} : CreateGroup(c, g, up)
    BY <1>0, <1>1, <2>1, <2>3, ExistsNext DEF CreateGroup, TypeOK, NoRow
  <2>4. CASE UNCHANGED parent
    BY <1>1, <2>1, <2>4, ExistsNext
  <2> QED  BY <2>2, <2>3, <2>4, ZenonT(60) DEF Acts, Requests, Request, Steps, LockGraph, LockRow, Pin,
        CollectAffected, CountReferences, LockDefault, CountBindings, Step, Commits,
        InsertResource, JoinGroup, InsertBinding, DeleteBinding, CreateProfile,
        MakeDefault, Abort, Book, FullCheck, StartRefresh, ReadPlacement, ReadHierarchy,
        SaveConflicts, FailRefresh, tables
<1>2. CASE x \in Profiles
  <2>1. profile[x]
    BY <1>2, ExistsOf
  <2>2. CASE \E p \in Profiles : CreateProfile(c, p, TRUE) \/ CreateProfile(c, p, FALSE)
    BY <1>0, <1>2, <2>1, <2>2, ExistsNext DEF CreateProfile, TypeOK
  <2>3. CASE UNCHANGED profile
    BY <1>2, <2>1, <2>3, ExistsNext
  <2> QED  BY <2>2, <2>3, ZenonT(60) DEF Acts, Requests, Request, Steps, LockGraph, LockRow, Pin,
        CollectAffected, CountReferences, LockDefault, CountBindings, Step, Commits, MoveGroup,
        InsertResource, JoinGroup, InsertBinding, DeleteBinding, MakeDefault,
        CreateGroup, Abort, Book, FullCheck, StartRefresh, ReadPlacement, ReadHierarchy,
        SaveConflicts, FailRefresh, tables
<1> QED  BY <1>1, <1>2

\* "Removing it would silently move those resources onto the default profile":
\* deleting a group or a profile leaves everybody's hours as they were.
THEOREM DeletionsAreSilent == Spec => DeletionsMoveNobody
<1> DEFINE Kept == (\E x \in Groups \cup Profiles : Exists(x) /\ ~Exists(x)')
                      => \A r \in Resources : Hours(r)' = Hours(r)
<1>1. Locking /\ [Next]_vars => [Kept]_vars
  <2> SUFFICES ASSUME Locking, Next PROVE Kept
    OBVIOUS
  <2>1. PICK c \in Clients : Acts(c)
    BY Cases
  <2>2. CASE DeleteGroup(c)
    BY <2>2, DeletionKeepsHours
  <2>3. CASE DeleteProfile(c)
    BY <2>3 DEF DeleteProfile, Hours, HoursIn, GroupBindings
  <2>4. CASE ~DeleteGroup(c) /\ ~DeleteProfile(c)
    BY <2>1, <2>4, OnlyDeletions
  <2> QED  BY <2>2, <2>3, <2>4
<1> QED  BY <1>1, Locked, PTL DEF Spec, DeletionsMoveNobody

=============================================================================
