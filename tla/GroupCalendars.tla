---------------------------- MODULE GroupCalendars ----------------------------
(***************************************************************************)
(* Resource groups form a tree, and a resource without a week profile of   *)
(* its own inherits the one bound to the nearest group above it, at last   *)
(* the default profile.  This module is the writes that change what anyone *)
(* inherits -- groups, memberships, bindings, profiles -- with the locks   *)
(* they take, and the conflict refresh each of them owes afterwards, which *)
(* reads bindings, membership and tree in statements of their own.         *)
(*                                                                         *)
(* One resource type and one period: both types run the same code, and the *)
(* database lets a target have one binding in a period.                    *)
(***************************************************************************)
EXTENDS Naturals

CONSTANTS
  Groups, Resources, Profiles,  \* ids
  Clients,               \* sessions: requests and the periodic check
  Top,                   \* no parent: a group of the top level
  NoProfile,             \* no binding; no result yet
  Unbooked,              \* a resource nobody has booked: it has no conflicts
  Unborn, Gone,          \* a row not yet inserted, a row deleted
  Free, Nothing,         \* a lock nobody holds, a request nobody made
  InitialTrees, InitialMembers, InitialBindings,  \* what a run may start from
  MaxRequests,           \* bound: writes and full checks that are started
  MaxFailures            \* bound: refreshes that fail or whose process dies

NoRow == {Unborn, Gone}
Targets == Groups \cup Resources
Rows == Targets \cup Profiles
Ask == [row : Rows, to : Rows \cup {Top}]

ASSUME ValuesAssumption ==
  /\ Groups \cap (Resources \cup Profiles) = {} /\ Resources \cap Profiles = {}
  /\ {Top, Unborn, Gone, NoProfile, Unbooked, Nothing} \cap Rows = {}
  /\ Top \notin NoRow /\ Unborn # Gone /\ NoProfile # Unbooked
  /\ Free \notin Clients
  /\ Nothing \notin Ask

VARIABLES
  parent,       \* resource_groups.parent_id, with Unborn and Gone
  member,       \* group_id of a resource, or Unborn
  binding,      \* resource_work_profiles: the profile of a group or a resource
  profile,      \* work_week_profiles: TRUE while the row exists
  born,         \* the profiles that were ever created
  default,      \* the profile that is_default
  shown,        \* the profile the stored conflicts of a resource were made with
  graphLock,    \* advisory lock on the graph "resource_groups"
  defaultLock,  \* advisory lock on the default profile
  rowLock,      \* FOR UPDATE on a row
  pins,         \* FOR KEY SHARE: the rows a session keeps from being deleted
  checkLock,    \* advisory lock of the conflict service on a resource
  pc, ask,      \* where a session is, and what it was asked for
  affected,     \* the resources a move found beneath its group
  late,         \* history: those that came beneath it after it had looked
  owed,         \* the resources a session has still to refresh
  view,         \* what its current refresh has read
  failed,       \* history: resources whose refresh failed or died
  missed,       \* history: late resources whose hours the move has changed
  requests, failures  \* counters for the bounds

tables == <<parent, member, binding, profile, born, default>>
locks == <<graphLock, defaultLock, rowLock, pins>>
refreshing == <<shown, checkLock, owed, view>>
history == <<failed, missed, failures>>
local == <<ask, affected, late>>
vars == <<tables, locks, refreshing, pc, local, history, requests>>

Exists(x) == \/ x \in Groups /\ parent[x] \notin NoRow
             \/ x \in Resources /\ member[x] # Unborn
             \/ x \in Profiles /\ profile[x]

-----------------------------------------------------------------------------
\* The tree and the profile it yields.

Closed(C, up) == \A g \in C : up[g] \in Groups => up[g] \in C

\* g and the groups above it: what every set holds that contains g and is closed.
Chain(g, up) ==
  {h \in Groups : /\ g \in Groups
                  /\ \A C \in SUBSET Groups : g \in C /\ Closed(C, up) => h \in C}

Acyclic(up) == \A S \in SUBSET Groups : S # {} => \E g \in S : up[g] \notin S

\* profile_for: a binding of the resource's own, else the nearest one above it,
\* else the default.
HoursOf(own, bound, fallback, g, up) ==
  LET holders == {h \in Chain(g, up) : bound[h] # NoProfile}
      nearest == {h \in holders : holders \subseteq Chain(h, up)}
  IN IF own # NoProfile THEN own
     ELSE IF nearest = {} THEN fallback ELSE bound[CHOOSE h \in nearest : TRUE]

GroupBindings == [g \in Groups |-> binding[g]]
HoursIn(r, up) == HoursOf(binding[r], GroupBindings, default, member[r], up)
Hours(r) == HoursIn(r, parent)

Booked == {r \in Resources : shown[r] # Unbooked}
Stale(r) == r \in Booked /\ shown[r] # Hours(r)
Beneath(g) == {r \in Resources : g \in Chain(member[r], parent)}

ASSUME StartAssumption ==
  /\ \A up \in InitialTrees :
       /\ up \in [Groups -> Groups \cup {Top} \cup NoRow]
       /\ Acyclic(up)
       /\ \A g \in Groups : up[g] \in Groups => up[up[g]] \notin NoRow
  /\ \A in \in InitialMembers : in \in [Resources -> Groups \cup {Unborn}]
  /\ \A on \in InitialBindings : on \in [Targets -> Profiles \cup {NoProfile}]
ASSUME BoundsAssumption == MaxRequests \in Nat /\ MaxFailures \in Nat

-----------------------------------------------------------------------------
NoView == [resource |-> Nothing, own |-> NoProfile, bound |-> [g \in Groups |-> NoProfile],
           fallback |-> NoProfile, group |-> Top, hours |-> NoProfile]

Init ==
  /\ parent \in InitialTrees
  /\ member \in {in \in InitialMembers :
       \A r \in Resources : in[r] \in Groups => parent[in[r]] \notin NoRow}
  /\ binding \in {on \in InitialBindings :
       \A g \in Groups : on[g] \in Profiles => parent[g] \notin NoRow}
  /\ default \in Profiles
  /\ profile = [p \in Profiles |-> p = default \/ \E t \in Targets : binding[t] = p]
  /\ born = {p \in Profiles : profile[p]}
  /\ shown = [r \in Resources |-> IF member[r] = Unborn THEN Unbooked ELSE Hours(r)]
  /\ graphLock = Free /\ defaultLock = Free
  /\ rowLock = [x \in Rows |-> Free]
  /\ pins = [c \in Clients |-> {}]
  /\ checkLock = [r \in Resources |-> Free]
  /\ pc = [c \in Clients |-> "idle"]
  /\ ask = [c \in Clients |-> Nothing]
  /\ affected = [c \in Clients |-> {}] /\ late = [c \in Clients |-> {}]
  /\ owed = [c \in Clients |-> {}]
  /\ view = [c \in Clients |-> NoView]
  /\ failed = {} /\ missed = {}
  /\ requests = 0 /\ failures = 0

Start(c) == /\ pc[c] = "idle"
            /\ requests < MaxRequests
            /\ requests' = requests + 1

\* A transaction begins that will need more than one statement.
Request(c, at, row, to) ==
  /\ Start(c)
  /\ pc' = [pc EXCEPT ![c] = at]
  /\ ask' = [ask EXCEPT ![c] = [row |-> row, to |-> to]]
  /\ UNCHANGED <<tables, locks, refreshing, affected, late, history>>

Step(c, from, to) == /\ pc[c] = from
                     /\ pc' = [pc EXCEPT ![c] = to]
                     /\ UNCHANGED <<tables, refreshing, history, requests>>

\* Commit and rollback alike release what the transaction holds.
EndTransaction(c) ==
  /\ graphLock' = IF graphLock = c THEN Free ELSE graphLock
  /\ defaultLock' = IF defaultLock = c THEN Free ELSE defaultLock
  /\ rowLock' = [x \in Rows |-> IF rowLock[x] = c THEN Free ELSE rowLock[x]]
  /\ pins' = [pins EXCEPT ![c] = {}]
  /\ ask' = [ask EXCEPT ![c] = Nothing]
  /\ affected' = [affected EXCEPT ![c] = {}]

\* refresh_after_commit: who of R has bookings or conflicts is refreshed next.
CommitAndRefresh(c, R) ==
  /\ EndTransaction(c)
  /\ owed' = [owed EXCEPT ![c] = R \cap Booked]
  /\ pc' = [pc EXCEPT ![c] = IF R \cap Booked = {} THEN "idle" ELSE "refresh"]
  /\ UNCHANGED <<shown, checkLock, view>>

LockGraph(c, from, to) ==
  /\ Step(c, from, to)
  /\ graphLock = Free
  /\ graphLock' = c
  /\ UNCHANGED <<defaultLock, rowLock, pins, local>>

\* Mutant: FOR UPDATE does not wait for those who keep the key.
LockRowOverPins(c, from, to) ==
  LET x == ask[c].row
  IN /\ Step(c, from, to)
     /\ Exists(x) /\ rowLock[x] = Free
     /\ rowLock' = [rowLock EXCEPT ![x] = c]
     /\ UNCHANGED <<graphLock, defaultLock, pins, local>>

\* SELECT ... FOR UPDATE of the row asked for, and FOR KEY SHARE of a row.
LockRow(c, from, to) ==
  LET x == ask[c].row
  IN /\ Step(c, from, to)
     /\ Exists(x) /\ rowLock[x] = Free
     /\ \A d \in Clients \ {c} : x \notin pins[d]
     /\ rowLock' = [rowLock EXCEPT ![x] = c]
     /\ UNCHANGED <<graphLock, defaultLock, pins, local>>

Pin(c, x, from, to) ==
  /\ Step(c, from, to)
  /\ Exists(x) /\ rowLock[x] = Free
  /\ pins' = [pins EXCEPT ![c] = @ \cup {x}]
  /\ UNCHANGED <<graphLock, defaultLock, rowLock, local>>

-----------------------------------------------------------------------------
\* ResourceGroupService: create, update with a parent, delete.

\* Validated and inserted under the graph lock when it has a parent; nobody can
\* change the tree meanwhile, so that one step stands for the transaction.
CreateGroup(c, g, up) ==
  /\ Start(c)
  /\ parent[g] = Unborn
  /\ up # Top => graphLock = Free /\ Exists(up) /\ rowLock[up] = Free
  /\ parent' = [parent EXCEPT ![g] = up]
  /\ UNCHANGED <<member, binding, profile, born, default, locks, refreshing, pc,
                 local, history>>

\* Mutant: the new parent is compared, and nothing above it.
SameGroup(g, up) == g = up

\* _validate_parent: the group is found on the way up from its new parent.
WouldCreateCycle(g, up) == g \in Chain(up, parent)

\* Mutant: only the resources of the group itself are collected.
DirectMembers(c) ==
  LET g == ask[c].row
      up == ask[c].to
  IN /\ Step(c, "collect", "move")
     /\ up # Top => Exists(up) /\ ~WouldCreateCycle(g, up)
     /\ affected' = [affected EXCEPT ![c] =
          IF up = parent[g] THEN {} ELSE {r \in Resources : member[r] = g}]
     /\ UNCHANGED <<locks, ask, late>>

\* _validate_parent and _descendant_resources.
CollectAffected(c) ==
  LET g == ask[c].row
      up == ask[c].to
  IN /\ Step(c, "collect", "move")
     /\ up # Top => Exists(up) /\ ~WouldCreateCycle(g, up)
     /\ affected' = [affected EXCEPT ![c] = IF up = parent[g] THEN {} ELSE Beneath(g)]
     /\ UNCHANGED <<locks, ask, late>>

MoveGroup(c) ==
  LET up == [parent EXCEPT ![ask[c].row] = ask[c].to]
  IN /\ pc[c] = "move"
     /\ ask[c].to # Top => Exists(ask[c].to)
     /\ parent' = up
     /\ missed' = missed \cup
          {r \in (late[c] \ affected[c]) \cap Booked : HoursIn(r, up) # Hours(r)}
     /\ late' = [late EXCEPT ![c] = {}]
     /\ CommitAndRefresh(c, affected[c])
     /\ UNCHANGED <<member, binding, profile, born, default, failed, failures, requests>>

Subgroups(g) == {h \in Groups : parent[h] = g}
Members(g) == {r \in Resources : member[r] = g}

\* Mutant: sub-groups are not counted; the database would detach them.
EmptyGroup(g) == Members(g) = {} /\ binding[g] = NoProfile

Unused(g) == Subgroups(g) = {} /\ Members(g) = {} /\ binding[g] = NoProfile

CountReferences(c) ==
  /\ Step(c, "count", "delete")
  /\ Unused(ask[c].row)
  /\ UNCHANGED <<locks, local>>

\* Foreign keys: members and bindings forbid the deletion, sub-groups are detached.
DeleteGroup(c) ==
  LET g == ask[c].row
  IN /\ pc[c] = "delete"
     /\ Members(g) = {} /\ binding[g] = NoProfile
     /\ parent' = [h \in Groups |-> IF h = g THEN Gone
                                    ELSE IF parent[h] = g THEN Top ELSE parent[h]]
     /\ CommitAndRefresh(c, {})
     /\ UNCHANGED <<member, binding, profile, born, default, history, requests, late>>

-----------------------------------------------------------------------------
\* Resources: creation, first booking, another group.

\* r comes beneath a group whose move has already collected its resources.
Arrives(r, g) ==
  late' = [d \in Clients |-> IF pc[d] = "move" /\ ask[d].row \in Chain(g, parent)
                             THEN late[d] \cup {r} ELSE late[d]]

InsertResource(c) ==
  LET r == ask[c].row
  IN /\ pc[c] = "enter"
     /\ member[r] = Unborn /\ Exists(ask[c].to)
     /\ member' = [member EXCEPT ![r] = ask[c].to]
     /\ Arrives(r, ask[c].to)
     /\ CommitAndRefresh(c, {})
     /\ UNCHANGED <<parent, binding, profile, born, default, history, requests>>

JoinGroup(c) ==
  LET r == ask[c].row
  IN /\ pc[c] = "join"
     /\ Exists(ask[c].to)
     /\ member' = [member EXCEPT ![r] = ask[c].to]
     /\ Arrives(r, ask[c].to)
     /\ CommitAndRefresh(c, {r})
     /\ UNCHANGED <<parent, binding, profile, born, default, history, requests>>

\* The first booking of a resource: nothing is calculated for it yet.
Book(c, r) ==
  /\ Start(c)
  /\ Exists(r) /\ shown[r] = Unbooked
  /\ shown' = [shown EXCEPT ![r] = NoProfile]
  /\ owed' = [owed EXCEPT ![c] = {r}]
  /\ pc' = [pc EXCEPT ![c] = "refresh"]
  /\ UNCHANGED <<tables, locks, checkLock, view, local, history>>

-----------------------------------------------------------------------------
\* CalendarService: bindings and profiles.

Everyone(t) == IF t \in Resources THEN {t} ELSE Resources

\* list_bindings, INSERT and the exclusion constraint, which has the last word.
InsertBinding(c) ==
  LET t == ask[c].row
  IN /\ pc[c] = "bind"
     /\ binding[t] = NoProfile
     /\ Exists(ask[c].to) /\ Exists(t)
     /\ binding' = [binding EXCEPT ![t] = ask[c].to]
     /\ CommitAndRefresh(c, Everyone(t))
     /\ UNCHANGED <<parent, member, profile, born, default, history, requests, late>>

DeleteBinding(c, t) ==
  /\ Start(c)
  /\ binding[t] # NoProfile
  /\ binding' = [binding EXCEPT ![t] = NoProfile]
  /\ CommitAndRefresh(c, Everyone(t))
  /\ UNCHANGED <<parent, member, profile, born, default, history, late>>

\* create_profile; one that claims to be the default takes the lock to commit.
CreateProfile(c, p, asDefault) ==
  /\ Start(c)
  /\ p \notin born
  /\ asDefault => defaultLock = Free
  /\ profile' = [profile EXCEPT ![p] = TRUE]
  /\ born' = born \cup {p}
  /\ default' = IF asDefault THEN p ELSE default
  /\ CommitAndRefresh(c, Resources)
  /\ UNCHANGED <<parent, member, binding, history, late>>

\* update_profile with is_default: both rows change under the default's lock.
MakeDefault(c, p) ==
  /\ Start(c)
  /\ defaultLock = Free
  /\ Exists(p) /\ rowLock[p] = Free /\ \A d \in Clients : p \notin pins[d]
  /\ default' = p
  /\ CommitAndRefresh(c, Resources)
  /\ UNCHANGED <<parent, member, binding, profile, born, history, late>>

LockDefault(c) ==
  /\ Step(c, "lockDefault", "lockProfile")
  /\ defaultLock = Free
  /\ defaultLock' = c
  /\ UNCHANGED <<graphLock, rowLock, pins, local>>

Dispensable(p) == p # default /\ \A t \in Targets : binding[t] # p

CountBindings(c) ==
  /\ Step(c, "bindings", "drop")
  /\ Dispensable(ask[c].row)
  /\ UNCHANGED <<locks, local>>

DeleteProfile(c) ==
  LET p == ask[c].row
  IN /\ pc[c] = "drop"
     /\ \A t \in Targets : binding[t] # p
     /\ profile' = [profile EXCEPT ![p] = FALSE]
     /\ CommitAndRefresh(c, Resources)
     /\ UNCHANGED <<parent, member, binding, born, default, history, requests, late>>

-----------------------------------------------------------------------------
\* The conflict refresh of a resource, and what can end it.

FullCheck(c) ==
  /\ Start(c)
  /\ Booked # {}
  /\ owed' = [owed EXCEPT ![c] = Booked]
  /\ pc' = [pc EXCEPT ![c] = "refresh"]
  /\ UNCHANGED <<tables, locks, shown, checkLock, view, local, history>>

\* Mutant: a refresh does not wait for the one that is running.
StartRefreshAtOnce(c, r) ==
  /\ pc[c] = "refresh" /\ r \in owed[c]
  /\ checkLock' = [checkLock EXCEPT ![r] = c]
  /\ view' = [view EXCEPT ![c] = [NoView EXCEPT
       !.resource = r, !.own = binding[r], !.bound = GroupBindings, !.fallback = default]]
  /\ failed' = failed \ {r} /\ missed' = missed \ {r}
  /\ pc' = [pc EXCEPT ![c] = "place"]
  /\ UNCHANGED <<tables, locks, shown, owed, local, failures, requests>>

\* lock_resource, then _load_profiles and _load_bindings.
StartRefresh(c, r) ==
  /\ pc[c] = "refresh" /\ r \in owed[c]
  /\ checkLock[r] = Free
  /\ checkLock' = [checkLock EXCEPT ![r] = c]
  /\ view' = [view EXCEPT ![c] = [NoView EXCEPT
       !.resource = r, !.own = binding[r], !.bound = GroupBindings, !.fallback = default]]
  /\ failed' = failed \ {r} /\ missed' = missed \ {r}
  /\ pc' = [pc EXCEPT ![c] = "place"]
  /\ UNCHANGED <<tables, locks, shown, owed, local, failures, requests>>

\* _load_sites: the group of the resource.
ReadPlacement(c) ==
  /\ pc[c] = "place"
  /\ view' = [view EXCEPT ![c].group = member[view[c].resource]]
  /\ pc' = [pc EXCEPT ![c] = "tree"]
  /\ UNCHANGED <<tables, locks, shown, checkLock, owed, local, history, requests>>

\* _load_group_hierarchy: now the profile is known.
ReadHierarchy(c) ==
  LET v == view[c]
  IN /\ pc[c] = "tree"
     /\ view' = [view EXCEPT ![c].hours =
                   HoursOf(v.own, v.bound, v.fallback, v.group, parent)]
     /\ pc' = [pc EXCEPT ![c] = "save"]
     /\ UNCHANGED <<tables, locks, shown, checkLock, owed, local, history, requests>>

\* _replace_periods and its commit.
SaveConflicts(c) ==
  LET r == view[c].resource
  IN /\ pc[c] = "save"
     /\ shown' = [shown EXCEPT ![r] = view[c].hours]
     /\ checkLock' = [checkLock EXCEPT ![r] = Free]
     /\ owed' = [owed EXCEPT ![c] = @ \ {r}]
     /\ view' = [view EXCEPT ![c] = NoView]
     /\ pc' = [pc EXCEPT ![c] = IF owed[c] \subseteq {r} THEN "idle" ELSE "refresh"]
     /\ UNCHANGED <<tables, locks, local, history, requests>>

Refreshing == {"refresh", "place", "tree", "save"}
Writing == {"graphToMove", "lockToMove", "collect", "move",
            "graphToDelete", "lockToDelete", "count", "delete",
            "pinToEnter", "enter", "lockToJoin", "pinToJoin", "join",
            "pinProfile", "pinGroup", "pinOnly", "bind",
            "lockDefault", "lockProfile", "bindings", "drop"}

\* A failing resource ends the call; a dying process ends it likewise.
FailRefresh(c) ==
  /\ pc[c] \in Refreshing
  /\ failures < MaxFailures /\ failures' = failures + 1
  /\ failed' = failed \cup owed[c]
  /\ checkLock' = [r \in Resources |-> IF checkLock[r] = c THEN Free ELSE checkLock[r]]
  /\ owed' = [owed EXCEPT ![c] = {}]
  /\ view' = [view EXCEPT ![c] = NoView]
  /\ pc' = [pc EXCEPT ![c] = "idle"]
  /\ UNCHANGED <<tables, locks, shown, local, missed, requests>>

\* A refusal, a missing row, a constraint, a lost connection: rolled back.
Abort(c) ==
  /\ pc[c] \in Writing
  /\ pc' = [pc EXCEPT ![c] = "idle"]
  /\ late' = [late EXCEPT ![c] = {}]
  /\ EndTransaction(c)
  /\ UNCHANGED <<tables, refreshing, history, requests>>

-----------------------------------------------------------------------------
OfGroups(c) ==
  \/ \E g \in Groups, up \in Groups \cup {Top} :
       CreateGroup(c, g, up) \/ Request(c, "graphToMove", g, up)
  \/ \E g \in Groups : Request(c, "graphToDelete", g, Top)
  \/ LockGraph(c, "graphToMove", "lockToMove") \/ LockRow(c, "lockToMove", "collect")
  \/ CollectAffected(c) \/ MoveGroup(c)
  \/ LockGraph(c, "graphToDelete", "lockToDelete") \/ LockRow(c, "lockToDelete", "count")
  \/ CountReferences(c) \/ DeleteGroup(c)

OfResources(c) ==
  \/ \E r \in Resources, g \in Groups :
       \/ member[r] = Unborn /\ Request(c, "pinToEnter", r, g)
       \/ Exists(r) /\ Request(c, "lockToJoin", r, g)
  \/ Pin(c, ask[c].to, "pinToEnter", "enter") \/ InsertResource(c)
  \/ LockRow(c, "lockToJoin", "pinToJoin") \/ Pin(c, ask[c].to, "pinToJoin", "join")
  \/ JoinGroup(c)
  \/ \E r \in Resources : Book(c, r)

OfCalendars(c) ==
  \/ \E g \in Groups, p \in Profiles : Request(c, "pinProfile", g, p)
  \/ Pin(c, ask[c].to, "pinProfile", "pinGroup") \/ Pin(c, ask[c].row, "pinGroup", "bind")
  \/ \E r \in Resources, p \in Profiles : Exists(r) /\ Request(c, "pinOnly", r, p)
  \/ Pin(c, ask[c].to, "pinOnly", "bind")
  \/ InsertBinding(c)
  \/ \E t \in Targets : DeleteBinding(c, t)
  \/ \E p \in Profiles : CreateProfile(c, p, TRUE) \/ CreateProfile(c, p, FALSE)
                         \/ MakeDefault(c, p) \/ Request(c, "lockDefault", p, Top)
  \/ LockDefault(c) \/ LockRow(c, "lockProfile", "bindings")
  \/ CountBindings(c) \/ DeleteProfile(c)

OfConflicts(c) ==
  \/ FullCheck(c)
  \/ \E r \in Resources : StartRefresh(c, r)
  \/ ReadPlacement(c) \/ ReadHierarchy(c) \/ SaveConflicts(c)
  \/ FailRefresh(c)

Next == \E c \in Clients :
  OfGroups(c) \/ OfResources(c) \/ OfCalendars(c) \/ OfConflicts(c) \/ Abort(c)

Spec == Init /\ [][Next]_vars

-----------------------------------------------------------------------------
\* Columns keep their types and their foreign keys.
ForeignKeys ==
  /\ \A g \in Groups : parent[g] \in Groups => Exists(parent[g])
  /\ \A r \in Resources : member[r] \in Groups => Exists(member[r])
  /\ \A t \in Targets : binding[t] \in Profiles => profile[binding[t]]
  /\ \A g \in Groups : binding[g] \in Profiles => Exists(g)
  /\ profile[default]

View == [resource : Resources \cup {Nothing}, own : Profiles \cup {NoProfile},
         bound : [Groups -> Profiles \cup {NoProfile}],
         fallback : Profiles \cup {NoProfile}, group : Groups \cup {Top, Unborn},
         hours : Profiles \cup {NoProfile}]

TypeOK ==
  /\ parent \in [Groups -> Groups \cup {Top} \cup NoRow]
  /\ member \in [Resources -> Groups \cup {Unborn}]
  /\ binding \in [Targets -> Profiles \cup {NoProfile}]
  /\ profile \in [Profiles -> BOOLEAN] /\ born \subseteq Profiles /\ default \in Profiles
  /\ ForeignKeys
  /\ shown \in [Resources -> Profiles \cup {NoProfile, Unbooked}]
  /\ graphLock \in Clients \cup {Free} /\ defaultLock \in Clients \cup {Free}
  /\ rowLock \in [Rows -> Clients \cup {Free}]
  /\ pins \in [Clients -> SUBSET Rows]
  /\ checkLock \in [Resources -> Clients \cup {Free}]
  /\ pc \in [Clients -> Refreshing \cup Writing \cup {"idle"}]
  /\ ask \in [Clients -> {Nothing} \cup Ask]
  /\ affected \in [Clients -> SUBSET Resources] /\ late \in [Clients -> SUBSET Resources]
  /\ owed \in [Clients -> SUBSET Resources]
  /\ view \in [Clients -> View]
  /\ failed \subseteq Resources /\ missed \subseteq Resources
  /\ requests \in 0 .. MaxRequests /\ failures \in 0 .. MaxFailures

\* resource_group_service.py, "a resource group hierarchy cannot contain a
\* cycle": whatever moves and creations overlap.
NoCycle == Acyclic(parent)

\* "A competing binding/resource writer must retain KEY SHARE on this group":
\* what a session checked is still so when it writes, on both sides.
ChecksStayTrue ==
  \A c \in Clients :
    /\ pc[c] = "move" /\ ask[c].to # Top => ~WouldCreateCycle(ask[c].row, ask[c].to)
    /\ pc[c] \in {"enter", "join"} => Exists(ask[c].to)
    /\ pc[c] = "bind" => Exists(ask[c].to) /\ Exists(ask[c].row)
    /\ pc[c] = "delete" => Unused(ask[c].row)
    /\ pc[c] = "drop" => Dispensable(ask[c].row)

\* Whoever's conflicts were made with other hours than the ones in force is
\* owed a refresh, or its refresh failed, or a move missed it.
Excused(r) == r \in failed \cup missed \cup UNION {owed[c] : c \in Clients}
StaleOnlyIfOwed == \A r \in Resources : Stale(r) => Excused(r)

\* delete_profile, "Removing it would silently move those resources onto the
\* default profile", and the group deletion that must "never detach children or
\* calendar bindings": no deletion changes anybody's hours.
DeletionsMoveNobody ==
  [][(\E x \in Groups \cup Profiles : Exists(x) /\ ~Exists(x)')
       => \A r \in Resources : Hours(r)' = Hours(r)]_vars

\* conflict-detection.md, "Calendar definitions (including inherited defaults),
\* bindings and resource site/group changes trigger reconciliation": conflicts
\* are stale only until a check that somebody has triggered gets to them.
StaleIsBeingChecked ==
  \A r \in Resources : Stale(r) => r \in failed \cup UNION {owed[c] : c \in Clients}
=============================================================================
