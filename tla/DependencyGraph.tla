-------------------------- MODULE DependencyGraph ---------------------------
(***************************************************************************)
(* The dependency writes as transactions: creating and deleting links under*)
(* the advisory lock of the dependency graph, changing a lag without it,   *)
(* and deleting packages, which removes links and takes only row locks.    *)
(***************************************************************************)
EXTENDS Naturals

CONSTANTS
  Packages, Lags, InitialLinks,
  Clients,       \* sessions that write
  Free,          \* a lock nobody holds
  NoLink,        \* no link asked for
  MaxRequests    \* bound: writes that are started

VARIABLES
  packages,      \* committed work packages
  links,         \* committed dependencies
  graphLock,     \* pg_advisory_xact_lock on the graph "dependencies"
  pins,          \* FOR KEY SHARE locks on package rows
  rowLock,       \* FOR UPDATE lock on a package row
  pc,            \* where each session is
  wanted,        \* the link a create was asked for
  doomed,        \* the packages a deletion was asked for
  selected,      \* the links a deletion found
  requests       \* counter for the bound

Plan == INSTANCE DependencyPlan

Link == Plan!Link

ASSUME PlanAssumption == Plan!Sound
ASSUME ClientsAssumption == Free \notin Clients /\ NoLink \notin Link
ASSUME BoundAssumption == MaxRequests \in Nat

tables == <<packages, links>>
locks == <<graphLock, pins, rowLock>>
local == <<wanted, doomed, selected>>
vars == <<tables, locks, pc, local, requests>>

-----------------------------------------------------------------------------
Init ==
  /\ Plan!Init
  /\ graphLock = Free
  /\ pins = [w \in Packages |-> {}]
  /\ rowLock = [w \in Packages |-> Free]
  /\ pc = [c \in Clients |-> "idle"]
  /\ wanted = [c \in Clients |-> NoLink]
  /\ doomed = [c \in Clients |-> {}]
  /\ selected = [c \in Clients |-> {}]
  /\ requests = 0

Start(c, at) == /\ pc[c] = "idle"
                /\ requests < MaxRequests
                /\ requests' = requests + 1
                /\ pc' = [pc EXCEPT ![c] = at]

Step(c, from, to) == /\ pc[c] = from
                     /\ pc' = [pc EXCEPT ![c] = to]
                     /\ UNCHANGED requests

\* Commit and rollback alike release what the transaction holds.
EndTransaction(c) ==
  /\ graphLock' = IF graphLock = c THEN Free ELSE graphLock
  /\ pins' = [w \in Packages |-> pins[w] \ {c}]
  /\ rowLock' = [w \in Packages |-> IF rowLock[w] = c THEN Free ELSE rowLock[w]]
  /\ wanted' = [wanted EXCEPT ![c] = NoLink]
  /\ doomed' = [doomed EXCEPT ![c] = {}]
  /\ selected' = [selected EXCEPT ![c] = {}]

-----------------------------------------------------------------------------
\* create

RequestCreate(c, l) ==
  /\ Start(c, "lockToCreate")
  /\ wanted' = [wanted EXCEPT ![c] = l]
  /\ UNCHANGED <<tables, locks, doomed, selected>>

Ends(c) == {wanted[c].predecessor, wanted[c].successor}

\* Mutant: the graph lock is taken without waiting for its holder.
LockGraphAtOnce(c, from, to) ==
  /\ Step(c, from, to)
  /\ graphLock' = c
  /\ UNCHANGED <<tables, pins, rowLock, local>>

LockGraph(c, from, to) ==
  /\ Step(c, from, to)
  /\ graphLock = Free
  /\ graphLock' = c
  /\ UNCHANGED <<tables, pins, rowLock, local>>

\* Mutant: a plain SELECT, which no deletion makes wait.
PinEndUnlocked(c, w) ==
  /\ pc[c] = "pin"
  /\ w \in Ends(c) \cap packages
  /\ c \notin pins[w]
  /\ \A v \in Ends(c) \cap packages : v < w => c \in pins[v]
  /\ pins' = [pins EXCEPT ![w] = @ \cup {c}]
  /\ UNCHANGED <<tables, graphLock, rowLock, pc, local, requests>>

\* SELECT ... ORDER BY id FOR KEY SHARE: row by row, skipping rows that are gone.
PinEnd(c, w) ==
  /\ pc[c] = "pin"
  /\ w \in Ends(c) \cap packages
  /\ c \notin pins[w]
  /\ \A v \in Ends(c) \cap packages : v < w => c \in pins[v]
  /\ rowLock[w] = Free
  /\ pins' = [pins EXCEPT ![w] = @ \cup {c}]
  /\ UNCHANGED <<tables, graphLock, rowLock, pc, local, requests>>

Valid(l, L) == /\ l.predecessor # l.successor
               /\ \A k \in L : ~Plan!SamePair(k, l)
               /\ ~Plan!WouldCreateCycle(l, L)

\* Both ends present and pinned; every edge is read and the link is validated.
Validate(c) ==
  /\ Step(c, "pin", "insert")
  /\ \A w \in Ends(c) : w \in packages /\ c \in pins[w]
  /\ Valid(wanted[c], links)
  /\ UNCHANGED <<tables, locks, local>>

Insert(c) ==
  /\ Step(c, "insert", "idle")
  /\ links' = links \cup {wanted[c]}
  /\ EndTransaction(c)
  /\ UNCHANGED packages

-----------------------------------------------------------------------------
\* delete and update_lag

RequestDelete(c) == Start(c, "lockToDelete") /\ UNCHANGED <<tables, locks, local>>

Delete(c, l) ==
  /\ Step(c, "delete", "idle")
  /\ l \in links
  /\ links' = links \ {l}
  /\ EndTransaction(c)
  /\ UNCHANGED packages

\* One UPDATE by primary key, outside the graph lock.
UpdateLag(c, l, days) ==
  /\ Start(c, "idle")
  /\ l \in links
  /\ links' = (links \ {l}) \cup {[l EXCEPT !.lag = days]}
  /\ UNCHANGED <<packages, locks, local>>

-----------------------------------------------------------------------------
\* Deleting a package, or all packages of a project.

RequestPackageDeletion(c, W) ==
  /\ Start(c, "lockRows")
  /\ W \subseteq packages /\ W # {}
  /\ doomed' = [doomed EXCEPT ![c] = W]
  /\ UNCHANGED <<tables, locks, wanted, selected>>

Locked(c) == {w \in Packages : rowLock[w] = c}

\* Mutants: rows locked in any order; rows locked over the pins of a create.
LockRowUnordered(c, w) ==
  /\ pc[c] = "lockRows"
  /\ w \in doomed[c] \cap packages
  /\ rowLock[w] = Free /\ pins[w] \subseteq {c}
  /\ rowLock' = [rowLock EXCEPT ![w] = c]
  /\ UNCHANGED <<tables, graphLock, pins, pc, local, requests>>

LockRowOverPins(c, w) ==
  /\ pc[c] = "lockRows"
  /\ w \in doomed[c] \cap packages
  /\ \A v \in doomed[c] \cap packages : v < w => rowLock[v] = c
  /\ rowLock[w] = Free
  /\ rowLock' = [rowLock EXCEPT ![w] = c]
  /\ UNCHANGED <<tables, graphLock, pins, pc, local, requests>>

\* SELECT ... ORDER BY id FOR UPDATE waits for pins and for other deletions.
LockRow(c, w) ==
  /\ pc[c] = "lockRows"
  /\ w \in doomed[c] \cap packages
  /\ \A v \in doomed[c] \cap packages : v < w => rowLock[v] = c
  /\ rowLock[w] = Free /\ pins[w] \subseteq {c}
  /\ rowLock' = [rowLock EXCEPT ![w] = c]
  /\ UNCHANGED <<tables, graphLock, pins, pc, local, requests>>

\* The rows that still exist are locked; the links at either end are read.
SelectLinks(c) ==
  /\ Step(c, "lockRows", "purge")
  /\ doomed[c] \cap packages \subseteq Locked(c)
  /\ doomed' = [doomed EXCEPT ![c] = @ \cap packages]
  /\ selected' = [selected EXCEPT ![c] = {l \in links : Plan!Touches(l, Locked(c))}]
  /\ UNCHANGED <<tables, locks, wanted>>

\* The links found are deleted one by one, so that each leaves an audit event;
\* ON DELETE CASCADE would silently take any other.
Purge(c) ==
  /\ Step(c, "purge", "idle")
  /\ packages' = packages \ doomed[c]
  /\ links' = {l \in links : ~Plan!Touches(l, doomed[c])}
  /\ EndTransaction(c)

-----------------------------------------------------------------------------
\* An exception, a refused link, a missing row, a lost connection: rolled back.
Abort(c) ==
  /\ pc[c] # "idle"
  /\ pc' = [pc EXCEPT ![c] = "idle"]
  /\ EndTransaction(c)
  /\ UNCHANGED <<tables, requests>>

\* The refusals the code decides on, which end a request that can go no further.
Refuse(c) ==
  /\ \/ /\ pc[c] = "pin"
        /\ \A w \in Ends(c) \cap packages : c \in pins[w]
        /\ ~(Ends(c) \subseteq packages /\ Valid(wanted[c], links))
     \/ pc[c] = "delete" /\ links = {}
  /\ Abort(c)

Work(c) ==
  \/ LockGraph(c, "lockToCreate", "pin") \/ LockGraph(c, "lockToDelete", "delete")
  \/ \E w \in Packages : PinEnd(c, w) \/ LockRow(c, w)
  \/ Validate(c) \/ Insert(c) \/ (\E l \in Link : Delete(c, l))
  \/ SelectLinks(c) \/ Purge(c) \/ Refuse(c)

Next ==
  \E c \in Clients :
    \/ \E l \in Link : RequestCreate(c, l)
    \/ RequestDelete(c)
    \/ \E l \in Link, days \in Lags : UpdateLag(c, l, days)
    \/ \E W \in SUBSET Packages : RequestPackageDeletion(c, W)
    \/ Work(c)
    \/ Abort(c)

Spec == Init /\ [][Next]_vars

\* A session that can go on does; nobody has to send requests or to fail.
FairSpec == Spec /\ \A c \in Clients : WF_vars(Work(c))

-----------------------------------------------------------------------------
\* Tables hold packages and links, locks name sessions, locals name requests.
TypeOK ==
  /\ Plan!TypeOK
  /\ graphLock \in Clients \cup {Free}
  /\ pins \in [Packages -> SUBSET Clients]
  /\ rowLock \in [Packages -> Clients \cup {Free}]
  /\ pc \in [Clients -> {"idle", "lockToCreate", "pin", "insert", "lockToDelete",
                         "delete", "lockRows", "purge"}]
  /\ wanted \in [Clients -> Link \cup {NoLink}]
  /\ doomed \in [Clients -> SUBSET Packages]
  /\ selected \in [Clients -> SUBSET Link]
  /\ requests \in 0 .. MaxRequests

\* No interleaving of creates, deletes and package deletions commits a cycle,
\* although validation and insertion are separate statements.
NoCycle == Plan!NoCycle

\* _delete_work_packages, "explicit ORM deletes, so their audit events are
\* retained": when the packages go, no link is left for the silent cascade.
EveryPurgedLinkIsAudited ==
  \A c \in Clients : pc[c] = "purge" =>
     \A l \in links : Plan!Touches(l, doomed[c]) =>
        \E k \in selected[c] : Plan!SamePair(k, l)

\* Every committed transaction is one step of the plan: the locks make the
\* writes serializable.
ImplementsPlan == Plan!Spec

\* The graph lock, the pins and the row locks are never waited for in a circle: every
\* session is idle again and again.
EveryRequestEnds == \A c \in Clients : []<>(pc[c] = "idle")
=============================================================================
