----------------------------- MODULE FolderFiling -----------------------------
(***************************************************************************)
(* Project folders: a tree that several sessions reshape at once, and the  *)
(* projects filed in it.  Structural writes hold the advisory lock of the  *)
(* folder graph from before their check until their commit.  Filing a      *)
(* project takes no lock: a project contains no project, so that filing    *)
(* one cannot close a loop.                                                *)
(***************************************************************************)
EXTENDS Naturals

CONSTANTS
  Folders, Projects,   \* ids
  Filers,             \* sessions that write
  Top,                 \* no parent: a folder of the top level
  Unfiled,             \* no folder: a project filed nowhere
  Unborn, Gone,        \* a row not yet inserted, a row deleted
  NoFiler, Nothing,       \* a lock nobody holds, a request nobody made
  InitialTrees,        \* parents a run may start from
  InitialFilings,      \* folders of the projects it may start from
  MaxFilings          \* bound: writes that are started

VARIABLES
  parent,     \* project_folders.parent_id, with Unborn and Gone
  filed,      \* projects.folder_id, with Unborn and Gone
  folderLock,  \* pg_advisory_xact_lock on the graph "folders"
  filingPc,         \* where each session is
  ask,        \* what it was asked for
  found,      \* the projects and the sub-folders a deletion selected, and
  heirs,      \* ...
  above,      \* the parent it read for them
  filingRequests    \* counter for the bound

NoRow == {Unborn, Gone}
Places == Folders \cup {Top}
Filings == Folders \cup {Unfiled} \cup NoRow
Asks == [folder : Folders \cup {Nothing}, up : Places]
Filing == [project : Projects, loaded : Folders \cup {Unfiled}, up : Folders \cup {Unfiled}]

filingTables == <<parent, filed>>
filingLocal == <<ask, found, heirs, above>>
filingVars == <<filingTables, folderLock, filingPc, filingLocal, filingRequests>>

Exists(f) == f \in Folders /\ parent[f] \notin NoRow
Children(f) == {g \in Folders : parent[g] = f}
Inside(f) == {p \in Projects : filed[p] = f}

\* A set of folders that following parents never leaves.
Closed(C, up) == \A f \in C : up[f] \in Folders => up[f] \in C

\* The parent chain of `from` arrives at f: nothing closed keeps them apart.
Beneath(from, f, up) ==
  \A C \in SUBSET Folders : from \in C /\ Closed(C, up) => f \in C

\* Mutant: only the parent of the new parent is looked at.
WouldCreateShortCycle(f, up) == f = up \/ parent[up] = f

\* The new parent is the folder itself or lies in its subtree.
WouldCreateCycle(f, up) == Beneath(up, f, parent)

\* Every group of folders has one whose parent is outside it.
Acyclic(up) == \A S \in SUBSET Folders : S # {} => \E f \in S : up[f] \notin S

ASSUME FilingValuesAssumption ==
  /\ ({Top, Unfiled, Unborn, Gone, Nothing}) \cap Folders = {}
  /\ {Top, Unfiled} \cap {Unborn, Gone} = {} /\ Unborn # Gone
  /\ NoFiler \notin Filers
  /\ Nothing \notin Asks \cup Filing
ASSUME TreesAssumption ==
  /\ \A up \in InitialTrees :
       /\ up \in [Folders -> Places \cup NoRow]
       /\ Acyclic(up)
       /\ \A f \in Folders : up[f] \in Folders => up[up[f]] \notin NoRow
  /\ \A in \in InitialFilings : in \in [Projects -> Filings]
ASSUME FilingBoundAssumption == MaxFilings \in Nat

-----------------------------------------------------------------------------
FilingInit ==
  /\ parent \in InitialTrees
  /\ filed \in {in \in InitialFilings :
       \A p \in Projects : in[p] \in Folders => parent[in[p]] \notin NoRow}
  /\ folderLock = NoFiler
  /\ filingPc = [c \in Filers |-> "idle"]
  /\ ask = [c \in Filers |-> Nothing]
  /\ found = [c \in Filers |-> {}]
  /\ heirs = [c \in Filers |-> {}]
  /\ above = [c \in Filers |-> Top]
  /\ filingRequests = 0

StartFiling(c, at, what) ==
  /\ filingPc[c] = "idle"
  /\ filingRequests < MaxFilings
  /\ filingRequests' = filingRequests + 1
  /\ filingPc' = [filingPc EXCEPT ![c] = at]
  /\ ask' = [ask EXCEPT ![c] = what]

FilingStep(c, from, to) == /\ filingPc[c] = from
                     /\ filingPc' = [filingPc EXCEPT ![c] = to]
                     /\ UNCHANGED filingRequests

\* Commit and rollback alike release the lock; the session's rows are forgotten.
EndFiling(c) ==
  /\ folderLock' = IF folderLock = c THEN NoFiler ELSE folderLock
  /\ ask' = [ask EXCEPT ![c] = Nothing]
  /\ found' = [found EXCEPT ![c] = {}]
  /\ heirs' = [heirs EXCEPT ![c] = {}]
  /\ above' = [above EXCEPT ![c] = Top]

Asked(folder, up) == [folder |-> folder, up |-> up]

-----------------------------------------------------------------------------
\* ProjectFolderService: create, update with a parent, delete.

\* A folder without a parent takes no lock and needs no check.
CreateTopFolder(c, f) ==
  /\ StartFiling(c, "idle", Nothing)
  /\ parent[f] = Unborn
  /\ parent' = [parent EXCEPT ![f] = Top]
  /\ UNCHANGED <<filed, folderLock, found, heirs, above>>

RequestFolder(c, up) ==
  /\ StartFiling(c, "lockToCreate", Asked(Nothing, up))
  /\ UNCHANGED <<filingTables, folderLock, found, heirs, above>>

RequestMove(c, f, up) ==
  /\ StartFiling(c, "lockToMove", Asked(f, up))
  /\ UNCHANGED <<filingTables, folderLock, found, heirs, above>>

RequestFolderDelete(c, f) ==
  /\ StartFiling(c, "lockToDelete", Asked(f, Top))
  /\ UNCHANGED <<filingTables, folderLock, found, heirs, above>>

\* Mutant: the graph lock is taken without waiting for its holder.
LockFoldersAtOnce(c, from, to) ==
  /\ FilingStep(c, from, to)
  /\ folderLock' = c
  /\ UNCHANGED <<filingTables, filingLocal>>

LockFolders(c, from, to) ==
  /\ FilingStep(c, from, to)
  /\ folderLock = NoFiler
  /\ folderLock' = c
  /\ UNCHANGED <<filingTables, filingLocal>>

\* _validate_parent for a new folder: the parent has to be in the tree.
CheckNew(c) ==
  /\ FilingStep(c, "create", "insert")
  /\ Exists(ask[c].up)
  /\ UNCHANGED <<filingTables, folderLock, filingLocal>>

InsertFolder(c, f) ==
  /\ FilingStep(c, "insert", "idle")
  /\ parent[f] = Unborn
  /\ Exists(ask[c].up)
  /\ parent' = [parent EXCEPT ![f] = ask[c].up]
  /\ EndFiling(c)
  /\ UNCHANGED filed

\* ... and for a moved one it must not be the folder or anything beneath it.
CheckMove(c) ==
  /\ FilingStep(c, "move", "place")
  /\ Exists(ask[c].folder)
  /\ ask[c].up # Top => Exists(ask[c].up) /\ ~WouldCreateCycle(ask[c].folder, ask[c].up)
  /\ UNCHANGED <<filingTables, folderLock, filingLocal>>

MoveFolder(c) ==
  /\ FilingStep(c, "place", "idle")
  /\ Exists(ask[c].folder)
  /\ ask[c].up # Top => Exists(ask[c].up)
  /\ parent' = [parent EXCEPT ![ask[c].folder] = ask[c].up]
  /\ EndFiling(c)
  /\ UNCHANGED filed

SelectContents(c) ==
  LET f == ask[c].folder
  IN /\ FilingStep(c, "delete", "unfile")
     /\ Exists(f)
     /\ above' = [above EXCEPT ![c] = parent[f]]
     /\ found' = [found EXCEPT ![c] = Inside(f)]
     /\ heirs' = [heirs EXCEPT ![c] = Children(f)]
     /\ UNCHANGED <<filingTables, folderLock, ask>>

\* Mutants: the sub-folders go to the top level; the projects go where they go.
Uprooted(c) ==
  [g \in Folders |-> IF g \in heirs[c] THEN Top
                     ELSE IF g = ask[c].folder THEN Gone ELSE parent[g]]
FiledAbove(c) == [p \in Projects |-> IF p \in found[c] THEN above[c] ELSE filed[p]]

\* What the deletion writes to the rows it selected, each by its id.
Reparented(c) ==
  [g \in Folders |-> IF g \in heirs[c] THEN above[c]
                     ELSE IF g = ask[c].folder THEN Gone ELSE parent[g]]
TakenOut(c) == [p \in Projects |-> IF p \in found[c] THEN Unfiled ELSE filed[p]]

\* An UPDATE that meets no row, or a row still filed in the folder, rolls it back.
DeleteFolder(c) ==
  LET f == ask[c].folder
  IN /\ FilingStep(c, "unfile", "idle")
     /\ \A p \in found[c] : filed[p] # Gone
     /\ Inside(f) \subseteq found[c] /\ Children(f) \subseteq heirs[c]
     /\ parent' = Reparented(c)
     /\ filed' = TakenOut(c)
     /\ EndFiling(c)

-----------------------------------------------------------------------------
\* ProjectService.

CanHold(up) == up = Unfiled \/ Exists(up)

CreateProject(c, p, up) ==
  /\ StartFiling(c, "idle", Nothing)
  /\ filed[p] = Unborn /\ CanHold(up)
  /\ filed' = [filed EXCEPT ![p] = up]
  /\ UNCHANGED <<parent, folderLock, found, heirs, above>>

\* update: get_by_id, no row lock ...
LoadProject(c, p, up) ==
  /\ filed[p] \notin NoRow
  /\ StartFiling(c, "file", [project |-> p, loaded |-> filed[p], up |-> up])
  /\ UNCHANGED <<filingTables, folderLock, found, heirs, above>>

\* ... and a folder_id is written when it differs from the one that was loaded.
FileProject(c) ==
  LET p == ask[c].project
  IN /\ FilingStep(c, "file", "idle")
     /\ filed[p] # Gone
     /\ IF ask[c].up = ask[c].loaded
          THEN UNCHANGED filed
          ELSE CanHold(ask[c].up) /\ filed' = [filed EXCEPT ![p] = ask[c].up]
     /\ EndFiling(c)
     /\ UNCHANGED parent

DeleteProject(c, p) ==
  /\ StartFiling(c, "idle", Nothing)
  /\ filed[p] \notin NoRow
  /\ filed' = [filed EXCEPT ![p] = Gone]
  /\ UNCHANGED <<parent, folderLock, found, heirs, above>>

\* A refusal, a missing row, a foreign key, a lost connection: rolled back.
AbortFiling(c) ==
  /\ filingPc[c] # "idle"
  /\ filingPc' = [filingPc EXCEPT ![c] = "idle"]
  /\ EndFiling(c)
  /\ UNCHANGED <<filingTables, filingRequests>>

-----------------------------------------------------------------------------
Structural(c) ==
  \/ \E f \in Folders : CreateTopFolder(c, f) \/ RequestFolder(c, f) \/ RequestFolderDelete(c, f)
  \/ \E f \in Folders, up \in Places : RequestMove(c, f, up)
  \/ LockFolders(c, "lockToCreate", "create") \/ LockFolders(c, "lockToMove", "move")
  \/ LockFolders(c, "lockToDelete", "delete")
  \/ CheckNew(c) \/ (\E f \in Folders : InsertFolder(c, f))
  \/ CheckMove(c) \/ MoveFolder(c)
  \/ SelectContents(c) \/ DeleteFolder(c)

OfProjects(c) ==
  \/ \E p \in Projects, up \in Folders \cup {Unfiled} :
       CreateProject(c, p, up) \/ LoadProject(c, p, up)
  \/ FileProject(c) \/ (\E p \in Projects : DeleteProject(c, p))

FilingNext == \E c \in Filers : Structural(c) \/ OfProjects(c) \/ AbortFiling(c)

FilingSpec == FilingInit /\ [][FilingNext]_filingVars

-----------------------------------------------------------------------------
\* Columns keep their types and their foreign keys.
FilingTypeOK ==
  /\ parent \in [Folders -> Places \cup NoRow]
  /\ filed \in [Projects -> Filings]
  /\ \A f \in Folders : parent[f] \in Folders => Exists(parent[f])
  /\ \A p \in Projects : filed[p] \in Folders => Exists(filed[p])
  /\ folderLock \in Filers \cup {NoFiler}
  /\ filingPc \in [Filers -> {"idle", "lockToCreate", "create", "insert", "lockToMove", "move",
                         "place", "lockToDelete", "delete", "unfile", "file"}]
  /\ ask \in [Filers -> {Nothing} \cup Asks \cup Filing]
  /\ found \in [Filers -> SUBSET Projects]
  /\ heirs \in [Filers -> SUBSET Folders]
  /\ above \in [Filers -> Places]
  /\ filingRequests \in 0 .. MaxFilings

\* folder_tree.py, a cycle "must still be impossible to create": not by moves
\* that cross, nor by a move that crosses a deletion and its re-parenting.
FoldersNoCycle == Acyclic(parent)

\* What a session checked or read of the tree still holds when it writes: the
\* foreign keys never surprise a structural write, and no sub-folder of a
\* deleted folder escapes the session that moves them up.
ChecksStayTrue ==
  \A c \in Filers :
    /\ filingPc[c] = "insert" => Exists(ask[c].up)
    /\ filingPc[c] = "place" =>
         /\ Exists(ask[c].folder)
         /\ ask[c].up # Top =>
              Exists(ask[c].up) /\ ~WouldCreateCycle(ask[c].folder, ask[c].up)
    /\ filingPc[c] = "unfile" =>
         /\ Exists(ask[c].folder)
         /\ heirs[c] = Children(ask[c].folder)
         /\ above[c] = parent[ask[c].folder]

\* delete, "sub-folders are re-parented one level up": whatever was beneath
\* whatever stays so, except beneath the folder that goes.
DeletionKeepsTheTree ==
  [][\A d \in Folders : Exists(d) /\ parent'[d] = Gone =>
       \A f, g \in Folders \ {d} : Exists(f) /\ Exists(g)
          => (Beneath(f, g, parent') <=> Beneath(f, g, parent))]_filingVars

\* architecture.md, "Direct projects become unfiled": a deletion takes no
\* project out of any other folder.
UnfilesOnlyDirectProjects ==
  [][\A d \in Folders, p \in Projects :
       Exists(d) /\ parent'[d] = Gone /\ filed'[p] # filed[p] => filed[p] = d]_filingVars
=============================================================================
