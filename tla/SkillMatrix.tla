----------------------------- MODULE SkillMatrix -----------------------------
(* The matrix of a resource's qualifications, whose cells change before the   *)
(* server has answered: every change writes what it expects into the rows,    *)
(* keeps the rows it found, puts them back if it fails and has the rows read  *)
(* again when it is over.  Changes of several cells run at once.  Skill names *)
(* and the second bound are left out.                                         *)
EXTENDS Sequences, Naturals

CONSTANTS Attributes, HeldFirst, MaxChanges

ASSUME MatrixAssumption == HeldFirst \subseteq Attributes /\ MaxChanges \in Nat

Temp == 0              \* the id of a row the server has not named
NoCell == "none"       \* the cell of a change that is over, which nobody asks for
Rows == [attr : Attributes, id : 0..MaxChanges + 1, level : 0..1]
NotRead == [at |-> "none", rows |-> {}]
-----------------------------------------------------------------------------
VARIABLES held,        \* the rows on the server
          cells,       \* the rows in the cache, which the matrix shows
          rowsRead,       \* the read on its way: [at, rows]
          changes,     \* the changes in the order they were asked for
          trusted      \* whether the last read that ended was answered

matrixVars == <<held, cells, rowsRead, changes, trusted>>

MatrixInit ==
  /\ held = {[attr |-> a, id |-> MaxChanges + 1, level |-> 0] : a \in HeldFirst}
  /\ cells = held /\ rowsRead = NotRead /\ changes = <<>> /\ trusted = TRUE
-----------------------------------------------------------------------------
Over(i) == changes[i].at = "over"

LatestOf(kinds) ==
  {i \in DOMAIN changes : /\ changes[i].kind \in kinds
                          /\ \A j \in DOMAIN changes : changes[j].kind \in kinds => j <= i}

\* Only the latest toggle and the latest bound are known to be on their way.
loadingCells ==
  {changes[i].attr : i \in {j \in LatestOf({"add", "remove"}) \cup LatestOf({"bound"}) : ~Over(j)}}

CellOf(a) ==
  LET found == {r \in cells : r.attr = a}
  IN  IF \E r \in found : r.id # Temp THEN {CHOOSE r \in found : r.id # Temp} ELSE found

(* The running read is cancelled, the rows are kept, and the expected ones    *)
(* written, all before the next event.                                        *)
Ask(change, expected) ==
  /\ Len(changes) < MaxChanges
  /\ changes' = Append(changes, [change EXCEPT !.previous = cells])
  /\ cells' = expected /\ rowsRead' = NotRead
  /\ UNCHANGED <<held, trusted>>

Change(kind, row) ==
  [kind |-> kind, attr |-> row.attr, id |-> row.id, level |-> row.level,
   previous |-> {}, at |-> "sent"]

TempRow(a) == [attr |-> a, id |-> Temp, level |-> 0]

Toggle(a) ==
  /\ a \notin loadingCells
  /\ IF CellOf(a) = {} THEN Ask(Change("add", TempRow(a)), cells \cup {TempRow(a)})
     ELSE \E row \in CellOf(a) :
            Ask(Change("remove", row), cells \ {row})

\* A bound can be entered for a row that has a name.
handleBoundsChange(a, level) ==
  /\ a \notin loadingCells
  /\ \E row \in CellOf(a) :
       /\ row.id # Temp /\ row.level # level
       /\ LET new == [row EXCEPT !.level = level]
          IN  Ask(Change("bound", new), (cells \ {row}) \cup {new})
-----------------------------------------------------------------------------
Known(c) == {r \in held : r.id = c.id}

(* The server: a qualification is held once, and a row it does not know can   *)
(* be neither removed nor changed.                                            *)
Accepts(c) ==
  CASE c.kind = "add" -> \A r \in held : r.attr # c.attr
    [] OTHER -> Known(c) # {}

After(i, c) ==
  CASE c.kind = "add" -> held \cup {[attr |-> c.attr, id |-> i, level |-> 0]}
    [] c.kind = "remove" -> held \ Known(c)
    [] OTHER -> (held \ Known(c)) \cup {[r EXCEPT !.level = c.level] : r \in Known(c)}

ServerChanges(i) ==
  /\ changes[i].at = "sent"
  /\ IF Accepts(changes[i])
     THEN held' = After(i, changes[i]) /\ changes' = [changes EXCEPT ![i].at = "done"]
     ELSE held' = held /\ changes' = [changes EXCEPT ![i].at = "refused"]
  /\ UNCHANGED <<cells, rowsRead, trusted>>

(* What a change leaves, and the read it asks for, in place of one that runs. *)
Ends(i, rows, read) ==
  /\ changes' = [changes EXCEPT ![i].at = "over", ![i].previous = {}, ![i].id = Temp,
                                ![i].level = 0, ![i].attr = NoCell]
  /\ cells' = rows
  /\ rowsRead' = read
  /\ UNCHANGED <<held, trusted>>

Reread == [at |-> "asked", rows |-> {}]

Succeeds(i) == changes[i].at = "done" /\ Ends(i, cells, Reread)

\* Mutant: a failed change puts its rows back and leaves it at that.
FailsWithoutReading(i) ==
  /\ changes[i].at \in {"sent", "done", "refused"} /\ Ends(i, changes[i].previous, rowsRead)

(* Refused, never arrived, or its answer lost: the kept rows come back.       *)
Fails(i) ==
  /\ changes[i].at \in {"sent", "done", "refused"} /\ Ends(i, changes[i].previous, Reread)
-----------------------------------------------------------------------------
\* On coming back to the window, and after a read that failed.
Refetch ==
  /\ rowsRead = NotRead /\ rowsRead' = Reread
  /\ UNCHANGED <<held, cells, changes, trusted>>

ServerReads ==
  /\ rowsRead.at = "asked" /\ rowsRead' = [at |-> "answered", rows |-> held]
  /\ UNCHANGED <<held, cells, changes, trusted>>

RowsLand ==
  /\ rowsRead.at = "answered" /\ rowsRead' = NotRead /\ cells' = rowsRead.rows /\ trusted' = TRUE
  /\ UNCHANGED <<held, changes>>

RowsFail ==
  /\ rowsRead # NotRead /\ rowsRead' = NotRead /\ trusted' = FALSE
  /\ UNCHANGED <<held, cells, changes>>
-----------------------------------------------------------------------------
MatrixNext ==
  \/ Refetch \/ ServerReads \/ RowsLand \/ RowsFail
  \/ \E a \in Attributes : Toggle(a) \/ \E level \in 0..1 : handleBoundsChange(a, level)
  \/ \E i \in DOMAIN changes : ServerChanges(i) \/ Succeeds(i) \/ Fails(i)

MatrixSpec == MatrixInit /\ [][MatrixNext]_matrixVars

MatrixTypeOK ==
  /\ held \subseteq Rows /\ cells \subseteq Rows /\ trusted \in BOOLEAN
  /\ rowsRead.at \in {"none", "asked", "answered"} /\ rowsRead.rows \subseteq Rows
  /\ \A i \in DOMAIN changes : changes[i].at \in {"sent", "done", "refused", "over"}
-----------------------------------------------------------------------------
AtRest == rowsRead = NotRead /\ \A i \in DOMAIN changes : Over(i)

(* When all changes are over and the last read was answered, the matrix shows *)
(* what the server holds: whatever a change expected or put back, however the *)
(* changes overtook each other and whichever reads they cancelled.            *)
MatrixTellsTheTruth == AtRest /\ trusted => cells = held
=============================================================================
