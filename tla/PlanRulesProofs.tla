-------------------------- MODULE PlanRulesProofs --------------------------
(***************************************************************************)
(* The rules of a plan.  For any bookings, sessions, dates and requests:   *)
(* partial updates that do not cross keep a booking sensible, and a frozen *)
(* booking stands.  For any bookings, calendars and clocks: the sweep      *)
(* finds the overbooked days, the dashboard agrees with it, overlaps of a  *)
(* machine are those of its holders, a preview shows of both what saving   *)
(* would store, and bookings outside the shifts of a machine are reported. *)
(***************************************************************************)
EXTENDS MCPlanRules, FiniteFolds

\* What a request has read is still there unless another has overtaken it.
FreshInv ==
  \A s \in Sessions :
    pc[s] # "idle" /\ Kind(s) \in {"update", "delete"} /\ s \notin overtaken
      => loaded[s] = rows[Target(s)]

\* What it is about to write has been looked at.
CheckedInv ==
  \A s \in Sessions :
    pc[s] = "save" /\ Kind(s) # "delete" =>
      /\ ValidShape(Wanted(s))
      /\ Kind(s) = "create" \/ request[s].patch.resource_id # Null
           \/ request[s].patch.resource_type # Null => ResourceExists(Wanted(s))

\* And so has the freeze, unless it was moved since.
OpenInv ==
  \A s \in Sessions :
    pc[s] \in {"validate", "save"} /\ s \notin Admins \cup moved =>
      \A day \in TouchedDays(s) : ~touches_frozen_period(day)

IInv == EditsTypeOK /\ FreshInv /\ CheckedInv /\ OpenInv /\ UncrossedEditsMakeSense

-----------------------------------------------------------------------------
\* The operators on rows.

\* A patch over a row is a row.
LEMMA EffectiveIsRow ==
  ASSUME NEW row \in Row, NEW patch \in Patches PROVE Effective(row, patch) \in Row
<1> patch \in Patch BY RequestsAssumption
<1> QED BY RequestsAssumption DEF Effective, Columns, Row, Patch

\* A request's row is a row.
LEMMA WantedIsRow ==
  ASSUME EditsTypeOK, NEW s \in Sessions, pc[s] # "idle", Kind(s) # "delete"
  PROVE  Wanted(s) \in Row
<1>1. CASE Kind(s) = "create" BY <1>1, RequestsAssumption DEF EditsTypeOK, Wanted, Kind
<1>2. CASE Kind(s) = "update" BY <1>2, EffectiveIsRow DEF EditsTypeOK, Wanted, Kind
<1> QED BY <1>1, <1>2 DEF EditsTypeOK

\* Written over the row that was loaded, the changed columns are the whole row.
LEMMA ChangedIsWanted ==
  ASSUME NEW s \in Sessions, Wanted(s) \in Row, loaded[s] = rows[Target(s)]
  PROVE  Changed(s) = Wanted(s)
BY DEF Changed, Columns, Row

\* In any case they are a row.
LEMMA ChangedIsRow ==
  ASSUME NEW s \in Sessions, Wanted(s) \in Row, rows[Target(s)] \in Row
  PROVE  Changed(s) \in Row
BY DEF Changed, Columns, Row

\* The guard of an update sees the first day the booking will have.
LEMMA RequestedDayIsFirstDay ==
  ASSUME NEW row \in Row, ValidShape(row), NEW patch \in Patches,
         ValidShape(Effective(row, patch))
  PROVE  FirstDay(Effective(row, patch)) = RequestedDay(patch, FirstDay(row))
<1> patch \in Patch BY RequestsAssumption
<1> DEFINE new == Effective(row, patch)
<1>0. new \in Row BY EffectiveIsRow
<1>1. CASE new.resource_type = "personal"
  <2>1. new.start_date # Null /\ new.end_date # Null /\ new.start_at = Null
    BY <1>1 DEF ValidShape
  <2>2. CASE patch.start_date # Null
    <3>1. new.start_date = patch.start_date BY <1>1, <2>2 DEF Effective, Columns
    <3> QED BY <2>1, <2>2, <3>1 DEF FirstDay, RequestedDay
  <2>3. CASE patch.start_date = Null
    <3>1. row.start_date # Null /\ new.start_date = row.start_date
      BY <1>1, <2>1, <2>3 DEF Effective, Columns
    <3>2. row.resource_type = "personal" /\ row.end_date # Null
      BY <3>1 DEF ValidShape, Row
    <3>3. patch.start_at = Null BY <1>1, <2>1, <3>2 DEF Effective, Columns
    <3> QED BY <2>1, <2>3, <3>1, <3>2, <3>3 DEF FirstDay, RequestedDay
  <2> QED BY <2>2, <2>3
<1>2. CASE new.resource_type = "infrastructure"
  <2>1. new.start_date = Null /\ new.start_at # Null /\ new.end_at # Null
    BY <1>2 DEF ValidShape
  <2>2. CASE patch.start_at # Null
    <3>1. new.start_at = patch.start_at BY <1>2, <2>2 DEF Effective, Columns
    <3>2. patch.start_date = Null BY <2>2, RequestsAssumption
    <3> QED BY <2>1, <2>2, <3>1, <3>2 DEF FirstDay, RequestedDay
  <2>3. CASE patch.start_at = Null
    <3>1. row.start_at # Null /\ new.start_at = row.start_at
      BY <1>2, <2>1, <2>3 DEF Effective, Columns
    <3>2. row.resource_type = "infrastructure" /\ row.end_at # Null /\ row.start_date = Null
      BY <3>1 DEF ValidShape, Row
    <3>3. patch.start_date = Null BY <1>2, <2>1, <3>2 DEF Effective, Columns
    <3> QED BY <2>1, <2>3, <3>1, <3>2, <3>3 DEF FirstDay, RequestedDay
  <2> QED BY <2>2, <2>3
<1> QED BY <1>0, <1>1, <1>2 DEF Row

\* A change that names no resource leaves it, and its type.
LEMMA UnnamedStays ==
  ASSUME NEW row \in Row, NEW patch \in Patches,
         patch.resource_id = Null, patch.resource_type = Null, ResourceExists(row)
  PROVE  ResourceExists(Effective(row, patch))
BY DEF Effective, Columns, ResourceExists

-----------------------------------------------------------------------------
\* One step.

\* The requests of the other sessions.
Others(s) ==
  \A t \in Sessions \ {s} : pc'[t] = pc[t] /\ request'[t] = request[t] /\ loaded'[t] = loaded[t]

\* The other sessions stay as they are.
LEMMA EndOthers ==
  ASSUME EditsTypeOK, NEW s \in Sessions, End(s)
  PROVE  /\ Others(s)
         /\ pc'[s] = "idle" /\ request'[s] = Nothing /\ loaded'[s] = Unborn
BY DEF End, Others, EditsTypeOK

\* Every step keeps the types.
LEMMA TypeStep == EditsTypeOK /\ [EditsNext]_editVars => EditsTypeOK'
<1> SUFFICES ASSUME EditsTypeOK, [EditsNext]_editVars PROVE EditsTypeOK'
  OBVIOUS
<1> USE RequestsAssumption
<1>1. ASSUME NEW s \in Sessions, NEW b \in Bookings, NEW kind, NEW patch, Begin(s, kind, b, patch),
             Stored(b) \/ kind = "create",
             \/ kind = "create" /\ patch \in Proposals
             \/ kind = "update" /\ patch \in Patches
             \/ kind = "delete" /\ patch = Null
      PROVE  EditsTypeOK'
  <2>1. rows[b] \in Row \/ kind = "create" BY <1>1 DEF EditsTypeOK, Stored
  <2>5. [kind |-> kind, booking |-> b, patch |-> patch] \in Request BY <1>1 DEF Request
  <2>2. request'[s] = [kind |-> kind, booking |-> b, patch |-> patch] /\ loaded'[s] = rows[b]
    BY <1>1 DEF Begin, EditsTypeOK
  <2>3. Others(s) BY <1>1 DEF Begin, Step, EditsTypeOK, Others
  <2>4. \A t \in Sessions : (IF pc[t] = "idle" THEN request[t] = Nothing
       ELSE /\ request[t] \in Request
            /\ \/ Kind(t) = "create" /\ request[t].patch \in Proposals
               \/ Kind(t) = "update" /\ request[t].patch \in Patches /\ loaded[t] \in Row
               \/ Kind(t) = "delete" /\ loaded[t] \in Row)'
    <3> TAKE t \in Sessions
    <3>1. CASE t = s
      BY <1>1, <2>1, <2>2, <2>5, <3>1 DEF Begin, Step, EditsTypeOK, Kind, Target
    <3>2. CASE t # s BY <2>3, <3>2 DEF EditsTypeOK, Others, Kind, Target
    <3> QED BY <3>1, <3>2
  <2> QED BY <1>1, <2>4, <2>5 DEF Begin, Step, EditsTypeOK
<1>2. ASSUME NEW s \in Sessions, EnforceFreeze(s) \/ Validate(s) PROVE EditsTypeOK'
  BY <1>2 DEF EnforceFreeze, Validate, Step, EditsTypeOK, Kind, Target
<1>3. ASSUME NEW s \in Sessions, End(s), rows' \in [Bookings -> Row \cup {Unborn, Gone}],
             overtaken' \subseteq Sessions, crossed' \subseteq Bookings,
             UNCHANGED <<freeze, requests>>
      PROVE  EditsTypeOK'
  <2>1. \A t \in Sessions : (IF pc[t] = "idle" THEN request[t] = Nothing
       ELSE /\ request[t] \in Request
            /\ \/ Kind(t) = "create" /\ request[t].patch \in Proposals
               \/ Kind(t) = "update" /\ request[t].patch \in Patches /\ loaded[t] \in Row
               \/ Kind(t) = "delete" /\ loaded[t] \in Row)'
    BY <1>3, EndOthers DEF EditsTypeOK, Others, Kind, Target
  <2> QED BY <1>3, <2>1 DEF End, EditsTypeOK
<1>4. ASSUME NEW s \in Sessions, Refuse(s) PROVE EditsTypeOK'
  BY <1>3, <1>4 DEF Refuse, EditsTypeOK
<1>5. ASSUME NEW s \in Sessions, NEW row \in Row \cup {Unborn, Gone}, pc[s] = "save", Commit(s, row)
      PROVE  EditsTypeOK'
  <2>1. Target(s) \in Bookings BY <1>5 DEF EditsTypeOK, Target, Request
  <2> QED BY <1>3, <1>5, <2>1 DEF Commit, EditsTypeOK
<1>6. ASSUME NEW s \in Sessions, Create(s) \/ Update(s) \/ Delete(s) PROVE EditsTypeOK'
  <2>1. CASE Create(s)
    <3>1. Wanted(s) \in Row BY <2>1, WantedIsRow DEF Create, Saves
    <3> QED BY <1>5, <2>1, <3>1 DEF Create, Saves
  <2>2. CASE Update(s)
    <3>1. Wanted(s) \in Row BY <2>2, WantedIsRow DEF Update, Saves
    <3>2. rows[Target(s)] \in Row BY <2>2 DEF Update, Saves, Stored, EditsTypeOK, Target, Request
    <3>3. Changed(s) \in Row BY <3>1, <3>2, ChangedIsRow
    <3> QED BY <1>5, <2>2, <3>3 DEF Update, Saves
  <2>3. CASE Delete(s) BY <1>5, <2>3 DEF Delete, Saves
  <2> QED BY <1>6, <2>1, <2>2, <2>3
<1>7. ASSUME NEW day \in Days \cup {Null}, SetFreeze(day) PROVE EditsTypeOK'
  BY <1>7 DEF SetFreeze, EditsTypeOK, Kind, Target
<1>8. CASE UNCHANGED editVars BY <1>8 DEF editVars, EditsTypeOK, Kind, Target
<1> QED BY <1>1, <1>2, <1>4, <1>6, <1>7, <1>8
        DEF EditsNext, Handle, AskCreate, AskUpdate, AskDelete

-----------------------------------------------------------------------------
\* The two events a request is judged by: a new row, and no other.

\* A request that is not overtaken writes what it has looked at.
LEMMA CommitIsSensible ==
  ASSUME IInv, NEW s \in Sessions, Create(s) \/ Update(s), s \notin overtaken,
         Target(s) \notin crossed
  PROVE  rows'[Target(s)] = Wanted(s) /\ Sensible(Wanted(s))
<1> USE DEF IInv
<1>0. pc[s] = "save" /\ Target(s) \in Bookings BY DEF Create, Update, Saves, EditsTypeOK, Target, Request
<1>1. CASE Create(s)
  <2>1. rows'[Target(s)] = Wanted(s) BY <1>0, <1>1 DEF Create, Commit, EditsTypeOK
  <2>2. Sensible(Wanted(s)) BY <1>1 DEF Create, Saves, CheckedInv, Sensible
  <2> QED BY <2>1, <2>2
<1>2. CASE Update(s)
  <2>1. Kind(s) = "update" /\ loaded[s] = rows[Target(s)]
    BY <1>0, <1>2 DEF Update, Saves, FreshInv
  <2>2. Wanted(s) \in Row BY <1>0, <2>1, WantedIsRow
  <2>3. rows'[Target(s)] = Wanted(s)
    BY <1>0, <1>2, <2>1, <2>2, ChangedIsWanted DEF Update, Commit, EditsTypeOK
  <2>4. ResourceExists(Wanted(s))
    <3>1. CASE request[s].patch.resource_id = Null /\ request[s].patch.resource_type = Null
      <4>1. ResourceExists(loaded[s])
        BY <1>0, <1>2, <2>1 DEF Update, UncrossedEditsMakeSense, Sensible
      <4>2. request[s].patch \in Patches /\ loaded[s] \in Row
        BY <1>0, <2>1 DEF EditsTypeOK
      <4> QED BY <2>1, <3>1, <4>1, <4>2, UnnamedStays DEF Wanted
    <3>2. CASE ~(request[s].patch.resource_id = Null /\ request[s].patch.resource_type = Null)
      BY <1>0, <2>1, <3>2 DEF CheckedInv
    <3> QED BY <3>1, <3>2
  <2> QED BY <1>0, <2>1, <2>3, <2>4 DEF CheckedInv, Sensible
<1> QED BY <1>1, <1>2

\* Every step keeps the bookings sensible whose edits do not cross.
LEMMA SensibleStep == IInv /\ [EditsNext]_editVars => UncrossedEditsMakeSense'
<1> SUFFICES ASSUME IInv, [EditsNext]_editVars,
                    NEW b \in Bookings, Stored(b)', b \notin crossed'
             PROVE  Sensible(rows'[b])
  BY DEF UncrossedEditsMakeSense, Sensible, ValidShape, ResourceExists
<1>1. CASE rows'[b] = rows[b] /\ b \notin crossed
  BY <1>1 DEF IInv, UncrossedEditsMakeSense, Stored
<1>2. ASSUME NEW s \in Sessions, Create(s) \/ Update(s) \/ Delete(s) PROVE Sensible(rows'[b])
  <2>0. Target(s) \in Bookings BY <1>2 DEF Create, Update, Delete, Saves, IInv, EditsTypeOK,
     Target, Request
  <2>1. b \notin crossed /\ (b = Target(s) => s \notin overtaken)
    BY <1>2 DEF Create, Update, Delete, Commit
  <2>2. CASE b # Target(s)
    BY <1>1, <1>2, <2>0, <2>1, <2>2 DEF Create, Update, Delete, Commit, IInv, EditsTypeOK
  <2>3. CASE b = Target(s) /\ Delete(s)
    <3>1. rows'[b] = Gone BY <2>0, <2>3 DEF Delete, Commit, IInv, EditsTypeOK
    <3> QED BY <3>1 DEF Stored
  <2>4. CASE b = Target(s) /\ ~Delete(s)
    BY <1>2, <2>1, <2>4, CommitIsSensible
  <2> QED BY <2>2, <2>3, <2>4
<1>3. CASE ~ \E s \in Sessions : Create(s) \/ Update(s) \/ Delete(s)
  BY <1>1, <1>3 DEF EditsNext, Handle, AskCreate, AskUpdate, AskDelete, Begin, EnforceFreeze,
     Validate, Refuse, SetFreeze, editVars
<1> QED BY <1>2, <1>3

\* What was read stays what the row is, until another request overtakes.
LEMMA FreshStep == EditsTypeOK /\ FreshInv /\ [EditsNext]_editVars => FreshInv'
<1> SUFFICES ASSUME EditsTypeOK, FreshInv, [EditsNext]_editVars,
                    NEW t \in Sessions, pc'[t] # "idle", Kind(t)' \in {"update", "delete"},
                    t \notin overtaken'
             PROVE  loaded'[t] = rows'[Target(t)']
  BY DEF FreshInv, Kind, Target
<1>1. ASSUME NEW s \in Sessions, NEW b \in Bookings, NEW kind, NEW patch, Begin(s, kind, b, patch)
      PROVE  loaded'[t] = rows'[Target(t)']
  <2>1. CASE t = s BY <1>1, <2>1 DEF Begin, Target, EditsTypeOK
  <2>2. CASE t # s
    BY <1>1, <2>2 DEF Begin, Step, FreshInv, Kind, Target, EditsTypeOK
  <2> QED BY <2>1, <2>2
<1>2. ASSUME NEW s \in Sessions, EnforceFreeze(s) \/ Validate(s) PROVE loaded'[t] = rows'[Target(t)']
  BY <1>2 DEF EnforceFreeze, Validate, Step, FreshInv, Kind, Target, EditsTypeOK
<1>3. ASSUME NEW s \in Sessions, End(s) PROVE t # s /\ pc[t] # "idle" /\ request'[t] = request[t]
                                              /\ loaded'[t] = loaded[t]
  BY <1>3, EndOthers DEF Others
<1>4. ASSUME NEW s \in Sessions, Refuse(s) PROVE loaded'[t] = rows'[Target(t)']
  BY <1>3, <1>4 DEF Refuse, FreshInv, Kind, Target
<1>5. ASSUME NEW s \in Sessions, NEW row, Commit(s, row) PROVE loaded'[t] = rows'[Target(t)']
  <2>1. Target(t) # Target(s) /\ t \notin overtaken BY <1>3, <1>5 DEF Commit
  <2>2. Target(t) \in Bookings BY <1>3, <1>5 DEF Commit, EditsTypeOK, Target, Request
  <2>3. rows'[Target(t)] = rows[Target(t)] BY <1>5, <2>1, <2>2 DEF Commit, EditsTypeOK
  <2> QED BY <1>3, <1>5, <2>1, <2>3 DEF Commit, FreshInv, Kind, Target
<1>6. ASSUME NEW day, SetFreeze(day) PROVE loaded'[t] = rows'[Target(t)']
  BY <1>6 DEF SetFreeze, FreshInv, Kind, Target
<1>7. CASE UNCHANGED editVars BY <1>7 DEF editVars, FreshInv, Kind, Target
<1> QED BY <1>1, <1>2, <1>4, <1>5, <1>6, <1>7
        DEF EditsNext, Handle, AskCreate, AskUpdate, AskDelete, Create, Update, Delete

\* What a request wants does not change on its way.
LEMMA CheckedStep == EditsTypeOK /\ CheckedInv /\ [EditsNext]_editVars => CheckedInv'
<1> DEFINE Good(s) ==
      pc[s] = "save" /\ Kind(s) # "delete" =>
        /\ ValidShape(Wanted(s))
        /\ Kind(s) = "create" \/ request[s].patch.resource_id # Null
             \/ request[s].patch.resource_type # Null => ResourceExists(Wanted(s))
<1> SUFFICES ASSUME EditsTypeOK, CheckedInv, [EditsNext]_editVars, NEW t \in Sessions
             PROVE  Good(t)'
  BY DEF CheckedInv
<1>0. Good(t) BY DEF CheckedInv
<1>1. CASE pc'[t] # "save" BY <1>1
<1>2. CASE pc'[t] = pc[t] /\ request'[t] = request[t] /\ loaded'[t] = loaded[t]
  BY <1>0, <1>2 DEF Kind, Wanted, ValidShape, ResourceExists
<1>3. ASSUME NEW s \in Sessions, NEW b, NEW kind, NEW patch, Begin(s, kind, b, patch) PROVE Good(t)'
  BY <1>1, <1>2, <1>3 DEF Begin, Step, EditsTypeOK
<1>4. ASSUME NEW s \in Sessions, EnforceFreeze(s) PROVE Good(t)'
  BY <1>2, <1>4 DEF EnforceFreeze, Step, EditsTypeOK, Kind
<1>5. ASSUME NEW s \in Sessions, Validate(s) PROVE Good(t)'
  <2>1. CASE t = s
    BY <1>5, <2>1 DEF Validate, Kind, Wanted, ValidShape, ResourceExists
  <2>2. CASE t # s BY <1>2, <1>5, <2>2 DEF Validate, Step, EditsTypeOK
  <2> QED BY <2>1, <2>2
<1>6. ASSUME NEW s \in Sessions, End(s) PROVE Good(t)'
  BY <1>1, <1>2, <1>6, EndOthers DEF Others
<1>7. CASE UNCHANGED <<pc, request, loaded>> BY <1>2, <1>7
<1> QED BY <1>3, <1>4, <1>5, <1>6, <1>7
        DEF EditsNext, Handle, AskCreate, AskUpdate, AskDelete, Create, Update, Delete, Commit,
        Refuse, SetFreeze, editVars

\* The freeze touches no day of an open request, unless it was moved since.
LEMMA OpenStep == EditsTypeOK /\ OpenInv /\ [EditsNext]_editVars => OpenInv'
<1> DEFINE Open(s) ==
      pc[s] \in {"validate", "save"} /\ s \notin Admins \cup moved =>
        \A day \in TouchedDays(s) : ~touches_frozen_period(day)
<1> SUFFICES ASSUME EditsTypeOK, OpenInv, [EditsNext]_editVars, NEW t \in Sessions
             PROVE  Open(t)'
  BY DEF OpenInv
<1>0. Open(t) BY DEF OpenInv
<1>1. CASE pc'[t] \notin {"validate", "save"} BY <1>1
<1>2. CASE /\ pc[t] \in {"validate", "save"} /\ request'[t] = request[t]
           /\ loaded'[t] = loaded[t] /\ freeze' = freeze /\ (t \in moved => t \in moved')
  BY <1>0, <1>2 DEF Kind, TouchedDays, touches_frozen_period
<1>3. ASSUME NEW s \in Sessions, NEW b, NEW kind, NEW patch, Begin(s, kind, b, patch) PROVE Open(t)'
  BY <1>1, <1>2, <1>3 DEF Begin, Step, EditsTypeOK
<1>4. ASSUME NEW s \in Sessions, EnforceFreeze(s) PROVE Open(t)'
  <2>1. CASE t = s
    BY <1>4, <2>1 DEF EnforceFreeze, TouchedDays, touches_frozen_period, Kind
  <2>2. CASE t # s BY <1>1, <1>2, <1>4, <2>2 DEF EnforceFreeze, Step, EditsTypeOK
  <2> QED BY <2>1, <2>2
<1>5. ASSUME NEW s \in Sessions, Validate(s) PROVE Open(t)'
  BY <1>1, <1>2, <1>5 DEF Validate, Step, EditsTypeOK
<1>6. ASSUME NEW s \in Sessions, End(s), freeze' = freeze PROVE Open(t)'
  BY <1>1, <1>2, <1>6, EndOthers DEF Others, End
<1>7. ASSUME NEW day, SetFreeze(day) PROVE Open(t)'
  BY <1>1, <1>7 DEF SetFreeze
<1>8. CASE UNCHANGED editVars BY <1>1, <1>2, <1>8 DEF editVars
<1> QED BY <1>3, <1>4, <1>5, <1>6, <1>7, <1>8
        DEF EditsNext, Handle, AskCreate, AskUpdate, AskDelete, Create, Update, Delete, Commit,
        Refuse

\* Everything at once.
LEMMA InductiveInvariant == EditsSpec => []IInv
<1>1. EditsInit => IInv
  BY RequestsAssumption DEF EditsInit, IInv, EditsTypeOK, FreshInv, CheckedInv, OpenInv,
     UncrossedEditsMakeSense, Stored
<1>2. IInv /\ [EditsNext]_editVars => IInv'
  BY TypeStep, FreshStep, CheckedStep, OpenStep, SensibleStep DEF IInv
<1> QED BY <1>1, <1>2, PTL DEF EditsSpec

-----------------------------------------------------------------------------
\* Partial updates that are not overtaken keep every booking in the shape of its type,
\* its dates in order and its resource there: for any rows, patches and sessions.
THEOREM EditsMakeSense == EditsSpec => []UncrossedEditsMakeSense
BY InductiveInvariant, PTL DEF IInv

\* A booking that is or gets frozen is written only by those whom the property exempts.
LEMMA FrozenStep ==
  ASSUME IInv, EditsNext, NEW b \in Bookings, rows'[b] # rows[b],
         Frozen(rows[b]) \/ Frozen(rows'[b])
  PROVE  WrittenByExempt(b)
<1> USE DEF IInv
<1>1. PICK s \in Sessions : Create(s) \/ Update(s) \/ Delete(s)
  BY DEF EditsNext, Handle, AskCreate, AskUpdate, AskDelete, Begin, EnforceFreeze, Validate,
     Refuse, SetFreeze
<1>2. pc[s] = "save" /\ pc'[s] = "idle" /\ Target(s) = b
  <2>1. pc[s] = "save" /\ End(s) BY <1>1 DEF Create, Update, Delete, Saves, Commit
  <2>2. Target(s) = b BY <1>1 DEF Create, Update, Delete, Commit, EditsTypeOK
  <2> QED BY <2>1, <2>2, EndOthers
<1> SUFFICES ASSUME s \notin Admins \cup moved \cup overtaken, b \notin crossed PROVE FALSE
  BY <1>2 DEF WrittenByExempt
<1>3. \A day \in TouchedDays(s) : ~touches_frozen_period(day) BY <1>2 DEF OpenInv
<1>4. CASE Create(s)
  <2>1. Kind(s) = "create" /\ ~Frozen(rows[b])
    BY <1>2, <1>4 DEF Create, Saves, Frozen
  <2>2. rows'[b] = Wanted(s) /\ Sensible(Wanted(s)) /\ Wanted(s) = request[s].patch
    BY <1>2, <1>4, <2>1, CommitIsSensible DEF Wanted
  <2>3. FirstDay(Wanted(s)) = RequestedDay(request[s].patch, Null)
    BY <2>2 DEF Sensible, ValidShape, FirstDay, RequestedDay
  <2> QED BY <1>3, <2>1, <2>2, <2>3 DEF TouchedDays, Frozen
<1>5. CASE Update(s) \/ Delete(s)
  <2>1. Kind(s) \in {"update", "delete"} /\ loaded[s] = rows[b]
    BY <1>2, <1>5 DEF Update, Delete, Saves, FreshInv
  <2>2. ~Frozen(rows[b]) BY <1>3, <2>1 DEF TouchedDays, Frozen
  <2>3. CASE Delete(s)
    <3>1. rows'[b] = Gone BY <1>2, <2>3 DEF Delete, Commit, EditsTypeOK
    <3> QED BY <2>2, <3>1 DEF Frozen
  <2>4. CASE Update(s)
    <3>1. Kind(s) = "update" BY <2>4 DEF Update, Saves
    <3>2. rows'[b] = Wanted(s) /\ Sensible(Wanted(s))
      BY <1>2, <2>4, CommitIsSensible
    <3>3. /\ request[s].patch \in Patches /\ loaded[s] \in Row
          /\ Wanted(s) = Effective(loaded[s], request[s].patch)
      BY <1>2, <3>1 DEF EditsTypeOK, Wanted
    <3>4. ValidShape(loaded[s])
      BY <1>2, <2>1, <2>4 DEF Update, UncrossedEditsMakeSense, Sensible
    <3>5. FirstDay(Wanted(s)) = RequestedDay(request[s].patch, FirstDay(loaded[s]))
      BY <3>2, <3>3, <3>4, RequestedDayIsFirstDay DEF Sensible
    <3> QED BY <1>3, <2>2, <3>1, <3>2, <3>5 DEF TouchedDays, Frozen
  <2> QED BY <1>5, <2>3, <2>4
<1> QED BY <1>1, <1>4, <1>5

\* Whatever is asked in whatever order, the frozen part of the plan is changed only by
\* administrators and by requests that were overtaken.
THEOREM FrozenStand == EditsSpec => FrozenBookingsStand
<1>1. ASSUME IInv, [EditsNext]_editVars
      PROVE  [\A b \in Bookings : rows'[b] # rows[b] /\ (Frozen(rows[b]) \/ Frozen(rows'[b]))
                => WrittenByExempt(b)]_editVars
  <2>1. CASE EditsNext BY <1>1, <2>1, FrozenStep
  <2>2. CASE UNCHANGED editVars BY <2>2
  <2> QED BY <1>1, <2>1, <2>2
<1> QED BY <1>1, InductiveInvariant, PTL DEF EditsSpec, FrozenBookingsStand

\* Beside the calculations the edits are what they are alone.
LEMMA RulesAreEdits == RulesSpec => EditsSpec
<1>1. RulesInit => EditsInit
  BY DEF RulesInit, Still
<1>2. [RulesNext]_ruleVars => [EditsNext]_editVars
  BY DEF RulesNext, Pick, ruleVars
<1> QED  BY <1>1, <1>2, PTL DEF RulesSpec, EditsSpec

\* What the run of edits and calculations checks of the edits, for any of them.
THEOREM EditsAmongRules == RulesSpec => []UncrossedEditsMakeSense /\ FrozenBookingsStand
BY RulesAreEdits, EditsMakeSense, FrozenStand, PTL

-----------------------------------------------------------------------------
(* The sweep over the bounds of bookings.                                     *)

\* Some bookings, none of them ending before it begins.
BookingsAreSpans(bookings) ==
  /\ IsFiniteSet(Ids(bookings)) /\ Ids(bookings) # {}
  /\ \A i \in Ids(bookings) : bookings[i].start \in Int /\ bookings[i].end \in Int
                              /\ bookings[i].start <= bookings[i].end

\* The bounds of bookings are finitely many days.
LEMMA BoundsAreFinite ==
  ASSUME NEW bookings, BookingsAreSpans(bookings)
  PROVE  /\ Starts(bookings) \in SUBSET Int /\ IsFiniteSet(Starts(bookings)) /\ Starts(bookings) # {}
         /\ Ends(bookings) \in SUBSET Int /\ IsFiniteSet(Ends(bookings)) /\ Ends(bookings) # {}
         /\ Boundaries(bookings) \in SUBSET Int /\ IsFiniteSet(Boundaries(bookings))
<1> DEFINE I == Ids(bookings)
           f == [i \in I |-> bookings[i].start]
           g == [i \in I |-> bookings[i].end]
           h == [e \in Ends(bookings) |-> e + 1]
<1>1. IsFiniteSet({f[i] : i \in I}) /\ IsFiniteSet({g[i] : i \in I})
  <2> HIDE DEF f, g, I
  <2>1. IsFiniteSet(I)
    BY DEF BookingsAreSpans, I
  <2> QED  BY <2>1, ImageFinite
<1>2. {f[i] : i \in I} = Starts(bookings) /\ {g[i] : i \in I} = Ends(bookings)
  BY DEF Starts, Ends
<1>3. IsFiniteSet({h[e] : e \in Ends(bookings)})
  <2> HIDE DEF h
  <2> QED  BY <1>1, <1>2, ImageFinite
<1>4. Boundaries(bookings) = Starts(bookings) \cup {h[e] : e \in Ends(bookings)}
  BY DEF Boundaries
<1>5. IsFiniteSet(Boundaries(bookings))
  <2> DEFINE H == {h[e] : e \in Ends(bookings)}
  <2>1. Boundaries(bookings) = Starts(bookings) \cup H /\ IsFiniteSet(H)
    BY <1>3, <1>4
  <2>2. IsFiniteSet(Starts(bookings))
    BY <1>1, <1>2
  <2> HIDE DEF H
  <2> QED  BY <2>1, <2>2, FS_Union
<1>6. /\ Starts(bookings) \in SUBSET Int /\ Starts(bookings) # {}
      /\ Ends(bookings) \in SUBSET Int /\ Ends(bookings) # {}
  BY DEF BookingsAreSpans, Starts, Ends
<1>7. Boundaries(bookings) \in SUBSET Int
  BY <1>6 DEF Boundaries
<1>8. IsFiniteSet(Starts(bookings)) /\ IsFiniteSet(Ends(bookings))
  BY <1>1, <1>2
<1> QED  BY <1>5, <1>6, <1>7, <1>8

\* The next of a finite set of days.
LEMMA FollowingIs ==
  ASSUME NEW S \in SUBSET Int, IsFiniteSet(S), NEW x \in Int, NEW z \in S, z > x
  PROVE  /\ Following(x, S) \in S /\ Following(x, S) > x
         /\ \A y \in S : y > x => Following(x, S) <= y
<1> DEFINE L == {y \in S : y > x}
<1>1. L \in SUBSET Int /\ L # {} /\ IsFiniteSet(L)
  BY FS_Subset
<1>2. Following(x, S) = Min(L)
  BY DEF Following
<1>3. Min(L) \in L /\ \A y \in L : Min(L) <= y
  <2> HIDE DEF L
  <2> QED  BY <1>1, Extremes
<1> QED  BY <1>2, <1>3

\* Inside a span no booking begins or ends.
LEMMA SpanHasOneCrowd ==
  ASSUME NEW bookings, BookingsAreSpans(bookings),
         NEW b \in Boundaries(bookings), b # Max(Boundaries(bookings)),
         NEW d \in b..(Following(b, Boundaries(bookings)) - 1)
  PROVE  /\ Covering(bookings, b, Following(b, Boundaries(bookings)) - 1) = Covering(bookings, d, d)
         /\ d \in Span(bookings)
<1> DEFINE B == Boundaries(bookings)  next == Following(b, B)
<1>1. B \in SUBSET Int /\ IsFiniteSet(B) /\ B # {}
  BY BoundsAreFinite
<1>2. Max(B) \in B /\ (\A y \in B : y <= Max(B)) /\ Max(B) > b
  <2>1. Max(B) \in B /\ \A y \in B : y <= Max(B)
    <3> HIDE DEF B
    <3> QED  BY <1>1, Extremes
  <2> QED  BY <1>1, <2>1
<1>3. next \in B /\ next > b /\ (\A y \in B : y > b => next <= y)
  <2> HIDE DEF B
  <2>1. b \in Int /\ b \in B
    BY <1>1 DEF B
  <2> QED  BY <1>1, <1>2, <2>1, FollowingIs
<1>4. b \in Int /\ next \in Int /\ d \in Int /\ b <= d /\ d <= next - 1
  BY <1>1, <1>3
<1>5. ASSUME NEW i \in Ids(bookings), bookings[i].start <= d, d <= bookings[i].end
      PROVE  bookings[i].start <= b /\ next - 1 <= bookings[i].end
  <2>1. bookings[i].start \in B /\ bookings[i].end + 1 \in B
    BY DEF Boundaries, Starts, Ends
  <2>2. bookings[i].start \in Int /\ bookings[i].end \in Int
    BY DEF BookingsAreSpans
  <2> HIDE DEF next, B
  <2>3. ~(bookings[i].start > b)
    BY <1>3, <1>4, <1>5, <2>1, <2>2
  <2>4. bookings[i].end + 1 > b
    BY <1>4, <1>5, <2>2
  <2> QED  BY <1>3, <1>4, <2>1, <2>2, <2>3, <2>4
<1>6. Covering(bookings, b, next - 1) = Covering(bookings, d, d)
  <2>1. \A i \in Ids(bookings) : bookings[i].start \in Int /\ bookings[i].end \in Int
    BY DEF BookingsAreSpans
  <2> HIDE DEF next, B
  <2> QED  BY <1>4, <1>5, <2>1 DEF Covering
<1>7. d \in Span(bookings)
  <2>1. /\ Min(Starts(bookings)) \in Int /\ \A y \in Starts(bookings) : Min(Starts(bookings)) <= y
        /\ Max(Ends(bookings)) \in Int /\ \A y \in Ends(bookings) : y <= Max(Ends(bookings))
    BY BoundsAreFinite, Extremes
  <2>2. \A y \in B : Min(Starts(bookings)) <= y /\ y <= Max(Ends(bookings)) + 1
    <3>1. ASSUME NEW i \in Ids(bookings)
          PROVE  /\ Min(Starts(bookings)) <= bookings[i].start
                 /\ bookings[i].start <= bookings[i].end
                 /\ bookings[i].end <= Max(Ends(bookings))
                 /\ bookings[i].start \in Int /\ bookings[i].end \in Int
      BY <2>1 DEF BookingsAreSpans, Starts, Ends
    <3>2. ASSUME NEW i \in Ids(bookings)
          PROVE  /\ Min(Starts(bookings)) <= bookings[i].start
                 /\ bookings[i].start <= Max(Ends(bookings)) + 1
                 /\ Min(Starts(bookings)) <= bookings[i].end + 1
                 /\ bookings[i].end + 1 <= Max(Ends(bookings)) + 1
      <4>1. /\ Min(Starts(bookings)) <= bookings[i].start
            /\ bookings[i].start <= bookings[i].end
            /\ bookings[i].end <= Max(Ends(bookings))
            /\ bookings[i].start \in Int /\ bookings[i].end \in Int
        BY <3>1
      <4> QED  BY <2>1, <4>1
    <3> QED  BY <3>2 DEF Boundaries, Starts, Ends
  <2> HIDE DEF next, B
  <2>3. b \in B
    BY DEF B
  <2> QED  BY <1>3, <1>4, <2>1, <2>2, <2>3 DEF Span
<1> QED  BY <1>6, <1>7

\* Every day of the bookings lies in a span.
LEMMA DaysLieInSpans ==
  ASSUME NEW bookings, BookingsAreSpans(bookings), NEW d \in Span(bookings)
  PROVE  \E b \in Boundaries(bookings) \ {Max(Boundaries(bookings))} :
            d \in b..(Following(b, Boundaries(bookings)) - 1)
<1> DEFINE B == Boundaries(bookings)  L == {y \in B : y <= d}
<1>1. B \in SUBSET Int /\ IsFiniteSet(B)
  BY BoundsAreFinite
<1>2. /\ Min(Starts(bookings)) \in Starts(bookings) /\ Min(Starts(bookings)) \in Int
      /\ Max(Ends(bookings)) \in Ends(bookings) /\ Max(Ends(bookings)) \in Int
  BY BoundsAreFinite, Extremes
<1>3. d \in Int /\ Min(Starts(bookings)) <= d /\ d <= Max(Ends(bookings))
  BY <1>2 DEF Span
<1>4. Min(Starts(bookings)) \in L /\ Max(Ends(bookings)) + 1 \in B
  BY <1>2, <1>3 DEF Boundaries
<1>5. L \in SUBSET Int /\ IsFiniteSet(L) /\ L # {}
  <2> HIDE DEF B
  <2> QED  BY <1>1, <1>4, FS_Subset
<1> DEFINE b == Max(L)
<1>6. b \in L /\ \A y \in L : y <= b
  <2> HIDE DEF L
  <2> QED  BY <1>5, Extremes
<1> HIDE DEF b
<1>7. b \in B /\ b <= d /\ b \in Int
  BY <1>1, <1>6
<1>8. Max(B) \in B /\ \A y \in B : y <= Max(B)
  <2> HIDE DEF B
  <2> QED  BY <1>1, <1>7, Extremes
<1>m. Max(B) \in Int
  <2> HIDE DEF B
  <2> QED  BY <1>1, <1>8
<1>9. Max(B) > d
  <2> HIDE DEF B
  <2>1. Max(Ends(bookings)) + 1 <= Max(B)
    BY <1>4, <1>8
  <2> QED  BY <1>m, <1>2, <1>3, <2>1
<1>10. b # Max(B)
  <2> HIDE DEF B
  <2> QED  BY <1>1, <1>3, <1>7, <1>8, <1>9
<1>11. Following(b, B) \in B /\ Following(b, B) > b
  <2> HIDE DEF B
  <2>1. Max(B) \in Int /\ Max(B) > b
    BY <1>m, <1>3, <1>7, <1>9
  <2> QED  BY <1>1, <1>7, <1>8, <2>1, FollowingIs
<1>n. Following(b, B) \in Int
  <2> HIDE DEF B
  <2> QED  BY <1>1, <1>11
<1>12. Following(b, B) > d
  <2>1. ASSUME Following(b, B) <= d PROVE FALSE
    <3>1. Following(b, B) \in L
      BY <1>11, <2>1
    <3>2. Following(b, B) <= b
      BY <1>6, <3>1
    <3> HIDE DEF B
    <3> QED  BY <1>n, <1>7, <1>11, <3>2
  <2> HIDE DEF B
  <2> QED  BY <1>n, <1>3, <2>1
<1>13. d \in b..(Following(b, B) - 1)
  <2> HIDE DEF B
  <2> QED  BY <1>n, <1>3, <1>7, <1>12
<1> QED  BY <1>7, <1>10, <1>13

\* What the sweep says of a day.
FoundOn(cal, bookings, d) ==
  [date |-> d, ids |-> Covering(bookings, d, d), available |-> available_minutes(cal, d),
   assigned |-> demand_minutes(cal, d, Percent(bookings, Covering(bookings, d, d)))]
OverbookedDays(cal, bookings) == {d \in Span(bookings) : OverbookedOn(cal, bookings, d)}

\* It says it of the overbooked days and of no others.
LEMMA FoundDays ==
  ASSUME NEW cal, NEW bookings, BookingsAreSpans(bookings)
  PROVE  ConflictDays(cal, bookings) = {FoundOn(cal, bookings, d) : d \in OverbookedDays(cal, bookings)}
<1> DEFINE B == Boundaries(bookings)
           spans == B \ {Max(B)}
           Found(b, d, ids) ==
             [date |-> d, ids |-> ids, available |-> available_minutes(cal, d),
              assigned |-> demand_minutes(cal, d, Percent(bookings, ids))]
           Who(d) == Covering(bookings, d, d)
<1>1. \A b \in spans : SpanDays(cal, bookings, b) =
         {day \in {Found(b, d, Covering(bookings, b, Following(b, B) - 1)) : d \in b..(Following(b, B) - 1)} :
             day.assigned > day.available}
  BY DEF SpanDays
<1>2. ASSUME NEW b \in spans, NEW day \in SpanDays(cal, bookings, b)
      PROVE  \E d \in OverbookedDays(cal, bookings) : day = FoundOn(cal, bookings, d)
  <2>1. PICK d \in b..(Following(b, B) - 1) :
           day = Found(b, d, Covering(bookings, b, Following(b, B) - 1)) /\ day.assigned > day.available
    BY <1>1, <1>2
  <2>2. Covering(bookings, b, Following(b, B) - 1) = Who(d) /\ d \in Span(bookings)
    BY SpanHasOneCrowd
  <2>3. day = FoundOn(cal, bookings, d)
    BY <2>1, <2>2 DEF FoundOn
  <2>4. OverbookedOn(cal, bookings, d)
    BY <2>1, <2>2 DEF OverbookedOn, PersonDay
  <2> QED  BY <2>2, <2>3, <2>4 DEF OverbookedDays
<1>3. ASSUME NEW d \in OverbookedDays(cal, bookings)
      PROVE  \E b \in spans : FoundOn(cal, bookings, d) \in SpanDays(cal, bookings, b)
  <2>1. d \in Span(bookings) /\ OverbookedOn(cal, bookings, d)
    BY DEF OverbookedDays
  <2>2. PICK b \in spans : d \in b..(Following(b, B) - 1)
    BY <2>1, DaysLieInSpans
  <2>3. Covering(bookings, b, Following(b, B) - 1) = Who(d)
    BY <2>2, SpanHasOneCrowd
  <2> DEFINE day == Found(b, d, Who(d))
  <2>4. day.assigned > day.available /\ day = FoundOn(cal, bookings, d)
    BY <2>1 DEF OverbookedOn, PersonDay, FoundOn
  <2>5. day \in SpanDays(cal, bookings, b)
    BY <1>1, <2>2, <2>3, <2>4
  <2> QED  BY <2>4, <2>5
<1>4. ConflictDays(cal, bookings) = UNION {SpanDays(cal, bookings, b) : b \in spans}
  BY DEF ConflictDays
<1> HIDE DEF spans
<1> QED  BY <1>2, <1>3, <1>4

(* detect_personal_conflicts sweeps over the bounds of bookings (conflict_    *)
(* service.py:444): for every calendar and all bookings it finds the days on  *)
(* which more is asked for than there is, and who is booked on them.          *)
THEOREM SweepFinds ==
  ASSUME NEW cal, NEW bookings, BookingsAreSpans(bookings)
  PROVE  SweepFindsTheDays(cal, bookings)
<1>1. ConflictDays(cal, bookings) = {FoundOn(cal, bookings, d) : d \in OverbookedDays(cal, bookings)}
  BY FoundDays
<1>2. \A d \in OverbookedDays(cal, bookings) : /\ FoundOn(cal, bookings, d).date = d
                                               /\ FoundOn(cal, bookings, d).ids = Covering(bookings, d, d)
  BY DEF FoundOn
<1> QED  BY <1>1, <1>2 DEF SweepFindsTheDays, OverbookedDays

-----------------------------------------------------------------------------
(* The dashboard.                                                             *)

\* Profiles, exceptional days and absences hold minutes and percentages.
Profile == [0..6 -> Nat]
CalendarTyped(cal) ==
  /\ {"levels", "default", "holidays", "absences"} \subseteq DOMAIN cal
  /\ cal.default \in Profile \cup {NoProfile}
  /\ cal.levels \in Seq(SUBSET [from : Int, until : Int, profile : Profile])
  /\ \A d \in DOMAIN cal.holidays : cal.holidays[d] \in Nat
  /\ IsFiniteSet(cal.absences) /\ \A a \in cal.absences : a.percent \in Nat

\* Rounding keeps a number that is not negative so.
LEMMA RoundIsNat == ASSUME NEW a \in Nat PROVE Round(a, 100) \in Nat
BY DEF Round

\* The percentages of absences add up to a number.
LEMMA AbsencesAddUp ==
  ASSUME NEW A, IsFiniteSet(A), \A a \in A : a.percent \in Nat
  PROVE  MapThenSumSet(LAMBDA a : a.percent, A) \in Nat
<1> DEFINE f == [a \in A |-> a.percent]
           P(iter) == iter = [s \in SUBSET A |-> IF s = {} THEN 0
                         ELSE LET x == CHOOSE x \in s : TRUE IN x.percent + iter[s \ {x}]]
           it == CHOOSE iter : P(iter)
<1>1. \A a \in A : f[a] = a.percent /\ f[a] \in Nat /\ f[a] \in Int
  OBVIOUS
<1> HIDE DEF f
<1>2. ASSUME NEW iter PROVE P(iter) <=> Summed(A, f, iter)
  <2>1. ASSUME NEW s \in SUBSET A, s # {}
        PROVE  (CHOOSE x \in s : TRUE) \in A
    BY <2>1
  <2>2. ASSUME NEW s \in SUBSET A
        PROVE  (IF s = {} THEN 0 ELSE LET x == CHOOSE x \in s : TRUE IN x.percent + iter[s \ {x}])
               = (IF s = {} THEN 0 ELSE LET x == CHOOSE x \in s : TRUE IN f[x] + iter[s \ {x}])
    BY <1>1, <2>1
  <2> QED  BY <2>2 DEF Summed
<1>3. \E iter : P(iter)
  <2>1. PICK iter : Summed(A, f, iter)
    BY <1>1, SumExists
  <2>2. P(iter)
    BY <1>2, <2>1
  <2> HIDE DEF P
  <2> QED  BY <2>2
<1>4. P(it)
  <2> HIDE DEF P
  <2> QED  BY <1>3
<1>5. MapThenSumSet(LAMBDA a : a.percent, A) = it[A]
  BY DEF MapThenSumSet, MapThenFoldSet
<1> HIDE DEF P, it
<1>6. it[A] = Total(A, f)
  BY <1>1, <1>2, <1>4, SumsAgree
<1> QED  BY <1>1, <1>5, <1>6, TotalPositive

\* So do those of bookings.
LEMMA PercentsAddUp ==
  ASSUME NEW bookings, NEW A, IsFiniteSet(A), \A i \in A : bookings[i].percent \in Nat
  PROVE  /\ Percent(bookings, A) \in Nat
         /\ Percent(bookings, A) = Total(A, [i \in A |-> bookings[i].percent])
<1> DEFINE f == [i \in A |-> bookings[i].percent]
           P(iter) == iter = [s \in SUBSET A |-> IF s = {} THEN 0
                         ELSE LET x == CHOOSE x \in s : TRUE IN bookings[x].percent + iter[s \ {x}]]
           it == CHOOSE iter : P(iter)
<1>1. \A i \in A : f[i] = bookings[i].percent /\ f[i] \in Nat /\ f[i] \in Int
  OBVIOUS
<1> HIDE DEF f
<1>2. ASSUME NEW iter PROVE P(iter) <=> Summed(A, f, iter)
  <2>1. ASSUME NEW s \in SUBSET A, s # {}
        PROVE  (CHOOSE x \in s : TRUE) \in A
    BY <2>1
  <2>2. ASSUME NEW s \in SUBSET A
        PROVE  (IF s = {} THEN 0 ELSE LET x == CHOOSE x \in s : TRUE IN bookings[x].percent + iter[s \ {x}])
               = (IF s = {} THEN 0 ELSE LET x == CHOOSE x \in s : TRUE IN f[x] + iter[s \ {x}])
    BY <1>1, <2>1
  <2> QED  BY <2>2 DEF Summed
<1>3. \E iter : P(iter)
  <2>1. PICK iter : Summed(A, f, iter)
    BY <1>1, SumExists
  <2>2. P(iter)
    BY <1>2, <2>1
  <2> HIDE DEF P
  <2> QED  BY <2>2
<1>4. P(it)
  <2> HIDE DEF P
  <2> QED  BY <1>3
<1>5. Percent(bookings, A) = it[A]
  BY DEF Percent, MapThenSumSet, MapThenFoldSet
<1> HIDE DEF P, it
<1>6. it[A] = Total(A, f)
  BY <1>1, <1>2, <1>4, SumsAgree
<1>7. Total(A, f) \in Nat
  BY <1>1, TotalPositive
<1> QED  BY <1>5, <1>6, <1>7 DEF f

\* The minutes of a calendar's day.
LEMMA MinutesAreNat ==
  ASSUME NEW cal, CalendarTyped(cal), NEW d \in Int
  PROVE  calendar_minutes(cal, d) \in Nat
<1>1. CASE d \in DOMAIN cal.holidays
  BY <1>1 DEF CalendarTyped, calendar_minutes
<1>2. CASE d \notin DOMAIN cal.holidays
  <2>1. profile_for(cal, d) \in Profile \cup {NoProfile}
    <3> DEFINE saying == {i \in DOMAIN cal.levels : \E b \in cal.levels[i] : Covers(b, d)}
    <3>1. saying \in SUBSET Int /\ IsFiniteSet(saying)
      <4>1. DOMAIN cal.levels = 1..Len(cal.levels) /\ Len(cal.levels) \in Nat
        BY DEF CalendarTyped
      <4>2. IsFiniteSet(1..Len(cal.levels))
        BY <4>1, FS_Interval
      <4> QED  BY <4>1, <4>2, FS_Subset
    <3>2. ASSUME saying # {}
          PROVE  \E b \in cal.levels[Min(saying)] : Covers(b, d)
      <4>1. Min(saying) \in saying
        <5> HIDE DEF saying
        <5> QED  BY <3>1, <3>2, Extremes
      <4> QED  BY <4>1
    <3>3. ASSUME saying # {}
          PROVE  Min(saying) \in DOMAIN cal.levels
      <4>1. Min(saying) \in saying
        <5> HIDE DEF saying
        <5> QED  BY <3>1, <3>3, Extremes
      <4> QED  BY <4>1
    <3>4. profile_for(cal, d) =
            IF saying = {} THEN cal.default
            ELSE (CHOOSE b \in cal.levels[Min(saying)] : Covers(b, d)).profile
      BY DEF profile_for
    <3> HIDE DEF saying
    <3>5. CASE saying = {}
      BY <3>4, <3>5 DEF CalendarTyped
    <3>6. CASE saying # {}
      <4> DEFINE b == CHOOSE b \in cal.levels[Min(saying)] : Covers(b, d)
      <4>1. b \in cal.levels[Min(saying)]
        BY <3>2, <3>6
      <4>2. cal.levels[Min(saying)] \in SUBSET [from : Int, until : Int, profile : Profile]
        BY <3>3, <3>6 DEF CalendarTyped
      <4> HIDE DEF b
      <4>3. b.profile \in Profile
        BY <4>1, <4>2
      <4> QED  BY <3>4, <3>6, <4>3 DEF b
    <3> QED  BY <3>5, <3>6
  <2>2. Weekday(d) \in 0..6
    BY DEF Weekday
  <2> QED  BY <1>2, <2>1, <2>2 DEF calendar_minutes, Profile
<1> QED  BY <1>1, <1>2

\* What is left of a day and what is asked of it.
LEMMA DaysAreTyped ==
  ASSUME NEW cal, CalendarTyped(cal), NEW d \in Int, NEW bookings, BookingsAreSpans(bookings),
         \A i \in Ids(bookings) : bookings[i].percent \in Nat
  PROVE  PersonDay(cal, bookings, d).available \in Nat /\ PersonDay(cal, bookings, d).assigned \in Nat
<1>1. available_minutes(cal, d) \in Nat
  <2> DEFINE away == {a \in cal.absences : a.start <= d /\ d <= a.end}
             p == MapThenSumSet(LAMBDA a : a.percent, away)
             m == calendar_minutes(cal, d)
             q == absence_percent(cal, d)
  <2>1. p \in Nat
    <3>1. IsFiniteSet(away) /\ \A a \in away : a.percent \in Nat
      BY FS_Subset DEF CalendarTyped
    <3> HIDE DEF away
    <3> QED  BY <3>1, AbsencesAddUp
  <2>2. q = Min({100, p})
    BY DEF absence_percent
  <2>3. m \in Nat
    BY MinutesAreNat
  <2> HIDE DEF p, m, q
  <2>4. Min({100, p}) \in {100, p} /\ \A y \in {100, p} : Min({100, p}) <= y
    <3>3. IsFiniteSet({100} \cup {p})
      <4>1. IsFiniteSet({100})
        BY FS_Singleton
      <4> QED  BY <4>1, FS_AddElement
    <3>1. IsFiniteSet({100, p})
      <4>1. {100} \cup {p} = {100, p}
        OBVIOUS
      <4> QED  BY <3>3, <4>1
    <3>2. {100, p} \in SUBSET Int /\ {100, p} # {}
      BY <2>1
    <3> QED  BY <3>1, <3>2, Extremes
  <2>5. 100 - q \in Nat
    BY <2>1, <2>2, <2>4
  <2>6. m * (100 - q) \in Nat
    BY <2>3, <2>5
  <2> QED  BY <2>6, RoundIsNat DEF available_minutes, m, q
<1>2. demand_minutes(cal, d, Percent(bookings, Covering(bookings, d, d))) \in Nat
  <2> DEFINE p == Percent(bookings, Covering(bookings, d, d))
  <2>1. p \in Nat
    <3>1. IsFiniteSet(Covering(bookings, d, d)) /\ Covering(bookings, d, d) \subseteq Ids(bookings)
      BY FS_Subset DEF BookingsAreSpans, Covering
    <3> QED  BY <3>1, PercentsAddUp
  <2> HIDE DEF p
  <2>2. p * NORMATIVE_DAY_MINUTES \in Nat
    BY <2>1, DayAssumption
  <2>3. percent_to_minutes(p) \in Nat
    BY <2>2, RoundIsNat DEF percent_to_minutes
  <2> QED  BY <2>3 DEF demand_minutes, p
<1> QED  BY <1>1, <1>2 DEF PersonDay

\* The excess of a week is there if a day has more than it holds.
LEMMA ExcessIsThere ==
  ASSUME NEW cal, NEW bookings, NEW monday \in Int,
         \A d \in monday..(monday + 6) : /\ PersonDay(cal, bookings, d).available \in Nat
                                        /\ PersonDay(cal, bookings, d).assigned \in Nat
  PROVE  PersonWeek(cal, bookings, monday).excess > 0
           <=> \E d \in monday..(monday + 6) : OverbookedOn(cal, bookings, d)
<1> DEFINE A == monday..(monday + 6)
           day == [d \in A |-> PersonDay(cal, bookings, d)]
           f == [d \in A |-> Max({0, day[d].assigned - day[d].available})]
           D == DOMAIN day
           P(iter) == iter = [s \in SUBSET D |-> IF s = {} THEN 0
                         ELSE LET x == CHOOSE x \in s : TRUE
                              IN Max({0, day[x].assigned - day[x].available}) + iter[s \ {x}]]
           it == CHOOSE iter : P(iter)
<1>1. D = A /\ IsFiniteSet(A)
  <2>1. monday + 6 \in Int
    OBVIOUS
  <2> QED  BY <2>1, FS_Interval
<1>2. ASSUME NEW d \in A
      PROVE  f[d] \in Nat /\ (f[d] > 0 <=> OverbookedOn(cal, bookings, d))
  <2> DEFINE gap == day[d].assigned - day[d].available
  <2>1. day[d] = PersonDay(cal, bookings, d) /\ day[d].assigned \in Nat /\ day[d].available \in Nat
    OBVIOUS
  <2>2. gap \in Int /\ (gap > 0 <=> OverbookedOn(cal, bookings, d))
    <3> HIDE DEF day
    <3> QED  BY <2>1 DEF OverbookedOn
  <2>3. f[d] = Max({0, gap})
    OBVIOUS
  <2> HIDE DEF gap, f
  <2>4. IsFiniteSet({0} \cup {gap}) /\ {0} \cup {gap} = {0, gap}
    BY FS_AddElement, FS_Singleton
  <2>5. {0, gap} \in SUBSET Int /\ {0, gap} # {}
    BY <2>2
  <2>6. Max({0, gap}) \in {0, gap} /\ \A y \in {0, gap} : y <= Max({0, gap})
    BY <2>4, <2>5, Extremes
  <2> QED  BY <2>2, <2>3, <2>6
<1>3. \A d \in A : f[d] = Max({0, day[d].assigned - day[d].available}) /\ f[d] \in Int
  BY <1>2
<1>4. PersonWeek(cal, bookings, monday).excess = it[D]
  <2>1. PersonWeek(cal, bookings, monday).excess
          = MapThenSumSet(LAMBDA d : Max({0, day[d].assigned - day[d].available}), D)
    BY DEF PersonWeek
  <2> HIDE DEF day
  <2> QED  BY <2>1 DEF MapThenSumSet, MapThenFoldSet
<1> HIDE DEF f, day
<1>5. ASSUME NEW iter PROVE P(iter) <=> Summed(A, f, iter)
  <2>1. ASSUME NEW s \in SUBSET A, s # {}
        PROVE  (CHOOSE x \in s : TRUE) \in A
    BY <2>1
  <2>2. ASSUME NEW s \in SUBSET A
        PROVE  (IF s = {} THEN 0
                ELSE LET x == CHOOSE x \in s : TRUE
                     IN Max({0, day[x].assigned - day[x].available}) + iter[s \ {x}])
               = (IF s = {} THEN 0 ELSE LET x == CHOOSE x \in s : TRUE IN f[x] + iter[s \ {x}])
    <3>1. CASE s = {}
      BY <3>1
    <3>2. CASE s # {}
      <4> DEFINE x == CHOOSE x \in s : TRUE
      <4>1. x \in A
        BY <2>1, <3>2
      <4> HIDE DEF A, D
      <4>2. Max({0, day[x].assigned - day[x].available}) = f[x]
        BY <1>3, <4>1
      <4> QED  BY <3>2, <4>2
    <3> QED  BY <3>1, <3>2
  <2> HIDE DEF A, D
  <2> QED  BY <1>1, <2>2 DEF Summed
<1>6. \E iter : P(iter)
  <2>1. PICK iter : Summed(A, f, iter)
    <3> HIDE DEF A
    <3> QED  BY <1>1, <1>3, SumExists
  <2>2. P(iter)
    <3> HIDE DEF P, A
    <3> QED  BY <1>5, <2>1
  <2> HIDE DEF P
  <2> QED  BY <2>2
<1>7. P(it)
  <2> HIDE DEF P
  <2> QED  BY <1>6
<1> HIDE DEF P, it
<1>8. it[A] = Total(A, f)
  <2> HIDE DEF A
  <2>1. Summed(A, f, it) /\ A \in SUBSET A
    BY <1>5, <1>7
  <2> QED  BY <1>1, <1>3, <2>1, SumsAgree
<1>9. Total(A, f) > 0 <=> \E d \in A : f[d] > 0
  <2> HIDE DEF A
  <2> QED  BY <1>1, <1>2, TotalPositive
<1> HIDE DEF D
<1> QED  BY <1>1, <1>2, <1>4, <1>8, <1>9

(* The dashboard and the list of conflicts agree on every day and on every    *)
(* week, for all bookings and calendars, but for days without supply          *)
(* (capacity_service.py, conflict_service.py).                                *)
THEOREM DashboardShows ==
  ASSUME NEW cal, CalendarTyped(cal), NEW bookings, BookingsAreSpans(bookings),
         \A i \in Ids(bookings) : bookings[i].percent \in Nat
  PROVE  DashboardAgrees(cal, bookings)
<1>1. \A d \in Int : /\ PersonDay(cal, bookings, d).available \in Nat
                    /\ PersonDay(cal, bookings, d).assigned \in Nat
  BY DaysAreTyped
<1>2. ASSUME NEW d \in Int
      PROVE  get_utilization_color(PersonDay(cal, bookings, d)) = "red"
               <=> OverbookedOn(cal, bookings, d) /\ PersonDay(cal, bookings, d).available > 0
  <2> DEFINE day == PersonDay(cal, bookings, d)
  <2>1. day.available \in Nat /\ day.assigned \in Nat
    BY <1>1
  <2>2. OverbookedOn(cal, bookings, d) <=> day.assigned > day.available
    BY DEF OverbookedOn
  <2>3. get_utilization_color(day) = "red" <=> Exceeds(day, 100)
    BY DEF get_utilization_color
  <2> HIDE DEF day
  <2>4. Exceeds(day, 100) <=> day.available > 0 /\ day.assigned > day.available
    <3>1. CASE day.available = 0
      BY <2>1, <3>1 DEF Exceeds
    <3>2. CASE day.available > 0
      BY <2>1, <3>2 DEF Exceeds
    <3> QED  BY <2>1, <3>1, <3>2
  <2> QED  BY <2>2, <2>3, <2>4 DEF day
<1>3. Span(bookings) \subseteq Int
  BY DEF Span
<1>4. ASSUME NEW monday \in Int
      PROVE  PersonWeek(cal, bookings, monday).excess > 0
               <=> \E d \in monday..(monday + 6) : OverbookedOn(cal, bookings, d)
  <2>1. monday..(monday + 6) \subseteq Int
    OBVIOUS
  <2> QED  BY <1>1, <2>1, ExcessIsThere
<1> QED  BY <1>2, <1>3, <1>4 DEF DashboardAgrees, Overbooked

-----------------------------------------------------------------------------
(* The periods of a person: days in the order of time.                        *)

\* Days that are found, each once.
DaysOnce(days) ==
  /\ IsFiniteSet(days) /\ \A d \in days : d.date \in Int
  /\ \A d, e \in days : d.date = e.date => d = e

InTime(days) == Ranked(days, LAMBDA d, e : d.date < e.date)

\* They are grouped in the order of time.
LEMMA DaysInTime ==
  ASSUME NEW days, DaysOnce(days)
  PROVE  /\ Cardinality(days) \in Nat
         /\ InTime(days) \in [1..Cardinality(days) -> days]
         /\ \A i, j \in 1..Cardinality(days) : i < j <=> InTime(days)[i].date < InTime(days)[j].date
         /\ \A d \in days : \E i \in 1..Cardinality(days) : InTime(days)[i] = d
<1> DEFINE R == {p \in days \X days : p[1].date < p[2].date}
           N == Cardinality(days)
           s == InTime(days)
<1>1. \A d, e \in days : <<d, e>> \in R <=> d.date < e.date
  OBVIOUS
<1>2. N \in Nat
  BY FS_CardinalityType DEF DaysOnce
<1>3. InTime(days) = InOrder(days, R)
  <2> DEFINE below(x) == {y \in days : y.date < x.date}
             e(k) == CHOOSE x \in days : Cardinality(below(x)) = k - 1
             g(k) == CHOOSE x \in days : Cardinality({y \in days : <<y, x>> \in R}) = k - 1
  <2>1. InTime(days) = [k \in 1..N |-> e(k)]
    BY DEF InTime, Ranked, Rank
  <2>2. InOrder(days, R) = [k \in 1..N |-> g(k)]
    BY DEF InOrder
  <2>3. \A x \in days : below(x) = {y \in days : <<y, x>> \in R}
    BY <1>1
  <2>4. \A k \in 1..N : e(k) = g(k)
    <3> HIDE DEF R, below
    <3> TAKE k \in 1..N
    <3>1. \A x \in days : Cardinality(below(x)) = k - 1
                       <=> Cardinality({y \in days : <<y, x>> \in R}) = k - 1
      BY <2>3
    <3> QED  BY <3>1
  <2> HIDE DEF e, g
  <2> QED  BY <2>1, <2>2, <2>4
<1>4. OrdersAll(days, R)
  <2>1. \A d, e \in days : d.date \in Int /\ (d # e => d.date # e.date)
    BY DEF DaysOnce
  <2> HIDE DEF R
  <2> QED  BY <1>1, <2>1 DEF OrdersAll
<1> HIDE DEF R
<1>5. /\ s \in [1..N -> days]
      /\ \A i, j \in 1..N : i < j <=> <<s[i], s[j]>> \in R
      /\ \A d \in days : \E i \in 1..N : s[i] = d
  BY <1>3, <1>4, RanksOrder DEF DaysOnce
<1>6. \A i, j \in 1..N : i < j <=> s[i].date < s[j].date
  <2> TAKE i, j \in 1..N
  <2>1. s[i] \in days /\ s[j] \in days
    BY <1>5
  <2> HIDE DEF s
  <2> QED  BY <1>1, <1>5, <2>1
<1> QED  BY <1>2, <1>5, <1>6

-----------------------------------------------------------------------------
\* A day goes on with the group of the one before.
Joins(previous, day) == day.date = previous.date + 1 \/ day.ids = previous.ids
GroupStep(groups, day) ==
  IF groups # <<>> /\ Joins(Last(Last(groups)), day)
  THEN Front(groups) \o <<Append(Last(groups), day)>>
  ELSE Append(groups, <<day>>)

\* The groups are lists, none of them empty.
GroupsIn(S) == Seq(Seq(S) \ {<<>>})

\* A day leaves lists of days, none of them empty.
LEMMA GroupStepIsTyped ==
  ASSUME NEW S, NEW groups \in GroupsIn(S), NEW day \in S
  PROVE  GroupStep(groups, day) \in GroupsIn(S)
<1> DEFINE Acc == Seq(Seq(S) \ {<<>>})
<1>0. groups \in Acc /\ GroupsIn(S) = Acc
  BY DEF GroupsIn
<1> SUFFICES GroupStep(groups, day) \in Acc
  BY <1>0
<1>1. <<day>> \in Seq(S) \ {<<>>}
  OBVIOUS
<1>2. CASE groups = <<>>
  BY <1>1, <1>2 DEF GroupStep
<1>3. CASE groups # <<>>
  <2>1. Len(groups) \in Nat /\ Len(groups) >= 1
    BY <1>0, <1>3
  <2>2. Last(groups) \in Seq(S) \ {<<>>}
    BY <1>0, <2>1 DEF Last
  <2>3. Append(Last(groups), day) \in Seq(S) \ {<<>>}
    BY <2>2
  <2>4. Front(groups) \in Acc
    BY <1>0, <2>1 DEF Front
  <2>5. Front(groups) \o <<Append(Last(groups), day)>> \in Acc
    BY <2>3, <2>4
  <2>6. Append(groups, <<day>>) \in Acc
    BY <1>0, <1>1
  <2> HIDE DEF Acc
  <2> QED  BY <2>5, <2>6 DEF GroupStep
<1> QED  BY <1>2, <1>3

\* Grouped takes the days one by one.
LEMMA GroupedByOne ==
  ASSUME NEW days, DaysOnce(days)
  PROVE  \E g : /\ g[0] = <<>> /\ Grouped(days) = g[Cardinality(days)]
                /\ \A k \in 1..Cardinality(days) : g[k] = GroupStep(g[k - 1], InTime(days)[k])
<1> DEFINE n == Cardinality(days)  s == InTime(days)  D == DOMAIN s
           Acc == GroupsIn(days)
           P(iter) == iter = [A \in SUBSET D |-> IF A = {} THEN <<>>
                                ELSE LET x == Max(A) IN GroupStep(iter[A \ {x}], s[x])]
           it == CHOOSE iter : P(iter)
           step == [p \in (1..n) \X Acc |-> GroupStep(p[2], s[p[1]])]
<1>1. n \in Nat /\ s \in [1..n -> days] /\ D = 1..n
  BY DaysInTime
<1>2. ASSUME NEW groups \in Acc, NEW day \in days
      PROVE  GroupStep(groups, day) \in Acc
  BY GroupStepIsTyped
<1>3. step \in [(1..n) \X Acc -> Acc]
  <2> HIDE DEF Acc, n, s
  <2> QED  BY <1>1, <1>2
<1>4. <<>> \in Acc
  BY DEF GroupsIn
<1>5. \E iter : P(iter)
  <2>1. PICK iter : /\ LeftFolds(n, <<>>, step, iter)
                    /\ \A A \in SUBSET (1..n) : iter[A] \in Acc
    <3> DEFINE base == <<>>
    <3>1. base \in Acc /\ base = <<>>
      BY <1>4
    <3> HIDE DEF Acc, step, n, base
    <3>2. \E iter : /\ LeftFolds(n, base, step, iter)
                    /\ \A A \in SUBSET (1..n) : iter[A] \in Acc
      BY <1>1, <1>3, <3>1, LeftFoldExists
    <3> QED  BY <3>1, <3>2
  <2>2. ASSUME NEW A \in SUBSET (1..n), A # {}
        PROVE  step[<<Max(A), iter[A \ {Max(A)}]>>] = GroupStep(iter[A \ {Max(A)}], s[Max(A)])
    <3>1. Max(A) \in 1..n
      <4>1. IsFiniteSet(1..n)
        BY <1>1, FS_Interval
      <4>2. IsFiniteSet(A)
        <5> HIDE DEF n
        <5> QED  BY <4>1, FS_Subset
      <4>3. A \in SUBSET Int
        <5> HIDE DEF n
        <5> QED  BY <2>2
      <4> HIDE DEF n
      <4> QED  BY <2>2, <4>2, <4>3, Extremes
    <3>2. iter[A \ {Max(A)}] \in Acc
      BY <2>1
    <3> HIDE DEF Acc, n, s
    <3> QED  BY <3>1, <3>2
  <2>3. P(iter)
    <3> HIDE DEF Acc, step, n, s
    <3> QED  BY <1>1, <2>1, <2>2 DEF LeftFolds
  <2> HIDE DEF P
  <2> QED  BY <2>3
<1>6. P(it)
  <2> HIDE DEF P
  <2> QED  BY <1>5
<1>7. Grouped(days) = it[D]
  BY DEF Grouped, FoldLeft, MapThenFoldSet, GroupStep, Joins, InTime
<1> HIDE DEF it, Acc, step
<1> DEFINE g == [k \in 0..n |-> it[1..k]]
<1>8. it[{}] = <<>>
  BY <1>6
<1>9. ASSUME NEW k \in 1..n
      PROVE  it[1..k] = GroupStep(it[1..(k - 1)], s[k])
  <2>1. 1..k \in SUBSET D /\ 1..k # {} /\ Max(1..k) = k /\ (1..k) \ {k} = 1..(k - 1)
    <3> HIDE DEF n, s
    <3> QED  BY <1>1, PrefixEnd
  <2> HIDE DEF D, n, s
  <2> QED  BY <1>6, <2>1
<1>10. g[0] = <<>> /\ g[n] = it[1..n]
  <2> HIDE DEF n
  <2>1. 1..0 = {} /\ 0 \in 0..n /\ n \in 0..n
    BY <1>1
  <2> QED  BY <1>8, <2>1
<1>11. \A k \in 1..n : g[k] = GroupStep(g[k - 1], s[k])
  <2> HIDE DEF n, s
  <2>1. \A k \in 1..n : k \in 0..n /\ k - 1 \in 0..n
    BY <1>1
  <2> QED  BY <1>9, <2>1
<1> HIDE DEF g
<1> QED  BY <1>1, <1>7, <1>10, <1>11

-----------------------------------------------------------------------------
(* Parts of a list, and the groups of its days.                               *)

Slice(s, a, z) == [j \in 1..(z - a + 1) |-> s[a + j - 1]]

\* What a part of a list holds.
LEMMA SliceHas ==
  ASSUME NEW s, NEW a \in Int, NEW z \in Int, a <= z
  PROVE  /\ DOMAIN Slice(s, a, z) = 1..(z - a + 1)
         /\ \A j \in 1..(z - a + 1) : a + j - 1 \in a..z /\ Slice(s, a, z)[j] = s[a + j - 1]
         /\ \A m \in a..z : m - a + 1 \in 1..(z - a + 1) /\ Slice(s, a, z)[m - a + 1] = s[m]
<1> DEFINE l == z - a + 1  t == Slice(s, a, z)
<1>1. \A j \in 1..l : a + j - 1 \in a..z
  OBVIOUS
<1>2. t = [j \in 1..l |-> s[a + j - 1]]
  BY DEF Slice
<1>3. DOMAIN t = 1..l /\ \A j \in 1..l : t[j] = s[a + j - 1]
  <2> HIDE DEF l
  <2> QED  BY <1>2
<1>4. \A m \in a..z : m - a + 1 \in 1..l /\ t[m - a + 1] = s[m]
  <2> TAKE m \in a..z
  <2>1. m - a + 1 \in 1..l /\ a + (m - a + 1) - 1 = m
    OBVIOUS
  <2> HIDE DEF l, t
  <2>2. t[m - a + 1] = s[a + (m - a + 1) - 1]
    BY <1>3, <2>1
  <2> QED  BY <2>1, <2>2
<1> QED  BY <1>1, <1>3, <1>4

Of(S, n) == [1..n -> S]

\* It is a list that begins and ends with the ends of the part.
LEMMA SliceIs ==
  ASSUME NEW S, NEW n \in Nat, NEW s \in Of(S, n), NEW a \in 1..n, NEW z \in 1..n, a <= z
  PROVE  /\ Slice(s, a, z) \in Seq(S) \ {<<>>} /\ Len(Slice(s, a, z)) = z - a + 1
         /\ Slice(s, a, z)[1] = s[a] /\ Slice(s, a, z)[z - a + 1] = s[z]
<1> DEFINE l == z - a + 1  t == Slice(s, a, z)
<1>1. l \in Nat /\ l >= 1
  OBVIOUS
<1>2. \A j \in 1..l : a + j - 1 \in a..z /\ a + j - 1 \in 1..n
  OBVIOUS
<1>3. t = [j \in 1..l |-> s[a + j - 1]]
  BY DEF Slice
<1>4. \A j \in 1..l : t[j] = s[a + j - 1] /\ t[j] \in S
  <2> HIDE DEF l
  <2> QED  BY <1>2, <1>3 DEF Of
<1>5. t \in [1..l -> S]
  <2> HIDE DEF l
  <2> QED  BY <1>3, <1>4
<1>6. t \in Seq(S) /\ Len(t) = l /\ DOMAIN t = 1..l
  <2> HIDE DEF l, t
  <2> QED  BY <1>1, <1>5
<1>7. 1 \in 1..l /\ l \in 1..l /\ a + 1 - 1 = a /\ a + l - 1 = z
  BY <1>1
<1>8. t[1] = s[a] /\ t[l] = s[z]
  <2> HIDE DEF l, t
  <2>1. t[1] = s[a + 1 - 1] /\ t[l] = s[a + l - 1]
    BY <1>4, <1>7
  <2> QED  BY <1>7, <2>1
<1>12. t # <<>>
  <2> HIDE DEF l, t
  <2> QED  BY <1>1, <1>6
<1> HIDE DEF t
<1> QED  BY <1>6, <1>8, <1>12 DEF t

\* A part gets its next element.
LEMMA SliceGrows ==
  ASSUME NEW S, NEW n \in Nat, NEW s \in Of(S, n), NEW a \in 1..n, NEW z \in 1..n, a <= z, z < n
  PROVE  Append(Slice(s, a, z), s[z + 1]) = Slice(s, a, z + 1)
<1> DEFINE l == z - a + 1  t == Slice(s, a, z)
<1>1. l \in Nat /\ l >= 1 /\ a + l - 1 = z
  OBVIOUS
<1>2. t \in Seq(S) \ {<<>>} /\ Len(t) = l /\ \A j \in 1..l : t[j] = s[a + j - 1]
  <2>1. a \in Int /\ z \in Int /\ a \in 1..n /\ z \in 1..n /\ a <= z
    OBVIOUS
  <2>2. Slice(s, a, z) \in Seq(S) \ {<<>>} /\ Len(Slice(s, a, z)) = z - a + 1
    <3>1. Slice(s, a, z) \in Seq(S) \ {<<>>}
      BY <2>1, SliceIs
    <3>2. Len(Slice(s, a, z)) = z - a + 1
      BY <2>1, SliceIs
    <3> QED  BY <3>1, <3>2
  <2>3. \A j \in 1..(z - a + 1) : Slice(s, a, z)[j] = s[a + j - 1]
    BY <2>1, SliceHas
  <2> QED  BY <2>2, <2>3
<1>11. Append(t, s[z + 1]) = Slice(s, a, z + 1)
  <2> DEFINE u == Slice(s, a, z + 1)  v == Append(t, s[z + 1])
  <2>1. z + 1 \in 1..n /\ s[z + 1] \in S /\ (z + 1) - a + 1 = l + 1
    BY DEF Of
  <2>2. u = [j \in 1..(l + 1) |-> s[a + j - 1]]
    BY <2>1 DEF Slice
  <2> HIDE DEF l, t, u
  <2>3. v \in Seq(S) /\ Len(v) = l + 1 /\ \A j \in 1..(l + 1) : v[j] = IF j <= l THEN t[j] ELSE s[z + 1]
    BY <1>1, <1>2, <2>1
  <2>4. v = [j \in 1..(l + 1) |-> v[j]]
    <3> HIDE DEF v
    <3> QED  BY <1>1, <2>3
  <2> HIDE DEF v
  <2>5. \A j \in 1..(l + 1) : v[j] = s[a + j - 1]
    <3> TAKE j \in 1..(l + 1)
    <3>1. CASE j <= l
      <4>1. j \in 1..l
        BY <1>1, <3>1
      <4> QED  BY <1>2, <2>3, <4>1
    <3>2. CASE j > l
      <4>1. j = l + 1 /\ ~(j <= l) /\ a + j - 1 = z + 1
        BY <1>1, <3>2
      <4> QED  BY <2>3, <4>1
    <3> QED  BY <1>1, <3>1, <3>2
  <2>6. v = u
    <3> HIDE DEF v
    <3> QED  BY <2>2, <2>4, <2>5
  <2> QED  BY <2>6 DEF u, v, t
<1> QED  BY <1>11

\* The groups of the first k days: each from one day to another, in a row, joined inside
\* and not across.
Groups(s, k, G, a, z) ==
  /\ a \in [1..Len(G) -> 1..k] /\ z \in [1..Len(G) -> 1..k]
  /\ \A i \in 1..Len(G) : /\ a[i] <= z[i] /\ G[i] = Slice(s, a[i], z[i])
                          /\ \A m \in a[i]..(z[i] - 1) : Joins(s[m], s[m + 1])
  /\ \A i \in 2..Len(G) : a[i] = z[i - 1] + 1 /\ ~Joins(s[z[i - 1]], s[a[i]])
  /\ \A m \in 1..k : \E i \in 1..Len(G) : a[i] <= m /\ m <= z[i]
  /\ k > 0 => Len(G) > 0 /\ z[Len(G)] = k

\* The first day is a group.
LEMMA FirstGroup ==
  ASSUME NEW S, NEW n \in Nat \ {0}, NEW s \in Of(S, n)
  PROVE  \E a, z : Groups(s, 1, GroupStep(<<>>, s[1]), a, z)
<1> DEFINE G == GroupStep(<<>>, s[1])  one == [i \in 1..1 |-> 1]
<1>1. G = <<<<s[1]>>>> /\ s[1] \in S
  BY DEF GroupStep, Of
<1>2. Slice(s, 1, 1) = <<s[1]>>
  <2>1. Slice(s, 1, 1) = [j \in 1..1 |-> s[1]]
    BY DEF Slice
  <2> QED  BY <2>1
<1>3. Len(G) = 1 /\ G[1] = Slice(s, 1, 1)
  BY <1>1, <1>2
<1> HIDE DEF G
<1>4. Groups(s, 1, G, one, one)
  BY <1>3 DEF Groups
<1> QED  BY <1>4 DEF G

EndsWith(G, day) == G[Len(G)][Len(G[Len(G)])] = day

\* The last day of the last group is the one before.
LEMMA LastDay ==
  ASSUME NEW S, NEW n \in Nat, NEW s \in Of(S, n), NEW k \in 1..n,
         NEW G \in Seq(Seq(S) \ {<<>>}), NEW a, NEW z, Groups(s, k, G, a, z)
  PROVE  /\ G # <<>> /\ Len(G) \in 1..Len(G) /\ z[Len(G)] = k
         /\ EndsWith(G, s[k])
<1> DEFINE L == Len(G)  f == a[L]
<1>1. L \in Nat /\ L >= 1 /\ z[L] = k /\ L \in 1..L
  BY DEF Groups
<1>2. f \in 1..k /\ G[L] = Slice(s, f, k)
  BY <1>1 DEF Groups
<1>3. f \in 1..n /\ f \in Int /\ k \in Int /\ f <= k /\ k \in 1..n
  BY <1>2
<1>4. G # <<>>
  BY <1>1
<1> HIDE DEF L, f
<1>6. Len(Slice(s, f, k)) = k - f + 1
  BY <1>3, SliceIs
<1>7. Slice(s, f, k)[k - f + 1] = s[k]
  <2>1. k \in f..k
    BY <1>3
  <2>2. \A m \in f..k : m - f + 1 \in 1..(k - f + 1) /\ Slice(s, f, k)[m - f + 1] = s[m]
    BY <1>3, SliceHas
  <2> QED  BY <2>1, <2>2
<1> QED  BY <1>1, <1>2, <1>4, <1>6, <1>7 DEF L, EndsWith

\* A day that joins makes the last group longer.
LEMMA LongerGroup ==
  ASSUME NEW S, NEW n \in Nat, NEW s \in Of(S, n), NEW k \in 1..n, k < n,
         NEW G \in Seq(Seq(S) \ {<<>>}), NEW a, NEW z, Groups(s, k, G, a, z),
         Joins(s[k], s[k + 1])
  PROVE  \E b, c : Groups(s, k + 1, GroupStep(G, s[k + 1]), b, c)
<1> DEFINE L == Len(G)  H == GroupStep(G, s[k + 1])  c == [z EXCEPT ![L] = k + 1]
<1>1. L \in Nat /\ L >= 1 /\ z[L] = k /\ L \in 1..L
  BY DEF Groups
<1>2. a[L] \in 1..k /\ G[L] = Slice(s, a[L], k) /\ k \in 1..n /\ a[L] \in 1..n /\ a[L] <= k
  BY <1>1 DEF Groups
<1>3. Last(G) = G[L] /\ Last(G[L]) = s[k] /\ Append(G[L], s[k + 1]) = Slice(s, a[L], k + 1)
  <2>1. Append(Slice(s, a[L], k), s[k + 1]) = Slice(s, a[L], k + 1)
    <3> DEFINE f == a[L]
    <3>1. f \in 1..n /\ k \in 1..n /\ f <= k
      BY <1>2
    <3> HIDE DEF L, f
    <3>2. Append(Slice(s, f, k), s[k + 1]) = Slice(s, f, k + 1)
      BY <3>1, SliceGrows
    <3> QED  BY <3>2 DEF f
  <2>2. EndsWith(G, s[k])
    BY LastDay
  <2> QED  BY <1>2, <2>1, <2>2 DEF Last, EndsWith
<1>4. H = Front(G) \o <<Slice(s, a[L], k + 1)>>
  <2>1. G # <<>>
    BY <1>1
  <2> HIDE DEF L
  <2> QED  BY <1>3, <2>1 DEF GroupStep
<1>5. /\ Len(H) = L
      /\ \A i \in 1..L : H[i] = IF i = L THEN Slice(s, a[L], k + 1) ELSE G[i]
  <2> DEFINE x == Slice(s, a[L], k + 1)  T == Seq(S) \ {<<>>}
  <2>3. x \in T
    <3> DEFINE f == a[L]
    <3>1. f \in 1..n /\ k + 1 \in 1..n /\ f <= k + 1
      BY <1>2
    <3> HIDE DEF L, f
    <3>2. Slice(s, f, k + 1) \in Seq(S) \ {<<>>}
      BY <3>1, SliceIs
    <3> QED  BY <3>2 DEF f
  <2>4. H = Front(G) \o <<x>> /\ G \in Seq(T) /\ G # <<>>
    BY <1>1, <1>4
  <2> HIDE DEF x, H, T
  <2>5. Len(H) = Len(G) /\ \A i \in 1..Len(G) : H[i] = IF i = Len(G) THEN x ELSE G[i]
    BY <2>3, <2>4, NewLast
  <2> QED  BY <2>5 DEF x
<1> HIDE DEF H
<1>6. a \in [1..L -> 1..(k + 1)] /\ c \in [1..L -> 1..(k + 1)]
      /\ \A i \in 1..L : c[i] = IF i = L THEN k + 1 ELSE z[i]
  <2>1. a \in [1..L -> 1..k] /\ z \in [1..L -> 1..k]
    BY DEF Groups
  <2>2. \A i \in 1..k : i \in 1..(k + 1)
    OBVIOUS
  <2>3. k + 1 \in 1..(k + 1)
    OBVIOUS
  <2> HIDE DEF L
  <2>4. a \in [1..L -> 1..(k + 1)] /\ z \in [1..L -> 1..(k + 1)]
    BY <2>1, <2>2
  <2>5. c \in [1..L -> 1..(k + 1)]
    BY <2>3, <2>4
  <2>6. \A i \in 1..L : c[i] = IF i = L THEN k + 1 ELSE z[i]
    BY <2>1
  <2> QED  BY <2>4, <2>5, <2>6
<1> HIDE DEF c
<1>7. ASSUME NEW i \in 1..L
      PROVE  /\ a[i] <= c[i] /\ H[i] = Slice(s, a[i], c[i])
             /\ \A m \in a[i]..(c[i] - 1) : Joins(s[m], s[m + 1])
  <2>1. a[i] \in 1..k /\ z[i] \in 1..k /\ a[i] <= z[i] /\ G[i] = Slice(s, a[i], z[i])
        /\ \A m \in a[i]..(z[i] - 1) : Joins(s[m], s[m + 1])
    BY DEF Groups
  <2>2. CASE i # L
    <3> HIDE DEF L
    <3> QED  BY <1>5, <1>6, <2>1, <2>2
  <2>3. CASE i = L
    <3>1. c[i] = k + 1 /\ H[i] = Slice(s, a[L], k + 1) /\ z[i] = k
      BY <1>1, <1>5, <1>6, <2>3
    <3>2. ASSUME NEW m \in a[i]..(c[i] - 1)
          PROVE  Joins(s[m], s[m + 1])
      <4> HIDE DEF L
      <4>1. m \in a[i]..k
        BY <3>1
      <4>2. m = k \/ m \in a[i]..(z[i] - 1)
        BY <2>1, <3>1, <4>1
      <4> QED  BY <2>1, <4>2
    <3> HIDE DEF L
    <3> QED  BY <1>2, <2>3, <3>1, <3>2
  <2> QED  BY <2>2, <2>3
<1>8. ASSUME NEW i \in 2..L
      PROVE  a[i] = c[i - 1] + 1 /\ ~Joins(s[c[i - 1]], s[a[i]])
  <2>1. a[i] = z[i - 1] + 1 /\ ~Joins(s[z[i - 1]], s[a[i]])
    BY DEF Groups
  <2>2. i - 1 \in 1..L /\ i - 1 # L
    BY <1>1
  <2> HIDE DEF L
  <2> QED  BY <1>6, <2>1, <2>2
<1>9. ASSUME NEW m \in 1..(k + 1)
      PROVE  \E i \in 1..L : a[i] <= m /\ m <= c[i]
  <2>1. CASE m = k + 1
    <3>1. c[L] = k + 1 /\ a[L] <= k + 1
      BY <1>1, <1>2, <1>6
    <3> QED  BY <1>1, <2>1, <3>1
  <2>2. CASE m # k + 1
    <3>1. m \in 1..k
      BY <2>2
    <3>2. PICK i \in 1..L : a[i] <= m /\ m <= z[i]
      BY <3>1 DEF Groups
    <3>3. z[i] \in 1..k
      BY DEF Groups
    <3>4. m <= c[i]
      <4>1. c[i] = k + 1 \/ c[i] = z[i]
        BY <1>6, <3>2
      <4> QED  BY <3>1, <3>2, <3>3, <4>1
    <3> QED  BY <3>2, <3>4
  <2> QED  BY <2>1, <2>2
<1>10. c[L] = k + 1
  <2> HIDE DEF L
  <2> QED  BY <1>1, <1>6
<1>11. Groups(s, k + 1, H, a, c)
  <2> HIDE DEF L
  <2>1. /\ Len(H) = L /\ a \in [1..L -> 1..(k + 1)] /\ c \in [1..L -> 1..(k + 1)]
        /\ L > 0 /\ c[L] = k + 1
    BY <1>1, <1>5, <1>6, <1>10
  <2>2. /\ \A i \in 1..L : /\ a[i] <= c[i] /\ H[i] = Slice(s, a[i], c[i])
                           /\ \A m \in a[i]..(c[i] - 1) : Joins(s[m], s[m + 1])
        /\ \A i \in 2..L : a[i] = c[i - 1] + 1 /\ ~Joins(s[c[i - 1]], s[a[i]])
        /\ \A m \in 1..(k + 1) : \E i \in 1..L : a[i] <= m /\ m <= c[i]
    BY <1>7, <1>8, <1>9
  <2> QED  BY <2>1, <2>2, Zenon DEF Groups
<1> QED  BY <1>11 DEF H

\* A day that does not begins another group.
LEMMA NewGroup ==
  ASSUME NEW S, NEW n \in Nat, NEW s \in Of(S, n), NEW k \in 1..n, k < n,
         NEW G \in Seq(Seq(S) \ {<<>>}), NEW a, NEW z, Groups(s, k, G, a, z),
         ~Joins(s[k], s[k + 1])
  PROVE  \E b, c : Groups(s, k + 1, GroupStep(G, s[k + 1]), b, c)
<1> DEFINE L == Len(G)  x == <<s[k + 1]>>  H == Append(G, x)
           b == [i \in 1..(L + 1) |-> IF i = L + 1 THEN k + 1 ELSE a[i]]
           c == [i \in 1..(L + 1) |-> IF i = L + 1 THEN k + 1 ELSE z[i]]
<1>1. L \in Nat /\ L >= 1 /\ z[L] = k /\ L \in 1..L
  BY DEF Groups
<1>2. GroupStep(G, s[k + 1]) = H
  <2>1. G # <<>> /\ Last(Last(G)) = s[k]
    <3>1. G # <<>>
      BY <1>1
    <3>2. EndsWith(G, s[k])
      BY LastDay
    <3> QED  BY <3>1, <3>2 DEF Last, EndsWith
  <2> QED  BY <2>1 DEF GroupStep
<1>3. x = Slice(s, k + 1, k + 1)
  <2>1. Slice(s, k + 1, k + 1) = [j \in 1..1 |-> s[k + 1]]
    <3>1. (k + 1) - (k + 1) + 1 = 1 /\ \A j \in 1..1 : (k + 1) + j - 1 = k + 1
      OBVIOUS
    <3>2. Slice(s, k + 1, k + 1) = [j \in 1..((k + 1) - (k + 1) + 1) |-> s[(k + 1) + j - 1]]
      BY DEF Slice
    <3> QED  BY <3>1, <3>2
  <2> QED  BY <2>1
<1>4. Len(H) = L + 1 /\ \A i \in 1..(L + 1) : H[i] = IF i = L + 1 THEN x ELSE G[i]
  <2>1. G \in Seq(Seq(S) \ {<<>>})
    OBVIOUS
  <2> HIDE DEF x
  <2> QED  BY <2>1
<1> HIDE DEF H, x
<1>5. /\ b \in [1..(L + 1) -> 1..(k + 1)] /\ c \in [1..(L + 1) -> 1..(k + 1)]
      /\ \A i \in 1..(L + 1) : /\ b[i] = IF i = L + 1 THEN k + 1 ELSE a[i]
                               /\ c[i] = IF i = L + 1 THEN k + 1 ELSE z[i]
  <2>1. a \in [1..L -> 1..k] /\ z \in [1..L -> 1..k]
    BY DEF Groups
  <2>2. k + 1 \in 1..(k + 1) /\ \A i \in 1..k : i \in 1..(k + 1)
    OBVIOUS
  <2>3. \A i \in 1..(L + 1) : i # L + 1 => i \in 1..L
    BY <1>1
  <2> HIDE DEF L
  <2>4. \A i \in 1..(L + 1) : /\ (IF i = L + 1 THEN k + 1 ELSE a[i]) \in 1..(k + 1)
                              /\ (IF i = L + 1 THEN k + 1 ELSE z[i]) \in 1..(k + 1)
    <3> TAKE i \in 1..(L + 1)
    <3>1. CASE i = L + 1
      BY <2>2, <3>1
    <3>2. CASE i # L + 1
      <4>1. a[i] \in 1..k /\ z[i] \in 1..k
        BY <2>1, <2>3, <3>2
      <4> QED  BY <2>2, <3>2, <4>1
    <3> QED  BY <3>1, <3>2
  <2> QED  BY <2>4
<1> HIDE DEF b, c
<1>6. ASSUME NEW i \in 1..(L + 1)
      PROVE  /\ b[i] <= c[i] /\ H[i] = Slice(s, b[i], c[i])
             /\ \A m \in b[i]..(c[i] - 1) : Joins(s[m], s[m + 1])
  <2>1. CASE i = L + 1
    <3>1. b[i] = k + 1 /\ c[i] = k + 1 /\ H[i] = x
      BY <1>4, <1>5, <2>1
    <3> HIDE DEF L
    <3>2. \A m \in (k + 1)..((k + 1) - 1) : FALSE
      OBVIOUS
    <3> QED  BY <1>3, <3>1, <3>2
  <2>2. CASE i # L + 1
    <3>1. i \in 1..L
      BY <1>1, <2>2
    <3>2. a[i] <= z[i] /\ G[i] = Slice(s, a[i], z[i])
          /\ \A m \in a[i]..(z[i] - 1) : Joins(s[m], s[m + 1])
      BY <3>1 DEF Groups
    <3>3. b[i] = a[i] /\ c[i] = z[i] /\ H[i] = G[i]
      BY <1>4, <1>5, <2>2
    <3> HIDE DEF L
    <3> QED  BY <3>2, <3>3
  <2> QED  BY <2>1, <2>2
<1>7. ASSUME NEW i \in 2..(L + 1)
      PROVE  b[i] = c[i - 1] + 1 /\ ~Joins(s[c[i - 1]], s[b[i]])
  <2>1. i - 1 \in 1..(L + 1) /\ i - 1 # L + 1 /\ i \in 1..(L + 1)
    BY <1>1
  <2>2. c[i - 1] = z[i - 1]
    <3> HIDE DEF L
    <3> QED  BY <1>5, <2>1
  <2>3. CASE i = L + 1
    <3>1. b[i] = k + 1 /\ z[i - 1] = k
      <4>1. b[i] = k + 1
        BY <1>5, <2>1, <2>3
      <4>2. i - 1 = L
        BY <1>1, <2>3
      <4> QED  BY <1>1, <4>1, <4>2
    <3> HIDE DEF L
    <3> QED  BY <2>2, <3>1
  <2>4. CASE i # L + 1
    <3>1. i \in 2..L
      BY <1>1, <2>4
    <3>2. a[i] = z[i - 1] + 1 /\ ~Joins(s[z[i - 1]], s[a[i]])
      BY <3>1 DEF Groups
    <3>3. b[i] = a[i]
      BY <1>5, <2>1, <2>4
    <3> QED  BY <2>2, <3>2, <3>3
  <2> QED  BY <2>3, <2>4
<1>8. ASSUME NEW m \in 1..(k + 1)
      PROVE  \E i \in 1..(L + 1) : b[i] <= m /\ m <= c[i]
  <2>1. CASE m = k + 1
    <3>1. L + 1 \in 1..(L + 1)
      BY <1>1
    <3>2. b[L + 1] = k + 1 /\ c[L + 1] = k + 1
      BY <1>5, <3>1
    <3> HIDE DEF L
    <3> QED  BY <2>1, <3>1, <3>2
  <2>2. CASE m # k + 1
    <3>1. m \in 1..k
      BY <2>2
    <3>2. PICK i \in 1..L : a[i] <= m /\ m <= z[i]
      BY <3>1 DEF Groups
    <3>3. i \in 1..(L + 1) /\ i # L + 1
      BY <1>1
    <3>4. b[i] = a[i] /\ c[i] = z[i]
      BY <1>5, <3>3
    <3> QED  BY <3>2, <3>3, <3>4
  <2> QED  BY <2>1, <2>2
<1>9. c[L + 1] = k + 1 /\ L + 1 > 0
  <2>1. L + 1 \in 1..(L + 1) /\ L + 1 > 0
    BY <1>1
  <2> HIDE DEF L
  <2> QED  BY <1>5, <2>1
<1>10. Groups(s, k + 1, H, b, c)
  <2>1. /\ Len(H) = L + 1 /\ b \in [1..(L + 1) -> 1..(k + 1)] /\ c \in [1..(L + 1) -> 1..(k + 1)]
        /\ L + 1 > 0 /\ c[L + 1] = k + 1
    BY <1>4, <1>5, <1>9
  <2>2. /\ \A i \in 1..(L + 1) : /\ b[i] <= c[i] /\ H[i] = Slice(s, b[i], c[i])
                                 /\ \A m \in b[i]..(c[i] - 1) : Joins(s[m], s[m + 1])
        /\ \A i \in 2..(L + 1) : b[i] = c[i - 1] + 1 /\ ~Joins(s[c[i - 1]], s[b[i]])
        /\ \A m \in 1..(k + 1) : \E i \in 1..(L + 1) : b[i] <= m /\ m <= c[i]
    BY <1>6, <1>7, <1>8
  <2> HIDE DEF L
  <2> QED  BY <2>1, <2>2, Zenon DEF Groups
<1> QED  BY <1>2, <1>10

\* Grouped makes such groups of all days.
LEMMA GroupsOfDays ==
  ASSUME NEW days, DaysOnce(days)
  PROVE  /\ Grouped(days) \in GroupsIn(days)
         /\ \E a, z : Groups(InTime(days), Cardinality(days), Grouped(days), a, z)
<1> DEFINE n == Cardinality(days)  s == InTime(days)
<1>1. n \in Nat /\ s \in [1..n -> days]
  BY DaysInTime
<1>2. PICK g : /\ g[0] = <<>> /\ Grouped(days) = g[n]
               /\ \A k \in 1..n : g[k] = GroupStep(g[k - 1], s[k])
  BY GroupedByOne
<1> HIDE DEF n, s
<1> DEFINE T == {k \in 0..n : g[k] \in GroupsIn(days) /\ \E a, z : Groups(s, k, g[k], a, z)}
<1>3. 0 \in T
  <2> DEFINE none == [i \in 1..0 |-> 0]
  <2>1. g[0] \in GroupsIn(days) /\ Len(g[0]) = 0
    BY <1>2 DEF GroupsIn
  <2>2. Groups(s, 0, g[0], none, none)
    BY <2>1 DEF Groups
  <2> QED  BY <1>1, <2>1, <2>2
<1>4. ASSUME NEW k \in 0..n, k \in T, k < n
      PROVE  k + 1 \in T
  <2>1. k + 1 \in 1..n /\ (k + 1) - 1 = k /\ k + 1 \in 0..n
    BY <1>1, <1>4
  <2>2. g[k + 1] = GroupStep(g[k], s[k + 1]) /\ s[k + 1] \in days
    BY <1>1, <1>2, <2>1
  <2>3. g[k] \in GroupsIn(days) /\ \E a, z : Groups(s, k, g[k], a, z)
    BY <1>4
  <2>4. g[k + 1] \in GroupsIn(days)
    BY <2>2, <2>3, GroupStepIsTyped
  <2>5. s \in Of(days, n)
    BY <1>1 DEF Of
  <2> HIDE DEF T
  <2>6. \E a, z : Groups(s, k + 1, g[k + 1], a, z)
    <3>1. CASE k = 0
      <4>1. n \in Nat \ {0} /\ g[k] = <<>> /\ k + 1 = 1
        BY <1>1, <1>2, <1>4, <3>1
      <4>2. \E a, z : Groups(s, 1, GroupStep(<<>>, s[1]), a, z)
        BY <2>5, <4>1, FirstGroup
      <4> QED  BY <2>2, <4>1, <4>2
    <3>2. CASE k # 0
      <4>1. k \in 1..n /\ g[k] \in Seq(Seq(days) \ {<<>>})
        BY <1>1, <2>3, <3>2 DEF GroupsIn
      <4>2. PICK a, z : Groups(s, k, g[k], a, z)
        BY <2>3
      <4>3. CASE Joins(s[k], s[k + 1])
        <5>1. \E b, c : Groups(s, k + 1, GroupStep(g[k], s[k + 1]), b, c)
          BY <1>1, <1>4, <2>5, <4>1, <4>2, <4>3, LongerGroup
        <5> QED  BY <2>2, <5>1
      <4>4. CASE ~Joins(s[k], s[k + 1])
        <5>1. \E b, c : Groups(s, k + 1, GroupStep(g[k], s[k + 1]), b, c)
          BY <1>1, <1>4, <2>5, <4>1, <4>2, <4>4, NewGroup
        <5> QED  BY <2>2, <5>1
      <4> QED  BY <4>3, <4>4
    <3> QED  BY <3>1, <3>2
  <2> QED  BY <2>1, <2>4, <2>6 DEF T
<1> HIDE DEF T
<1>5. \A k \in 0..n : k \in T
  BY <1>1, <1>3, <1>4, PrefixInduction
<1>6. n \in T
  <2>1. n \in 0..n
    BY <1>1
  <2> QED  BY <1>5, <2>1
<1> QED  BY <1>2, <1>6 DEF T, n, s

-----------------------------------------------------------------------------
(* What a period tells of its group.                                          *)

\* What is said of the days from one to another.
PeriodTells(p, s, a, z) ==
  /\ p.start = s[a].date /\ p.end = s[z].date
  /\ p.ids = UNION {s[m].ids : m \in a..z}
  /\ p.assigned = Max({s[m].assigned : m \in a..z})
  /\ \E m \in a..z : /\ p.available = s[m].available
                     /\ \A k \in a..z : s[k].assigned - s[k].available <= s[m].assigned - s[m].available

\* A period tells of the days of its group.
LEMMA PeriodOfGroup ==
  ASSUME NEW S, \A x \in S : x.assigned \in Int /\ x.available \in Int,
         NEW n \in Nat, NEW s \in Of(S, n), NEW a \in 1..n, NEW z \in 1..n, a <= z
  PROVE  PeriodTells(PersonalPeriod(Slice(s, a, z)), s, a, z)
<1> DEFINE days == Slice(s, a, z)  l == z - a + 1
           gap(d) == d.assigned - d.available
           W == {i \in DOMAIN days : \A j \in DOMAIN days : gap(days[j]) <= gap(days[i])}
           p == PersonalPeriod(days)
<1>1. a \in Int /\ z \in Int /\ l \in Nat /\ l >= 1 /\ \A m \in a..z : s[m] \in S
  BY DEF Of
<1>2. DOMAIN days = 1..l
  BY <1>1, SliceHas
<1>3. \A j \in 1..l : a + j - 1 \in a..z /\ days[j] = s[a + j - 1]
  BY <1>1, SliceHas
<1>4. \A m \in a..z : m - a + 1 \in 1..l /\ days[m - a + 1] = s[m]
  BY <1>1, SliceHas
<1>5. Len(days) = l
  BY SliceIs
<1>6. /\ p.start = days[1].date /\ p.end = Last(days).date
      /\ p.ids = UNION {d.ids : d \in Range(days)}
      /\ p.assigned = Max({d.assigned : d \in Range(days)})
      /\ p.available = days[Min(W)].available
  BY DEF PersonalPeriod
<1> HIDE DEF p, days
<1>7. Range(days) = {s[m] : m \in a..z}
  <2> HIDE DEF l
  <2>1. Range(days) = {days[j] : j \in 1..l}
    BY <1>2 DEF Range
  <2>2. ASSUME NEW j \in 1..l PROVE \E m \in a..z : days[j] = s[m]
    BY <1>3
  <2>3. ASSUME NEW m \in a..z PROVE \E j \in 1..l : s[m] = days[j]
    BY <1>4
  <2> QED  BY <2>1, <2>2, <2>3
<1>8. days[1] = s[a] /\ Last(days) = s[z]
  <2>1. a \in a..z /\ z \in a..z /\ a - a + 1 = 1 /\ z - a + 1 = l
    BY <1>1
  <2>2. days[1] = s[a] /\ days[l] = s[z]
    <3> HIDE DEF l
    <3> QED  BY <1>4, <2>1
  <2> QED  BY <1>5, <2>2 DEF Last
<1>9. {d.ids : d \in Range(days)} = {s[m].ids : m \in a..z}
  BY <1>7
<1>10. {d.assigned : d \in Range(days)} = {s[m].assigned : m \in a..z}
  BY <1>7
<1>11. Min(W) \in W
  <2> DEFINE f == [i \in 1..l |-> gap(days[i])]  V == {f[i] : i \in 1..l}
  <2>1. \A i \in 1..l : f[i] = gap(days[i]) /\ f[i] \in Int
    <3> TAKE i \in 1..l
    <3>1. days[i] \in S
      <4> HIDE DEF l
      <4> QED  BY <1>1, <1>3
    <3> QED  BY <3>1
  <2>2. IsFiniteSet(1..l) /\ 1 \in 1..l
    <3> HIDE DEF l
    <3> QED  BY <1>1, FS_Interval
  <2>3. IsFiniteSet(V)
    <3> HIDE DEF f, l
    <3> QED  BY <2>2, ImageFinite
  <2> HIDE DEF f, gap, l
  <2>4. V \in SUBSET Int /\ V # {}
    BY <2>1, <2>2
  <2>5. Max(V) \in V /\ \A y \in V : y <= Max(V)
    <3> HIDE DEF V
    <3> QED  BY <2>3, <2>4, Extremes
  <2>6. PICK i \in 1..l : f[i] = Max(V)
    BY <2>5
  <2>7. \A j \in 1..l : f[j] <= f[i]
    BY <2>5, <2>6
  <2>8. i \in W
    BY <1>2, <2>1, <2>7
  <2>9. W \in SUBSET Int /\ IsFiniteSet(W) /\ W # {}
    <3>1. W \in SUBSET (1..l)
      BY <1>2
    <3>2. 1..l \in SUBSET Int
      OBVIOUS
    <3> HIDE DEF W
    <3> QED  BY <2>2, <2>8, <3>1, <3>2, FS_Subset
  <2> HIDE DEF W
  <2> QED  BY <2>9, Extremes
<1> DEFINE w == Min(W)
<1>12. w \in 1..l /\ \A j \in 1..l : gap(days[j]) <= gap(days[w])
  <2> HIDE DEF l, gap
  <2> QED  BY <1>2, <1>11
<1> HIDE DEF w
<1>13. \E m \in a..z : /\ days[w].available = s[m].available
                       /\ \A k \in a..z : gap(s[k]) <= gap(s[m])
  <2> DEFINE m == a + w - 1
  <2> HIDE DEF l, gap, m
  <2>1. m \in a..z /\ days[w] = s[m]
    BY <1>3, <1>12 DEF m
  <2>2. ASSUME NEW k \in a..z PROVE gap(s[k]) <= gap(s[m])
    <3>1. k - a + 1 \in 1..l /\ days[k - a + 1] = s[k]
      BY <1>4
    <3>2. gap(days[k - a + 1]) <= gap(days[w])
      BY <1>12, <3>1
    <3> QED  BY <2>1, <3>1, <3>2
  <2> QED  BY <2>1, <2>2
<1>14. p.available = days[w].available
  BY <1>6 DEF w
<1>15. PeriodTells(p, s, a, z)
  <2> HIDE DEF l, W
  <2> QED  BY <1>6, <1>8, <1>9, <1>10, <1>13, <1>14 DEF PeriodTells
<1> QED  BY <1>15 DEF p, days

-----------------------------------------------------------------------------
(* What the periods tell of all days.                                         *)

\* What periods tell of days: PeriodsTellTheDays, of any days.
DaysOf(D, p) == {d \in D : p.start <= d /\ d <= p.end}
PeriodTellsOf(D, day, p) ==
  /\ {p.start, p.end} \subseteq D
  /\ p.ids = UNION {day[d].ids : d \in DaysOf(D, p)}
  /\ p.assigned = Max({day[d].assigned : d \in DaysOf(D, p)})
  /\ \E d \in DaysOf(D, p) :
       /\ p.available = day[d].available
       /\ \A e \in DaysOf(D, p) : day[e].assigned - day[e].available <= day[d].assigned - day[d].available
  /\ \A d \in DaysOf(D, p) \ {p.end} :
       Following(d, D) = d + 1 \/ day[Following(d, D)].ids = day[d].ids
Tell(D, day, periods) ==
  /\ \A d \in D : \E p \in Range(periods) : d \in DaysOf(D, p)
  /\ \A p \in Range(periods) : PeriodTellsOf(D, day, p)
  /\ \A i \in DOMAIN periods \ {1} :
       /\ i - 1 \in DOMAIN periods
       /\ periods[i].start > periods[i - 1].end + 1
       /\ day[periods[i].start].ids # day[periods[i - 1].end].ids

\* The days in the order of time.
Dated(D, day, n, s) ==
  /\ \A m \in 1..n : s[m].date \in D /\ s[m] = day[s[m].date]
  /\ \A i, j \in 1..n : i < j <=> s[i].date < s[j].date
  /\ \A d \in D : \E m \in 1..n : s[m].date = d

\* So they are, when they are taken by rank.
LEMMA DaysAreDated ==
  ASSUME NEW D \in SUBSET Int, IsFiniteSet(D), NEW day, \A d \in D : day[d].date = d
  PROVE  LET F == {day[d] : d \in D}
         IN /\ DaysOnce(F) /\ Cardinality(F) \in Nat
            /\ InTime(F) \in Of(F, Cardinality(F))
            /\ Dated(D, day, Cardinality(F), InTime(F))
<1> DEFINE F == {day[d] : d \in D}  n == Cardinality(F)  s == InTime(F)
<1>1. DaysOnce(F)
  <2>1. IsFiniteSet(F)
    <3> DEFINE g == [d \in D |-> day[d]]
    <3>1. g \in Surjection(D, F)
      BY DEF Surjection
    <3> HIDE DEF F, g, n, s
    <3> QED  BY <3>1, FS_Surjection
  <2>2. \A x \in F : x.date \in D /\ x = day[x.date]
    OBVIOUS
  <2> HIDE DEF F
  <2> QED  BY <2>1, <2>2 DEF DaysOnce
<1>2. \A x \in F : x.date \in D /\ x = day[x.date]
  OBVIOUS
<1>3. \A d \in D : day[d] \in F
  OBVIOUS
<1> HIDE DEF F
<1>4. /\ n \in Nat /\ s \in [1..n -> F]
      /\ \A i, j \in 1..n : i < j <=> s[i].date < s[j].date
      /\ \A d \in F : \E i \in 1..n : s[i] = d
  BY <1>1, DaysInTime
<1> HIDE DEF n, s
<1>5. Dated(D, day, n, s)
  <2>1. ASSUME NEW m \in 1..n PROVE s[m].date \in D /\ s[m] = day[s[m].date]
    BY <1>2, <1>4
  <2>2. ASSUME NEW d \in D PROVE \E m \in 1..n : s[m].date = d
    <3>1. PICK m \in 1..n : s[m] = day[d]
      BY <1>3, <1>4
    <3> QED  BY <3>1
  <2> QED  BY <1>4, <2>1, <2>2 DEF Dated
<1> QED  BY <1>1, <1>4, <1>5 DEF Of, F, n, s

DatesOf(O, s, a, z) ==
  /\ \A m \in a..z : s[m].date \in O
  /\ \A d \in O : \E m \in a..z : s[m].date = d

\* The days of a period are those of its group.
LEMMA DaysOfGroup ==
  ASSUME NEW D \in SUBSET Int, NEW day, NEW n \in Nat, NEW s, Dated(D, day, n, s),
         NEW a \in 1..n, NEW z \in 1..n, a <= z, NEW p, PeriodTells(p, s, a, z)
  PROVE  DatesOf(DaysOf(D, p), s, a, z)
<1>1. p.start = s[a].date /\ p.end = s[z].date
  BY DEF PeriodTells
<1>2. \A m \in 1..n : s[m].date \in D
  BY DEF Dated
<1>3. \A i, j \in 1..n : i < j <=> s[i].date < s[j].date
  BY DEF Dated
<1>4. ASSUME NEW m \in 1..n
      PROVE  a <= m /\ m <= z <=> s[m].date \in DaysOf(D, p)
  <2>1. s[m].date \in D /\ s[a].date \in D /\ s[z].date \in D
    BY <1>2
  <2>2. s[m].date \in Int /\ s[a].date \in Int /\ s[z].date \in Int
    BY <2>1
  <2>3. m < a <=> s[m].date < s[a].date
    BY <1>3
  <2>4. z < m <=> s[z].date < s[m].date
    BY <1>3
  <2> QED  BY <1>1, <2>1, <2>2, <2>3, <2>4 DEF DaysOf
<1>5. ASSUME NEW m \in a..z PROVE s[m].date \in DaysOf(D, p)
  <2>1. m \in 1..n /\ a <= m /\ m <= z
    OBVIOUS
  <2> QED  BY <1>4, <2>1
<1>6. ASSUME NEW d \in DaysOf(D, p) PROVE \E m \in a..z : s[m].date = d
  <2>1. PICK m \in 1..n : s[m].date = d
    BY DEF DaysOf, Dated
  <2>2. m \in a..z
    BY <1>4, <2>1
  <2> QED  BY <2>1, <2>2
<1> QED  BY <1>5, <1>6 DEF DatesOf

\* The next of the days is the next in time.
LEMMA NextDay ==
  ASSUME NEW D \in SUBSET Int, IsFiniteSet(D), NEW day, NEW n \in Nat, NEW s, Dated(D, day, n, s),
         NEW m \in 1..n, m < n
  PROVE  Following(s[m].date, D) = s[m + 1].date
<1> DEFINE d == s[m].date  e == s[m + 1].date
<1>1. m + 1 \in 1..n /\ m < m + 1
  OBVIOUS
<1>2. d \in D /\ e \in D /\ d < e /\ d \in Int /\ e \in Int
  <2>1. d \in D /\ e \in D
    BY <1>1 DEF Dated
  <2>2. d < e
    BY <1>1 DEF Dated
  <2> QED  BY <2>1, <2>2
<1>3. /\ Following(d, D) \in D /\ Following(d, D) > d
      /\ \A y \in D : y > d => Following(d, D) <= y
  <2> HIDE DEF d, e
  <2>1. e > d
    BY <1>2
  <2> QED  BY <1>2, <2>1, FollowingIs
<1>4. PICK k \in 1..n : s[k].date = Following(d, D)
  <2> HIDE DEF d
  <2> QED  BY <1>3 DEF Dated
<1>5. m < k
  <2>1. d < s[k].date
    BY <1>2, <1>3, <1>4
  <2> QED  BY <2>1 DEF Dated
<1>6. ~(m + 1 < k)
  <2>1. m + 1 < k <=> e < s[k].date
    BY <1>1 DEF Dated
  <2>2. s[k].date <= e /\ s[k].date \in Int
    <3> HIDE DEF d, e
    <3>1. e > d
      BY <1>2
    <3> QED  BY <1>2, <1>3, <1>4, <3>1
  <2> HIDE DEF d, e
  <2> QED  BY <1>2, <2>1, <2>2
<1>7. k = m + 1
  BY <1>5, <1>6
<1> QED  BY <1>4, <1>7

\* So a period tells what it says of its days.
LEMMA PeriodTellsOfItsDays ==
  ASSUME NEW D \in SUBSET Int, IsFiniteSet(D), NEW day, NEW n \in Nat, NEW s, Dated(D, day, n, s),
         NEW a \in 1..n, NEW z \in 1..n, a <= z, \A m \in a..(z - 1) : Joins(s[m], s[m + 1]),
         NEW p, PeriodTells(p, s, a, z)
  PROVE  PeriodTellsOf(D, day, p)
<1> DEFINE O == DaysOf(D, p)  Over(d) == day[d].assigned - day[d].available
<1>1. /\ \A m \in a..z : s[m].date \in O
      /\ \A d \in O : \E m \in a..z : s[m].date = d
  <2>1. DatesOf(O, s, a, z)
    BY DaysOfGroup
  <2> QED  BY <2>1 DEF DatesOf
<1>2. \A m \in a..z : m \in 1..n /\ s[m] = day[s[m].date]
  BY DEF Dated
<1> HIDE DEF O
<1>3. p.start = s[a].date /\ p.end = s[z].date /\ s[a].date \in D /\ s[z].date \in D
  BY DEF PeriodTells, Dated
<1>4. p.ids = UNION {day[d].ids : d \in O}
  <2>1. {s[m].ids : m \in a..z} = {day[d].ids : d \in O}
    BY <1>1, <1>2
  <2> QED  BY <2>1 DEF PeriodTells
<1>5. p.assigned = Max({day[d].assigned : d \in O})
  <2>1. {s[m].assigned : m \in a..z} = {day[d].assigned : d \in O}
    BY <1>1, <1>2
  <2> QED  BY <2>1 DEF PeriodTells
<1>6. \E d \in O : p.available = day[d].available /\ \A e \in O : Over(e) <= Over(d)
  <2>1. PICK m \in a..z : /\ p.available = s[m].available
                          /\ \A k \in a..z : s[k].assigned - s[k].available <= s[m].assigned - s[m].available
    BY DEF PeriodTells
  <2> DEFINE d == s[m].date
  <2>2. d \in O /\ s[m] = day[d]
    BY <1>1, <1>2
  <2>3. ASSUME NEW e \in O PROVE Over(e) <= Over(d)
    <3>1. PICK k \in a..z : s[k].date = e
      BY <1>1
    <3>2. s[k] = day[e]
      BY <1>2, <3>1
    <3>3. s[k].assigned - s[k].available <= s[m].assigned - s[m].available
      BY <2>1
    <3> HIDE DEF d
    <3> QED  BY <2>2, <3>2, <3>3
  <2> HIDE DEF d, Over
  <2> QED  BY <2>1, <2>2, <2>3
<1>7. ASSUME NEW d \in O, d # p.end
      PROVE  Following(d, D) = d + 1 \/ day[Following(d, D)].ids = day[d].ids
  <2>1. PICK m \in a..z : s[m].date = d
    BY <1>1
  <2>2. m # z
    BY <1>3, <1>7, <2>1
  <2>3. m \in a..(z - 1) /\ m \in 1..n /\ m < n /\ m + 1 \in a..z
    BY <2>2
  <2>4. Following(s[m].date, D) = s[m + 1].date
    BY <2>3, NextDay
  <2>5. Joins(s[m], s[m + 1])
    BY <2>3
  <2>6. s[m] = day[d] /\ s[m + 1] = day[s[m + 1].date]
    BY <1>2, <2>1, <2>3
  <2> QED  BY <2>1, <2>4, <2>5, <2>6 DEF Joins
<1> QED  BY <1>3, <1>4, <1>5, <1>6, <1>7 DEF PeriodTellsOf, O

\* Grouped and PersonalPeriod tell any days apart.
LEMMA PeriodsTell ==
  ASSUME NEW D \in SUBSET Int, IsFiniteSet(D), NEW day,
         \A d \in D : day[d].date = d /\ day[d].assigned \in Int /\ day[d].available \in Int
  PROVE  LET G == Grouped({day[d] : d \in D})
         IN Tell(D, day, [i \in DOMAIN G |-> PersonalPeriod(G[i])])
<1> DEFINE F == {day[d] : d \in D}  n == Cardinality(F)  s == InTime(F)
           G == Grouped(F)  L == Len(G)
           periods == [i \in DOMAIN G |-> PersonalPeriod(G[i])]
<1>1. /\ DaysOnce(F) /\ n \in Nat /\ s \in Of(F, n) /\ Dated(D, day, n, s)
  BY DaysAreDated
<1>2. \A x \in F : x.assigned \in Int /\ x.available \in Int
  OBVIOUS
<1> HIDE DEF F
<1>3. G \in GroupsIn(F) /\ \E a, z : Groups(s, n, G, a, z)
  BY <1>1, GroupsOfDays
<1>4. PICK a, z : Groups(s, n, G, a, z)
  BY <1>3
<1> HIDE DEF n, s, G
<1>5. DOMAIN G = 1..L /\ L \in Nat /\ DOMAIN periods = 1..L
  BY <1>3 DEF GroupsIn
<1>6. ASSUME NEW i \in 1..L
      PROVE  /\ a[i] \in 1..n /\ z[i] \in 1..n /\ a[i] <= z[i]
             /\ PeriodTells(periods[i], s, a[i], z[i])
             /\ \A m \in a[i]..(z[i] - 1) : Joins(s[m], s[m + 1])
  <2>1. /\ a[i] \in 1..n /\ z[i] \in 1..n /\ a[i] <= z[i] /\ G[i] = Slice(s, a[i], z[i])
        /\ \A m \in a[i]..(z[i] - 1) : Joins(s[m], s[m + 1])
    BY <1>4 DEF Groups
  <2>2. periods[i] = PersonalPeriod(G[i])
    BY <1>5
  <2> HIDE DEF L, periods
  <2>3. PeriodTells(PersonalPeriod(Slice(s, a[i], z[i])), s, a[i], z[i])
    BY <1>1, <1>2, <2>1, PeriodOfGroup
  <2> QED  BY <2>1, <2>2, <2>3
<1> HIDE DEF periods, L
<1>7. ASSUME NEW i \in 1..L PROVE PeriodTellsOf(D, day, periods[i])
  BY <1>1, <1>6, PeriodTellsOfItsDays
<1>8. ASSUME NEW d \in D PROVE \E i \in 1..L : d \in DaysOf(D, periods[i])
  <2>1. PICK m \in 1..n : s[m].date = d
    BY <1>1 DEF Dated
  <2>2. PICK i \in 1..L : a[i] <= m /\ m <= z[i]
    BY <1>4 DEF Groups, L
  <2>3. a[i] \in 1..n /\ z[i] \in 1..n /\ a[i] <= z[i] /\ PeriodTells(periods[i], s, a[i], z[i])
    BY <1>6
  <2>4. \A k \in a[i]..z[i] : s[k].date \in DaysOf(D, periods[i])
    <3>1. DatesOf(DaysOf(D, periods[i]), s, a[i], z[i])
      BY <1>1, <2>3, DaysOfGroup
    <3> QED  BY <3>1 DEF DatesOf
  <2>5. m \in a[i]..z[i]
    BY <2>2, <2>3
  <2> QED  BY <2>1, <2>4, <2>5
<1>9. ASSUME NEW i \in 1..L, i # 1
      PROVE  /\ i - 1 \in 1..L
             /\ periods[i].start > periods[i - 1].end + 1
             /\ day[periods[i].start].ids # day[periods[i - 1].end].ids
  <2>1. i \in 2..L /\ i - 1 \in 1..L
    BY <1>5, <1>9
  <2>2. a[i] = z[i - 1] + 1 /\ ~Joins(s[z[i - 1]], s[a[i]])
    BY <1>4, <2>1 DEF Groups, L
  <2> DEFINE e == z[i - 1]  b == a[i]
  <2>3. e \in 1..n /\ b \in 1..n /\ e < b
    BY <1>6, <2>1, <2>2
  <2>4. periods[i].start = s[b].date /\ periods[i - 1].end = s[e].date
    BY <1>6, <2>1 DEF PeriodTells
  <2>5. ~Joins(s[e], s[b])
    BY <2>2
  <2> HIDE DEF e, b
  <2>6. s[e].date \in Int /\ s[b].date \in Int /\ s[e] = day[s[e].date] /\ s[b] = day[s[b].date]
    BY <1>1, <2>3 DEF Dated
  <2>7. s[e].date < s[b].date
    BY <1>1, <2>3 DEF Dated
  <2>8. s[b].date > s[e].date + 1
    BY <2>5, <2>6, <2>7 DEF Joins
  <2> QED  BY <2>1, <2>4, <2>5, <2>6, <2>8 DEF Joins
<1>10. Tell(D, day, periods)
  <2>1. \A p \in Range(periods) : \E i \in 1..L : p = periods[i]
    BY <1>5 DEF Range
  <2>2. \A i \in 1..L : periods[i] \in Range(periods)
    BY <1>5 DEF Range
  <2> QED  BY <1>5, <1>7, <1>8, <1>9, <2>1, <2>2 DEF Tell
<1> QED  BY <1>10 DEF periods, G, F

-----------------------------------------------------------------------------
(* The periods that are stored.                                               *)

\* prepare() loads what the days of a range need.
LEMMA LoadedIsEnough ==
  ASSUME NEW cal, CalendarTyped(cal), NEW from \in Int, NEW to \in Int, NEW d \in from..to
  PROVE  /\ available_minutes(Loaded(cal, from, to), d) = available_minutes(cal, d)
         /\ \A percent : demand_minutes(Loaded(cal, from, to), d, percent) = demand_minutes(cal, d, percent)
<1> DEFINE known == Loaded(cal, from, to)
           days == {e \in DOMAIN cal.holidays : from <= e /\ e <= to}
<1>1. /\ known.levels = cal.levels /\ known.default = cal.default /\ known.absences = cal.absences
      /\ known.holidays = Restrict(cal.holidays, days)
  <2>1. known = [cal EXCEPT !.holidays = Restrict(cal.holidays, days)]
    BY DEF Loaded
  <2> HIDE DEF days
  <2> QED  BY <2>1 DEF CalendarTyped
<1>2. d \in DOMAIN known.holidays <=> d \in DOMAIN cal.holidays
  BY <1>1 DEF Restrict
<1>3. d \in DOMAIN cal.holidays => known.holidays[d] = cal.holidays[d]
  BY <1>1, <1>2 DEF Restrict
<1> HIDE DEF known, days
<1>4. profile_for(known, d) = profile_for(cal, d)
  BY <1>1 DEF profile_for
<1>5. calendar_minutes(known, d) = calendar_minutes(cal, d)
  BY <1>2, <1>3, <1>4 DEF calendar_minutes
<1>6. absence_percent(known, d) = absence_percent(cal, d)
  BY <1>1 DEF absence_percent
<1>7. available_minutes(known, d) = available_minutes(cal, d)
  BY <1>5, <1>6 DEF available_minutes
<1>8. \A percent : demand_minutes(known, d, percent) = demand_minutes(cal, d, percent)
  BY <1>5 DEF demand_minutes, is_working_day
<1> QED  BY <1>7, <1>8 DEF known

\* PeriodsTellTheDays, of one period and the days `D`.
PeriodTellsOfPeople(cal, bookings, D, p) ==
  LET Over(d) == PersonDay(cal, bookings, d).assigned - PersonDay(cal, bookings, d).available
  IN /\ {p.start, p.end} \subseteq D
     /\ p.ids = UNION {Covering(bookings, d, d) : d \in DaysOf(D, p)}
     /\ p.assigned = Max({PersonDay(cal, bookings, d).assigned : d \in DaysOf(D, p)})
     /\ \E d \in DaysOf(D, p) : p.available = PersonDay(cal, bookings, d).available
                               /\ \A e \in DaysOf(D, p) : Over(e) <= Over(d)
     /\ \A d \in DaysOf(D, p) \ {p.end} :
          \/ Following(d, D) = d + 1
          \/ Covering(bookings, Following(d, D), Following(d, D)) = Covering(bookings, d, d)

(* The periods that are stored of a person's conflicts (_personal_periods,    *)
(* conflict_service.py): for every calendar and all bookings they tell the    *)
(* overbooked days apart.                                                     *)
THEOREM PeriodsAreTold ==
  ASSUME NEW cal, CalendarTyped(cal), NEW bookings, BookingsAreSpans(bookings),
         \A i \in Ids(bookings) : bookings[i].percent \in Nat
  PROVE  PeriodsTellTheDays(cal, bookings)
<1> DEFINE from == Min(Starts(bookings))  to == Max(Ends(bookings))
           known == Loaded(cal, from, to)
           D == OverbookedDays(cal, bookings)
           day == [d \in D |-> FoundOn(cal, bookings, d)]
           F == {day[d] : d \in D}
           G == Grouped(F)
           periods == [i \in DOMAIN G |-> PersonalPeriod(G[i])]
<1>1. from \in Int /\ to \in Int /\ Span(bookings) = from..to
  <2>1. from \in Int /\ to \in Int
    BY BoundsAreFinite, Extremes
  <2> QED  BY <2>1 DEF Span
<1>2. D \in SUBSET Int /\ IsFiniteSet(D)
  <2>1. D \in SUBSET (from..to)
    BY <1>1 DEF OverbookedDays
  <2> HIDE DEF D, from, to
  <2>2. IsFiniteSet(from..to)
    BY <1>1, FS_Interval
  <2>3. IsFiniteSet(D)
    BY <2>1, <2>2, FS_Subset
  <2> QED  BY <1>1, <2>1, <2>3
<1>3. ASSUME NEW d \in D
      PROVE  /\ day[d] = FoundOn(cal, bookings, d) /\ day[d].date = d /\ day[d].ids = Covering(bookings, d, d)
             /\ day[d].available = PersonDay(cal, bookings, d).available
             /\ day[d].assigned = PersonDay(cal, bookings, d).assigned
             /\ day[d].assigned \in Int /\ day[d].available \in Int
  <2>1. d \in Int
    BY <1>2
  <2>2. PersonDay(cal, bookings, d).available \in Nat /\ PersonDay(cal, bookings, d).assigned \in Nat
    BY <2>1, DaysAreTyped
  <2> QED  BY <2>2 DEF FoundOn, PersonDay
<1>4. ConflictDays(known, bookings) = F
  <2>1. ConflictDays(known, bookings) = {FoundOn(known, bookings, d) : d \in OverbookedDays(known, bookings)}
    BY FoundDays
  <2>2. ASSUME NEW d \in Span(bookings)
        PROVE  /\ FoundOn(known, bookings, d) = FoundOn(cal, bookings, d)
               /\ OverbookedOn(known, bookings, d) <=> OverbookedOn(cal, bookings, d)
    <3>1. d \in from..to
      BY <1>1
    <3> HIDE DEF from, to
    <3>2. /\ available_minutes(known, d) = available_minutes(cal, d)
          /\ \A percent : demand_minutes(known, d, percent) = demand_minutes(cal, d, percent)
      BY <1>1, <3>1, LoadedIsEnough
    <3> HIDE DEF known
    <3>3. FoundOn(known, bookings, d) = FoundOn(cal, bookings, d)
      BY <3>2 DEF FoundOn
    <3>4. PersonDay(known, bookings, d) = PersonDay(cal, bookings, d)
      BY <3>2 DEF PersonDay
    <3> QED  BY <3>3, <3>4 DEF OverbookedOn
  <2> HIDE DEF known
  <2>3. OverbookedDays(known, bookings) = D /\ \A d \in D : d \in Span(bookings)
    BY <2>2 DEF OverbookedDays
  <2> QED  BY <1>3, <2>1, <2>2, <2>3
<1>5. PersonalPeriods(cal, bookings) = periods
  <2>1. bookings # <<>>
    BY DEF BookingsAreSpans, Ids
  <2> HIDE DEF F
  <2> QED  BY <1>4, <2>1 DEF PersonalPeriods
<1>6. Tell(D, day, periods)
  <2> HIDE DEF D, day
  <2> QED  BY <1>2, <1>3, PeriodsTell
<1> HIDE DEF periods
<1>7. D = {d \in Span(bookings) : OverbookedOn(cal, bookings, d)}
  BY DEF OverbookedDays
<1> HIDE DEF day, D
<1>8. ASSUME NEW d \in D
      PROVE  \E p \in Range(periods) : d \in DaysOf(D, p)
  BY <1>6 DEF Tell
<1>9. ASSUME NEW p \in Range(periods)
      PROVE  PeriodTellsOfPeople(cal, bookings, D, p)
  <2> DEFINE O == DaysOf(D, p)  Over(d) == PersonDay(cal, bookings, d).assigned - PersonDay(cal, bookings, d).available
  <2>1. PeriodTellsOf(D, day, p)
    BY <1>6 DEF Tell
  <2>2. \A d \in O : d \in D /\ d \in Int
    BY <1>2 DEF DaysOf
  <2>3. {p.start, p.end} \subseteq D
    BY <2>1 DEF PeriodTellsOf
  <2> HIDE DEF O
  <2>4. p.ids = UNION {Covering(bookings, d, d) : d \in O}
    <3>1. {day[d].ids : d \in O} = {Covering(bookings, d, d) : d \in O}
      BY <1>3, <2>2
    <3> QED  BY <2>1, <3>1 DEF PeriodTellsOf, O
  <2>5. p.assigned = Max({PersonDay(cal, bookings, d).assigned : d \in O})
    <3>1. {day[d].assigned : d \in O} = {PersonDay(cal, bookings, d).assigned : d \in O}
      BY <1>3, <2>2
    <3> QED  BY <2>1, <3>1 DEF PeriodTellsOf, O
  <2>6. \E d \in O : p.available = PersonDay(cal, bookings, d).available /\ \A e \in O : Over(e) <= Over(d)
    <3>1. PICK d \in O : /\ p.available = day[d].available
                         /\ \A e \in O : day[e].assigned - day[e].available <= day[d].assigned - day[d].available
      BY <2>1 DEF PeriodTellsOf, O
    <3>2. \A e \in O : Over(e) = day[e].assigned - day[e].available
      BY <1>3, <2>2
    <3>3. p.available = PersonDay(cal, bookings, d).available
      BY <1>3, <2>2, <3>1
    <3>4. \A e \in O : Over(e) <= Over(d)
      BY <3>1, <3>2
    <3> HIDE DEF Over
    <3> QED  BY <3>3, <3>4
  <2>7. ASSUME NEW d \in O, d # p.end
        PROVE  Following(d, D) = d + 1 \/ Covering(bookings, Following(d, D), Following(d, D)) = Covering(bookings, d, d)
    <3>1. d \in D /\ d \in Int /\ p.end \in D /\ p.end \in Int /\ d <= p.end
      BY <1>2, <2>2, <2>3 DEF O, DaysOf
    <3>2. p.end > d
      BY <2>7, <3>1
    <3>3. Following(d, D) \in D
      BY <1>2, <3>1, <3>2, FollowingIs
    <3>4. Following(d, D) = d + 1 \/ day[Following(d, D)].ids = day[d].ids
      BY <2>1, <2>7 DEF PeriodTellsOf, O
    <3> QED  BY <1>3, <3>1, <3>3, <3>4
  <2> QED  BY <2>3, <2>4, <2>5, <2>6, <2>7 DEF PeriodTellsOfPeople, O
<1>10. ASSUME NEW i \in DOMAIN periods \ {1}
       PROVE  /\ periods[i].start > periods[i - 1].end + 1
              /\ Covering(bookings, periods[i].start, periods[i].start)
                   # Covering(bookings, periods[i - 1].end, periods[i - 1].end)
  <2>1. periods[i] \in Range(periods) /\ periods[i - 1] \in Range(periods)
    BY <1>6 DEF Tell, Range
  <2>2. periods[i].start \in D /\ periods[i - 1].end \in D
    BY <1>6, <2>1 DEF Tell, PeriodTellsOf
  <2>3. /\ periods[i].start > periods[i - 1].end + 1
        /\ day[periods[i].start].ids # day[periods[i - 1].end].ids
    BY <1>6 DEF Tell
  <2> QED  BY <1>3, <2>2, <2>3
<1>11. /\ \A d \in D : \E p \in Range(periods) : d \in DaysOf(D, p)
       /\ \A p \in Range(periods) : PeriodTellsOfPeople(cal, bookings, D, p)
       /\ \A i \in DOMAIN periods \ {1} :
            /\ periods[i].start > periods[i - 1].end + 1
            /\ Covering(bookings, periods[i].start, periods[i].start)
                 # Covering(bookings, periods[i - 1].end, periods[i - 1].end)
  BY <1>8, <1>9, <1>10
<1> QED  BY <1>5, <1>7, <1>11 DEF PeriodsTellTheDays, PeriodTellsOfPeople, DaysOf

-----------------------------------------------------------------------------
(* The overlaps of a machine.                                                 *)

\* Machine bookings: some, and each ends after it begins.
BookingsTakeTime(bookings) ==
  /\ IsFiniteSet(Ids(bookings)) /\ Ids(bookings) # {}
  /\ \A i \in Ids(bookings) : bookings[i].start \in Int /\ bookings[i].end \in Int
                              /\ bookings[i].start < bookings[i].end

\* The clock of the zone may be put back, but not across midnight.
ZoneType == [change : Int, before : Int, after : Int]
DatesDoNotFallBack(zone) ==
  /\ zone \in ZoneType
  /\ local_date(zone, zone.change - 1) <= local_date(zone, zone.change)

\* Later readings of a clock have later or equal dates.
LEMMA DivMonotone ==
  ASSUME NEW D \in Nat \ {0}, NEW a \in Int, NEW b \in Int, a <= b
  PROVE  a \div D \in Int /\ b \div D \in Int /\ a \div D <= b \div D
<1> DEFINE p == a \div D  q == b \div D  r == a % D  s == b % D
<1>1. p \in Int /\ q \in Int /\ r \in 0..(D-1) /\ s \in 0..(D-1)
  OBVIOUS
<1>2. a = D * p + r /\ b = D * q + s
  OBVIOUS
<1> HIDE DEF p, q, r, s
<1>3. ASSUME p > q PROVE FALSE
  <2>1. p - q \in Nat /\ p - q >= 1
    BY <1>1, <1>3
  <2>2. D * (p - q) >= D
    BY <2>1
  <2>3. D * (p - q) = D * p - D * q
    BY <1>1
  <2>4. D * p \in Int /\ D * q \in Int
    BY <1>1
  <2> QED  BY <1>1, <1>2, <2>2, <2>3, <2>4
<1> QED  BY <1>1, <1>3 DEF p, q

\* So have later instants, when the change itself does not go back a date.
LEMMA DatesGoForward ==
  ASSUME NEW zone, DatesDoNotFallBack(zone), NEW i \in Int, NEW j \in Int, i <= j
  PROVE  local_date(zone, i) \in Int /\ local_date(zone, j) \in Int
         /\ local_date(zone, i) <= local_date(zone, j)
<1> DEFINE D == MINUTES_PER_DAY
           date(x) == x \div D
           c == zone.change  b == zone.before  a == zone.after
<1>1. D \in Nat \ {0} /\ c \in Int /\ b \in Int /\ a \in Int
  BY DayAssumption DEF DatesDoNotFallBack, ZoneType
<1>2. \A k \in Int : /\ k < c => local_date(zone, k) = date(k + b)
                     /\ k >= c => local_date(zone, k) = date(k + a)
  BY <1>1 DEF local_date, local_time
<1>3. date((c - 1) + b) <= date(c + a)
  <2>1. local_date(zone, c - 1) <= local_date(zone, c)
    BY DEF DatesDoNotFallBack
  <2> HIDE DEF a, b, c, D, date
  <2>2. c - 1 \in Int /\ c - 1 < c /\ c >= c
    BY <1>1
  <2>3. local_date(zone, c - 1) = date((c - 1) + b)
    BY <1>2, <2>2
  <2>4. local_date(zone, c) = date(c + a)
    BY <1>1, <1>2, <2>2
  <2> QED  BY <2>1, <2>3, <2>4
<1> HIDE DEF a, b, c, D, date
<1>4. \A x, y \in Int : x <= y => date(x) \in Int /\ date(y) \in Int /\ date(x) <= date(y)
  <2>1. D \in Nat \ {0}
    BY <1>1
  <2> HIDE DEF D
  <2> QED  BY <2>1, DivMonotone DEF date
<1>5. i + a \in Int /\ i + b \in Int /\ j + a \in Int /\ j + b \in Int /\ c - 1 + b \in Int /\ c + a \in Int
  BY <1>1
<1>6. CASE j < c
  <2>1. i < c /\ i + b <= j + b
    BY <1>1, <1>6
  <2>2. local_date(zone, i) = date(i + b)
    BY <1>2, <2>1
  <2>3. local_date(zone, j) = date(j + b)
    BY <1>2, <1>6
  <2> QED  BY <1>4, <1>5, <2>1, <2>2, <2>3
<1>7. CASE i >= c
  <2>1. j >= c /\ i + a <= j + a
    BY <1>1, <1>7
  <2>2. local_date(zone, i) = date(i + a)
    BY <1>2, <1>7
  <2>3. local_date(zone, j) = date(j + a)
    BY <1>2, <2>1
  <2> QED  BY <1>4, <1>5, <2>1, <2>2, <2>3
<1>8. CASE i < c /\ j >= c
  <2>3. local_date(zone, i) = date(i + b)
    BY <1>2, <1>8
  <2>4. local_date(zone, j) = date(j + a)
    BY <1>2, <1>8
  <2>5. i + b <= c - 1 + b /\ c + a <= j + a
    BY <1>1, <1>8
  <2>1. /\ local_date(zone, i) = date(i + b) /\ local_date(zone, j) = date(j + a)
        /\ i + b <= c - 1 + b /\ c + a <= j + a
    BY <2>3, <2>4, <2>5
  <2>2. /\ date(i + b) <= date(c - 1 + b) /\ date(c + a) <= date(j + a)
        /\ date(i + b) \in Int /\ date(j + a) \in Int
        /\ date(c - 1 + b) \in Int /\ date(c + a) \in Int
    BY <1>4, <1>5, <2>1
  <2> QED  BY <1>3, <2>1, <2>2
<1> QED  BY <1>1, <1>6, <1>7, <1>8

\* A stretch ends at a later moment.
LEMMA StretchEnds ==
  ASSUME NEW M \in SUBSET Int, IsFiniteSet(M), NEW m \in M, m # Max(M)
  PROVE  /\ Following(m, M) \in M /\ Following(m, M) \in Int /\ Following(m, M) > m
         /\ \A y \in M : y > m => Following(m, M) <= y
<1>1. M # {}
  OBVIOUS
<1>2. Max(M) \in M /\ \A y \in M : y <= Max(M)
  BY <1>1, Extremes
<1>3. m \in Int /\ Max(M) \in Int /\ m <= Max(M)
  BY <1>2
<1>4. Max(M) > m
  BY <1>3
<1>5. /\ Following(m, M) \in M /\ Following(m, M) > m
      /\ \A y \in M : y > m => Following(m, M) <= y
  BY <1>2, <1>3, <1>4, FollowingIs
<1> QED  BY <1>5

\* Between two moments the same bookings hold the machine.
LEMMA StretchHasOneCrowd ==
  ASSUME NEW bookings, BookingsTakeTime(bookings),
         NEW m \in Starts(bookings) \cup Ends(bookings),
         m # Max(Starts(bookings) \cup Ends(bookings)),
         NEW i \in m..(Following(m, Starts(bookings) \cup Ends(bookings)) - 1)
  PROVE  ActiveAfter(bookings, m) = Holders(bookings, i) /\ i \in Horizon(bookings)
<1> DEFINE M == Starts(bookings) \cup Ends(bookings)  next == Following(m, M)
<1>1. BookingsAreSpans(bookings)
  BY DEF BookingsTakeTime, BookingsAreSpans
<1>2. /\ Starts(bookings) \in SUBSET Int /\ IsFiniteSet(Starts(bookings)) /\ Starts(bookings) # {}
      /\ Ends(bookings) \in SUBSET Int /\ IsFiniteSet(Ends(bookings)) /\ Ends(bookings) # {}
  BY <1>1, BoundsAreFinite
<1>3. M \in SUBSET Int /\ IsFiniteSet(M) /\ M # {} /\ m \in M
  BY <1>2, FS_Union
<1>4. next \in M /\ next > m /\ (\A y \in M : y > m => next <= y)
  <2>1. m # Max(M)
    BY DEF M
  <2> HIDE DEF M
  <2> QED  BY <1>3, <2>1, StretchEnds
<1>5. m \in Int /\ next \in Int /\ i \in Int /\ m <= i /\ i < next
  <2>1. m \in Int /\ next \in Int
    BY <1>3, <1>4
  <2> HIDE DEF next
  <2>2. i \in m..(next - 1)
    BY DEF next
  <2> QED  BY <2>1, <2>2
<1>6. ASSUME NEW k \in Ids(bookings)
      PROVE  /\ bookings[k].start \in M /\ bookings[k].end \in M
             /\ bookings[k].start \in Int /\ bookings[k].end \in Int
             /\ bookings[k].start < bookings[k].end
  BY DEF Starts, Ends, BookingsTakeTime
<1>7. ActiveAfter(bookings, m) = Holders(bookings, i)
  <2> HIDE DEF M, next
  <2>1. ASSUME NEW k \in Ids(bookings)
        PROVE  (/\ bookings[k].start <= m
                /\ bookings[k].end <= m => bookings[k].end <= bookings[k].start)
               <=> bookings[k].start <= i /\ i < bookings[k].end
    <3> DEFINE s == bookings[k].start  e == bookings[k].end
    <3>1. s \in Int /\ e \in Int /\ s < e /\ (s > m => next <= s) /\ (e > m => next <= e)
      BY <1>4, <1>6
    <3> HIDE DEF s, e
    <3> QED  BY <1>5, <3>1 DEF s, e
  <2> QED  BY <2>1 DEF ActiveAfter, Holders
<1>8. i \in Horizon(bookings)
  <2>1. /\ Min(Starts(bookings)) \in Starts(bookings) /\ \A y \in Starts(bookings) : Min(Starts(bookings)) <= y
        /\ Max(Ends(bookings)) \in Ends(bookings) /\ \A y \in Ends(bookings) : y <= Max(Ends(bookings))
    BY <1>2, Extremes
  <2> DEFINE lo == Min(Starts(bookings))  hi == Max(Ends(bookings))
  <2>2. lo \in Int /\ hi \in Int
    BY <1>2, <2>1
  <2>3. \A y \in M : lo <= y /\ y <= hi
    <3>1. ASSUME NEW k \in Ids(bookings)
          PROVE  lo <= bookings[k].start /\ bookings[k].end <= hi
      BY <2>1 DEF Starts, Ends
    <3>2. ASSUME NEW k \in Ids(bookings)
          PROVE  lo <= bookings[k].start /\ bookings[k].start <= hi
                 /\ lo <= bookings[k].end /\ bookings[k].end <= hi
      <4>1. lo <= bookings[k].start /\ bookings[k].end <= hi
        BY <3>1
      <4> HIDE DEF lo, hi
      <4> QED  BY <1>6, <2>2, <4>1
    <3> HIDE DEF lo, hi
    <3> QED  BY <3>2 DEF Starts, Ends
  <2> HIDE DEF M, next
  <2>4. lo <= m /\ next <= hi
    BY <1>3, <1>4, <2>3
  <2>5. Horizon(bookings) = lo..(hi - 1)
    BY DEF Horizon
  <2> HIDE DEF lo, hi
  <2> QED  BY <1>5, <2>2, <2>4, <2>5
<1> QED  BY <1>7, <1>8

\* Every instant of the bookings lies in a stretch.
LEMMA InstantsLieInStretches ==
  ASSUME NEW bookings, BookingsTakeTime(bookings), NEW i \in Horizon(bookings)
  PROVE  \E m \in Starts(bookings) \cup Ends(bookings) :
            /\ m # Max(Starts(bookings) \cup Ends(bookings))
            /\ i \in m..(Following(m, Starts(bookings) \cup Ends(bookings)) - 1)
<1> DEFINE M == Starts(bookings) \cup Ends(bookings)  L == {y \in M : y <= i}
           lo == Min(Starts(bookings))  hi == Max(Ends(bookings))
<1>1. BookingsAreSpans(bookings)
  BY DEF BookingsTakeTime, BookingsAreSpans
<1>2. /\ Starts(bookings) \in SUBSET Int /\ IsFiniteSet(Starts(bookings)) /\ Starts(bookings) # {}
      /\ Ends(bookings) \in SUBSET Int /\ IsFiniteSet(Ends(bookings)) /\ Ends(bookings) # {}
  BY <1>1, BoundsAreFinite
<1>3. M \in SUBSET Int /\ IsFiniteSet(M) /\ M # {}
  BY <1>2, FS_Union
<1>4. lo \in M /\ hi \in M /\ lo \in Int /\ hi \in Int
  BY <1>2, Extremes
<1>5. i \in Int /\ lo <= i /\ i < hi
  <2>1. i \in lo..(hi - 1)
    BY DEF Horizon
  <2> HIDE DEF lo, hi
  <2> QED  BY <1>4, <2>1
<1> HIDE DEF M, lo, hi
<1>6. L \in SUBSET Int /\ L # {} /\ IsFiniteSet(L)
  BY <1>3, <1>4, <1>5, FS_Subset
<1> DEFINE m == Max(L)
<1>7. m \in L /\ \A y \in L : y <= m
  <2> HIDE DEF L
  <2> QED  BY <1>6, Extremes
<1>8. m \in M /\ m \in Int /\ m <= i
  <2> HIDE DEF m
  <2> QED  BY <1>3, <1>7
<1> HIDE DEF m
<1>9. Max(M) \in Int /\ Max(M) >= hi
  BY <1>3, <1>4, Extremes
<1>10. m # Max(M)
  BY <1>4, <1>5, <1>8, <1>9
<1>11. Following(m, M) \in M /\ Following(m, M) > m
  <2>1. hi > m
    BY <1>4, <1>5, <1>8
  <2> QED  BY <1>3, <1>4, <1>8, <2>1, FollowingIs
<1>12. Following(m, M) \in Int
  BY <1>3, <1>11
<1>13. Following(m, M) > i
  <2>1. Following(m, M) <= i => Following(m, M) <= m
    BY <1>7, <1>11
  <2> QED  BY <1>5, <1>8, <1>11, <1>12, <2>1
<1>14. i \in m..(Following(m, M) - 1)
  BY <1>5, <1>8, <1>12, <1>13
<1> QED  BY <1>8, <1>10, <1>14 DEF M

(* detect_infrastructure_overlaps (conflict_service.py) reports exactly the   *)
(* bookings that hold a machine at once, however many there are and however   *)
(* they lie, in any zone whose clock is not put back across midnight.         *)
THEOREM OverlapsAreExact ==
  ASSUME NEW zone, DatesDoNotFallBack(zone), NEW bookings, BookingsTakeTime(bookings)
  PROVE  OverlapsAreShared(zone, bookings)
<1> DEFINE M == Starts(bookings) \cup Ends(bookings)
           Crowded(m) == m # Max(M) /\ Cardinality(ActiveAfter(bookings, m)) > 1
           Period(m) ==
             [cause |-> "booking_overlap", start |-> local_date(zone, m),
              end |-> local_date(zone, Following(m, M) - 1),
              assigned |-> 100 * Cardinality(ActiveAfter(bookings, m)), available |-> 100,
              ids |-> ActiveAfter(bookings, m)]
           periods == Range(infrastructure_overlaps(zone, bookings))
           Crowd(i) == Cardinality(Holders(bookings, i)) > 1
           On(p, i) == LET d == local_date(zone, i) IN p.start <= d /\ d <= p.end
<1>1. periods = {Period(m) : m \in {n \in M : Crowded(n)}}
  <2>1. infrastructure_overlaps(zone, bookings) = [m \in {n \in M : Crowded(n)} |-> Period(m)]
    BY DEF infrastructure_overlaps
  <2> HIDE DEF M, Crowded, Period
  <2> QED  BY <2>1 DEF Range
<1>2. M \in SUBSET Int /\ IsFiniteSet(M)
  <2>1. BookingsAreSpans(bookings)
    BY DEF BookingsTakeTime, BookingsAreSpans
  <2> QED  BY <2>1, BoundsAreFinite, FS_Union
<1>3. ASSUME NEW i \in Horizon(bookings), Crowd(i)
      PROVE  \E p \in periods : On(p, i) /\ p.ids = Holders(bookings, i)
  <2>1. PICK m \in M : m # Max(M) /\ i \in m..(Following(m, M) - 1)
    BY InstantsLieInStretches
  <2>2. ActiveAfter(bookings, m) = Holders(bookings, i)
    BY <2>1, StretchHasOneCrowd
  <2>3. Period(m) \in periods
    BY <1>1, <1>3, <2>1, <2>2
  <2>4. m \in Int /\ i \in Int /\ m <= i
    BY <1>2, <2>1
  <2>5. Following(m, M) - 1 \in Int /\ i <= Following(m, M) - 1
    <3>1. Following(m, M) \in Int
      BY <1>2, <2>1, StretchEnds
    <3> QED  BY <2>1, <3>1
  <2>6. On(Period(m), i)
    BY <2>4, <2>5, DatesGoForward
  <2> QED  BY <2>2, <2>3, <2>6
<1>4. ASSUME NEW p \in periods, NEW day \in {p.start, p.end}
      PROVE  \E i \in Horizon(bookings) :
               local_date(zone, i) = day /\ Crowd(i) /\ p.ids = Holders(bookings, i)
  <2>1. PICK m \in M : Crowded(m) /\ p = Period(m)
    BY <1>1
  <2> SUFFICES \E i \in m..(Following(m, M) - 1) : local_date(zone, i) = day
    BY <2>1, StretchHasOneCrowd
  <2>2. Following(m, M) \in Int /\ m \in Int /\ Following(m, M) > m
    BY <1>2, <2>1, StretchEnds
  <2>3. /\ m \in m..(Following(m, M) - 1)
        /\ Following(m, M) - 1 \in m..(Following(m, M) - 1)
    <3> HIDE DEF M
    <3> QED  BY <2>2
  <2>4. p.start = local_date(zone, m) /\ p.end = local_date(zone, Following(m, M) - 1)
    BY <2>1
  <2> HIDE DEF M
  <2> QED  BY <2>3, <2>4
<1> QED  BY <1>3, <1>4 DEF OverlapsAreShared

-----------------------------------------------------------------------------
(* Spans that meet become one (WorkingTime!Merged).                           *)

SpansTyped(spans) == IsFiniteSet(spans) /\ spans \in SUBSET (Int \X Int)

Sooner(s, t) == s[1] < t[1] \/ (s[1] = t[1] /\ s[2] < t[2])
InLine(spans) == Ranked(spans, LAMBDA s, t : s[1] < t[1] \/ (s[1] = t[1] /\ s[2] < t[2]))

\* Spans are taken in the order of their starts.
LEMMA SpansInLine ==
  ASSUME NEW spans, SpansTyped(spans)
  PROVE  /\ Cardinality(spans) \in Nat
         /\ InLine(spans) \in [1..Cardinality(spans) -> spans]
         /\ \A i, j \in 1..Cardinality(spans) : i < j => InLine(spans)[i][1] <= InLine(spans)[j][1]
         /\ \A w \in spans : \E i \in 1..Cardinality(spans) : InLine(spans)[i] = w
<1> DEFINE R == {p \in spans \X spans : Sooner(p[1], p[2])}
           N == Cardinality(spans)
           s == InLine(spans)
<1>1. \A d, e \in spans : <<d, e>> \in R <=> Sooner(d, e)
  OBVIOUS
<1>2. N \in Nat
  BY FS_CardinalityType DEF SpansTyped
<1>3. s = InOrder(spans, R)
  <2> DEFINE below(x) == {y \in spans : Sooner(y, x)}
             e(k) == CHOOSE x \in spans : Cardinality(below(x)) = k - 1
             g(k) == CHOOSE x \in spans : Cardinality({y \in spans : <<y, x>> \in R}) = k - 1
  <2>1. s = [k \in 1..N |-> e(k)]
    BY DEF InLine, Ranked, Rank, Sooner
  <2>2. InOrder(spans, R) = [k \in 1..N |-> g(k)]
    BY DEF InOrder
  <2>3. \A x \in spans : below(x) = {y \in spans : <<y, x>> \in R}
    BY <1>1
  <2>4. \A k \in 1..N : e(k) = g(k)
    <3> HIDE DEF R, below
    <3> TAKE k \in 1..N
    <3>1. \A x \in spans : Cardinality(below(x)) = k - 1
                       <=> Cardinality({y \in spans : <<y, x>> \in R}) = k - 1
      BY <2>3
    <3> QED  BY <3>1
  <2> HIDE DEF e, g, s
  <2> QED  BY <2>1, <2>2, <2>4
<1>4. OrdersAll(spans, R)
  <2>1. \A w \in spans : w[1] \in Int /\ w[2] \in Int /\ w = <<w[1], w[2]>>
    BY DEF SpansTyped
  <2>2. /\ \A x \in spans : ~Sooner(x, x)
        /\ \A x, y, z \in spans : Sooner(x, y) /\ Sooner(y, z) => Sooner(x, z)
    BY <2>1 DEF Sooner
  <2>3. \A x, y \in spans : x # y => Sooner(x, y) \/ Sooner(y, x)
    <3> TAKE x, y \in spans
    <3>1. x # y => x[1] # y[1] \/ x[2] # y[2]
      BY <2>1
    <3> QED  BY <2>1, <3>1 DEF Sooner
  <2> HIDE DEF R
  <2> QED  BY <1>1, <2>2, <2>3 DEF OrdersAll
<1> HIDE DEF R
<1>5. /\ s \in [1..N -> spans]
      /\ \A i, j \in 1..N : i < j <=> <<s[i], s[j]>> \in R
      /\ \A d \in spans : \E i \in 1..N : s[i] = d
  BY <1>3, <1>4, RanksOrder DEF SpansTyped
<1>6. \A i, j \in 1..N : i < j => s[i][1] <= s[j][1]
  <2> TAKE i, j \in 1..N
  <2>1. s[i] \in spans /\ s[j] \in spans
    BY <1>5
  <2>2. s[i][1] \in Int /\ s[j][1] \in Int
    BY <2>1 DEF SpansTyped
  <2> HIDE DEF s
  <2>3. i < j => <<s[i], s[j]>> \in R
    BY <1>5
  <2>4. <<s[i], s[j]>> \in R => Sooner(s[i], s[j])
    BY <1>1, <2>1
  <2> QED  BY <2>2, <2>3, <2>4 DEF Sooner
<1> QED  BY <1>2, <1>5, <1>6

\* A span goes on with the last one or begins a new one.
MergeStep(merged, s) ==
  IF merged # <<>> /\ s[1] <= Last(merged)[2]
  THEN Front(merged) \o << <<Last(merged)[1], Max({Last(merged)[2], s[2]})>> >>
  ELSE Append(merged, s)

\* The last of merged spans is a span.
LEMMA LastSpan ==
  ASSUME NEW merged \in Seq(Int \X Int), merged # <<>>
  PROVE  /\ Len(merged) \in Nat /\ Len(merged) >= 1
         /\ Last(merged) = merged[Len(merged)] /\ Last(merged) \in Int \X Int
<1>1. Len(merged) \in Nat /\ Len(merged) >= 1
  OBVIOUS
<1> QED  BY <1>1 DEF Last

\* What a span leaves are spans.
LEMMA MergeStepIs ==
  ASSUME NEW merged \in Seq(Int \X Int), NEW s \in Int \X Int
  PROVE  LET n == Len(merged)
             next == MergeStep(merged, s)
         IN /\ next \in Seq(Int \X Int)
            /\ merged # <<>> /\ s[1] <= merged[n][2] =>
                 /\ Len(next) = n
                 /\ \A i \in 1..n : next[i] = IF i = n THEN <<merged[n][1], IF merged[n][2] <= s[2] THEN s[2] ELSE merged[n][2]>>
                                              ELSE merged[i]
            /\ ~(merged # <<>> /\ s[1] <= merged[n][2]) =>
                 /\ Len(next) = n + 1
                 /\ \A i \in 1..(n + 1) : next[i] = IF i = n + 1 THEN s ELSE merged[i]
<1> DEFINE n == Len(merged)  next == MergeStep(merged, s)  T == Int \X Int
           longer == <<Last(merged)[1], Max({Last(merged)[2], s[2]})>>
<1>1. ASSUME merged # <<>>, s[1] <= merged[n][2]
      PROVE  /\ next \in Seq(T) /\ Len(next) = n
             /\ \A i \in 1..n : next[i] = IF i = n THEN <<merged[n][1], IF merged[n][2] <= s[2] THEN s[2] ELSE merged[n][2]>>
                                              ELSE merged[i]
  <2>1. n \in Nat /\ n >= 1 /\ Last(merged) = merged[n] /\ merged[n] \in T
    BY <1>1, LastSpan
  <2>2. merged[n][1] \in Int /\ merged[n][2] \in Int /\ s[2] \in Int
    BY <2>1
  <2>3. longer = <<merged[n][1], IF merged[n][2] <= s[2] THEN s[2] ELSE merged[n][2]>>
    BY <2>1, <2>2, MaxOfTwo
  <2>4. longer \in T
    BY <2>2, <2>3
  <2> HIDE DEF T, longer
  <2>5. /\ Front(merged) \o <<longer>> \in Seq(T) /\ Len(Front(merged) \o <<longer>>) = n
        /\ \A i \in 1..n : (Front(merged) \o <<longer>>)[i] = IF i = n THEN longer ELSE merged[i]
    <3>1. merged \in Seq(T)
      BY DEF T
    <3> QED  BY <1>1, <2>4, <3>1, NewLast
  <2>6. next = Front(merged) \o <<longer>>
    BY <1>1, <2>1 DEF MergeStep, longer
  <2> QED  BY <2>3, <2>5, <2>6
<1>2. ASSUME ~(merged # <<>> /\ s[1] <= merged[n][2])
      PROVE  /\ next \in Seq(T) /\ Len(next) = n + 1
             /\ \A i \in 1..(n + 1) : next[i] = IF i = n + 1 THEN s ELSE merged[i]
  <2>1. next = Append(merged, s)
    <3>1. CASE merged = <<>>
      BY <3>1 DEF MergeStep
    <3>2. CASE merged # <<>>
      BY <1>2, <3>2, LastSpan DEF MergeStep
    <3> QED  BY <3>1, <3>2
  <2> HIDE DEF next
  <2> QED  BY <2>1
<1> QED  BY <1>1, <1>2

\* Merged takes the spans one by one.
LEMMA MergedByOne ==
  ASSUME NEW spans, SpansTyped(spans)
  PROVE  \E g : /\ g[0] = <<>> /\ Merged(spans) = g[Cardinality(spans)]
                /\ \A k \in 1..Cardinality(spans) : g[k] = MergeStep(g[k - 1], InLine(spans)[k])
<1> DEFINE n == Cardinality(spans)  s == InLine(spans)  D == DOMAIN s
           Acc == Seq(Int \X Int)
           P(iter) == iter = [A \in SUBSET D |-> IF A = {} THEN <<>>
                                ELSE LET x == Max(A) IN MergeStep(iter[A \ {x}], s[x])]
           it == CHOOSE iter : P(iter)
           step == [p \in (1..n) \X Acc |-> MergeStep(p[2], s[p[1]])]
<1>1. n \in Nat /\ s \in [1..n -> spans] /\ D = 1..n
  BY SpansInLine
<1>2. ASSUME NEW merged \in Acc, NEW w \in spans
      PROVE  MergeStep(merged, w) \in Acc
  <2>1. w \in Int \X Int
    BY DEF SpansTyped
  <2> QED  BY <2>1, MergeStepIs
<1>3. step \in [(1..n) \X Acc -> Acc]
  <2> HIDE DEF Acc, n, s
  <2> QED  BY <1>1, <1>2
<1>4. <<>> \in Acc
  OBVIOUS
<1>5. \E iter : P(iter)
  <2>1. PICK iter : /\ LeftFolds(n, <<>>, step, iter)
                    /\ \A A \in SUBSET (1..n) : iter[A] \in Acc
    <3> DEFINE base == <<>>
    <3>1. base \in Acc /\ base = <<>>
      BY <1>4
    <3> HIDE DEF Acc, step, n, base
    <3>2. \E iter : /\ LeftFolds(n, base, step, iter)
                    /\ \A A \in SUBSET (1..n) : iter[A] \in Acc
      BY <1>1, <1>3, <3>1, LeftFoldExists
    <3> QED  BY <3>1, <3>2
  <2>2. ASSUME NEW A \in SUBSET (1..n), A # {}
        PROVE  step[<<Max(A), iter[A \ {Max(A)}]>>] = MergeStep(iter[A \ {Max(A)}], s[Max(A)])
    <3>1. Max(A) \in 1..n
      <4>1. IsFiniteSet(1..n)
        BY <1>1, FS_Interval
      <4>2. IsFiniteSet(A)
        <5> HIDE DEF n
        <5> QED  BY <4>1, FS_Subset
      <4>3. A \in SUBSET Int
        <5> HIDE DEF n
        <5> QED  BY <2>2
      <4> HIDE DEF n
      <4> QED  BY <2>2, <4>2, <4>3, Extremes
    <3>2. iter[A \ {Max(A)}] \in Acc
      BY <2>1
    <3> HIDE DEF Acc, n, s
    <3> QED  BY <3>1, <3>2
  <2>3. P(iter)
    <3> HIDE DEF Acc, step, n, s
    <3> QED  BY <1>1, <2>1, <2>2 DEF LeftFolds
  <2> HIDE DEF P
  <2> QED  BY <2>3
<1>6. P(it)
  <2> HIDE DEF P
  <2> QED  BY <1>5
<1>7. Merged(spans) = it[D]
  BY DEF Merged, FoldLeft, MapThenFoldSet, MergeStep, InLine
<1> HIDE DEF it, Acc, step
<1> DEFINE g == [k \in 0..n |-> it[1..k]]
<1>8. it[{}] = <<>>
  BY <1>6
<1>9. ASSUME NEW k \in 1..n
      PROVE  it[1..k] = MergeStep(it[1..(k - 1)], s[k])
  <2>1. 1..k \in SUBSET D /\ 1..k # {} /\ Max(1..k) = k /\ (1..k) \ {k} = 1..(k - 1)
    <3> HIDE DEF n, s
    <3> QED  BY <1>1, PrefixEnd
  <2> HIDE DEF D, n, s
  <2> QED  BY <1>6, <2>1
<1>10. g[0] = <<>> /\ g[n] = it[1..n]
  <2> HIDE DEF n
  <2>1. 1..0 = {} /\ 0 \in 0..n /\ n \in 0..n
    BY <1>1
  <2> QED  BY <1>8, <2>1
<1>11. \A k \in 1..n : g[k] = MergeStep(g[k - 1], s[k])
  <2> HIDE DEF n, s
  <2>1. \A k \in 1..n : k \in 0..n /\ k - 1 \in 0..n
    BY <1>1
  <2> QED  BY <1>9, <2>1
<1> HIDE DEF g
<1> QED  BY <1>1, <1>7, <1>10, <1>11

\* What the spans taken so far have become.
MergedOf(s, k, m) ==
  /\ m \in Seq(Int \X Int)
  /\ k > 0 => m # <<>> /\ m[Len(m)][1] <= s[k][1]
  /\ \A j \in 1..k : \E i \in 1..Len(m) : m[i][1] <= s[j][1] /\ s[j][2] <= m[i][2]
  /\ \A i \in 1..(Len(m) - 1) : m[i][2] < m[i + 1][1]
  /\ \A i \in 1..Len(m) : \E j, l \in 1..k : m[i][1] = s[j][1] /\ m[i][2] = s[l][2] /\ s[j][2] <= m[i][2]
  /\ \A i \in 1..Len(m) : \A x \in Int :
       /\ m[i][1] <= x /\ x < m[i][2] => \E j \in 1..k : s[j][1] <= x /\ x < s[j][2]
       /\ m[i][1] <= x /\ x <= m[i][2] => \E j \in 1..k : s[j][1] <= x /\ x <= s[j][2]

\* The next span keeps that.
LEMMA MergedOfMore ==
  ASSUME NEW spans, SpansTyped(spans), NEW n \in Nat, NEW s \in Of(spans, n),
         \A i, j \in 1..n : i < j => s[i][1] <= s[j][1],
         NEW k \in 0..n, k < n, NEW m, MergedOf(s, k, m)
  PROVE  MergedOf(s, k + 1, MergeStep(m, s[k + 1]))
<1> DEFINE w == s[k + 1]  L == Len(m)  next == MergeStep(m, w)
<1>0. k + 1 \in 1..n /\ k \in Nat /\ 1..k \subseteq 1..n
  OBVIOUS
<1>1. \A j \in 1..n : s[j] \in Int \X Int /\ s[j][1] \in Int /\ s[j][2] \in Int
  BY DEF Of, SpansTyped
<1>2. w \in Int \X Int /\ w[1] \in Int /\ w[2] \in Int
  BY <1>0, <1>1
<1>3. m \in Seq(Int \X Int) /\ L \in Nat /\ \A i \in 1..L : m[i] \in Int \X Int /\ m[i][1] \in Int /\ m[i][2] \in Int
  <2>1. m \in Seq(Int \X Int)
    BY DEF MergedOf
  <2> QED  BY <2>1
<1>h. /\ k > 0 => m # <<>> /\ m[L][1] <= s[k][1]
      /\ \A j \in 1..k : \E i \in 1..L : m[i][1] <= s[j][1] /\ s[j][2] <= m[i][2]
      /\ \A i \in 1..(L - 1) : m[i][2] < m[i + 1][1]
      /\ \A i \in 1..L : \E j, l \in 1..k : m[i][1] = s[j][1] /\ m[i][2] = s[l][2] /\ s[j][2] <= m[i][2]
      /\ \A i \in 1..L : \A x \in Int :
           /\ m[i][1] <= x /\ x < m[i][2] => \E j \in 1..k : s[j][1] <= x /\ x < s[j][2]
           /\ m[i][1] <= x /\ x <= m[i][2] => \E j \in 1..k : s[j][1] <= x /\ x <= s[j][2]
  BY DEF MergedOf
<1>4. k > 0 => s[k][1] <= w[1]
  BY <1>0
<1>5. next \in Seq(Int \X Int)
  BY <1>2, <1>3, MergeStepIs
<1>6. CASE m # <<>> /\ w[1] <= m[L][2]
  <2>1. /\ Len(next) = L
        /\ \A i \in 1..L : next[i] = IF i = L THEN <<m[L][1], IF m[L][2] <= w[2] THEN w[2] ELSE m[L][2]>>
                                              ELSE m[i]
    <3>1. w \in Int \X Int /\ m \in Seq(Int \X Int)
      BY <1>2, <1>3
    <3> HIDE DEF w
    <3> QED  BY <1>6, <3>1, MergeStepIs
  <2> HIDE DEF next, w, L
  <2>2. L >= 1 /\ L \in 1..L
    BY <1>3, <1>6 DEF L
  <2>3. k > 0
    <3>1. \E j, l \in 1..k : m[L][1] = s[j][1] /\ m[L][2] = s[l][2]
      BY <1>h, <2>2
    <3> QED  BY <3>1, <1>0
  <2>4. /\ next[L][1] = m[L][1] /\ next[L][2] = (IF m[L][2] <= w[2] THEN w[2] ELSE m[L][2])
        /\ \A i \in 1..(L - 1) : next[i] = m[i]
    BY <1>3, <2>1, <2>2
  <2>5. m[L][1] <= s[k][1] /\ m[L][1] <= w[1]
    <3>1. m[L][1] <= s[k][1] /\ s[k][1] <= w[1]
      BY <1>4, <1>h, <2>3
    <3>2. m[L][1] \in Int /\ s[k][1] \in Int /\ w[1] \in Int
      <4>1. k \in 1..n
        BY <1>0, <2>3
      <4> QED  BY <1>1, <1>2, <1>3, <2>2, <4>1
    <3> QED  BY <3>1, <3>2
  <2>6. next # <<>> /\ next[Len(next)][1] <= s[k + 1][1]
    <3>1. next # <<>>
      BY <2>1, <2>2
    <3> QED  BY <2>1, <2>4, <2>5, <3>1 DEF w
  <2>7. \A i \in 1..L : next[i][1] = m[i][1] /\ m[i][2] <= next[i][2]
    <3> TAKE i \in 1..L
    <3>1. CASE i = L
      BY <1>2, <1>3, <2>2, <2>4, <3>1
    <3>2. CASE i # L
      <4>1. i \in 1..(L - 1) /\ m[i][2] \in Int
        BY <1>3, <3>2
      <4> QED  BY <2>4, <4>1
    <3> QED  BY <3>1, <3>2
  <2>8. \A i \in 1..L : next[i][1] \in Int /\ next[i][2] \in Int
    BY <1>5, <2>1
  <2>9. \A j \in 1..(k + 1) : \E i \in 1..L : next[i][1] <= s[j][1] /\ s[j][2] <= next[i][2]
    <3> TAKE j \in 1..(k + 1)
    <3>1. CASE j = k + 1
      <4>1. next[L][1] <= w[1] /\ w[2] <= next[L][2]
        BY <1>2, <1>3, <2>2, <2>4, <2>5
      <4> QED  BY <2>2, <3>1, <4>1 DEF w
    <3>2. CASE j # k + 1
      <4>1. j \in 1..k /\ j \in 1..n
        BY <1>0, <3>2
      <4>2. PICK i \in 1..L : m[i][1] <= s[j][1] /\ s[j][2] <= m[i][2]
        BY <1>h, <4>1
      <4>3. next[i][1] <= s[j][1] /\ s[j][2] <= next[i][2]
        <5>1. next[i][1] = m[i][1] /\ m[i][2] <= next[i][2]
          BY <2>7
        <5>2. m[i][1] \in Int /\ m[i][2] \in Int /\ next[i][2] \in Int /\ s[j][1] \in Int /\ s[j][2] \in Int
          BY <1>1, <1>3, <2>8, <4>1
        <5> QED  BY <4>2, <5>1, <5>2
      <4> QED  BY <4>3
    <3> QED  BY <3>1, <3>2
  <2>10. \A i \in 1..(L - 1) : next[i][2] < next[i + 1][1]
    <3> TAKE i \in 1..(L - 1)
    <3>1. i + 1 \in 1..L /\ m[i][2] < m[i + 1][1]
      BY <1>h, <1>3
    <3> QED  BY <2>4, <2>7, <3>1
  <2>11. \A i \in 1..L : \E j, l \in 1..(k + 1) :
           next[i][1] = s[j][1] /\ next[i][2] = s[l][2] /\ s[j][2] <= next[i][2]
    <3> TAKE i \in 1..L
    <3>1. PICK j, l \in 1..k : m[i][1] = s[j][1] /\ m[i][2] = s[l][2] /\ s[j][2] <= m[i][2]
      BY <1>h
    <3>2. j \in 1..(k + 1) /\ l \in 1..(k + 1) /\ k + 1 \in 1..(k + 1)
      BY <1>0
    <3>3. next[i][2] = m[i][2] \/ next[i][2] = s[k + 1][2]
      <4>1. i \in 1..(L - 1) \/ i = L
        BY <1>3
      <4> QED  BY <2>4, <4>1 DEF w
    <3>4. s[j][2] <= next[i][2]
      <4>1. j \in 1..n
        BY <1>0
      <4>2. s[j][2] \in Int /\ m[i][2] \in Int /\ next[i][2] \in Int
        BY <1>1, <1>3, <2>8, <4>1
      <4> QED  BY <2>7, <3>1, <4>2
    <3> QED  BY <2>7, <3>1, <3>2, <3>3, <3>4
  <2>12. \A i \in 1..L : \A x \in Int :
           /\ next[i][1] <= x /\ x < next[i][2] => \E j \in 1..(k + 1) : s[j][1] <= x /\ x < s[j][2]
           /\ next[i][1] <= x /\ x <= next[i][2] => \E j \in 1..(k + 1) : s[j][1] <= x /\ x <= s[j][2]
    <3> TAKE i \in 1..L
    <3> TAKE x \in Int
    <3>0. 1..k \subseteq 1..(k + 1) /\ k + 1 \in 1..(k + 1)
      BY <1>0
    <3>1. /\ m[i][1] <= x /\ x < m[i][2] => \E j \in 1..(k + 1) : s[j][1] <= x /\ x < s[j][2]
          /\ m[i][1] <= x /\ x <= m[i][2] => \E j \in 1..(k + 1) : s[j][1] <= x /\ x <= s[j][2]
      BY <1>h, <3>0
    <3>2. CASE next[i][2] = m[i][2]
      BY <2>7, <3>1, <3>2
    <3>3. CASE i = L /\ next[L][2] = w[2]
      <4>1. /\ m[L][2] <= x /\ x < w[2] => w[1] <= x
            /\ m[L][2] < x /\ x <= w[2] => w[1] <= x
        BY <1>2, <1>3, <1>6, <2>2
      <4>2. x < m[L][2] \/ m[L][2] <= x
        BY <1>3, <2>2
      <4>3. x <= m[L][2] \/ m[L][2] < x
        BY <1>3, <2>2
      <4> QED  BY <2>7, <3>0, <3>1, <3>3, <4>1, <4>2, <4>3 DEF w
    <3> QED  BY <1>3, <2>4, <3>2, <3>3
  <2>13. k + 1 > 0
    BY <1>0
  <2> QED  BY <1>5, <2>1, <2>6, <2>9, <2>10, <2>11, <2>12, <2>13 DEF MergedOf, next, w, L
<1>7. CASE ~(m # <<>> /\ w[1] <= m[L][2])
  <2>1. /\ Len(next) = L + 1
        /\ \A i \in 1..(L + 1) : next[i] = IF i = L + 1 THEN w ELSE m[i]
    <3> HIDE DEF w
    <3> QED  BY <1>2, <1>3, <1>7, MergeStepIs
  <2> HIDE DEF next, w, L
  <2>2. L + 1 \in 1..(L + 1) /\ next[L + 1] = w /\ \A i \in 1..L : next[i] = m[i] /\ i \in 1..(L + 1)
    BY <1>3, <2>1
  <2>6. next # <<>> /\ next[Len(next)][1] <= s[k + 1][1]
    <3>1. next # <<>>
      BY <1>3, <2>1
    <3> QED  BY <1>2, <2>1, <2>2, <3>1 DEF w
  <2>9. \A j \in 1..(k + 1) : \E i \in 1..(L + 1) : next[i][1] <= s[j][1] /\ s[j][2] <= next[i][2]
    <3> TAKE j \in 1..(k + 1)
    <3>1. CASE j = k + 1
      <4>1. next[L + 1][1] <= w[1] /\ w[2] <= next[L + 1][2]
        BY <1>2, <2>2
      <4> QED  BY <2>2, <3>1, <4>1 DEF w
    <3>2. CASE j # k + 1
      <4>1. j \in 1..k
        BY <1>0, <3>2
      <4>2. PICK i \in 1..L : m[i][1] <= s[j][1] /\ s[j][2] <= m[i][2]
        BY <1>h, <4>1
      <4> QED  BY <2>2, <4>2
    <3> QED  BY <3>1, <3>2
  <2>10. \A i \in 1..L : next[i][2] < next[i + 1][1]
    <3> TAKE i \in 1..L
    <3>1. CASE i = L
      <4>1. m # <<>>
        BY <1>3, <3>1 DEF L
      <4>2. m[L][2] < w[1]
        BY <1>2, <1>3, <1>7, <3>1, <4>1
      <4> QED  BY <2>2, <3>1, <4>2
    <3>2. CASE i # L
      <4>1. i \in 1..(L - 1) /\ i + 1 \in 1..L
        BY <1>3, <3>2
      <4>2. m[i][2] < m[i + 1][1]
        BY <1>h, <4>1
      <4> QED  BY <2>2, <4>1, <4>2
    <3> QED  BY <3>1, <3>2
  <2>11. \A i \in 1..(L + 1) : \E j, l \in 1..(k + 1) :
           next[i][1] = s[j][1] /\ next[i][2] = s[l][2] /\ s[j][2] <= next[i][2]
    <3> TAKE i \in 1..(L + 1)
    <3>0. 1..k \subseteq 1..(k + 1) /\ k + 1 \in 1..(k + 1)
      BY <1>0
    <3>1. CASE i = L + 1
      BY <1>2, <2>2, <3>0, <3>1 DEF w
    <3>2. CASE i # L + 1
      <4>1. i \in 1..L
        BY <1>3, <3>2
      <4>2. PICK j, l \in 1..k : m[i][1] = s[j][1] /\ m[i][2] = s[l][2] /\ s[j][2] <= m[i][2]
        BY <1>h, <4>1
      <4>3. next[i] = m[i] /\ j \in 1..(k + 1) /\ l \in 1..(k + 1)
        BY <2>2, <3>0, <4>1
      <4> QED  BY <4>2, <4>3
    <3> QED  BY <3>1, <3>2
  <2>12. \A i \in 1..(L + 1) : \A x \in Int :
           /\ next[i][1] <= x /\ x < next[i][2] => \E j \in 1..(k + 1) : s[j][1] <= x /\ x < s[j][2]
           /\ next[i][1] <= x /\ x <= next[i][2] => \E j \in 1..(k + 1) : s[j][1] <= x /\ x <= s[j][2]
    <3> TAKE i \in 1..(L + 1)
    <3>0. 1..k \subseteq 1..(k + 1) /\ k + 1 \in 1..(k + 1)
      BY <1>0
    <3>1. CASE i = L + 1
      BY <2>2, <3>0, <3>1 DEF w
    <3>2. CASE i # L + 1
      <4>1. i \in 1..L
        BY <1>3, <3>2
      <4> QED  BY <1>h, <2>2, <3>0, <4>1
    <3> QED  BY <3>1, <3>2
  <2>13. k + 1 > 0 /\ (L + 1) - 1 = L
    BY <1>0, <1>3
  <2> QED  BY <1>5, <2>1, <2>6, <2>9, <2>10, <2>11, <2>12, <2>13 DEF MergedOf, next, w, L
<1> QED  BY <1>6, <1>7

\* What the spans have become: apart from each other, and the same in all.
MergesTo(spans, m) ==
  /\ m \in Seq(Int \X Int)
  /\ \A w \in spans : \E i \in 1..Len(m) : m[i][1] <= w[1] /\ w[2] <= m[i][2]
  /\ \A i \in 1..(Len(m) - 1) : m[i][2] < m[i + 1][1]
  /\ \A i \in 1..Len(m) : \E w, v \in spans : m[i][1] = w[1] /\ m[i][2] = v[2] /\ w[2] <= m[i][2]
  /\ \A i \in 1..Len(m) : \A x \in Int :
       /\ m[i][1] <= x /\ x < m[i][2] => \E w \in spans : w[1] <= x /\ x < w[2]
       /\ m[i][1] <= x /\ x <= m[i][2] => \E w \in spans : w[1] <= x /\ x <= w[2]

\* Merged loses nothing, adds nothing, and leaves gaps.
LEMMA SpansMerge ==
  ASSUME NEW spans, SpansTyped(spans)
  PROVE  MergesTo(spans, Merged(spans))
<1> DEFINE n == Cardinality(spans)  s == InLine(spans)
<1>1. /\ n \in Nat /\ s \in [1..n -> spans]
      /\ \A i, j \in 1..n : i < j => s[i][1] <= s[j][1]
      /\ \A w \in spans : \E i \in 1..n : s[i] = w
  BY SpansInLine
<1>2. PICK g : /\ g[0] = <<>> /\ Merged(spans) = g[n]
               /\ \A k \in 1..n : g[k] = MergeStep(g[k - 1], s[k])
  BY MergedByOne
<1> HIDE DEF n, s
<1> DEFINE T == {k \in 0..n : MergedOf(s, k, g[k])}
<1>3. 0 \in T
  <2>1. g[0] \in Seq(Int \X Int) /\ Len(g[0]) = 0
    BY <1>2
  <2>2. MergedOf(s, 0, g[0])
    BY <2>1 DEF MergedOf
  <2> QED  BY <1>1, <2>2
<1>4. ASSUME NEW k \in 0..n, k \in T, k < n
      PROVE  k + 1 \in T
  <2>1. k + 1 \in 1..n /\ (k + 1) - 1 = k /\ k + 1 \in 0..n
    BY <1>1, <1>4
  <2>2. g[k + 1] = MergeStep(g[k], s[k + 1])
    BY <1>2, <2>1
  <2>3. MergedOf(s, k, g[k])
    BY <1>4
  <2>4. s \in Of(spans, n)
    BY <1>1 DEF Of
  <2>5. MergedOf(s, k + 1, MergeStep(g[k], s[k + 1]))
    BY <1>1, <1>4, <2>3, <2>4, MergedOfMore
  <2> QED  BY <2>1, <2>2, <2>5
<1> HIDE DEF T
<1>5. \A k \in 0..n : k \in T
  BY <1>1, <1>3, <1>4, PrefixInduction
<1>6. MergedOf(s, n, Merged(spans))
  <2>1. n \in 0..n
    BY <1>1
  <2> QED  BY <1>2, <1>5, <2>1 DEF T
<1> DEFINE m == Merged(spans)  L == Len(m)
<1>7. /\ m \in Seq(Int \X Int)
      /\ \A j \in 1..n : \E i \in 1..L : m[i][1] <= s[j][1] /\ s[j][2] <= m[i][2]
      /\ \A i \in 1..(L - 1) : m[i][2] < m[i + 1][1]
      /\ \A i \in 1..L : \E j, l \in 1..n : m[i][1] = s[j][1] /\ m[i][2] = s[l][2] /\ s[j][2] <= m[i][2]
      /\ \A i \in 1..L : \A x \in Int :
           /\ m[i][1] <= x /\ x < m[i][2] => \E j \in 1..n : s[j][1] <= x /\ x < s[j][2]
           /\ m[i][1] <= x /\ x <= m[i][2] => \E j \in 1..n : s[j][1] <= x /\ x <= s[j][2]
  BY <1>6 DEF MergedOf
<1>8. \A j \in 1..n : s[j] \in spans
  BY <1>1
<1> HIDE DEF L
<1>9. /\ \A w \in spans : \E i \in 1..L : m[i][1] <= w[1] /\ w[2] <= m[i][2]
      /\ \A i \in 1..L : \E w, v \in spans : m[i][1] = w[1] /\ m[i][2] = v[2] /\ w[2] <= m[i][2]
  <2>1. ASSUME NEW w \in spans PROVE \E i \in 1..L : m[i][1] <= w[1] /\ w[2] <= m[i][2]
    <3>1. PICK j \in 1..n : s[j] = w
      BY <1>1
    <3> QED  BY <1>7, <3>1
  <2>2. ASSUME NEW i \in 1..L PROVE \E w, v \in spans : m[i][1] = w[1] /\ m[i][2] = v[2] /\ w[2] <= m[i][2]
    <3>1. PICK j, l \in 1..n : m[i][1] = s[j][1] /\ m[i][2] = s[l][2] /\ s[j][2] <= m[i][2]
      BY <1>7
    <3> QED  BY <1>8, <3>1
  <2> QED  BY <2>1, <2>2
<1>10. \A i \in 1..L : \A x \in Int :
         /\ m[i][1] <= x /\ x < m[i][2] => \E w \in spans : w[1] <= x /\ x < w[2]
         /\ m[i][1] <= x /\ x <= m[i][2] => \E w \in spans : w[1] <= x /\ x <= w[2]
  BY <1>7, <1>8
<1> QED  BY <1>7, <1>9, <1>10 DEF MergesTo, L

-----------------------------------------------------------------------------
(* The preview of a change.                                                   *)

WindowsTyped(windows) == SpansTyped(windows)

\* A day that is overbooked has a booking.
LEMMA OverbookedIsBooked ==
  ASSUME NEW cal, CalendarTyped(cal), NEW d \in Int, NEW bookings, BookingsAreSpans(bookings),
         \A i \in Ids(bookings) : bookings[i].percent \in Nat, OverbookedOn(cal, bookings, d)
  PROVE  Covering(bookings, d, d) # {}
<1> SUFFICES ASSUME Covering(bookings, d, d) = {} PROVE FALSE
  OBVIOUS
<1> DEFINE p == Percent(bookings, Covering(bookings, d, d))  f == [i \in {} |-> bookings[i].percent]
<1>1. p = Total({}, f)
  <2>1. IsFiniteSet({})
    BY FS_EmptySet
  <2>2. Percent(bookings, {}) = Total({}, f)
    BY <2>1, PercentsAddUp
  <2> QED  BY <2>2
<1>2. Total({}, f) = 0
  <2>1. IsFiniteSet({}) /\ \A x \in {} : f[x] \in Int
    BY FS_EmptySet
  <2> HIDE DEF f
  <2> QED  BY <2>1, TotalRest
<1> HIDE DEF f
<1>3. percent_to_minutes(0) = 0
  BY DayAssumption DEF percent_to_minutes, Round
<1>4. demand_minutes(cal, d, p) = 0
  BY <1>1, <1>2, <1>3 DEF demand_minutes
<1>5. PersonDay(cal, bookings, d).available \in Nat /\ PersonDay(cal, bookings, d).assigned = 0
  BY <1>4, DaysAreTyped DEF PersonDay
<1> QED  BY <1>5 DEF OverbookedOn

\* What is booked, and how much of a day.
BookingsTyped(bookings) ==
  /\ BookingsAreSpans(bookings)
  /\ \A i \in Ids(bookings) : {"start", "end", "percent"} \subseteq DOMAIN bookings[i]
                              /\ bookings[i].percent \in Nat

\* Bookings cut to a window.
CutStart(booking, from) == IF from <= booking.start THEN booking.start ELSE from
CutEnd(booking, to) == IF to <= booking.end THEN to ELSE booking.end

\* What is left of bookings in a window.
LEMMA CutIs ==
  ASSUME NEW bookings, NEW from \in Int, NEW to \in Int, NEW least \in Int,
         \A i \in Ids(bookings) : /\ bookings[i].start \in Int /\ bookings[i].end \in Int
                                  /\ {"start", "end"} \subseteq DOMAIN bookings[i]
  PROVE  LET cut == ClipTo(bookings, from, to, least)
         IN /\ Ids(cut) = {i \in Ids(bookings) :
                             CutEnd(bookings[i], to) - CutStart(bookings[i], from) >= least}
            /\ \A i \in Ids(cut) :
                 /\ cut[i].start = CutStart(bookings[i], from) /\ cut[i].end = CutEnd(bookings[i], to)
                 /\ DOMAIN cut[i] = DOMAIN bookings[i]
                 /\ "percent" \in DOMAIN cut[i] => cut[i].percent = bookings[i].percent
<1> DEFINE cut == ClipTo(bookings, from, to, least)
           S(i) == CutStart(bookings[i], from)  E(i) == CutEnd(bookings[i], to)
           kept == {i \in Ids(bookings) : E(i) - S(i) >= least}
           one(i) == [bookings[i] EXCEPT !.start = Max({from, @}), !.end = Min({to, @})]
           all == [i \in Ids(bookings) |-> one(i)]
<1>1. \A i \in Ids(bookings) : /\ bookings[i].start \in Int /\ bookings[i].end \in Int
                               /\ {"start", "end"} \subseteq DOMAIN bookings[i]
  OBVIOUS
<1>2. ASSUME NEW i \in Ids(bookings)
      PROVE  Max({from, bookings[i].start}) = S(i) /\ Min({to, bookings[i].end}) = E(i)
  BY <1>1, MaxOfTwo, MinOfTwo DEF CutStart, CutEnd
<1>3. \A i \in Ids(bookings) : /\ one(i).start = S(i) /\ one(i).end = E(i)
                               /\ DOMAIN one(i) = DOMAIN bookings[i]
                               /\ "percent" \in DOMAIN one(i) => one(i).percent = bookings[i].percent
  BY <1>1, <1>2
<1>4. cut = [i \in {j \in Ids(bookings) : all[j].end - all[j].start >= least} |-> all[i]]
  BY DEF ClipTo, Restrict
<1>5. \A i \in Ids(bookings) : all[i] = one(i)
  OBVIOUS
<1> HIDE DEF one, all
<1>6. {j \in Ids(bookings) : all[j].end - all[j].start >= least} = kept
  BY <1>3, <1>5
<1>7. cut = [i \in kept |-> all[i]]
  BY <1>4, <1>6
<1>8. \A i \in kept : i \in Ids(bookings)
  OBVIOUS
<1> HIDE DEF cut, kept, S, E
<1>9. /\ Ids(cut) = kept
      /\ \A i \in kept : /\ cut[i].start = S(i) /\ cut[i].end = E(i)
                         /\ DOMAIN cut[i] = DOMAIN bookings[i]
                         /\ "percent" \in DOMAIN cut[i] => cut[i].percent = bookings[i].percent
  BY <1>3, <1>5, <1>7, <1>8 DEF Ids
<1> QED  BY <1>9 DEF cut, kept, S, E

\* They are bookings, and the same ones on its days.
LEMMA CutIsTyped ==
  ASSUME NEW bookings, BookingsTyped(bookings), NEW from \in Int, NEW to \in Int
  PROVE  LET cut == ClipTo(bookings, from, to, 0)
         IN /\ IsFiniteSet(Ids(cut)) /\ Ids(cut) \subseteq Ids(bookings)
            /\ \A i \in Ids(cut) : /\ cut[i].start \in Int /\ cut[i].end \in Int
                                   /\ cut[i].start <= cut[i].end
                                   /\ cut[i].percent = bookings[i].percent
                                   /\ {"start", "end", "percent"} \subseteq DOMAIN cut[i]
            /\ \A d \in from..to : Covering(cut, d, d) = Covering(bookings, d, d)
<1> DEFINE cut == ClipTo(bookings, from, to, 0)
           S(i) == CutStart(bookings[i], from)  E(i) == CutEnd(bookings[i], to)
<1>1. \A i \in Ids(bookings) : /\ bookings[i].start \in Int /\ bookings[i].end \in Int
                               /\ {"start", "end", "percent"} \subseteq DOMAIN bookings[i]
  BY DEF BookingsTyped, BookingsAreSpans
<1>2. /\ Ids(cut) = {i \in Ids(bookings) : E(i) - S(i) >= 0}
      /\ \A i \in Ids(cut) : /\ cut[i].start = S(i) /\ cut[i].end = E(i)
                             /\ DOMAIN cut[i] = DOMAIN bookings[i]
                             /\ "percent" \in DOMAIN cut[i] => cut[i].percent = bookings[i].percent
  <2>1. \A i \in Ids(bookings) : /\ bookings[i].start \in Int /\ bookings[i].end \in Int
                                 /\ {"start", "end"} \subseteq DOMAIN bookings[i]
    BY <1>1
  <2> QED  BY <2>1, CutIs
<1> HIDE DEF cut
<1>3. \A i \in Ids(bookings) :
        /\ S(i) \in Int /\ E(i) \in Int
        /\ \A d \in from..to : bookings[i].start <= d /\ d <= bookings[i].end <=> S(i) <= d /\ d <= E(i)
  BY <1>1 DEF CutStart, CutEnd
<1> HIDE DEF S, E
<1>4. IsFiniteSet(Ids(cut)) /\ Ids(cut) \subseteq Ids(bookings)
  <2>1. IsFiniteSet(Ids(bookings))
    BY DEF BookingsTyped, BookingsAreSpans
  <2> QED  BY <1>2, <2>1, FS_Subset
<1>5. ASSUME NEW i \in Ids(cut)
      PROVE  /\ cut[i].start \in Int /\ cut[i].end \in Int
             /\ cut[i].start <= cut[i].end
             /\ cut[i].percent = bookings[i].percent
             /\ {"start", "end", "percent"} \subseteq DOMAIN cut[i]
  BY <1>1, <1>2, <1>3
<1>6. ASSUME NEW d \in from..to
      PROVE  Covering(cut, d, d) = Covering(bookings, d, d)
  <2>1. \A i \in Ids(bookings) : S(i) <= d /\ d <= E(i) => E(i) - S(i) >= 0
    BY <1>3
  <2> QED  BY <1>2, <1>3, <2>1 DEF Covering
<1> QED  BY <1>4, <1>5, <1>6 DEF cut

\* Periods begin and end with a day that is booked, and hold the overbooked ones.
LEMMA PeriodsHold ==
  ASSUME NEW cal, CalendarTyped(cal), NEW bookings, BookingsTyped(bookings)
  PROVE  LET periods == PersonalPeriods(cal, bookings)
         IN /\ \A d \in Span(bookings) : OverbookedOn(cal, bookings, d) =>
                 \E p \in Range(periods) : p.start <= d /\ d <= p.end
            /\ \A p \in Range(periods) : p.start \in Span(bookings) /\ p.end \in Span(bookings)
<1>1. PeriodsTellTheDays(cal, bookings)
  BY PeriodsAreTold DEF BookingsTyped
<1> DEFINE periods == PersonalPeriods(cal, bookings)
           days == {d \in Span(bookings) : OverbookedOn(cal, bookings, d)}
<1>2. /\ \A d \in days : \E p \in Range(periods) : d \in {e \in days : p.start <= e /\ e <= p.end}
      /\ \A p \in Range(periods) : {p.start, p.end} \subseteq days
  BY <1>1, Zenon DEF PeriodsTellTheDays
<1> HIDE DEF periods
<1> QED  BY <1>2 DEF periods

\* The span of bookings holds each of them.
LEMMA SpanHolds ==
  ASSUME NEW bookings, BookingsTyped(bookings)
  PROVE  /\ Span(bookings) \in SUBSET Int
         /\ \A d \in Int : d \in Span(bookings) <=>
              \E i, j \in Ids(bookings) : bookings[i].start <= d /\ d <= bookings[j].end
<1> DEFINE S == Starts(bookings)  E == Ends(bookings)
<1>1. /\ S \in SUBSET Int /\ IsFiniteSet(S) /\ S # {}
      /\ E \in SUBSET Int /\ IsFiniteSet(E) /\ E # {}
  BY BoundsAreFinite DEF BookingsTyped
<1> HIDE DEF S, E
<1>2. Min(S) \in S /\ (\A y \in S : Min(S) <= y) /\ Max(E) \in E /\ (\A y \in E : y <= Max(E))
  BY <1>1, Extremes
<1>3. Min(S) \in Int /\ Max(E) \in Int /\ Span(bookings) = Min(S)..Max(E)
  BY <1>1, <1>2 DEF Span, S, E
<1>4. ASSUME NEW d \in Int
      PROVE  d \in Span(bookings) <=> \E x \in S, y \in E : x <= d /\ d <= y
  <2>1. ASSUME NEW x \in S, NEW y \in E, x <= d, d <= y
        PROVE  Min(S) <= d /\ d <= Max(E)
    <3>1. x \in Int /\ y \in Int /\ Min(S) <= x /\ y <= Max(E)
      BY <1>1, <1>2
    <3> QED  BY <1>3, <2>1, <3>1
  <2>2. d \in Span(bookings) <=> Min(S) <= d /\ d <= Max(E)
    BY <1>3
  <2> QED  BY <1>2, <2>1, <2>2
<1>5. /\ \A x : x \in S <=> \E i \in Ids(bookings) : x = bookings[i].start
      /\ \A x : x \in E <=> \E i \in Ids(bookings) : x = bookings[i].end
  BY DEF S, E, Starts, Ends
<1>6. ASSUME NEW d \in Int
      PROVE  d \in Span(bookings) <=>
               \E i, j \in Ids(bookings) : bookings[i].start <= d /\ d <= bookings[j].end
  BY <1>4, <1>5
<1> QED  BY <1>3, <1>6

(* The preview of a change (assignment_preview.py) calculates conflicts of the *)
(* bookings cut to the old and the new period: on the days of those periods   *)
(* it shows what saving would store, for all bookings and calendars, however  *)
(* the periods lie to each other.                                             *)
THEOREM PreviewShows ==
  ASSUME NEW cal, CalendarTyped(cal), NEW bookings, BookingsTyped(bookings),
         NEW windows, WindowsTyped(windows)
  PROVE  PreviewShowsWhatIsStored(cal, bookings, windows)
<1> DEFINE U == UNION {w[1]..w[2] : w \in windows}
           m == Merged(windows)
           On(periods, d) == \E p \in Range(periods) : p.start <= d /\ d <= p.end
           ShownBy(periods) == {d \in U : \E p \in Range(periods) :
                                 p.start <= d /\ d <= p.end /\ OverbookedOn(cal, bookings, d)}
           cut(w) == ClipTo(bookings, w[1], w[2], 0)
<1>1. MergesTo(windows, m)
  BY SpansMerge DEF WindowsTyped
<1>2. /\ m \in Seq(Int \X Int) /\ Range(m) = {m[i] : i \in 1..Len(m)}
      /\ \A w \in windows : \E i \in 1..Len(m) : m[i][1] <= w[1] /\ w[2] <= m[i][2]
  <2>1. m \in Seq(Int \X Int)
    BY <1>1 DEF MergesTo
  <2>2. \A w \in windows : \E i \in 1..Len(m) : m[i][1] <= w[1] /\ w[2] <= m[i][2]
    BY <1>1 DEF MergesTo
  <2> HIDE DEF m
  <2>3. Range(m) = {m[i] : i \in 1..Len(m)}
    BY <2>1 DEF Range
  <2> QED  BY <2>1, <2>2, <2>3
<1> HIDE DEF m
<1>3. U \in SUBSET Int
  OBVIOUS
<1>4. ASSUME NEW d \in U, OverbookedOn(cal, bookings, d)
      PROVE  On(PersonalPeriods(cal, bookings), d)
  <2>1. d \in Int
    BY <1>3
  <2>2. PICK i \in Ids(bookings) : bookings[i].start <= d /\ d <= bookings[i].end
    <3>1. Covering(bookings, d, d) # {}
      BY <1>4, <2>1, OverbookedIsBooked DEF BookingsTyped
    <3> QED  BY <3>1 DEF Covering
  <2>3. d \in Span(bookings)
    BY <2>1, <2>2, SpanHolds
  <2> QED  BY <1>4, <2>3, PeriodsHold
<1>5. ASSUME NEW d \in U, OverbookedOn(cal, bookings, d)
      PROVE  \E w \in Range(m) : On(PersonalPeriods(cal, cut(w)), d)
  <2>1. PICK v \in windows : d \in v[1]..v[2] /\ v[1] \in Int /\ v[2] \in Int
    BY DEF WindowsTyped, SpansTyped
  <2>2. PICK i \in 1..Len(m) : m[i][1] <= v[1] /\ v[2] <= m[i][2]
    BY <1>2
  <2> DEFINE w == m[i]  c == cut(w)
  <2>3. w \in Range(m) /\ w[1] \in Int /\ w[2] \in Int
    BY <1>2
  <2>4. d \in Int /\ d \in w[1]..w[2]
    BY <2>1, <2>2, <2>3
  <2> HIDE DEF w
  <2>5. /\ IsFiniteSet(Ids(c)) /\ Ids(c) \subseteq Ids(bookings)
        /\ \A j \in Ids(c) : /\ c[j].start \in Int /\ c[j].end \in Int
                             /\ c[j].start <= c[j].end
                             /\ c[j].percent = bookings[j].percent
                             /\ {"start", "end", "percent"} \subseteq DOMAIN c[j]
        /\ Covering(c, d, d) = Covering(bookings, d, d)
    BY <2>3, <2>4, CutIsTyped
  <2>6. Covering(bookings, d, d) # {}
    BY <1>4, <1>5, <2>4, OverbookedIsBooked DEF BookingsTyped
  <2>7. PICK j \in Ids(c) : c[j].start <= d /\ d <= c[j].end
    <3> HIDE DEF c
    <3> QED  BY <2>5, <2>6 DEF Covering
  <2> HIDE DEF c
  <2>8. BookingsTyped(c)
    BY <2>5, <2>7 DEF BookingsTyped, BookingsAreSpans
  <2>9. OverbookedOn(cal, c, d)
    <3> DEFINE A == Covering(bookings, d, d)
    <3>1. IsFiniteSet(A) /\ A \subseteq Ids(bookings) /\ A \subseteq Ids(c)
      <4>1. A \subseteq Ids(bookings) /\ A \subseteq Ids(c)
        BY <2>5 DEF Covering
      <4> QED  BY <2>5, <4>1, FS_Subset
    <3>2. \A x \in A : c[x].percent = bookings[x].percent /\ bookings[x].percent \in Nat
      BY <2>5, <3>1 DEF BookingsTyped
    <3> HIDE DEF A
    <3>3. /\ Percent(c, A) = Total(A, [x \in A |-> c[x].percent])
          /\ Percent(bookings, A) = Total(A, [x \in A |-> bookings[x].percent])
      BY <3>1, <3>2, PercentsAddUp
    <3>4. [x \in A |-> c[x].percent] = [x \in A |-> bookings[x].percent]
      BY <3>2
    <3>5. Percent(c, Covering(c, d, d)) = Percent(bookings, Covering(bookings, d, d))
      BY <2>5, <3>3, <3>4 DEF A
    <3>6. PersonDay(cal, c, d) = PersonDay(cal, bookings, d)
      BY <3>5 DEF PersonDay
    <3> QED  BY <1>5, <3>6 DEF OverbookedOn
  <2>10. d \in Span(c)
    BY <2>4, <2>7, <2>8, SpanHolds
  <2>11. On(PersonalPeriods(cal, c), d)
    BY <2>8, <2>9, <2>10, PeriodsHold
  <2> QED  BY <2>3, <2>11 DEF c
<1>6. \A d \in U : OverbookedOn(cal, bookings, d) =>
        /\ On(PersonalPeriods(cal, bookings), d)
        /\ \E w \in Range(m) : On(PersonalPeriods(cal, cut(w)), d)
  BY <1>4, <1>5
<1>7. ShownBy(PersonalPeriods(cal, bookings)) = {d \in U : OverbookedOn(cal, bookings, d)}
  BY <1>6
<1>8. UNION {ShownBy(periods) : periods \in PreviewPeriods(cal, bookings, windows)}
        = {d \in U : OverbookedOn(cal, bookings, d)}
  <2>1. PreviewPeriods(cal, bookings, windows) = {PersonalPeriods(cal, cut(w)) : w \in Range(m)}
    BY DEF PreviewPeriods, m
  <2> QED  BY <1>6, <2>1
<1> QED  BY <1>7, <1>8 DEF PreviewShowsWhatIsStored

-----------------------------------------------------------------------------
(* The days of a clock.                                                       *)

\* Nor may it skip a midnight.
OrdinaryClock(zone) ==
  /\ DatesDoNotFallBack(zone)
  /\ \A d \in Int : InstantsOf(zone, d * MINUTES_PER_DAY) # {}

\* The day of a midnight.
LEMMA MidnightIsOfTheDay ==
  ASSUME NEW D \in Nat \ {0}, NEW d \in Int
  PROVE  /\ d * D \in Int /\ (d * D) \div D = d
         /\ \A r \in Int : r \div D >= d => r >= d * D
         /\ \A r \in Int : r >= d * D => r \div D >= d
<1>1. d * D \in Int
  OBVIOUS
<1>2. (d * D) \div D = d
  OBVIOUS
<1>3. ASSUME NEW r \in Int, r < d * D, r \div D >= d
      PROVE  FALSE
  <2> DEFINE q == r \div D
  <2>1. q \in Int /\ r >= D * q
    OBVIOUS
  <2> HIDE DEF q
  <2>2. PICK k \in Nat : q = d + k
    <3>1. q - d \in Nat /\ q = d + (q - d)
      BY <1>3, <2>1 DEF q
    <3> QED  BY <3>1
  <2>3. D * q = D * d + D * k /\ D * k \in Nat /\ D * d = d * D
    BY <2>2
  <2> QED  BY <1>1, <1>3, <2>1, <2>3
<1>4. ASSUME NEW r \in Int, r >= d * D
      PROVE  r \div D >= d
  BY <1>1, <1>2, <1>4, DivMonotone
<1> QED  BY <1>1, <1>2, <1>3, <1>4

\* A day begins with its first instant.
LEMMA DayStarts ==
  ASSUME NEW zone, OrdinaryClock(zone), NEW d \in Int
  PROVE  /\ DayStart(zone, d) \in Int /\ local_date(zone, DayStart(zone, d)) = d
         /\ local_time(zone, DayStart(zone, d)) = d * MINUTES_PER_DAY
         /\ \A i \in Int : DayStart(zone, d) <= i <=> d <= local_date(zone, i)
<1> DEFINE D == MINUTES_PER_DAY  M == d * D
           c == zone.change  b == zone.before  a == zone.after
           S == InstantsOf(zone, M)  first == Min(S)
<1>1. D \in Nat \ {0} /\ c \in Int /\ b \in Int /\ a \in Int
  BY DayAssumption DEF OrdinaryClock, DatesDoNotFallBack, ZoneType
<1>2. /\ M \in Int /\ M \div D = d
      /\ \A r \in Int : r \div D >= d => r >= M
  BY <1>1, MidnightIsOfTheDay
<1>3. \A i \in Int : local_time(zone, i) = IF i < c THEN i + b ELSE i + a
  BY <1>1 DEF local_time
<1>4. S # {}
  BY DEF OrdinaryClock
<1>5. S \in SUBSET Int /\ IsFiniteSet(S) /\ \A i \in Int : i \in S <=> local_time(zone, i) = M
  <2> HIDE DEF D, M
  <2>1. S = {i \in {M - b, M - a} : local_time(zone, i) = M}
    BY DEF InstantsOf
  <2>2. IsFiniteSet({M - b, M - a})
    <3>1. IsFiniteSet({M - b})
      BY FS_Singleton
    <3>2. IsFiniteSet({M - b} \cup {M - a})
      BY <3>1, FS_AddElement
    <3> QED  BY <3>2
  <2>3. S \subseteq {M - b, M - a}
    BY <2>1
  <2>4. IsFiniteSet(S)
    BY <2>2, <2>3, FS_Subset
  <2>5. S \in SUBSET Int
    BY <1>1, <1>2, <2>3
  <2>6. ASSUME NEW i \in Int, local_time(zone, i) = M
        PROVE  i \in {M - b, M - a}
    BY <1>1, <1>2, <1>3, <2>6
  <2> QED  BY <2>1, <2>4, <2>5, <2>6
<1> HIDE DEF S
<1>6. first \in S /\ \A i \in S : first <= i
  BY <1>4, <1>5, Extremes
<1>7. first \in Int /\ local_time(zone, first) = M
  BY <1>5, <1>6
<1>8. local_date(zone, first) = d
  BY <1>2, <1>7 DEF local_date
<1> HIDE DEF first, M
<1>9. ASSUME NEW i \in Int, first <= i
      PROVE  d <= local_date(zone, i)
  <2>1. local_date(zone, first) <= local_date(zone, i)
    BY <1>7, <1>9, DatesGoForward DEF OrdinaryClock
  <2> QED  BY <1>8, <2>1
<1>10. ASSUME NEW i \in Int, d <= local_date(zone, i), i < first
       PROVE  FALSE
  <2>1. local_time(zone, i) \in Int
    BY <1>1, <1>3
  <2>2. local_time(zone, i) >= M
    <3> DEFINE r == local_time(zone, i)
    <3>1. r \div D \in Int /\ r \div D >= d
      BY <1>1, <1>10, <2>1 DEF local_date
    <3> HIDE DEF r, D
    <3> QED  BY <1>2, <2>1, <3>1 DEF r
  <2>3. CASE i < c
    <3>1. M - b \in Int /\ M - b <= i /\ M - b < c
      BY <1>1, <1>2, <1>3, <2>2, <2>3
    <3>2. local_time(zone, M - b) = M
      <4>1. local_time(zone, M - b) = (M - b) + b
        BY <1>3, <3>1
      <4>2. (M - b) + b = M
        <5> HIDE DEF a, b, c, D
        <5>1. M \in Int /\ b \in Int
          BY <1>1, <1>2
        <5> QED  BY <5>1
      <4> QED  BY <4>1, <4>2
    <3>3. first <= M - b
      BY <1>5, <1>6, <3>1, <3>2
    <3> QED  BY <1>7, <1>10, <3>1, <3>3
  <2>4. CASE i >= c
    <3>1. local_time(zone, i) = i + a /\ local_time(zone, first) = first + a
      BY <1>1, <1>3, <1>7, <1>10, <2>4
    <3> QED  BY <1>1, <1>2, <1>7, <1>10, <2>2, <3>1
  <2> QED  BY <1>1, <2>3, <2>4
<1>11. \A i \in Int : local_date(zone, i) \in Int
  BY DatesGoForward DEF OrdinaryClock
<1>12. DayStart(zone, d) = first
  BY DEF DayStart, first, S, M
<1> QED  BY <1>2, <1>7, <1>8, <1>9, <1>10, <1>11, <1>12 DEF M

\* No day between two instants is left out.
LEMMA DaysBetween ==
  ASSUME NEW zone, OrdinaryClock(zone), NEW i \in Int, NEW j \in Int, i <= j,
         NEW d \in Int, local_date(zone, i) <= d, d <= local_date(zone, j)
  PROVE  \E k \in i..j : local_date(zone, k) = d
<1>1. local_date(zone, i) \in Int /\ local_date(zone, j) \in Int
  BY DatesGoForward DEF OrdinaryClock
<1> DEFINE first == DayStart(zone, d)
<1>2. /\ first \in Int /\ local_date(zone, first) = d
      /\ \A k \in Int : first <= k <=> d <= local_date(zone, k)
  BY DayStarts
<1> HIDE DEF first
<1>3. first <= j
  BY <1>2
<1>4. CASE i <= first
  BY <1>2, <1>3, <1>4
<1>5. CASE first < i
  <2>2. local_date(zone, i) = d
    BY <1>1, <1>2, <1>5
  <2> QED  BY <2>2
<1> QED  BY <1>2, <1>4, <1>5

-----------------------------------------------------------------------------
(* The preview of a machine's bookings, and its dashboard.                    *)

Crowded(bookings, i) == Cardinality(Holders(bookings, i)) > 1

\* Who holds a machine is among those who have it.
LEMMA HoldersAreFinite ==
  ASSUME NEW bookings, BookingsTakeTime(bookings), NEW i \in Int
  PROVE  /\ IsFiniteSet(Holders(bookings, i)) /\ Cardinality(Holders(bookings, i)) \in Nat
         /\ Crowded(bookings, i) => i \in Horizon(bookings)
<1>1. IsFiniteSet(Holders(bookings, i))
  BY FS_Subset DEF BookingsTakeTime, Holders
<1>2. Cardinality(Holders(bookings, i)) \in Nat
  BY <1>1, FS_CardinalityType
<1>3. ASSUME Crowded(bookings, i)
      PROVE  i \in Horizon(bookings)
  <2>1. Holders(bookings, i) # {}
    <3>1. Cardinality({}) = 0
      BY FS_EmptySet
    <3> QED  BY <1>3, <3>1 DEF Crowded
  <2>2. PICK x \in Ids(bookings) : bookings[x].start <= i /\ i < bookings[x].end
    BY <2>1 DEF Holders
  <2>3. BookingsAreSpans(bookings)
    BY DEF BookingsTakeTime, BookingsAreSpans
  <2> DEFINE S == Starts(bookings)  E == Ends(bookings)
  <2>4. /\ S \in SUBSET Int /\ IsFiniteSet(S) /\ S # {}
        /\ E \in SUBSET Int /\ IsFiniteSet(E) /\ E # {}
    BY <2>3, BoundsAreFinite
  <2>5. bookings[x].start \in S /\ bookings[x].end \in E
    BY DEF Starts, Ends
  <2> HIDE DEF S, E
  <2>6. /\ Min(S) \in S /\ Min(S) <= bookings[x].start
        /\ Max(E) \in E /\ bookings[x].end <= Max(E)
    BY <2>4, <2>5, Extremes
  <2>7. Min(S) \in Int /\ Max(E) \in Int /\ bookings[x].start \in Int /\ bookings[x].end \in Int
    BY <2>4, <2>5, <2>6
  <2>8. Min(S) <= i /\ i <= Max(E) - 1
    BY <2>2, <2>6, <2>7
  <2> QED  BY <2>7, <2>8 DEF Horizon, S, E
<1> QED  BY <1>1, <1>2, <1>3

\* The days of overlaps are those of the instants with several holders.
LEMMA DaysOfOverlaps ==
  ASSUME NEW zone, OrdinaryClock(zone), NEW bookings, BookingsTakeTime(bookings), NEW d \in Int
  PROVE  (\E p \in Range(infrastructure_overlaps(zone, bookings)) : p.start <= d /\ d <= p.end)
           <=> \E i \in Int : local_date(zone, i) = d /\ Crowded(bookings, i)
<1> DEFINE M == Starts(bookings) \cup Ends(bookings)
           Many(m) == m # Max(M) /\ Cardinality(ActiveAfter(bookings, m)) > 1
           Period(m) ==
             [cause |-> "booking_overlap", start |-> local_date(zone, m),
              end |-> local_date(zone, Following(m, M) - 1),
              assigned |-> 100 * Cardinality(ActiveAfter(bookings, m)), available |-> 100,
              ids |-> ActiveAfter(bookings, m)]
           periods == Range(infrastructure_overlaps(zone, bookings))
<1>0. DatesDoNotFallBack(zone)
  BY DEF OrdinaryClock
<1>1. periods = {Period(m) : m \in {n \in M : Many(n)}}
  <2>1. infrastructure_overlaps(zone, bookings) = [m \in {n \in M : Many(n)} |-> Period(m)]
    BY DEF infrastructure_overlaps
  <2> HIDE DEF M, Many, Period
  <2> QED  BY <2>1 DEF Range
<1>2. M \in SUBSET Int /\ IsFiniteSet(M)
  <2>1. BookingsAreSpans(bookings)
    BY DEF BookingsTakeTime, BookingsAreSpans
  <2> QED  BY <2>1, BoundsAreFinite, FS_Union
<1>3. ASSUME NEW i \in Int, local_date(zone, i) = d, Crowded(bookings, i)
      PROVE  \E p \in periods : p.start <= d /\ d <= p.end
  <2>1. i \in Horizon(bookings)
    BY <1>3, HoldersAreFinite
  <2>2. OverlapsAreShared(zone, bookings)
    BY <1>0, OverlapsAreExact
  <2> HIDE DEF periods
  <2> QED  BY <1>3, <2>1, <2>2 DEF OverlapsAreShared, Crowded, periods
<1>4. ASSUME NEW p \in periods, p.start <= d, d <= p.end
      PROVE  \E i \in Int : local_date(zone, i) = d /\ Crowded(bookings, i)
  <2>1. PICK m \in M : Many(m) /\ p = Period(m)
    BY <1>1
  <2> DEFINE next == Following(m, M)
  <2>2. next \in Int /\ m \in Int /\ next > m
    BY <1>2, <2>1, StretchEnds
  <2>3. p.start = local_date(zone, m) /\ p.end = local_date(zone, next - 1)
    BY <2>1
  <2>4. \A k \in m..(next - 1) : ActiveAfter(bookings, m) = Holders(bookings, k)
    BY <2>1, StretchHasOneCrowd
  <2>5. Cardinality(ActiveAfter(bookings, m)) > 1
    BY <2>1
  <2> HIDE DEF M, next, periods
  <2>6. PICK k \in m..(next - 1) : local_date(zone, k) = d
    <3>1. next - 1 \in Int /\ m <= next - 1
      BY <2>2
    <3> QED  BY <1>4, <2>2, <2>3, <3>1, DaysBetween
  <2>7. Holders(bookings, k) = ActiveAfter(bookings, m)
    BY <2>4
  <2> QED  BY <2>2, <2>5, <2>6, <2>7 DEF Crowded
<1> QED  BY <1>3, <1>4

\* The dates of an overlap are dates.
LEMMA OverlapDatesAreInts ==
  ASSUME NEW zone, OrdinaryClock(zone), NEW bookings, BookingsTakeTime(bookings),
         NEW p \in Range(infrastructure_overlaps(zone, bookings))
  PROVE  p.start \in Int /\ p.end \in Int
<1> DEFINE M == Starts(bookings) \cup Ends(bookings)
           Many(m) == m # Max(M) /\ Cardinality(ActiveAfter(bookings, m)) > 1
           Period(m) ==
             [cause |-> "booking_overlap", start |-> local_date(zone, m),
              end |-> local_date(zone, Following(m, M) - 1),
              assigned |-> 100 * Cardinality(ActiveAfter(bookings, m)), available |-> 100,
              ids |-> ActiveAfter(bookings, m)]
<1>1. PICK m \in M : Many(m) /\ p = Period(m)
  <2>1. infrastructure_overlaps(zone, bookings) = [m \in {n \in M : Many(n)} |-> Period(m)]
    BY DEF infrastructure_overlaps
  <2> HIDE DEF M, Many, Period
  <2> QED  BY <2>1 DEF Range
<1>2. M \in SUBSET Int /\ IsFiniteSet(M)
  <2>1. BookingsAreSpans(bookings)
    BY DEF BookingsTakeTime, BookingsAreSpans
  <2> QED  BY <2>1, BoundsAreFinite, FS_Union
<1> DEFINE next == Following(m, M)
<1>3. next \in Int /\ m \in Int
  BY <1>1, <1>2, StretchEnds
<1>4. p.start = local_date(zone, m) /\ p.end = local_date(zone, next - 1)
  BY <1>1
<1> HIDE DEF next
<1>5. next - 1 \in Int
  BY <1>3
<1> QED  BY <1>3, <1>4, <1>5, DatesGoForward DEF OrdinaryClock

\* Machine bookings as records.
MachineBookingsTyped(bookings) ==
  /\ BookingsTakeTime(bookings)
  /\ \A i \in Ids(bookings) : {"start", "end"} \subseteq DOMAIN bookings[i]

\* What a window of instants leaves of them.
LEMMA CutKeepsHolders ==
  ASSUME NEW bookings, MachineBookingsTyped(bookings), NEW from \in Int, NEW to \in Int
  PROVE  LET cut == ClipTo(bookings, from, to, 1)
         IN /\ IsFiniteSet(Ids(cut))
            /\ \A i \in Ids(cut) : /\ cut[i].start \in Int /\ cut[i].end \in Int
                                   /\ cut[i].start < cut[i].end
            /\ \A i \in Int : Holders(cut, i) = IF from <= i /\ i < to THEN Holders(bookings, i) ELSE {}
<1> DEFINE cut == ClipTo(bookings, from, to, 1)
           S(i) == CutStart(bookings[i], from)  E(i) == CutEnd(bookings[i], to)
<1>1. \A i \in Ids(bookings) : /\ bookings[i].start \in Int /\ bookings[i].end \in Int
                               /\ {"start", "end"} \subseteq DOMAIN bookings[i]
  BY DEF MachineBookingsTyped, BookingsTakeTime
<1>2. /\ Ids(cut) = {i \in Ids(bookings) : E(i) - S(i) >= 1}
      /\ \A i \in Ids(cut) : cut[i].start = S(i) /\ cut[i].end = E(i)
  BY <1>1, CutIs
<1> HIDE DEF cut
<1>3. \A x \in Ids(bookings) :
        /\ S(x) \in Int /\ E(x) \in Int
        /\ \A i \in Int : S(x) <= i /\ i < E(x)
             <=> from <= i /\ i < to /\ bookings[x].start <= i /\ i < bookings[x].end
  BY <1>1 DEF CutStart, CutEnd
<1> HIDE DEF S, E
<1>4. IsFiniteSet(Ids(cut))
  <2>1. IsFiniteSet(Ids(bookings)) /\ Ids(cut) \subseteq Ids(bookings)
    BY <1>2 DEF MachineBookingsTyped, BookingsTakeTime
  <2> QED  BY <2>1, FS_Subset
<1>5. ASSUME NEW i \in Ids(cut)
      PROVE  cut[i].start \in Int /\ cut[i].end \in Int /\ cut[i].start < cut[i].end
  BY <1>2, <1>3
<1>6. ASSUME NEW i \in Int
      PROVE  Holders(cut, i) = IF from <= i /\ i < to THEN Holders(bookings, i) ELSE {}
  <2>1. \A x \in Ids(bookings) : S(x) <= i /\ i < E(x) => E(x) - S(x) >= 1
    BY <1>3
  <2>2. Holders(cut, i) = {x \in Ids(bookings) : S(x) <= i /\ i < E(x)}
    BY <1>2, <2>1 DEF Holders
  <2>3. Holders(cut, i) = {x \in Ids(bookings) : from <= i /\ i < to /\ bookings[x].start <= i
                                                /\ i < bookings[x].end}
    BY <1>3, <2>2
  <2> QED  BY <2>3 DEF Holders
<1> QED  BY <1>4, <1>5, <1>6 DEF cut

\* Two or more who touch a day make it red.
LEMMA TwoAreRed ==
  ASSUME NEW zone, NEW bookings, NEW d,
         NEW n \in Nat, n > 1,
         LET bounds == local_day_bounds(zone, d)
         IN n = Cardinality({i \in Ids(bookings) : Max({bookings[i].start, bounds[1]})
                                                    < Min({bookings[i].end, bounds[2]})})
  PROVE  get_utilization_color(MachineDay(zone, bookings, d)) = "red"
<1> DEFINE N == NORMATIVE_DAY_MINUTES  k == n * N  day == MachineDay(zone, bookings, d)
<1>1. N \in Nat \ {0} /\ k \in Nat /\ (100 * n) * N = 100 * k /\ k > N
  <2>1. N \in Nat \ {0}
    BY DayAssumption
  <2> HIDE DEF N
  <2>2. n * N \in Nat /\ (100 * n) * N = 100 * (n * N)
    BY <2>1
  <2>3. PICK e \in Nat : n = e + 2
    <3>1. n - 2 \in Nat /\ n = (n - 2) + 2
      OBVIOUS
    <3> QED  BY <3>1
  <2>4. n * N = e * N + 2 * N /\ e * N \in Nat
    BY <2>1, <2>3
  <2> QED  BY <2>1, <2>2, <2>4
<1>2. day.available = N /\ day.assigned = percent_to_minutes(100 * n)
  BY DEF MachineDay
<1> HIDE DEF N, k
<1>3. Round(100 * k, 100) = k
  BY <1>1 DEF Round
<1>4. percent_to_minutes(100 * n) = k
  BY <1>1, <1>3 DEF percent_to_minutes, N
<1> HIDE DEF day
<1>5. Exceeds(day, 100)
  BY <1>1, <1>2, <1>4 DEF Exceeds
<1> QED  BY <1>5 DEF get_utilization_color, day

\* The days of the overlaps of a window are those of the overlaps in it.
LEMMA DaysOfCut ==
  ASSUME NEW zone, OrdinaryClock(zone), NEW bookings, MachineBookingsTyped(bookings),
         NEW from \in Int, NEW to \in Int, NEW d \in Int
  PROVE  (\E p \in Range(infrastructure_overlaps(zone, ClipTo(bookings, DayStart(zone, from),
                                                              DayStart(zone, to + 1), 1))) :
            p.start <= d /\ d <= p.end)
           <=> /\ from <= d /\ d <= to
               /\ \E i \in Int : local_date(zone, i) = d /\ Crowded(bookings, i)
<1> DEFINE a == DayStart(zone, from)  z == DayStart(zone, to + 1)
           cut == ClipTo(bookings, a, z, 1)
<1>1. /\ a \in Int /\ z \in Int
      /\ \A i \in Int : a <= i <=> from <= local_date(zone, i)
      /\ \A i \in Int : z <= i <=> to + 1 <= local_date(zone, i)
  BY DayStarts
<1> HIDE DEF a, z
<1>2. /\ IsFiniteSet(Ids(cut))
      /\ \A i \in Ids(cut) : /\ cut[i].start \in Int /\ cut[i].end \in Int
                             /\ cut[i].start < cut[i].end
      /\ \A i \in Int : Holders(cut, i) = IF a <= i /\ i < z THEN Holders(bookings, i) ELSE {}
  BY <1>1, CutKeepsHolders
<1> HIDE DEF cut
<1>3. ~Cardinality({}) > 1
  <2>1. Cardinality({}) = 0
    BY FS_EmptySet
  <2> QED  BY <2>1
<1>4. ASSUME NEW i \in Int, local_date(zone, i) = d
      PROVE  Crowded(cut, i) <=> from <= d /\ d <= to /\ Crowded(bookings, i)
  <2>1. a <= i /\ i < z <=> from <= d /\ d <= to
    BY <1>1, <1>4
  <2> QED  BY <1>2, <1>3, <2>1 DEF Crowded
<1>5. (\E p \in Range(infrastructure_overlaps(zone, cut)) : p.start <= d /\ d <= p.end)
        <=> \E i \in Int : local_date(zone, i) = d /\ Crowded(cut, i)
  <2>1. CASE Ids(cut) # {}
    <3>1. BookingsTakeTime(cut)
      BY <1>2, <2>1 DEF BookingsTakeTime
    <3> QED  BY <3>1, DaysOfOverlaps
  <2>2. CASE Ids(cut) = {}
    <3>1. \A i \in Int : ~Crowded(cut, i)
      <4>1. \A i \in Int : Holders(cut, i) = {}
        BY <2>2 DEF Holders
      <4> QED  BY <1>3, <4>1 DEF Crowded
    <3>2. Range(infrastructure_overlaps(zone, cut)) = {}
      <4>1. DOMAIN infrastructure_overlaps(zone, cut) \subseteq Starts(cut) \cup Ends(cut)
        BY DEF infrastructure_overlaps
      <4>2. Starts(cut) \cup Ends(cut) = {}
        BY <2>2 DEF Starts, Ends
      <4> QED  BY <4>1, <4>2 DEF Range
    <3> QED  BY <3>1, <3>2
  <2> QED  BY <2>1, <2>2
<1>6. (\E i \in Int : local_date(zone, i) = d /\ Crowded(cut, i))
        <=> /\ from <= d /\ d <= to
            /\ \E i \in Int : local_date(zone, i) = d /\ Crowded(bookings, i)
  BY <1>4
<1> QED  BY <1>5, <1>6 DEF cut, a, z

(* The preview of a change to a machine's bookings (assignment_preview.py)     *)
(* shows the overlaps that saving would store, and the dashboard              *)
(* (capacity_service.py) has each of their days in red: for all bookings that *)
(* take time, in any zone whose clock shows every midnight and is not put     *)
(* back across one.                                                           *)
THEOREM OverlapsShow ==
  ASSUME NEW zone, OrdinaryClock(zone), NEW bookings, MachineBookingsTyped(bookings),
         NEW windows, WindowsTyped(windows)
  PROVE  OverlapsAreShown(zone, bookings, windows)
<1> DEFINE U == UNION {w[1]..w[2] : w \in windows}
           m == Merged(windows)
           stored == infrastructure_overlaps(zone, bookings)
           On(periods, d) == \E p \in Range(periods) : p.start <= d /\ d <= p.end
           ShownBy(periods) == {d \in U : \E p \in Range(periods) : p.start <= d /\ d <= p.end}
           Crowd(d) == \E i \in Int : local_date(zone, i) = d /\ Crowded(bookings, i)
           shown(w) == infrastructure_overlaps(zone, ClipTo(bookings, DayStart(zone, w[1]),
                                                            DayStart(zone, w[2] + 1), 1))
<1>1. /\ m \in Seq(Int \X Int)
      /\ \A w \in windows : \E i \in 1..Len(m) : m[i][1] <= w[1] /\ w[2] <= m[i][2]
  BY SpansMerge DEF WindowsTyped, MergesTo
<1> HIDE DEF m
<1>2. Range(m) = {m[i] : i \in 1..Len(m)}
  BY <1>1 DEF Range
<1>3. \A w \in Range(m) : w[1] \in Int /\ w[2] \in Int
  BY <1>1, <1>2
<1>4. U \in SUBSET Int
  OBVIOUS
<1>5. ASSUME NEW d \in Int
      PROVE  On(stored, d) <=> Crowd(d)
  BY DaysOfOverlaps DEF MachineBookingsTyped
<1>6. ASSUME NEW d \in Int, NEW w \in Range(m)
      PROVE  On(shown(w), d) <=> w[1] <= d /\ d <= w[2] /\ Crowd(d)
  BY <1>3, DaysOfCut
<1>7. ASSUME NEW d \in U
      PROVE  \E w \in Range(m) : w[1] <= d /\ d <= w[2]
  <2>1. PICK v \in windows : d \in v[1]..v[2] /\ v[1] \in Int /\ v[2] \in Int
    BY DEF WindowsTyped, SpansTyped
  <2>2. PICK i \in 1..Len(m) : m[i][1] <= v[1] /\ v[2] <= m[i][2]
    BY <1>1
  <2>3. m[i] \in Range(m) /\ m[i][1] \in Int /\ m[i][2] \in Int
    BY <1>2, <1>3
  <2>4. m[i][1] <= d /\ d <= m[i][2]
    BY <2>1, <2>2, <2>3
  <2> QED  BY <2>3, <2>4
<1>8. ShownBy(stored) = UNION {ShownBy(periods) : periods \in PreviewOverlaps(zone, bookings, windows)}
  <2>1. PreviewOverlaps(zone, bookings, windows) = {shown(w) : w \in Range(m)}
    BY DEF PreviewOverlaps, m
  <2> HIDE DEF shown, stored, Crowd
  <2>2. ShownBy(stored) = {d \in U : Crowd(d)}
    BY <1>4, <1>5
  <2>3. UNION {ShownBy(periods) : periods \in PreviewOverlaps(zone, bookings, windows)}
          = {d \in U : \E w \in Range(m) : On(shown(w), d)}
    BY <2>1
  <2>4. \A d \in U : Crowd(d) <=> \E w \in Range(m) : On(shown(w), d)
    BY <1>4, <1>6, <1>7
  <2> HIDE DEF U
  <2> QED  BY <2>2, <2>3, <2>4
<1>9. ASSUME NEW p \in Range(stored), NEW d \in p.start..p.end
      PROVE  get_utilization_color(MachineDay(zone, bookings, d)) = "red"
  <2> DEFINE a == DayStart(zone, d)  z == DayStart(zone, d + 1)
             touching == {x \in Ids(bookings) : Max({bookings[x].start, a}) < Min({bookings[x].end, z})}
  <2>1. d \in Int /\ p.start <= d /\ d <= p.end
    <3>1. p.start \in Int /\ p.end \in Int
      BY <1>9, OverlapDatesAreInts DEF MachineBookingsTyped
    <3> QED  BY <3>1
  <2>2. PICK i \in Int : local_date(zone, i) = d /\ Crowded(bookings, i)
    BY <1>5, <2>1
  <2>3. a \in Int /\ z \in Int /\ a <= i /\ i < z
    <3>1. /\ a \in Int /\ z \in Int /\ d + 1 \in Int
          /\ a <= i <=> d <= local_date(zone, i)
          /\ z <= i <=> d + 1 <= local_date(zone, i)
      BY <2>1, DayStarts
    <3> QED  BY <2>1, <2>2, <3>1
  <2> HIDE DEF a, z
  <2>4. ASSUME NEW x \in Holders(bookings, i)
        PROVE  x \in touching
    <3>1. /\ x \in Ids(bookings) /\ bookings[x].start <= i /\ i < bookings[x].end
          /\ bookings[x].start \in Int /\ bookings[x].end \in Int
      BY DEF Holders, MachineBookingsTyped, BookingsTakeTime
    <3>2. Max({bookings[x].start, a}) <= i /\ i < Min({bookings[x].end, z})
          /\ Max({bookings[x].start, a}) \in Int /\ Min({bookings[x].end, z}) \in Int
      BY <2>3, <3>1, MaxOfTwo, MinOfTwo
    <3> QED  BY <3>1, <3>2
  <2>5. IsFiniteSet(touching) /\ Cardinality(touching) \in Nat
    <3>1. IsFiniteSet(Ids(bookings)) /\ touching \subseteq Ids(bookings)
      BY DEF MachineBookingsTyped, BookingsTakeTime
    <3>2. IsFiniteSet(touching)
      BY <3>1, FS_Subset
    <3> QED  BY <3>2, FS_CardinalityType
  <2> HIDE DEF touching
  <2>6. Cardinality(Holders(bookings, i)) <= Cardinality(touching)
        /\ Cardinality(Holders(bookings, i)) \in Nat /\ Cardinality(Holders(bookings, i)) > 1
    <3>1. Holders(bookings, i) \in SUBSET touching
      BY <2>4
    <3>2. Cardinality(Holders(bookings, i)) <= Cardinality(touching)
      BY <2>5, <3>1, FS_Subset
    <3>3. Cardinality(Holders(bookings, i)) \in Nat
      BY HoldersAreFinite DEF MachineBookingsTyped
    <3> QED  BY <2>2, <3>2, <3>3 DEF Crowded
  <2>7. Cardinality(touching) > 1
    BY <2>5, <2>6
  <2>8. local_day_bounds(zone, d)[1] = a /\ local_day_bounds(zone, d)[2] = z
    BY DEF local_day_bounds, a, z
  <2> QED  BY <2>5, <2>7, <2>8, TwoAreRed DEF touching
<1> QED  BY <1>8, <1>9 DEF OverlapsAreShown

-----------------------------------------------------------------------------
(* The shifts of a machine.                                                   *)

\* A whole is the sum of its parts.
LEMMA PartsAddUp ==
  ASSUME NEW S, IsFiniteSet(S), NEW K, IsFiniteSet(K), NEW f, \A x \in S : f[x] \in K
  PROVE  Total(K, [k \in K |-> Cardinality({x \in S : f[x] = k})]) = Cardinality(S)
<1> DEFINE share(k) == {x \in S : f[x] = k}
           g == [k \in K |-> Cardinality(share(k))]
           In(A) == {x \in S : f[x] \in A}
           T == {A \in SUBSET K : Total(A, g) = Cardinality(In(A))}
<1>1. \A A : IsFiniteSet({x \in S : f[x] \in A})
  BY FS_Subset
<1>2. \A k : IsFiniteSet(share(k)) /\ Cardinality(share(k)) \in Nat
  <2> TAKE k
  <2>1. IsFiniteSet(share(k))
    BY FS_Subset
  <2> QED  BY <2>1, FS_CardinalityType
<1>3. \A k \in K : g[k] = Cardinality(share(k)) /\ g[k] \in Int
  BY <1>2
<1> HIDE DEF g
<1>4. /\ Total({}, g) = 0
      /\ \A A \in SUBSET K : \A k \in A : Total(A, g) = g[k] + Total(A \ {k}, g)
  BY <1>3, TotalRest
<1>5. {} \in T
  <2>1. In({}) = {} /\ Cardinality({}) = 0
    BY FS_EmptySet
  <2> HIDE DEF In
  <2> QED  BY <1>4, <2>1
<1>6. ASSUME NEW A \in T, NEW k \in K \ A
      PROVE  A \cup {k} \in T
  <2>1. Total(A \cup {k}, g) = g[k] + Total(A, g)
    <3>1. A \cup {k} \in SUBSET K /\ k \in A \cup {k} /\ (A \cup {k}) \ {k} = A
      BY <1>6
    <3> QED  BY <1>4, <3>1
  <2>2. In(A \cup {k}) = In(A) \cup share(k) /\ In(A) \cap share(k) = {}
    BY <1>6
  <2>3. IsFiniteSet(In(A)) /\ IsFiniteSet(share(k))
    BY <1>1, <1>2
  <2>4. Cardinality(In(A)) \in Nat /\ Cardinality(share(k)) \in Nat
    BY <2>3, FS_CardinalityType
  <2> HIDE DEF In, share
  <2>5. Cardinality(In(A) \cup share(k)) = Cardinality(In(A)) + Cardinality(share(k)) - Cardinality({})
    BY <2>2, <2>3, FS_Union
  <2>6. Cardinality({}) = 0
    BY FS_EmptySet
  <2>7. A \in SUBSET K /\ Total(A, g) = Cardinality(In(A)) /\ k \in K
    BY <1>6
  <2>8. g[k] = Cardinality(share(k))
    BY <1>3, <2>7
  <2>9. Total(A \cup {k}, g) = Cardinality(In(A \cup {k}))
    <3>1. Cardinality(In(A \cup {k})) = Cardinality(In(A) \cup share(k))
      BY <2>2
    <3>2. Cardinality(In(A \cup {k})) = Cardinality(In(A)) + Cardinality(share(k))
      BY <2>4, <2>5, <2>6, <3>1
    <3> QED  BY <2>1, <2>4, <2>7, <2>8, <3>2
  <2> QED  BY <2>7, <2>9
<1>7. K \in T
  <2> HIDE DEF In, T
  <2>1. T \in SUBSET (SUBSET K)
    BY DEF T
  <2>2. T = SUBSET K
    BY <1>5, <1>6, <2>1, SetInduction
  <2> QED  BY <2>2
<1>8. In(K) = S
  OBVIOUS
<1> QED  BY <1>7, <1>8 DEF g

\* The times of shifts are times of a day.
ShiftsTyped(cal) ==
  /\ {"holidays", "windows"} \subseteq DOMAIN cal
  /\ IsFiniteSet(cal.windows)
  /\ \A w \in cal.windows : w.start \in 0..(MINUTES_PER_DAY - 1) /\ w.end \in 0..MINUTES_PER_DAY

\* Spans that are not empty, somewhere in a day.
Proper(spans) ==
  /\ SpansTyped(spans)
  /\ \A s \in spans : s[1] \in Int /\ s[2] \in Int /\ s[1] < s[2]

\* The spans of a day before they are merged.
Today(cal, day) == {<<w.start, IF Overnight(w) THEN MINUTES_PER_DAY ELSE w.end>> : w \in windows_for(cal, day)}
Tonight(cal, day) == {<<0, w.end>> : w \in {v \in windows_for(cal, day - 1) : Overnight(v) /\ v.end > 0}}
SpansOf(cal, day) ==
  IF has_windows(cal) THEN Today(cal, day) \cup Tonight(cal, day) ELSE {<<0, MINUTES_PER_DAY>>}

\* They are not empty.
LEMMA SpansAreProper ==
  ASSUME NEW cal, ShiftsTyped(cal), NEW d \in Int
  PROVE  Proper(SpansOf(cal, d))
<1> DEFINE D == MINUTES_PER_DAY  W == windows_for(cal, d)
           V == {v \in windows_for(cal, d - 1) : Overnight(v) /\ v.end > 0}
           f == [w \in W |-> <<w.start, IF Overnight(w) THEN D ELSE w.end>>]
           g == [w \in V |-> <<0, w.end>>]
<1>1. D \in Nat \ {0}
  BY DayAssumption
<1>2. IsFiniteSet(W) /\ IsFiniteSet(V) /\ W \subseteq cal.windows /\ V \subseteq cal.windows
  <2>1. W \subseteq cal.windows /\ V \subseteq cal.windows /\ IsFiniteSet(cal.windows)
    BY DEF windows_for, ShiftsTyped
  <2> HIDE DEF W, V
  <2> QED  BY <2>1, FS_Subset
<1>3. \A w \in cal.windows : w.start \in Int /\ w.end \in Int /\ w.start < D /\ 0 <= w.start
                             /\ (~Overnight(w) => w.start < w.end)
  BY <1>1 DEF ShiftsTyped, Overnight
<1>4. Today(cal, d) = {f[w] : w \in W} /\ Tonight(cal, d) = {g[w] : w \in V}
  BY DEF Today, Tonight
<1>5. \A w \in W : f[w] \in Int \X Int /\ f[w][1] \in Int /\ f[w][2] \in Int /\ f[w][1] < f[w][2]
  BY <1>1, <1>2, <1>3
<1>6. \A w \in V : g[w] \in Int \X Int /\ g[w][1] \in Int /\ g[w][2] \in Int /\ g[w][1] < g[w][2]
  BY <1>1, <1>2, <1>3
<1> HIDE DEF W, V, f, g
<1>7. IsFiniteSet(Today(cal, d)) /\ IsFiniteSet(Tonight(cal, d))
  BY <1>2, <1>4, ImageFinite
<1>8. CASE has_windows(cal)
  <2>1. SpansOf(cal, d) = Today(cal, d) \cup Tonight(cal, d)
    BY <1>8 DEF SpansOf
  <2>2. IsFiniteSet(SpansOf(cal, d))
    BY <1>7, <2>1, FS_Union
  <2>3. \A s \in SpansOf(cal, d) : s \in Int \X Int /\ s[1] \in Int /\ s[2] \in Int /\ s[1] < s[2]
    BY <1>4, <1>5, <1>6, <2>1
  <2> QED  BY <2>2, <2>3 DEF Proper, SpansTyped
<1>9. CASE ~has_windows(cal)
  <2>1. SpansOf(cal, d) = {<<0, D>>} /\ IsFiniteSet({<<0, D>>})
    BY <1>9, FS_Singleton DEF SpansOf
  <2> QED  BY <1>1, <2>1 DEF Proper, SpansTyped
<1> QED  BY <1>8, <1>9

\* Merged spans: the same minutes, in order and with gaps.
Covered(m, k) == \E i \in 1..Len(m) : m[i][1] <= k /\ k < m[i][2]
Apart(m) ==
  /\ m \in Seq(Int \X Int)
  /\ \A i \in 1..Len(m) : m[i][1] \in Int /\ m[i][2] \in Int /\ m[i][1] < m[i][2]
  /\ \A i, j \in 1..Len(m) : i < j => m[i][2] < m[j][1]

\* Merged makes them so.
LEMMA MergedAreApart ==
  ASSUME NEW spans, Proper(spans)
  PROVE  /\ Apart(Merged(spans))
         /\ \A k \in Int : Covered(Merged(spans), k) <=> \E s \in spans : s[1] <= k /\ k < s[2]
<1> DEFINE m == Merged(spans)  L == Len(m)
<1>1. MergesTo(spans, m)
  BY SpansMerge DEF Proper
<1> HIDE DEF m
<1>2. m \in Seq(Int \X Int) /\ L \in Nat
  <2>1. m \in Seq(Int \X Int)
    BY <1>1 DEF MergesTo
  <2> QED  BY <2>1
<1>3. \A i \in 1..L : m[i] \in Int \X Int /\ m[i][1] \in Int /\ m[i][2] \in Int
  BY <1>2
<1>4. \A i \in 1..(L - 1) : m[i][2] < m[i + 1][1]
  BY <1>1 DEF MergesTo
<1>5. \A i \in 1..L : m[i][1] < m[i][2]
  <2> TAKE i \in 1..L
  <2>1. PICK w, v \in spans : m[i][1] = w[1] /\ m[i][2] = v[2] /\ w[2] <= m[i][2]
    BY <1>1 DEF MergesTo
  <2>2. w[1] \in Int /\ w[2] \in Int /\ w[1] < w[2]
    BY DEF Proper
  <2> QED  BY <1>3, <2>1, <2>2
<1>6. \A k \in Int : Covered(m, k) <=> \E s \in spans : s[1] <= k /\ k < s[2]
  <2> TAKE k \in Int
  <2>1. ASSUME Covered(m, k) PROVE \E s \in spans : s[1] <= k /\ k < s[2]
    <3>1. PICK i \in 1..L : m[i][1] <= k /\ k < m[i][2]
      BY <2>1 DEF Covered
    <3> QED  BY <1>1, <3>1 DEF MergesTo
  <2>2. ASSUME NEW s \in spans, s[1] <= k, k < s[2] PROVE Covered(m, k)
    <3>1. PICK i \in 1..L : m[i][1] <= s[1] /\ s[2] <= m[i][2]
      BY <1>1 DEF MergesTo
    <3>2. s[1] \in Int /\ s[2] \in Int /\ m[i][1] \in Int /\ m[i][2] \in Int
      BY <1>3 DEF Proper
    <3> QED  BY <2>2, <3>1, <3>2 DEF Covered
  <2> QED  BY <2>1, <2>2
<1> HIDE DEF L
<1> DEFINE T == {j \in 0..L : \A i \in 1..L : i < j => m[i][2] < m[j][1]}
<1>7. 0 \in T
  BY <1>2
<1>8. ASSUME NEW j \in 0..L, j \in T, j < L
      PROVE  j + 1 \in T
  <2>1. j + 1 \in 1..L /\ j + 1 \in 0..L
    BY <1>2, <1>8
  <2>2. ASSUME NEW i \in 1..L, i < j + 1 PROVE m[i][2] < m[j + 1][1]
    <3>1. j \in 1..(L - 1) /\ j \in 1..L
      BY <1>2, <1>8, <2>2
    <3>2. m[j][2] < m[j + 1][1] /\ m[j][1] < m[j][2]
      BY <1>4, <1>5, <3>1
    <3>3. i = j \/ m[i][2] < m[j][1]
      BY <1>8, <2>2
    <3>4. m[i][2] \in Int /\ m[j][1] \in Int /\ m[j][2] \in Int /\ m[j + 1][1] \in Int
      BY <1>3, <2>1, <3>1
    <3> QED  BY <3>2, <3>3, <3>4
  <2> QED  BY <2>1, <2>2
<1>9. \A j \in 0..L : j \in T
  <2> HIDE DEF T
  <2> QED  BY <1>2, <1>7, <1>8, PrefixInduction
<1>10. \A i, j \in 1..L : i < j => m[i][2] < m[j][1]
  <2> TAKE i, j \in 1..L
  <2>1. j \in 0..L
    BY <1>2
  <2> QED  BY <1>9, <2>1
<1> QED  BY <1>2, <1>3, <1>5, <1>6, <1>10 DEF Apart, m, L

\* A minute of a day is covered if a span has it.
CoveredAt(cal, day, k) == \E s \in SpansOf(cal, day) : s[1] <= k /\ k < s[2]

\* The covered spans of a day are its spans, merged.
LEMMA CoveredSpansAre ==
  ASSUME NEW cal, ShiftsTyped(cal), NEW d \in Int
  PROVE  /\ Apart(covered_spans(cal, d))
         /\ \A k \in Int : Covered(covered_spans(cal, d), k) <=> CoveredAt(cal, d, k)
<1> DEFINE D == MINUTES_PER_DAY  m == << <<0, D>> >>
<1>1. CASE has_windows(cal)
  <2>1. covered_spans(cal, d) = Merged(SpansOf(cal, d))
    BY <1>1 DEF covered_spans, SpansOf, Today, Tonight
  <2>2. Proper(SpansOf(cal, d))
    BY SpansAreProper
  <2> QED  BY <2>1, <2>2, MergedAreApart DEF CoveredAt
<1>2. CASE ~has_windows(cal)
  <2>1. covered_spans(cal, d) = m /\ SpansOf(cal, d) = {<<0, D>>}
    BY <1>2 DEF covered_spans, SpansOf
  <2>2. D \in Nat \ {0}
    BY DayAssumption
  <2>3. m \in Seq(Int \X Int) /\ Len(m) = 1 /\ m[1][1] = 0 /\ m[1][2] = D
    BY <2>2
  <2> HIDE DEF D, m
  <2>4. Apart(m)
    BY <2>2, <2>3 DEF Apart
  <2>5. \A k \in Int : Covered(m, k) <=> CoveredAt(cal, d, k)
    BY <2>1, <2>3 DEF Covered, CoveredAt
  <2> QED  BY <2>1, <2>4, <2>5
<1> QED  BY <1>1, <1>2

\* A reading is that of a date and a minute.
LEMMA ReadingIs ==
  ASSUME NEW zone \in ZoneType, NEW i \in Int
  PROVE  /\ local_time(zone, i) \in Int /\ local_date(zone, i) \in Int
         /\ MinuteOfDay(zone, i) \in 0..(MINUTES_PER_DAY - 1)
         /\ local_time(zone, i) = local_date(zone, i) * MINUTES_PER_DAY + MinuteOfDay(zone, i)
<1> DEFINE D == MINUTES_PER_DAY  r == local_time(zone, i)
<1>1. D \in Nat \ {0}
  BY DayAssumption
<1>2. r \in Int
  BY DEF local_time, ZoneType
<1> HIDE DEF r, D
<1>3. r \div D \in Int /\ r % D \in 0..(D - 1) /\ r = D * (r \div D) + (r % D)
  BY <1>1, <1>2
<1>4. D * (r \div D) = (r \div D) * D
  BY <1>1, <1>3
<1> QED  BY <1>2, <1>3, <1>4 DEF local_date, MinuteOfDay, r, D

\* A machine may be booked in the minutes that are covered.
LEMMA BookableIsCovered ==
  ASSUME NEW cal, ShiftsTyped(cal), NEW zone \in ZoneType, NEW i \in Int
  PROVE  Bookable(cal, zone, i) <=> CoveredAt(cal, local_date(zone, i), MinuteOfDay(zone, i))
<1> DEFINE D == MINUTES_PER_DAY  d == local_date(zone, i)  k == MinuteOfDay(zone, i)
           r == local_time(zone, i)
<1>1. D \in Nat \ {0} /\ r \in Int /\ d \in Int /\ k \in 0..(D - 1) /\ r = d * D + k
  BY DayAssumption, ReadingIs
<1> HIDE DEF D, d, k, r
<1>2. CASE ~has_windows(cal)
  <2>1. <<0, D>> \in SpansOf(cal, d)
    BY <1>2 DEF SpansOf, D
  <2> QED  BY <1>1, <1>2, <2>1 DEF Bookable, CoveredAt, d, k
<1>3. CASE has_windows(cal)
  <2>1. r - (d - 0) * D = k /\ r - (d - 1) * D = k + D
    <3>1. d * D \in Int /\ (d - 1) * D = d * D - D /\ d - 0 = d
      BY <1>1
    <3> QED  BY <1>1, <3>1
  <2>2. \A w \in cal.windows : w.start \in 0..(D - 1) /\ w.end \in 0..D
    BY DEF ShiftsTyped, D
  <2>3. ASSUME NEW w \in cal.windows
        PROVE  UnderWay(cal, w, d - 0, r)
                 <=> w \in windows_for(cal, d) /\ w.start <= k /\ k < (IF Overnight(w) THEN D ELSE w.end)
    <3>1. w.start \in 0..(D - 1) /\ w.end \in 0..D
      BY <2>2
    <3>2. d - 0 = d
      BY <1>1
    <3>3. UnderWay(cal, w, d, r)
            <=> /\ w.weekday = Weekday(d) /\ d \notin DOMAIN cal.holidays
                /\ w.start <= k /\ k < (IF Overnight(w) THEN w.end + D ELSE w.end)
      BY <2>1, <3>2 DEF UnderWay, D
    <3>4. k < (IF Overnight(w) THEN w.end + D ELSE w.end) <=> k < (IF Overnight(w) THEN D ELSE w.end)
      BY <1>1, <3>1
    <3>5. w \in windows_for(cal, d) <=> w.weekday = Weekday(d) /\ d \notin DOMAIN cal.holidays
      BY DEF windows_for
    <3> QED  BY <3>2, <3>3, <3>4, <3>5
  <2>4. ASSUME NEW w \in cal.windows
        PROVE  UnderWay(cal, w, d - 1, r)
                 <=> w \in windows_for(cal, d - 1) /\ Overnight(w) /\ w.end > 0 /\ 0 <= k /\ k < w.end
    <3>1. w.start \in 0..(D - 1) /\ w.end \in 0..D
      BY <2>2
    <3>2. UnderWay(cal, w, d - 1, r)
            <=> /\ w.weekday = Weekday(d - 1) /\ d - 1 \notin DOMAIN cal.holidays
                /\ w.start <= k + D /\ k + D < (IF Overnight(w) THEN w.end + D ELSE w.end)
      BY <2>1 DEF UnderWay, D
    <3>3. w.start <= k + D /\ k + D < (IF Overnight(w) THEN w.end + D ELSE w.end)
            <=> Overnight(w) /\ w.end > 0 /\ 0 <= k /\ k < w.end
      BY <1>1, <3>1
    <3>4. w \in windows_for(cal, d - 1) <=> w.weekday = Weekday(d - 1) /\ d - 1 \notin DOMAIN cal.holidays
      BY DEF windows_for
    <3> QED  BY <3>2, <3>3, <3>4
  <2>5. Bookable(cal, zone, i) <=> \E w \in cal.windows : UnderWay(cal, w, d - 0, r) \/ UnderWay(cal, w, d - 1, r)
    BY <1>3 DEF Bookable, d, r
  <2>6. windows_for(cal, d) \subseteq cal.windows /\ windows_for(cal, d - 1) \subseteq cal.windows
    BY DEF windows_for
  <2>7. (\E s \in Today(cal, d) : s[1] <= k /\ k < s[2])
          <=> \E w \in cal.windows : UnderWay(cal, w, d - 0, r)
    <3>1. (\E s \in Today(cal, d) : s[1] <= k /\ k < s[2])
            <=> \E w \in windows_for(cal, d) : w.start <= k /\ k < (IF Overnight(w) THEN D ELSE w.end)
      <4> DEFINE end(w) == IF Overnight(w) THEN D ELSE w.end
      <4>1. Today(cal, d) = {<<w.start, end(w)>> : w \in windows_for(cal, d)}
        BY DEF Today, D
      <4> HIDE DEF end
      <4>2. \A w : <<w.start, end(w)>>[1] = w.start /\ <<w.start, end(w)>>[2] = end(w)
        OBVIOUS
      <4>3. (\E s \in Today(cal, d) : s[1] <= k /\ k < s[2])
              <=> \E w \in windows_for(cal, d) : w.start <= k /\ k < end(w)
        BY <4>1, <4>2
      <4> QED  BY <4>3 DEF end
    <3> QED  BY <2>3, <2>6, <3>1
  <2>8. (\E s \in Tonight(cal, d) : s[1] <= k /\ k < s[2])
          <=> \E w \in cal.windows : UnderWay(cal, w, d - 1, r)
    <3>1. (\E s \in Tonight(cal, d) : s[1] <= k /\ k < s[2])
            <=> \E w \in windows_for(cal, d - 1) : Overnight(w) /\ w.end > 0 /\ 0 <= k /\ k < w.end
      <4> DEFINE V == {v \in windows_for(cal, d - 1) : Overnight(v) /\ v.end > 0}
      <4>1. Tonight(cal, d) = {<<0, w.end>> : w \in V}
        BY DEF Tonight
      <4>2. \A w : <<0, w.end>>[1] = 0 /\ <<0, w.end>>[2] = w.end
        OBVIOUS
      <4>3. \A w : w \in V <=> w \in windows_for(cal, d - 1) /\ Overnight(w) /\ w.end > 0
        OBVIOUS
      <4> HIDE DEF V
      <4>4. (\E s \in Tonight(cal, d) : s[1] <= k /\ k < s[2]) <=> \E w \in V : 0 <= k /\ k < w.end
        BY <4>1, <4>2
      <4> QED  BY <4>3, <4>4
    <3> QED  BY <2>4, <2>6, <3>1
  <2>9. SpansOf(cal, d) = Today(cal, d) \cup Tonight(cal, d)
    BY <1>3 DEF SpansOf
  <2> QED  BY <2>5, <2>7, <2>8, <2>9 DEF CoveredAt, d, k
<1> QED  BY <1>2, <1>3

\* What a span has of a stretch of minutes.
Amount(m, x, y, i) == Max({0, Min({y, m[i][2]}) - Max({x, m[i][1]})})

\* Such amounts add up.
LEMMA AmountsAddUp ==
  ASSUME NEW m, Apart(m), NEW x \in Int, NEW y \in Int
  PROVE  MapThenSumSet(LAMBDA i : Max({0, Min({y, m[i][2]}) - Max({x, m[i][1]})}), DOMAIN m)
           = Total(1..Len(m), [i \in 1..Len(m) |-> Amount(m, x, y, i)])
<1> DEFINE A == 1..Len(m)
           f == [i \in A |-> Amount(m, x, y, i)]
           P(iter) == iter = [s \in SUBSET A |-> IF s = {} THEN 0
                         ELSE LET i == CHOOSE i \in s : TRUE IN Amount(m, x, y, i) + iter[s \ {i}]]
           it == CHOOSE iter : P(iter)
<1>0. DOMAIN m = A /\ IsFiniteSet(A)
  <2>1. m \in Seq(Int \X Int)
    BY DEF Apart
  <2>2. DOMAIN m = A /\ Len(m) \in Nat
    BY <2>1
  <2> QED  BY <2>2, FS_Interval
<1>1. \A i \in A : f[i] = Amount(m, x, y, i) /\ f[i] \in Int
  <2> TAKE i \in A
  <2>1. m[i][1] \in Int /\ m[i][2] \in Int
    BY DEF Apart
  <2>2. Min({y, m[i][2]}) - Max({x, m[i][1]}) \in Int
    BY <2>1, MinOfTwo, MaxOfTwo
  <2> DEFINE e == Min({y, m[i][2]}) - Max({x, m[i][1]})
  <2>3. Amount(m, x, y, i) = Max({0, e})
    BY DEF Amount
  <2>4. e \in Int /\ 0 \in Int
    BY <2>2
  <2> HIDE DEF e
  <2>5. Max({0, e}) \in Int
    BY <2>4, MaxOfTwo
  <2> QED  BY <2>3, <2>5
<1> HIDE DEF f, A
<1>2. ASSUME NEW iter PROVE P(iter) <=> Summed(A, f, iter)
  <2>1. ASSUME NEW s \in SUBSET A, s # {}
        PROVE  (CHOOSE i \in s : TRUE) \in A
    BY <2>1
  <2>2. ASSUME NEW s \in SUBSET A
        PROVE  (IF s = {} THEN 0 ELSE LET i == CHOOSE i \in s : TRUE IN Amount(m, x, y, i) + iter[s \ {i}])
               = (IF s = {} THEN 0 ELSE LET i == CHOOSE i \in s : TRUE IN f[i] + iter[s \ {i}])
    BY <1>1, <2>1
  <2> QED  BY <2>2 DEF Summed
<1>3. \E iter : P(iter)
  <2>1. PICK iter : Summed(A, f, iter)
    BY <1>0, <1>1, SumExists
  <2>2. P(iter)
    BY <1>2, <2>1
  <2> HIDE DEF P
  <2> QED  BY <2>2
<1>4. P(it)
  <2> HIDE DEF P
  <2> QED  BY <1>3
<1>5. MapThenSumSet(LAMBDA i : Max({0, Min({y, m[i][2]}) - Max({x, m[i][1]})}), A) = it[A]
  BY DEF MapThenSumSet, MapThenFoldSet, Amount
<1> HIDE DEF P, it
<1>6. it[A] = Total(A, f)
  BY <1>0, <1>1, <1>2, <1>4, SumsAgree
<1> QED  BY <1>0, <1>5, <1>6 DEF f, A

\* The minutes of a day in its spans are those that are covered.
LEMMA CoveredMinutesAre ==
  ASSUME NEW cal, ShiftsTyped(cal), NEW d \in Int, NEW x \in Int, NEW y \in Int, x <= y
  PROVE  covered_minutes_within(cal, d, x, y) = Cardinality({k \in x..(y - 1) : CoveredAt(cal, d, k)})
<1> DEFINE m == covered_spans(cal, d)  K == 1..Len(m)
           S == {k \in x..(y - 1) : Covered(m, k)}
           f == [k \in S |-> CHOOSE i \in K : m[i][1] <= k /\ k < m[i][2]]
           g == [i \in K |-> Amount(m, x, y, i)]
           h == [i \in K |-> Cardinality({k \in S : f[k] = i})]
<1>1. Apart(m) /\ \A k \in Int : Covered(m, k) <=> CoveredAt(cal, d, k)
  BY CoveredSpansAre
<1>2. covered_minutes_within(cal, d, x, y)
        = MapThenSumSet(LAMBDA i : Max({0, Min({y, m[i][2]}) - Max({x, m[i][1]})}), DOMAIN m)
  BY DEF covered_minutes_within
<1> HIDE DEF m
<1>3. covered_minutes_within(cal, d, x, y) = Total(K, g)
  BY <1>1, <1>2, AmountsAddUp
<1>4. IsFiniteSet(S) /\ IsFiniteSet(K)
  <2>1. m \in Seq(Int \X Int)
    BY <1>1 DEF Apart
  <2>2. Len(m) \in Nat
    BY <2>1
  <2>3. IsFiniteSet(x..(y - 1))
    BY FS_Interval
  <2>4. IsFiniteSet(K)
    BY <2>2, FS_Interval
  <2> QED  BY <2>3, <2>4, FS_Subset
<1>5. \A i \in K : m[i][1] \in Int /\ m[i][2] \in Int /\ m[i][1] < m[i][2]
  BY <1>1 DEF Apart
<1>6. \A k \in S : f[k] \in K /\ m[f[k]][1] <= k /\ k < m[f[k]][2]
  BY DEF Covered
<1>7. ASSUME NEW i \in K, NEW j \in K, NEW k \in Int,
             m[i][1] <= k, k < m[i][2], m[j][1] <= k, k < m[j][2]
      PROVE  i = j
  <2>1. i < j => m[i][2] < m[j][1]
    BY <1>1 DEF Apart
  <2>2. j < i => m[j][2] < m[i][1]
    BY <1>1 DEF Apart
  <2>3. i \in Int /\ j \in Int
    OBVIOUS
  <2> QED  BY <1>5, <1>7, <2>1, <2>2, <2>3
<1>8. ASSUME NEW i \in K
      PROVE  g[i] = h[i]
  <2> DEFINE lo == Max({x, m[i][1]})  hi == Min({y, m[i][2]})
  <2>1. /\ lo \in Int /\ hi \in Int
        /\ \A k \in Int : lo <= k /\ k < hi <=> x <= k /\ k < y /\ m[i][1] <= k /\ k < m[i][2]
    <3>1. m[i][1] \in Int /\ m[i][2] \in Int
      BY <1>5
    <3>2. /\ lo = IF x <= m[i][1] THEN m[i][1] ELSE x
          /\ hi = IF y <= m[i][2] THEN y ELSE m[i][2]
      BY <3>1, MaxOfTwo, MinOfTwo
    <3> HIDE DEF lo, hi
    <3> QED  BY <3>1, <3>2
  <2>2. g[i] = Max({0, hi - lo})
    BY DEF Amount
  <2> HIDE DEF lo, hi
  <2>3. {k \in S : f[k] = i} = lo..(hi - 1)
    <3>1. ASSUME NEW k \in S, f[k] = i PROVE k \in lo..(hi - 1)
      <4>1. k \in Int /\ x <= k /\ k < y /\ m[i][1] <= k /\ k < m[i][2]
        <5> HIDE DEF f
        <5> QED  BY <1>6, <3>1
      <4> QED  BY <2>1, <4>1
    <3>2. ASSUME NEW k \in lo..(hi - 1) PROVE k \in S /\ f[k] = i
      <4>1. k \in Int /\ x <= k /\ k < y /\ m[i][1] <= k /\ k < m[i][2]
        BY <2>1
      <4>2. k \in S
        BY <4>1 DEF Covered
      <4> HIDE DEF f, S
      <4>3. f[k] \in K /\ m[f[k]][1] <= k /\ k < m[f[k]][2]
        BY <1>6, <4>2
      <4>4. f[k] = i
        BY <1>7, <4>1, <4>3
      <4> QED  BY <4>2, <4>4
    <3> HIDE DEF f, S
    <3> QED  BY <3>1, <3>2
  <2>4. Cardinality(lo..(hi - 1)) = IF lo > hi - 1 THEN 0 ELSE (hi - 1) - lo + 1
    BY <2>1, FS_Interval
  <2>5. Max({0, hi - lo}) = IF 0 <= hi - lo THEN hi - lo ELSE 0
    BY <2>1, MaxOfTwo
  <2>6. h[i] = Cardinality(lo..(hi - 1))
    BY <2>3
  <2> HIDE DEF g, h
  <2> QED  BY <2>1, <2>2, <2>4, <2>5, <2>6
<1>9. g = h
  BY <1>8
<1>10. Total(K, h) = Cardinality(S)
  <2> HIDE DEF K, S, f
  <2>1. \A k \in S : f[k] \in K
    BY <1>6
  <2> QED  BY <1>4, <2>1, PartsAddUp
<1>11. S = {k \in x..(y - 1) : CoveredAt(cal, d, k)}
  <2>1. \A k \in x..(y - 1) : Covered(m, k) <=> CoveredAt(cal, d, k)
    BY <1>1
  <2> QED  BY <2>1
<1> HIDE DEF g, h, S, K
<1> QED  BY <1>3, <1>9, <1>10, <1>11

\* On a day as long as any other the clock shows the minutes that have passed.
LEMMA RegularDay ==
  ASSUME NEW zone, OrdinaryClock(zone), NEW d \in Int,
         DayStart(zone, d + 1) - DayStart(zone, d) = MINUTES_PER_DAY,
         NEW i \in Int, DayStart(zone, d) <= i, i < DayStart(zone, d + 1)
  PROVE  MinuteOfDay(zone, i) = i - DayStart(zone, d)
<1> DEFINE D == MINUTES_PER_DAY  first == DayStart(zone, d)  next == DayStart(zone, d + 1)
           c == zone.change  b == zone.before  a == zone.after
<1>1. D \in Nat \ {0} /\ c \in Int /\ b \in Int /\ a \in Int /\ zone \in ZoneType
  BY DayAssumption DEF OrdinaryClock, DatesDoNotFallBack, ZoneType
<1>2. /\ first \in Int /\ local_time(zone, first) = d * D
      /\ \A k \in Int : first <= k <=> d <= local_date(zone, k)
  BY DayStarts
<1>3. /\ next \in Int /\ local_time(zone, next) = (d + 1) * D
      /\ \A k \in Int : next <= k <=> d + 1 <= local_date(zone, k)
  <2>1. d + 1 \in Int
    OBVIOUS
  <2> QED  BY <2>1, DayStarts
<1>4. \A k \in Int : local_time(zone, k) = IF k < c THEN k + b ELSE k + a
  BY <1>1 DEF local_time
<1>5. next - first = D /\ first <= i /\ i < next
  OBVIOUS
<1>6. /\ local_time(zone, i) \in Int /\ local_date(zone, i) \in Int
      /\ MinuteOfDay(zone, i) \in 0..(D - 1)
      /\ local_time(zone, i) = local_date(zone, i) * D + MinuteOfDay(zone, i)
  BY <1>1, ReadingIs
<1>7. local_date(zone, i) = d
  <2>1. d <= local_date(zone, i) /\ ~(d + 1 <= local_date(zone, i))
    BY <1>2, <1>3, <1>5
  <2> QED  BY <1>6, <2>1
<1>8. (d + 1) * D = d * D + D /\ d * D \in Int
  BY <1>1
<1> HIDE DEF first, next, a, b, c, D
<1>9. local_time(zone, i) = d * D + (i - first)
  <2> DEFINE e == d * D
  <2>1. e \in Int /\ local_time(zone, first) = e /\ local_time(zone, next) = e + D
    BY <1>2, <1>3, <1>8
  <2> HIDE DEF e
  <2>2. local_time(zone, i) = e + (i - first)
    <3>1. /\ local_time(zone, first) = IF first < c THEN first + b ELSE first + a
          /\ local_time(zone, next) = IF next < c THEN next + b ELSE next + a
          /\ local_time(zone, i) = IF i < c THEN i + b ELSE i + a
      BY <1>2, <1>3, <1>4
    <3> QED  BY <1>1, <1>2, <1>3, <1>5, <2>1, <3>1
  <2> QED  BY <2>2 DEF e
<1>10. MinuteOfDay(zone, i) = i - first
  <2> DEFINE e == d * D
  <2>1. e \in Int /\ local_time(zone, i) = e + (i - first) /\ local_time(zone, i) = e + MinuteOfDay(zone, i)
    BY <1>6, <1>7, <1>8, <1>9
  <2> HIDE DEF e
  <2>2. MinuteOfDay(zone, i) \in Int
    BY <1>1, <1>6
  <2> QED  BY <1>2, <2>1, <2>2
<1> QED  BY <1>10 DEF first

\* The minutes of a booking on a day.
MinutesOn(zone, booking, d) ==
  {i \in booking.start..(booking.end - 1) : local_date(zone, i) = d}

\* What the report counts of a day are its minutes, and those of them that are covered.
LEMMA PartIs ==
  ASSUME NEW cal, ShiftsTyped(cal), NEW zone, OrdinaryClock(zone),
         NEW booking, booking.start \in Int, booking.end \in Int, NEW d \in Int
  PROVE  LET minutes == MinutesOn(zone, booking, d)
         IN /\ PartOn(cal, zone, booking, d).booked = Cardinality(minutes)
            /\ PartOn(cal, zone, booking, d).covered
                 = Cardinality({i \in minutes : CoveredAt(cal, d, MinuteOfDay(zone, i))})
<1> DEFINE a == DayStart(zone, d)  z == DayStart(zone, d + 1)
           from == Max({booking.start, a})  to == Min({booking.end, z})
           minutes == MinutesOn(zone, booking, d)
           start == MinuteOfDay(zone, from)
           spans == covered_spans(cal, d)
           InSpan(m) == \E s \in Range(spans) : s[1] <= m /\ m < s[2]
           counted == IF to <= from THEN 0
                      ELSE IF z - a = MINUTES_PER_DAY
                      THEN covered_minutes_within(cal, d, start, start + to - from)
                      ELSE Cardinality({i \in from..(to - 1) : InSpan(MinuteOfDay(zone, i))})
           covered == {i \in minutes : CoveredAt(cal, d, MinuteOfDay(zone, i))}
<1>1. local_day_bounds(zone, d)[1] = a /\ local_day_bounds(zone, d)[2] = z
  BY DEF local_day_bounds
<1>2. PartOn(cal, zone, booking, d).booked = Max({0, to - from})
      /\ PartOn(cal, zone, booking, d).covered = counted
  BY <1>1 DEF PartOn
<1>3. zone \in ZoneType /\ \A i \in Int : local_date(zone, i) \in Int /\ MinuteOfDay(zone, i) \in Int
  <2>1. zone \in ZoneType /\ MINUTES_PER_DAY \in Nat
    BY DayAssumption DEF OrdinaryClock, DatesDoNotFallBack
  <2>2. \A i \in Int : local_date(zone, i) \in Int /\ MinuteOfDay(zone, i) \in 0..(MINUTES_PER_DAY - 1)
    BY <2>1, ReadingIs
  <2> QED  BY <2>1, <2>2
<1>4. /\ a \in Int /\ z \in Int
      /\ \A i \in Int : local_date(zone, i) = d <=> a <= i /\ i < z
  <2>1. a \in Int /\ \A i \in Int : a <= i <=> d <= local_date(zone, i)
    BY DayStarts
  <2>2. d + 1 \in Int
    OBVIOUS
  <2>3. z \in Int /\ \A i \in Int : z <= i <=> d + 1 <= local_date(zone, i)
    BY <2>2, DayStarts
  <2> HIDE DEF a, z
  <2>4. ASSUME NEW i \in Int PROVE local_date(zone, i) = d <=> a <= i /\ i < z
    <3>1. local_date(zone, i) \in Int
      BY <1>3
    <3>2. (a <= i <=> d <= local_date(zone, i)) /\ (z <= i <=> d + 1 <= local_date(zone, i))
      BY <2>1, <2>3
    <3> QED  BY <2>1, <2>3, <3>1, <3>2
  <2> QED  BY <2>1, <2>3, <2>4
<1>5. ASSUME z - a = MINUTES_PER_DAY, NEW i \in a..(z - 1)
      PROVE  MinuteOfDay(zone, i) = i - a
  BY <1>4, <1>5, RegularDay
<1>6. \A k \in Int : Covered(spans, k) <=> CoveredAt(cal, d, k)
  BY CoveredSpansAre
<1>7. \A k \in Int : InSpan(k) <=> CoveredAt(cal, d, k)
  <2>1. Range(spans) = {spans[i] : i \in 1..Len(spans)}
    <3>1. spans \in Seq(Int \X Int)
      BY CoveredSpansAre DEF Apart
    <3> HIDE DEF spans
    <3> QED  BY <3>1 DEF Range
  <2> HIDE DEF spans
  <2> QED  BY <1>6, <2>1 DEF Covered
<1> HIDE DEF a, z, spans, InSpan
<1>8. /\ from \in Int /\ to \in Int
      /\ \A i \in Int : from <= i /\ i < to <=> booking.start <= i /\ i < booking.end /\ a <= i /\ i < z
      /\ a <= from /\ to <= z
  <2>1. /\ from = IF booking.start <= a THEN a ELSE booking.start
        /\ to = IF booking.end <= z THEN booking.end ELSE z
    BY <1>4, MaxOfTwo, MinOfTwo
  <2> HIDE DEF from, to
  <2> QED  BY <1>4, <2>1
<1> HIDE DEF from, to
<1>9. minutes = from..(to - 1)
  <2>1. ASSUME NEW i \in Int PROVE i \in minutes <=> from <= i /\ i < to
    BY <1>4, <1>8 DEF MinutesOn
  <2>2. minutes \in SUBSET Int
    BY DEF MinutesOn
  <2>3. \A i \in Int : i \in from..(to - 1) <=> from <= i /\ i < to
    BY <1>8
  <2>4. from..(to - 1) \in SUBSET Int
    OBVIOUS
  <2> HIDE DEF minutes
  <2>5. \A i : i \in minutes <=> i \in from..(to - 1)
    BY <2>1, <2>2, <2>3, <2>4
  <2> QED  BY <2>5
<1> HIDE DEF minutes
<1>10. Max({0, to - from}) = Cardinality(minutes)
  <2>1. Cardinality(from..(to - 1)) = IF from > to - 1 THEN 0 ELSE (to - 1) - from + 1
    BY <1>8, FS_Interval
  <2>2. to - from \in Int /\ 0 \in Int
    BY <1>8
  <2>3. Max({0, to - from}) = IF 0 <= to - from THEN to - from ELSE 0
    BY <2>2, MaxOfTwo
  <2> QED  BY <1>8, <1>9, <2>1, <2>3
<1>11. CASE to <= from
  <2>1. minutes = {}
    BY <1>8, <1>9, <1>11
  <2>2. covered = {} /\ counted = 0
    BY <1>11, <2>1
  <2>3. Cardinality({}) = 0
    BY FS_EmptySet
  <2> HIDE DEF covered, counted
  <2> QED  BY <1>2, <1>10, <2>2, <2>3 DEF covered, minutes
<1>12. CASE ~(to <= from) /\ z - a = MINUTES_PER_DAY
  <2> DEFINE x == from - a  y == to - a
             T == {k \in x..(y - 1) : CoveredAt(cal, d, k)}
             f == [i \in covered |-> i - a]
  <2>1. start = x /\ start + to - from = y /\ x \in Int /\ y \in Int /\ x <= y
    <3>1. from \in a..(z - 1)
      BY <1>4, <1>8, <1>12
    <3>2. start = from - a
      BY <1>5, <1>12, <3>1
    <3> HIDE DEF start
    <3> QED  BY <1>4, <1>8, <1>12, <3>2
  <2>2. counted = covered_minutes_within(cal, d, x, y)
    <3> HIDE DEF x, y, start
    <3> QED  BY <1>12, <2>1
  <2>3. covered_minutes_within(cal, d, x, y) = Cardinality(T)
    <3> HIDE DEF x, y
    <3> QED  BY <2>1, CoveredMinutesAre
  <2>4. \A i \in minutes : MinuteOfDay(zone, i) = i - a /\ i \in Int
    BY <1>4, <1>5, <1>8, <1>9, <1>12
  <2>5. covered = {i \in from..(to - 1) : CoveredAt(cal, d, i - a)}
    BY <1>9, <2>4
  <2>6. ExistsBijection(covered, T)
    <3>1. \A i \in covered : i \in Int /\ i - a \in T
      BY <1>4, <1>8, <2>5
    <3>2. f \in [covered -> T]
      <4> HIDE DEF covered, T
      <4> QED  BY <3>1
    <3>3. \A i, j \in covered : f[i] = f[j] => i = j
      <4> HIDE DEF covered
      <4> QED  BY <1>4, <3>1
    <3>4. \A k \in T : \E i \in covered : f[i] = k
      <4> TAKE k \in T
      <4>1. k \in Int /\ k + a \in from..(to - 1) /\ (k + a) - a = k
        BY <1>4, <1>8
      <4>2. k + a \in covered
        BY <2>5, <4>1
      <4> HIDE DEF covered
      <4> QED  BY <4>1, <4>2
    <3> HIDE DEF covered, T, f
    <3>5. f \in Bijection(covered, T)
      BY <3>2, <3>3, <3>4 DEF Bijection, Injection, IsInjective, Surjection
    <3> QED  BY <3>5 DEF ExistsBijection
  <2>7. IsFiniteSet(covered)
    <3>1. IsFiniteSet(minutes)
      BY <1>8, <1>9, FS_Interval
    <3> QED  BY <3>1, FS_Subset
  <2> HIDE DEF covered, T, x, y, counted
  <2>8. Cardinality(T) = Cardinality(covered)
    BY <2>6, <2>7, FS_Bijection
  <2> QED  BY <1>2, <1>10, <2>2, <2>3, <2>8 DEF covered, minutes
<1>13. CASE ~(to <= from) /\ z - a # MINUTES_PER_DAY
  <2>1. counted = Cardinality({i \in from..(to - 1) : InSpan(MinuteOfDay(zone, i))})
    BY <1>13
  <2>2. \A i \in from..(to - 1) : InSpan(MinuteOfDay(zone, i)) <=> CoveredAt(cal, d, MinuteOfDay(zone, i))
    <3> TAKE i \in from..(to - 1)
    <3>1. MinuteOfDay(zone, i) \in Int
      BY <1>3, <1>8
    <3> QED  BY <1>7, <3>1
  <2>3. {i \in from..(to - 1) : InSpan(MinuteOfDay(zone, i))} = covered
    BY <1>9, <2>2
  <2> HIDE DEF covered, counted
  <2> QED  BY <1>2, <1>10, <2>1, <2>3 DEF covered, minutes
<1> QED  BY <1>11, <1>12, <1>13

\* The minutes that the days of a report have booked add up.
LEMMA BookedAddUp ==
  ASSUME NEW parts, NEW A, IsFiniteSet(A), \A d \in A : parts[d].booked \in Nat
  PROVE  MapThenSumSet(LAMBDA d : parts[d].booked, A) = Total(A, [d \in A |-> parts[d].booked])
<1> DEFINE f == [d \in A |-> parts[d].booked]
           P(iter) == iter = [s \in SUBSET A |-> IF s = {} THEN 0
                         ELSE LET d == CHOOSE d \in s : TRUE IN parts[d].booked + iter[s \ {d}]]
           it == CHOOSE iter : P(iter)
<1>1. \A d \in A : f[d] = parts[d].booked /\ f[d] \in Int
  OBVIOUS
<1> HIDE DEF f
<1>2. ASSUME NEW iter PROVE P(iter) <=> Summed(A, f, iter)
  <2>1. ASSUME NEW s \in SUBSET A, s # {}
        PROVE  (CHOOSE d \in s : TRUE) \in A
    BY <2>1
  <2>2. ASSUME NEW s \in SUBSET A
        PROVE  (IF s = {} THEN 0 ELSE LET d == CHOOSE d \in s : TRUE IN parts[d].booked + iter[s \ {d}])
               = (IF s = {} THEN 0 ELSE LET d == CHOOSE d \in s : TRUE IN f[d] + iter[s \ {d}])
    BY <1>1, <2>1
  <2> QED  BY <2>2 DEF Summed
<1>3. \E iter : P(iter)
  <2>1. PICK iter : Summed(A, f, iter)
    BY <1>1, SumExists
  <2>2. P(iter)
    BY <1>2, <2>1
  <2> HIDE DEF P
  <2> QED  BY <2>2
<1>4. P(it)
  <2> HIDE DEF P
  <2> QED  BY <1>3
<1>5. MapThenSumSet(LAMBDA d : parts[d].booked, A) = it[A]
  BY DEF MapThenSumSet, MapThenFoldSet
<1> HIDE DEF P, it
<1>6. it[A] = Total(A, f)
  BY <1>1, <1>2, <1>4, SumsAgree
<1> QED  BY <1>5, <1>6 DEF f

\* The minutes that the days of a report have covered add up.
LEMMA CoverAddUp ==
  ASSUME NEW parts, NEW A, IsFiniteSet(A), \A d \in A : parts[d].covered \in Nat
  PROVE  MapThenSumSet(LAMBDA d : parts[d].covered, A) = Total(A, [d \in A |-> parts[d].covered])
<1> DEFINE f == [d \in A |-> parts[d].covered]
           P(iter) == iter = [s \in SUBSET A |-> IF s = {} THEN 0
                         ELSE LET d == CHOOSE d \in s : TRUE IN parts[d].covered + iter[s \ {d}]]
           it == CHOOSE iter : P(iter)
<1>1. \A d \in A : f[d] = parts[d].covered /\ f[d] \in Int
  OBVIOUS
<1> HIDE DEF f
<1>2. ASSUME NEW iter PROVE P(iter) <=> Summed(A, f, iter)
  <2>1. ASSUME NEW s \in SUBSET A, s # {}
        PROVE  (CHOOSE d \in s : TRUE) \in A
    BY <2>1
  <2>2. ASSUME NEW s \in SUBSET A
        PROVE  (IF s = {} THEN 0 ELSE LET d == CHOOSE d \in s : TRUE IN parts[d].covered + iter[s \ {d}])
               = (IF s = {} THEN 0 ELSE LET d == CHOOSE d \in s : TRUE IN f[d] + iter[s \ {d}])
    BY <1>1, <2>1
  <2> QED  BY <2>2 DEF Summed
<1>3. \E iter : P(iter)
  <2>1. PICK iter : Summed(A, f, iter)
    BY <1>1, SumExists
  <2>2. P(iter)
    BY <1>2, <2>1
  <2> HIDE DEF P
  <2> QED  BY <2>2
<1>4. P(it)
  <2> HIDE DEF P
  <2> QED  BY <1>3
<1>5. MapThenSumSet(LAMBDA d : parts[d].covered, A) = it[A]
  BY DEF MapThenSumSet, MapThenFoldSet
<1> HIDE DEF P, it
<1>6. it[A] = Total(A, f)
  BY <1>1, <1>2, <1>4, SumsAgree
<1> QED  BY <1>5, <1>6 DEF f

\* What is loaded of the calendar decides of the days in the range, unless the day
\* before has a holiday.
LEMMA LoadedShifts ==
  ASSUME NEW cal, ShiftsTyped(cal), NEW from \in Int, NEW to \in Int, NEW d \in from..to,
         from - 1 \notin DOMAIN cal.holidays
  PROVE  /\ ShiftsTyped(Loaded(cal, from, to))
         /\ SpansOf(Loaded(cal, from, to), d) = SpansOf(cal, d)
<1> DEFINE known == Loaded(cal, from, to)
           days == {e \in DOMAIN cal.holidays : from <= e /\ e <= to}
<1>1. /\ known.windows = cal.windows /\ DOMAIN known = DOMAIN cal
      /\ known.holidays = Restrict(cal.holidays, days)
  <2>1. known = [cal EXCEPT !.holidays = Restrict(cal.holidays, days)]
    BY DEF Loaded
  <2>2. "holidays" \in DOMAIN cal /\ "windows" \in DOMAIN cal
    BY DEF ShiftsTyped
  <2> HIDE DEF known, days
  <2> QED  BY <2>1, <2>2
<1>2. DOMAIN known.holidays = days
  BY <1>1 DEF Restrict
<1> HIDE DEF known
<1>3. windows_for(known, d) = windows_for(cal, d) /\ windows_for(known, d - 1) = windows_for(cal, d - 1)
  <2>1. d \in DOMAIN known.holidays <=> d \in DOMAIN cal.holidays
    BY <1>2
  <2>2. d - 1 \in DOMAIN known.holidays <=> d - 1 \in DOMAIN cal.holidays
    BY <1>2
  <2> QED  BY <1>1, <2>1, <2>2 DEF windows_for
<1>4. has_windows(known) <=> has_windows(cal)
  BY <1>1 DEF has_windows
<1>5. SpansOf(known, d) = SpansOf(cal, d)
  BY <1>3, <1>4 DEF SpansOf, Today, Tonight
<1>6. ShiftsTyped(known)
  BY <1>1 DEF ShiftsTyped
<1> QED  BY <1>5, <1>6 DEF known

\* What is to be reported of a booking.
ClosedOf(cal, zone, booking) == {i \in booking.start..(booking.end - 1) : ~Bookable(cal, zone, i)}
ReportOf(cal, zone, booking, id) ==
  LET minutes == booking.start..(booking.end - 1)
      closed == ClosedOf(cal, zone, booking)
      dates == {local_date(zone, i) : i \in closed}
  IN IF closed = {} THEN {}
     ELSE {[cause |-> "outside_availability", start |-> Min(dates), end |-> Max(dates),
            assigned |-> Cardinality(minutes), available |-> Cardinality(minutes \ closed), ids |-> {id}]}

\* A part of a set is all of it if it has as many.
LEMMA FewerAreLess ==
  ASSUME NEW S, IsFiniteSet(S), NEW T \in SUBSET S
  PROVE  Cardinality(T) \in Nat /\ Cardinality(S) \in Nat /\ (Cardinality(T) < Cardinality(S) <=> T # S)
<1>1. IsFiniteSet(T) /\ Cardinality(T) <= Cardinality(S) /\ (Cardinality(S) = Cardinality(T) => S = T)
  BY FS_Subset
<1>2. Cardinality(T) \in Nat /\ Cardinality(S) \in Nat
  BY <1>1, FS_CardinalityType
<1> QED  BY <1>1, <1>2

\* The report is that.
LEMMA ViolationIs ==
  ASSUME NEW cal, NEW known, ShiftsTyped(cal), ShiftsTyped(known), NEW zone, OrdinaryClock(zone),
         NEW bookings, BookingsTakeTime(bookings), NEW id \in Ids(bookings),
         \A d \in local_date(zone, bookings[id].start)..local_date(zone, bookings[id].end) :
           SpansOf(known, d) = SpansOf(cal, d)
  PROVE  WindowViolation(known, zone, bookings, id) = ReportOf(cal, zone, bookings[id], id)
<1> DEFINE b == bookings[id]
           days == local_date(zone, b.start)..local_date(zone, b.end)
           parts == [d \in days |-> PartOn(known, zone, b, d)]
           offending == {d \in days : parts[d].covered < parts[d].booked}
           minutes == b.start..(b.end - 1)
           closed == ClosedOf(cal, zone, b)
           open == minutes \ closed
           f == [i \in minutes |-> local_date(zone, i)]
           On(d) == {i \in minutes : f[i] = d}
           OpenOn(d) == {i \in open : f[i] = d}
           dates == {local_date(zone, i) : i \in closed}
<1>1. b.start \in Int /\ b.end \in Int /\ b.start < b.end
  BY DEF BookingsTakeTime
<1>2. zone \in ZoneType /\ DatesDoNotFallBack(zone)
  BY DEF OrdinaryClock, DatesDoNotFallBack
<1> HIDE DEF b
<1>3. local_date(zone, b.start) \in Int /\ local_date(zone, b.end) \in Int /\ IsFiniteSet(days)
  <2>1. local_date(zone, b.start) \in Int /\ local_date(zone, b.end) \in Int
    BY <1>1, <1>2, DatesGoForward
  <2> QED  BY <2>1, FS_Interval
<1>4. \A i \in minutes : i \in Int /\ f[i] = local_date(zone, i) /\ local_date(zone, i) \in days
  <2> TAKE i \in minutes
  <2>1. i \in Int /\ b.start <= i /\ i <= b.end
    BY <1>1
  <2>2. local_date(zone, b.start) <= local_date(zone, i) /\ local_date(zone, i) \in Int
    BY <1>1, <1>2, <2>1, DatesGoForward
  <2>3. local_date(zone, i) <= local_date(zone, b.end)
    BY <1>1, <1>2, <2>1, DatesGoForward
  <2> QED  BY <1>3, <2>1, <2>2, <2>3
<1>5. IsFiniteSet(minutes) /\ IsFiniteSet(open)
  <2>1. IsFiniteSet(minutes)
    BY <1>1, FS_Interval
  <2> QED  BY <2>1, FS_Subset
<1>6. closed = {i \in minutes : ~Bookable(cal, zone, i)}
  BY DEF ClosedOf
<1>7. ASSUME NEW d \in days
      PROVE  /\ parts[d].booked = Cardinality(On(d)) /\ parts[d].covered = Cardinality(OpenOn(d))
             /\ On(d) = MinutesOn(zone, b, d)
  <2>1. d \in Int
    BY <1>3
  <2>2. On(d) = MinutesOn(zone, b, d)
    BY <1>4 DEF MinutesOn
  <2>3. /\ PartOn(known, zone, b, d).booked = Cardinality(MinutesOn(zone, b, d))
        /\ PartOn(known, zone, b, d).covered
             = Cardinality({i \in MinutesOn(zone, b, d) : CoveredAt(known, d, MinuteOfDay(zone, i))})
    BY <1>1, <2>1, PartIs
  <2>4. SpansOf(known, d) = SpansOf(cal, d)
    BY DEF b
  <2>5. ASSUME NEW i \in MinutesOn(zone, b, d)
        PROVE  CoveredAt(known, d, MinuteOfDay(zone, i)) <=> Bookable(cal, zone, i)
    <3>1. i \in Int /\ local_date(zone, i) = d
      BY <1>1 DEF MinutesOn
    <3>2. Bookable(cal, zone, i) <=> CoveredAt(cal, local_date(zone, i), MinuteOfDay(zone, i))
      BY <1>2, <3>1, BookableIsCovered
    <3>3. CoveredAt(known, d, MinuteOfDay(zone, i)) <=> CoveredAt(cal, d, MinuteOfDay(zone, i))
      BY <2>4 DEF CoveredAt
    <3> QED  BY <3>1, <3>2, <3>3
  <2>6. OpenOn(d) = {i \in On(d) : Bookable(cal, zone, i)}
    BY <1>6
  <2> HIDE DEF On, OpenOn
  <2>7. {i \in MinutesOn(zone, b, d) : CoveredAt(known, d, MinuteOfDay(zone, i))} = OpenOn(d)
    BY <2>2, <2>5, <2>6
  <2>8. parts[d] = PartOn(known, zone, b, d)
    OBVIOUS
  <2> QED  BY <2>2, <2>3, <2>7, <2>8
<1> HIDE DEF days, parts
<1>8. ASSUME NEW d \in days
      PROVE  /\ parts[d].booked \in Nat /\ parts[d].covered \in Nat
             /\ parts[d].covered < parts[d].booked <=> \E i \in closed : f[i] = d
  <2>1. IsFiniteSet(On(d)) /\ OpenOn(d) \in SUBSET On(d)
    BY <1>5, FS_Subset
  <2>2. OpenOn(d) # On(d) <=> \E i \in closed : f[i] = d
    BY <1>6
  <2> HIDE DEF On, OpenOn
  <2> QED  BY <1>7, <2>1, <2>2, FewerAreLess
<1>9. offending = dates
  <2>1. \A i \in closed : i \in minutes /\ f[i] = local_date(zone, i) /\ local_date(zone, i) \in days
    BY <1>4, <1>6
  <2> HIDE DEF closed, minutes, f
  <2> QED  BY <1>8, <2>1
<1>10. dates = {} <=> closed = {}
  OBVIOUS
<1>11. MapThenSumSet(LAMBDA d : parts[d].booked, days) = Cardinality(minutes)
  <2>1. MapThenSumSet(LAMBDA d : parts[d].booked, days) = Total(days, [d \in days |-> parts[d].booked])
    BY <1>3, <1>8, BookedAddUp
  <2>2. [d \in days |-> parts[d].booked] = [d \in days |-> Cardinality({i \in minutes : f[i] = d})]
    BY <1>7
  <2>3. \A i \in minutes : f[i] \in days
    BY <1>4
  <2> HIDE DEF minutes, f
  <2>4. Total(days, [d \in days |-> Cardinality({i \in minutes : f[i] = d})]) = Cardinality(minutes)
    BY <1>3, <1>5, <2>3, PartsAddUp
  <2> QED  BY <2>1, <2>2, <2>4
<1>12. MapThenSumSet(LAMBDA d : parts[d].covered, days) = Cardinality(open)
  <2>1. MapThenSumSet(LAMBDA d : parts[d].covered, days) = Total(days, [d \in days |-> parts[d].covered])
    BY <1>3, <1>8, CoverAddUp
  <2>2. [d \in days |-> parts[d].covered] = [d \in days |-> Cardinality({i \in open : f[i] = d})]
    BY <1>7
  <2>3. \A i \in open : f[i] \in days
    BY <1>4
  <2> HIDE DEF open, f
  <2>4. Total(days, [d \in days |-> Cardinality({i \in open : f[i] = d})]) = Cardinality(open)
    BY <1>3, <1>5, <2>3, PartsAddUp
  <2> QED  BY <2>1, <2>2, <2>4
<1>13. WindowViolation(known, zone, bookings, id) =
         IF offending = {} THEN {}
         ELSE {[cause |-> "outside_availability", start |-> Min(offending), end |-> Max(offending),
                assigned |-> MapThenSumSet(LAMBDA d : parts[d].booked, days),
                available |-> MapThenSumSet(LAMBDA d : parts[d].covered, days), ids |-> {id}]}
  BY DEF WindowViolation, parts, days, b
<1>14. ReportOf(cal, zone, b, id) =
         IF closed = {} THEN {}
         ELSE {[cause |-> "outside_availability", start |-> Min(dates), end |-> Max(dates),
                assigned |-> Cardinality(minutes), available |-> Cardinality(open), ids |-> {id}]}
  BY DEF ReportOf
<1> HIDE DEF offending, dates, closed, minutes, open
<1> QED  BY <1>9, <1>10, <1>11, <1>12, <1>13, <1>14 DEF b

(* detect_window_violations (conflict_service.py) reports every booking of a  *)
(* machine for the minutes in which nobody may book it and for no others, from *)
(* the first to the last of their days: whatever shifts overlap, meet or cross *)
(* midnight, on days of any length, in any zone whose clock shows every        *)
(* midnight and is not put back across one.  The day before the first booking  *)
(* counts as a plain day: the code does not load it.                           *)
THEOREM WindowsAreReported ==
  ASSUME NEW cal, ShiftsTyped(cal), NEW zone, OrdinaryClock(zone),
         NEW bookings, BookingsTakeTime(bookings)
  PROVE  ReportsWhatIsLoaded(cal, zone, bookings)
<1> DEFINE first == FirstDate(zone, bookings)
           last == local_date(zone, Max(Ends(bookings)))
           seen == [cal EXCEPT !.holidays = Restrict(@, DOMAIN @ \ {first - 1})]
           known == Loaded(seen, first, last)
<1>1. DatesDoNotFallBack(zone)
  BY DEF OrdinaryClock
<1>2. /\ Min(Starts(bookings)) \in Int /\ Max(Ends(bookings)) \in Int
      /\ \A id \in Ids(bookings) : /\ bookings[id].start \in Int /\ bookings[id].end \in Int
                                   /\ Min(Starts(bookings)) <= bookings[id].start
                                   /\ bookings[id].start < bookings[id].end
                                   /\ bookings[id].end <= Max(Ends(bookings))
  <2>1. BookingsAreSpans(bookings)
    BY DEF BookingsTakeTime, BookingsAreSpans
  <2> DEFINE S == Starts(bookings)  E == Ends(bookings)
  <2>2. /\ S \in SUBSET Int /\ IsFiniteSet(S) /\ S # {}
        /\ E \in SUBSET Int /\ IsFiniteSet(E) /\ E # {}
    BY <2>1, BoundsAreFinite
  <2>3. \A id \in Ids(bookings) : bookings[id].start \in S /\ bookings[id].end \in E
    BY DEF Starts, Ends
  <2> HIDE DEF S, E
  <2>4. /\ Min(S) \in S /\ \A y \in S : Min(S) <= y
        /\ Max(E) \in E /\ \A y \in E : y <= Max(E)
    BY <2>2, Extremes
  <2>5. \A id \in Ids(bookings) : /\ bookings[id].start \in Int /\ bookings[id].end \in Int
                                  /\ bookings[id].start < bookings[id].end
    BY DEF BookingsTakeTime
  <2> QED  BY <2>2, <2>3, <2>4, <2>5 DEF S, E
<1>3. first \in Int /\ last \in Int
  BY <1>1, <1>2, DatesGoForward DEF FirstDate
<1>4. ASSUME NEW id \in Ids(bookings)
      PROVE  /\ local_date(zone, bookings[id].start) \in Int /\ local_date(zone, bookings[id].end) \in Int
             /\ first <= local_date(zone, bookings[id].start)
             /\ local_date(zone, bookings[id].end) <= last
  <2>1. /\ first <= local_date(zone, bookings[id].start) /\ local_date(zone, bookings[id].start) \in Int
    BY <1>1, <1>2, DatesGoForward DEF FirstDate
  <2>2. /\ local_date(zone, bookings[id].end) <= last /\ local_date(zone, bookings[id].end) \in Int
    BY <1>1, <1>2, DatesGoForward
  <2> QED  BY <2>1, <2>2
<1> HIDE DEF first, last
<1>5. /\ ShiftsTyped(seen) /\ first - 1 \notin DOMAIN seen.holidays
  <2> DEFINE kept == Restrict(cal.holidays, DOMAIN cal.holidays \ {first - 1})
  <2>1. seen = [cal EXCEPT !.holidays = kept] /\ DOMAIN kept = DOMAIN cal.holidays \ {first - 1}
    BY DEF Restrict
  <2>2. "holidays" \in DOMAIN cal /\ "windows" \in DOMAIN cal
    BY DEF ShiftsTyped
  <2> HIDE DEF seen, kept
  <2>3. DOMAIN seen = DOMAIN cal /\ seen.windows = cal.windows /\ seen.holidays = kept
    BY <2>1, <2>2
  <2> QED  BY <2>1, <2>3 DEF ShiftsTyped
<1> HIDE DEF seen
<1>6. \A d \in first..last : ShiftsTyped(known) /\ SpansOf(known, d) = SpansOf(seen, d)
  BY <1>3, <1>5, LoadedShifts
<1> HIDE DEF known
<1>7. ASSUME NEW id \in Ids(bookings)
      PROVE  WindowViolation(known, zone, bookings, id) = ReportOf(seen, zone, bookings[id], id)
  <2>1. \A d \in local_date(zone, bookings[id].start)..local_date(zone, bookings[id].end) : d \in first..last
    BY <1>3, <1>4
  <2>2. local_date(zone, bookings[id].start) <= local_date(zone, bookings[id].end)
    BY <1>1, <1>2, DatesGoForward
  <2>3. local_date(zone, bookings[id].start) \in first..last
    BY <1>3, <1>4, <2>2
  <2>4. ShiftsTyped(known)
    BY <1>6, <2>3
  <2>5. \A d \in local_date(zone, bookings[id].start)..local_date(zone, bookings[id].end) :
          SpansOf(known, d) = SpansOf(seen, d)
    BY <1>6, <2>1
  <2> QED  BY <1>5, <2>4, <2>5, ViolationIs
<1>8. ASSUME NEW id \in Ids(bookings)
      PROVE  {p \in detect_window_violations(seen, zone, bookings) : p.ids = {id}}
               = ReportOf(seen, zone, bookings[id], id)
  <2>1. CASE ~has_windows(seen)
    <3>1. \A i \in Int : Bookable(seen, zone, i)
      BY <2>1 DEF Bookable
    <3>2. ClosedOf(seen, zone, bookings[id]) = {}
      BY <1>2, <3>1 DEF ClosedOf
    <3>3. detect_window_violations(seen, zone, bookings) = {}
      BY <2>1 DEF detect_window_violations
    <3> QED  BY <3>2, <3>3 DEF ReportOf
  <2>2. CASE has_windows(seen)
    <3>1. bookings # <<>>
      <4>1. Ids(bookings) # {}
        BY DEF BookingsTakeTime
      <4>2. DOMAIN <<>> = {}
        OBVIOUS
      <4> QED  BY <4>1, <4>2 DEF Ids
    <3>2. detect_window_violations(seen, zone, bookings)
            = UNION {WindowViolation(known, zone, bookings, x) : x \in Ids(bookings)}
      BY <2>2, <3>1 DEF detect_window_violations, known, first, last, FirstDate
    <3>3. \A x \in Ids(bookings) : \A p \in ReportOf(seen, zone, bookings[x], x) : p.ids = {x}
      BY DEF ReportOf
    <3>4. \A p : p \in detect_window_violations(seen, zone, bookings)
                   <=> \E x \in Ids(bookings) : p \in ReportOf(seen, zone, bookings[x], x)
      BY <1>7, <3>2
    <3> QED  BY <3>3, <3>4
  <2> QED  BY <2>1, <2>2
<1>9. ReportsTheUnbookable(seen, zone, bookings)
  BY <1>8 DEF ReportsTheUnbookable, ReportOf, ClosedOf
<1> QED  BY <1>9 DEF ReportsWhatIsLoaded, seen, first

\* Covered minutes are minutes of a day.
LEMMA CoveredInDay ==
  ASSUME NEW cal, ShiftsTyped(cal), NEW d \in Int, NEW k \in Int, CoveredAt(cal, d, k)
  PROVE  0 <= k /\ k < MINUTES_PER_DAY
<1> DEFINE D == MINUTES_PER_DAY
<1>1. D \in Nat \ {0} /\ \A w \in cal.windows : w.start \in 0..(D - 1) /\ w.end \in 0..D
  BY DayAssumption DEF ShiftsTyped
<1>2. windows_for(cal, d) \subseteq cal.windows /\ windows_for(cal, d - 1) \subseteq cal.windows
  BY DEF windows_for
<1>3. PICK s \in SpansOf(cal, d) : s[1] <= k /\ k < s[2]
  BY DEF CoveredAt
<1> HIDE DEF D
<1>4. CASE s \in Today(cal, d)
  <2>1. PICK w \in windows_for(cal, d) : s = <<w.start, IF Overnight(w) THEN D ELSE w.end>>
    BY <1>4 DEF Today, D
  <2>2. s[1] = w.start /\ s[2] = (IF Overnight(w) THEN D ELSE w.end)
    BY <2>1
  <2>3. w.start \in 0..(D - 1) /\ w.end \in 0..D
    BY <1>1, <1>2
  <2> QED  BY <1>1, <1>3, <2>2, <2>3 DEF D
<1>5. CASE s \in Tonight(cal, d)
  <2>1. PICK w \in windows_for(cal, d - 1) : s = <<0, w.end>>
    BY <1>5 DEF Tonight
  <2>2. s[1] = 0 /\ s[2] = w.end
    BY <2>1
  <2>3. w.end \in 0..D
    BY <1>1, <1>2
  <2> QED  BY <1>1, <1>3, <2>2, <2>3 DEF D
<1>6. CASE s = <<0, D>>
  BY <1>1, <1>3, <1>6 DEF D
<1> QED  BY <1>4, <1>5, <1>6 DEF SpansOf, D

\* What the clock shows once is the instant that shows it.
LEMMA ShownOnce ==
  ASSUME NEW zone \in ZoneType, NEW reading \in Int, NEW i \in Int, local_time(zone, i) = reading,
         NEW x \in local_wall_time_to_utc(zone, reading)
  PROVE  x = i
<1> DEFINE S == InstantsOf(zone, reading)
<1>1. i \in S
  BY DEF InstantsOf, local_time, ZoneType
<1>2. Cardinality(S) = 1 /\ x \in S
  BY DEF local_wall_time_to_utc
<1>3. IsFiniteSet(S)
  <2>1. IsFiniteSet({reading - zone.before})
    BY FS_Singleton
  <2>2. IsFiniteSet({reading - zone.before} \cup {reading - zone.after})
    BY <2>1, FS_AddElement
  <2>3. S \in SUBSET ({reading - zone.before} \cup {reading - zone.after})
    BY DEF InstantsOf
  <2> HIDE DEF S
  <2> QED  BY <2>2, <2>3, FS_Subset
<1> HIDE DEF S
<1>4. \E y : S = {y}
  BY <1>2, <1>3, FS_Singleton
<1> QED  BY <1>1, <1>2, <1>4

\* The clock shows some minute of the last span of a day, unless it is the only one.
LastShiftIsShown(cal, zone, d) ==
  LET m == covered_spans(cal, d)
  IN Len(m) > 1 => \E j \in Last(m)[1]..(Last(m)[2] - 1) : InstantsOf(zone, d * MINUTES_PER_DAY + j) # {}

\* It does if it skips less time than the span takes: every clock that skips nothing, and
\* one that skips an hour if the last shift is longer.
LEMMA LongShiftsAreShown ==
  ASSUME NEW cal, ShiftsTyped(cal), NEW zone \in ZoneType, NEW d \in Int,
         LET s == Last(covered_spans(cal, d))
         IN  covered_spans(cal, d) # <<>> => zone.after - zone.before < s[2] - s[1]
  PROVE  LastShiftIsShown(cal, zone, d)
<1> DEFINE m == covered_spans(cal, d)  L == Len(m)  first == Last(m)[1]  end == Last(m)[2]
           M == d * MINUTES_PER_DAY
           c == zone.change  b == zone.before  a == zone.after
<1> SUFFICES ASSUME L > 1
             PROVE  \E j \in first..(end - 1) : InstantsOf(zone, M + j) # {}
  BY DEF LastShiftIsShown
<1>1. Apart(m)
  BY CoveredSpansAre
<1>2. m # <<>> => a - b < end - first
  OBVIOUS
<1> HIDE DEF m
<1>3. L \in 1..L /\ L \in Nat /\ Last(m) = m[L] /\ m # <<>>
  <2>1. m \in Seq(Int \X Int)
    BY <1>1 DEF Apart
  <2>2. L \in Nat /\ m # <<>>
    BY <2>1
  <2> QED  BY <2>2 DEF Last
<1>4. first \in Int /\ end \in Int /\ first < end /\ a - b < end - first
  BY <1>1, <1>2, <1>3 DEF Apart
<1>5. M \in Int /\ c \in Int /\ b \in Int /\ a \in Int
  BY DayAssumption DEF ZoneType
<1>6. \A i : local_time(zone, i) = IF i < c THEN i + b ELSE i + a
  BY DEF local_time
<1>7. \A r \in Int : InstantsOf(zone, r) = {i \in {r - b, r - a} : local_time(zone, i) = r}
  BY DEF InstantsOf
<1> HIDE DEF first, end, M, a, b, c
<1>8. ASSUME NEW r \in Int, r - b < c \/ ~(r - a < c)
      PROVE  InstantsOf(zone, r) # {}
  <2>1. local_time(zone, r - b) = r \/ local_time(zone, r - a) = r
    BY <1>5, <1>6, <1>8
  <2> QED  BY <1>7, <2>1
<1>9. CASE (M + first) - b < c
  <2>1. M + first \in Int /\ first \in first..(end - 1)
    BY <1>4, <1>5
  <2> QED  BY <1>8, <1>9, <2>1
<1>10. CASE ~((M + first) - b < c)
  <2>1. M + (end - 1) \in Int /\ end - 1 \in first..(end - 1) /\ ~((M + (end - 1)) - a < c)
    BY <1>4, <1>5, <1>10
  <2> QED  BY <1>8, <2>1
<1> QED  BY <1>9, <1>10

\* The minute before a reading that the clock shows once.
LEMMA MinuteBefore ==
  ASSUME NEW zone \in ZoneType, NEW r \in Int, NEW y \in local_wall_time_to_utc(zone, r),
         NEW q \in Int, q < r, InstantsOf(zone, q) # {}
  PROVE  y \in Int /\ q <= local_time(zone, y - 1) /\ local_time(zone, y - 1) < r
<1> DEFINE c == zone.change  b == zone.before  a == zone.after
<1>1. c \in Int /\ b \in Int /\ a \in Int
  BY DEF ZoneType
<1>2. \A i : local_time(zone, i) = IF i < c THEN i + b ELSE i + a
  BY DEF local_time
<1>3. y \in Int /\ local_time(zone, y) = r
  BY <1>1 DEF local_wall_time_to_utc, InstantsOf
<1>4. PICK x \in {q - b, q - a} : local_time(zone, x) = q
  BY DEF InstantsOf
<1>5. \A i \in Int : local_time(zone, i) = r => y = i
  BY ShownOnce
<1> HIDE DEF c, b, a
<1>6. x \in Int /\ (IF x < c THEN x + b ELSE x + a) = q
  BY <1>1, <1>2, <1>4 DEF b, a
<1>7. (IF y < c THEN y + b ELSE y + a) = r
  BY <1>2, <1>3
<1>8. local_time(zone, y - 1) = IF y - 1 < c THEN y - 1 + b ELSE y - 1 + a
  BY <1>2
<1>9. r - b < c => y = r - b
  <2>1. ASSUME r - b < c PROVE local_time(zone, r - b) = r
    <3>1. local_time(zone, r - b) = (r - b) + b
      BY <1>2, <2>1
    <3> QED  BY <1>1, <3>1
  <2>2. r - b \in Int
    BY <1>1
  <2> QED  BY <1>5, <2>1, <2>2
<1> HIDE DEF c, b, a
<1> QED  BY <1>1, <1>3, <1>6, <1>7, <1>8, <1>9

\* Readings that the clock shows once come in their order.
LEMMA ShownInOrder ==
  ASSUME NEW zone \in ZoneType, NEW q \in Int, NEW r \in Int, q < r,
         NEW x \in local_wall_time_to_utc(zone, q), NEW y \in local_wall_time_to_utc(zone, r)
  PROVE  x \in Int /\ y \in Int /\ x < y /\ local_time(zone, x) = q /\ InstantsOf(zone, q) # {}
<1> DEFINE c == zone.change  b == zone.before  a == zone.after
<1>1. c \in Int /\ b \in Int /\ a \in Int
  BY DEF ZoneType
<1>2. \A i : local_time(zone, i) = IF i < c THEN i + b ELSE i + a
  BY DEF local_time
<1>3. /\ y \in Int /\ local_time(zone, y) = r
      /\ x \in Int /\ local_time(zone, x) = q
      /\ InstantsOf(zone, q) # {}
  BY <1>1 DEF local_wall_time_to_utc, InstantsOf
<1>4. \A i \in Int : local_time(zone, i) = q => x = i
  BY ShownOnce
<1> HIDE DEF c, b, a
<1>5. (IF y < c THEN y + b ELSE y + a) = r /\ (IF x < c THEN x + b ELSE x + a) = q
  BY <1>2, <1>3
<1>6. q - b < c => x = q - b
  <2>1. ASSUME q - b < c PROVE local_time(zone, q - b) = q
    <3>1. local_time(zone, q - b) = (q - b) + b
      BY <1>2, <2>1
    <3> QED  BY <1>1, <3>1
  <2>2. q - b \in Int
    BY <1>1
  <2> QED  BY <1>4, <2>1, <2>2
<1> QED  BY <1>1, <1>3, <1>5, <1>6

\* A reading of a day has its date and minute.
LEMMA ReadingOfDay ==
  ASSUME NEW zone \in ZoneType, NEW i \in Int, NEW d \in Int, NEW j \in 0..(MINUTES_PER_DAY - 1),
         local_time(zone, i) = d * MINUTES_PER_DAY + j
  PROVE  local_date(zone, i) = d /\ MinuteOfDay(zone, i) = j
<1> DEFINE D == MINUTES_PER_DAY  r == local_time(zone, i)
<1>1. D \in Nat \ {0} /\ d + 1 \in Int /\ (d + 1) * D = d * D + D
  BY DayAssumption
<1>2. /\ d * D \in Int /\ \A q \in Int : (q >= d * D => q \div D >= d)
      /\ \A q \in Int : (q \div D >= d + 1 => q >= (d + 1) * D)
  <2> HIDE DEF D
  <2> QED  BY <1>1, MidnightIsOfTheDay
<1>3. r \in Int /\ local_date(zone, i) \in Int /\ MinuteOfDay(zone, i) \in 0..(D - 1)
      /\ r = local_date(zone, i) * D + MinuteOfDay(zone, i)
  BY ReadingIs
<1>4. local_date(zone, i) = r \div D
  BY DEF local_date
<1>5. r = d * D + j /\ j \in 0..(D - 1)
  OBVIOUS
<1> HIDE DEF D, r
<1>6. r >= d * D /\ ~(r >= (d + 1) * D)
  <2> DEFINE M == d * D  N == (d + 1) * D
  <2>1. M \in Int /\ N = M + D /\ r = M + j
    BY <1>1, <1>2, <1>5
  <2> HIDE DEF M, N
  <2>2. r >= M /\ ~(r >= N)
    BY <1>1, <1>3, <1>5, <2>1
  <2> QED  BY <2>2 DEF M, N
<1>7. local_date(zone, i) = d
  <2>1. r \div D >= d /\ ~(r \div D >= d + 1)
    BY <1>2, <1>3, <1>6
  <2> QED  BY <1>3, <1>4, <2>1
<1>8. MinuteOfDay(zone, i) = j
  BY <1>1, <1>2, <1>3, <1>5, <1>7
<1> QED  BY <1>7, <1>8

(* Booking a whole day (working_time_service.py, day_booking_bounds) gives a   *)
(* span that takes time and begins and ends where the machine may be booked:   *)
(* for any shifts and any clock that does not skip the whole of the day's last *)
(* span after showing the first.                                               *)
THEOREM WholeDaysFit ==
  ASSUME NEW cal, ShiftsTyped(cal), NEW zone \in ZoneType, NEW d \in Int,
         LastShiftIsShown(cal, zone, d)
  PROVE  DayBookingFits(cal, zone, d)
<1> DEFINE D == MINUTES_PER_DAY  m == covered_spans(cal, d)  L == Len(m)
           k == m[1][1]  first == m[L][1]  end == m[L][2]
<1> SUFFICES ASSUME NEW bounds \in day_booking_bounds(cal, zone, d)
             PROVE  /\ bounds[1] < bounds[2]
                    /\ Bookable(cal, zone, bounds[1]) /\ Bookable(cal, zone, bounds[2] - 1)
  BY DEF DayBookingFits
<1>1. D \in Nat \ {0} /\ d * D \in Int
  BY DayAssumption
<1>2. /\ m # <<>>
      /\ bounds[1] \in local_wall_time_to_utc(zone, d * D + m[1][1])
      /\ bounds[2] \in local_wall_time_to_utc(zone, d * D + Last(m)[2])
  BY DEF day_booking_bounds
<1>3. Apart(m) /\ \A j \in Int : Covered(m, j) <=> CoveredAt(cal, d, j)
  BY CoveredSpansAre
<1>4. L > 1 => \E j \in Last(m)[1]..(Last(m)[2] - 1) : InstantsOf(zone, d * D + j) # {}
  BY DEF LastShiftIsShown
<1> HIDE DEF m
<1>5. L \in Nat /\ L >= 1 /\ Last(m) = m[L]
  <2>1. m \in Seq(Int \X Int)
    BY <1>3 DEF Apart
  <2> QED  BY <1>2, <2>1 DEF Last
<1>6. 1 \in 1..L /\ L \in 1..L
  BY <1>5
<1>7. /\ m[1][1] \in Int /\ m[1][2] \in Int /\ m[1][1] < m[1][2]
      /\ m[L][1] \in Int /\ m[L][2] \in Int /\ m[L][1] < m[L][2]
      /\ 1 < L => m[1][2] < m[L][1]
  BY <1>3, <1>6 DEF Apart
<1>8. /\ \A j \in Int : first <= j /\ j < end => CoveredAt(cal, d, j)
      /\ CoveredAt(cal, d, k)
  <2>1. m[1][1] <= k /\ k < m[1][2]
    BY <1>7
  <2> HIDE DEF k
  <2>2. k \in Int
    BY <1>7 DEF k
  <2>3. Covered(m, k) /\ \A j \in Int : first <= j /\ j < end => Covered(m, j)
    BY <1>6, <2>1 DEF Covered, L
  <2> QED  BY <1>3, <2>2, <2>3
<1> HIDE DEF L
<1>9. /\ k \in Int /\ first \in Int /\ end \in Int /\ k < end /\ first < end
      /\ L = 1 => k = first
  <2>1. L = 1 \/ 1 < L
    BY <1>5
  <2> QED  BY <1>7, <2>1
<1>10. /\ bounds[1] \in local_wall_time_to_utc(zone, d * D + k)
       /\ bounds[2] \in local_wall_time_to_utc(zone, d * D + end)
       /\ 1 < L => \E j \in first..(end - 1) : InstantsOf(zone, d * D + j) # {}
  BY <1>2, <1>4, <1>5
<1> HIDE DEF k, first, end
<1>11. ASSUME NEW i \in Int, NEW j \in Int, local_time(zone, i) = d * D + j, CoveredAt(cal, d, j)
       PROVE  Bookable(cal, zone, i)
  <2>1. j \in 0..(D - 1)
    BY <1>1, <1>11, CoveredInDay
  <2>2. local_date(zone, i) = d /\ MinuteOfDay(zone, i) = j
    BY <1>11, <2>1, ReadingOfDay
  <2> QED  BY <1>11, <2>2, BookableIsCovered
<1> DEFINE from == d * D + k  to == d * D + end  x == bounds[1]  y == bounds[2]
<1>12. from \in Int /\ to \in Int /\ from < to
  BY <1>1, <1>9
<1>13. x \in local_wall_time_to_utc(zone, from) /\ y \in local_wall_time_to_utc(zone, to)
  BY <1>10
<1>14. x \in Int /\ y \in Int /\ x < y /\ local_time(zone, x) = from /\ InstantsOf(zone, from) # {}
  <2> HIDE DEF from, to, x, y, D
  <2> QED  BY <1>12, <1>13, ShownInOrder
<1>15. Bookable(cal, zone, x)
  BY <1>8, <1>9, <1>11, <1>14
<1>16. PICK j \in first..(end - 1) : InstantsOf(zone, d * D + j) # {}
  <2>1. CASE 1 < L
    BY <1>10, <2>1
  <2>2. CASE L = 1
    <3>1. k \in first..(end - 1)
      BY <1>9, <2>2
    <3> QED  BY <1>14, <3>1
  <2> QED  BY <1>5, <2>1, <2>2
<1>17. j \in Int /\ first <= j /\ j < end
  BY <1>9
<1> DEFINE q == d * D + j  before == local_time(zone, y - 1)  l == before - d * D
<1>18. q \in Int /\ q < to
  BY <1>1, <1>9, <1>17
<1>19. q <= before /\ before < to
  <2>1. InstantsOf(zone, q) # {}
    BY <1>16
  <2> HIDE DEF q, to, x, y, D
  <2> QED  BY <1>12, <1>13, <1>18, <2>1, MinuteBefore
<1>20. before \in Int
  <2>1. y - 1 \in Int
    BY <1>14
  <2> QED  BY <2>1, ReadingIs
<1>21. l \in Int /\ first <= l /\ l < end /\ before = d * D + l
  <2> DEFINE M == d * D
  <2>1. M \in Int /\ q = M + j /\ to = M + end /\ l = before - M
    BY <1>1
  <2> HIDE DEF M, q, to, before, l
  <2>2. l \in Int /\ first <= l /\ l < end /\ before = M + l
    BY <1>9, <1>17, <1>19, <1>20, <2>1
  <2> QED  BY <2>2 DEF M
<1>22. CoveredAt(cal, d, l)
  BY <1>8, <1>21
<1>23. Bookable(cal, zone, y - 1)
  <2>1. y - 1 \in Int
    BY <1>14
  <2> HIDE DEF l, y, D
  <2> QED  BY <1>11, <1>21, <1>22, <2>1
<1> QED  BY <1>14, <1>15, <1>23

-----------------------------------------------------------------------------
(* Working days.                                                              *)

\* They are counted.
LEMMA CountIsNat ==
  ASSUME NEW week, NEW a \in Int, NEW b \in Int
  PROVE  /\ IsFiniteSet({d \in a..b : Works(week, d)}) /\ count_working_days(a, b, week) \in Nat
         /\ count_working_days(a, b, week) > 0 <=> \E d \in a..b : Works(week, d)
<1> DEFINE S == {d \in a..b : Works(week, d)}
<1>1. IsFiniteSet(S)
  <2>1. IsFiniteSet(a..b)
    BY FS_Interval
  <2> QED  BY <2>1, FS_Subset
<1>2. Cardinality(S) \in Nat /\ (Cardinality(S) = 0 <=> S = {})
  BY <1>1, FS_CardinalityType, FS_EmptySet
<1> QED  BY <1>1, <1>2 DEF count_working_days

\* Those of a stretch are those of its parts.
LEMMA CountSplits ==
  ASSUME NEW week, NEW a \in Int, NEW b \in Int, NEW c \in Int, a <= b + 1, b <= c
  PROVE  count_working_days(a, c, week) = count_working_days(a, b, week) + count_working_days(b + 1, c, week)
<1> DEFINE S(x, y) == {d \in x..y : Works(week, d)}
<1>1. b + 1 \in Int
  OBVIOUS
<1>2. IsFiniteSet(S(a, b)) /\ IsFiniteSet(S(b + 1, c))
  BY <1>1, CountIsNat
<1>3. S(a, c) = S(a, b) \cup S(b + 1, c) /\ S(a, b) \cap S(b + 1, c) = {}
  OBVIOUS
<1>4. /\ count_working_days(a, c, week) = Cardinality(S(a, c))
      /\ count_working_days(a, b, week) = Cardinality(S(a, b))
      /\ count_working_days(b + 1, c, week) = Cardinality(S(b + 1, c))
  BY DEF count_working_days
<1>5. count_working_days(a, b, week) \in Nat /\ count_working_days(b + 1, c, week) \in Nat
  BY <1>1, CountIsNat
<1> HIDE DEF S
<1>6. Cardinality(S(a, b) \cup S(b + 1, c))
        = Cardinality(S(a, b)) + Cardinality(S(b + 1, c)) - Cardinality(S(a, b) \cap S(b + 1, c))
  BY <1>2, FS_Union
<1>7. Cardinality(S(a, b) \cap S(b + 1, c)) = 0
  BY <1>3, FS_EmptySet
<1>8. Cardinality(S(a, c)) = Cardinality(S(a, b) \cup S(b + 1, c))
  BY <1>3
<1> QED  BY <1>4, <1>5, <1>6, <1>7, <1>8

\* Before a stretch begins none are counted.
LEMMA CountOfNone ==
  ASSUME NEW week, NEW a \in Int, NEW b \in Int, b < a
  PROVE  count_working_days(a, b, week) = 0
<1>1. {d \in a..b : Works(week, d)} = {}
  OBVIOUS
<1> QED  BY <1>1, FS_EmptySet DEF count_working_days

\* A single day.
LEMMA CountOfOne ==
  ASSUME NEW week, NEW a \in Int
  PROVE  count_working_days(a, a, week) = IF Works(week, a) THEN 1 ELSE 0
<1>1. Cardinality({}) = 0 /\ Cardinality({a}) = 1
  BY FS_EmptySet, FS_Singleton
<1>2. CASE Works(week, a)
  <2>1. {d \in a..a : Works(week, d)} = {a}
    BY <1>2
  <2> QED  BY <1>1, <1>2, <2>1 DEF count_working_days
<1>3. CASE ~Works(week, a)
  <2>1. {d \in a..a : Works(week, d)} = {}
    BY <1>3
  <2> QED  BY <1>1, <1>3, <2>1 DEF count_working_days
<1> QED  BY <1>2, <1>3

\* With the last day off there are as many or one less.
LEMMA CountOfMore ==
  ASSUME NEW week, NEW a \in Int, NEW b \in Int, a <= b
  PROVE  count_working_days(a, b, week)
           = count_working_days(a, b - 1, week) + (IF Works(week, b) THEN 1 ELSE 0)
<1>1. b - 1 \in Int /\ a <= (b - 1) + 1 /\ b - 1 <= b /\ (b - 1) + 1 = b
  OBVIOUS
<1>2. count_working_days(a, b, week)
        = count_working_days(a, b - 1, week) + count_working_days((b - 1) + 1, b, week)
  BY <1>1, CountSplits
<1> QED  BY <1>1, <1>2, CountOfOne

\* The day that is the n-th from a day on.
Nth(week, start, n, e) == /\ e \in Int /\ start <= e /\ Works(week, e)
                          /\ count_working_days(start, e, week) = n

\* There is one at most.
LEMMA NthIsOne ==
  ASSUME NEW week, NEW start \in Int, NEW n \in Nat, NEW e, NEW f,
         Nth(week, start, n, e), Nth(week, start, n, f)
  PROVE  e = f
<1>1. ASSUME NEW x, NEW y, Nth(week, start, n, x), Nth(week, start, n, y), x < y PROVE FALSE
  <2>1. /\ x \in Int /\ y \in Int /\ start <= x /\ Works(week, y)
        /\ count_working_days(start, x, week) = n /\ count_working_days(start, y, week) = n
    BY <1>1 DEF Nth
  <2>2. count_working_days(start, y, week) = n + count_working_days(x + 1, y, week)
    BY <1>1, <2>1, CountSplits
  <2>3. x + 1 \in Int /\ y \in (x + 1)..y
    BY <1>1, <2>1
  <2>4. count_working_days(x + 1, y, week) \in Nat /\ count_working_days(x + 1, y, week) > 0
    BY <2>1, <2>3, CountIsNat
  <2> QED  BY <2>1, <2>2, <2>4
<1>2. e \in Int /\ f \in Int
  BY DEF Nth
<1> QED  BY <1>1, <1>2

\* And there is one in every stretch that has as many.
LEMMA NthIsThere ==
  ASSUME NEW week, NEW start \in Int, NEW n \in Nat \ {0}, NEW to \in Int,
         n <= count_working_days(start, to, week)
  PROVE  \E e \in start..to : Nth(week, start, n, e)
<1> DEFINE S == {d \in start..to : n <= count_working_days(start, d, week)}
           e == Min(S)
<1>1. start <= to
  <2>1. to < start => count_working_days(start, to, week) = 0
    BY CountOfNone
  <2> QED  BY <2>1
<1>2. S \in SUBSET Int /\ IsFiniteSet(S) /\ to \in S
  <2>1. IsFiniteSet(start..to) /\ S \in SUBSET (start..to) /\ to \in S
    BY <1>1, FS_Interval
  <2> HIDE DEF S
  <2>2. IsFiniteSet(S)
    BY <2>1, FS_Subset
  <2> QED  BY <2>1, <2>2
<1>3. e \in S /\ \A y \in S : e <= y
  <2> HIDE DEF S
  <2> QED  BY <1>2, Extremes
<1> HIDE DEF e
<1>4. e \in start..to /\ e \in Int /\ start <= e /\ n <= count_working_days(start, e, week)
  BY <1>3
<1>5. count_working_days(start, e - 1, week) < n /\ count_working_days(start, e - 1, week) \in Nat
  <2>1. count_working_days(start, e - 1, week) \in Nat
    <3>1. e - 1 \in Int
      BY <1>4
    <3> QED  BY <3>1, CountIsNat
  <2>2. CASE start <= e - 1
    <3>1. e - 1 \in start..to /\ e - 1 \notin S
      BY <1>3, <1>4, <2>2
    <3> QED  BY <2>1, <3>1
  <2>3. CASE ~(start <= e - 1)
    <3>1. count_working_days(start, e - 1, week) = 0
      BY <1>4, <2>3, CountOfNone
    <3> QED  BY <2>1, <3>1
  <2> QED  BY <2>2, <2>3
<1>6. count_working_days(start, e, week)
        = count_working_days(start, e - 1, week) + (IF Works(week, e) THEN 1 ELSE 0)
  BY <1>4, CountOfMore
<1>7. Works(week, e) /\ count_working_days(start, e, week) = n
  BY <1>4, <1>5, <1>6
<1> QED  BY <1>4, <1>7 DEF Nth

\* The search finds it as far as it looks.
LEMMA SearchFinds ==
  ASSUME NEW week, NEW start \in Int, NEW n \in Nat \ {0}
  PROVE  LET found == add_working_days(start, n, week)
         IN /\ found # NoDate => Nth(week, start, n, found) /\ found < start + MAX_LOOKAHEAD_DAYS
            /\ \A e : Nth(week, start, n, e) /\ e < start + MAX_LOOKAHEAD_DAYS => found = e
<1> DEFINE last == start + MAX_LOOKAHEAD_DAYS - 1
           reached == {d \in start..last : Works(week, d) /\ count_working_days(start, d, week) = n}
           found == add_working_days(start, n, week)
<1>1. last \in Int /\ \A e \in Int : e <= last <=> e < start + MAX_LOOKAHEAD_DAYS
  BY DatesAssumption
<1>2. found = IF reached = {} THEN NoDate ELSE Min(reached)
  BY DEF add_working_days
<1> HIDE DEF last, found
<1>3. \A e : e \in reached <=> Nth(week, start, n, e) /\ e <= last
  BY <1>1 DEF Nth
<1>4. reached \in SUBSET Int /\ IsFiniteSet(reached)
  <2>1. IsFiniteSet(start..last) /\ reached \in SUBSET (start..last)
    BY <1>1, FS_Interval
  <2> HIDE DEF reached
  <2>2. IsFiniteSet(reached)
    BY <2>1, FS_Subset
  <2> QED  BY <1>1, <2>1, <2>2
<1> HIDE DEF reached
<1>5. reached # {} => Min(reached) \in reached /\ Min(reached) \in Int
  BY <1>4, Extremes
<1>6. found # NoDate => Nth(week, start, n, found) /\ found < start + MAX_LOOKAHEAD_DAYS
  <2> SUFFICES ASSUME found # NoDate
               PROVE  Nth(week, start, n, found) /\ found < start + MAX_LOOKAHEAD_DAYS
    OBVIOUS
  <2>1. found \in reached /\ found \in Int
    BY <1>2, <1>5
  <2> QED  BY <1>1, <1>3, <2>1
<1>7. ASSUME NEW e, Nth(week, start, n, e), e < start + MAX_LOOKAHEAD_DAYS
      PROVE  found = e
  <2>1. e \in reached
    BY <1>1, <1>3, <1>7 DEF Nth
  <2>2. found \in reached
    BY <1>2, <1>5, <2>1
  <2> QED  BY <1>3, <2>1, <2>2, NthIsOne
<1> QED  BY <1>6, <1>7 DEF found

\* Whether it is reached by a day is a matter of counting.
LEMMA ReachedBy ==
  ASSUME NEW week, NEW start \in Int, NEW n \in Nat \ {0}, NEW to \in Int,
         to < start + MAX_LOOKAHEAD_DAYS
  PROVE  LET found == add_working_days(start, n, week)
         IN found \in Int /\ found <= to <=> n <= count_working_days(start, to, week)
<1> DEFINE found == add_working_days(start, n, week)
<1>1. ASSUME found \in Int, found <= to
      PROVE  n <= count_working_days(start, to, week)
  <2>1. Nth(week, start, n, found)
    BY <1>1, DatesAssumption, SearchFinds
  <2> HIDE DEF found
  <2>2. start <= found /\ count_working_days(start, found, week) = n
    BY <2>1 DEF Nth
  <2>3. count_working_days(start, to, week) = n + count_working_days(found + 1, to, week)
    BY <1>1, <2>2, CountSplits
  <2>4. count_working_days(found + 1, to, week) \in Nat
    <3>1. found + 1 \in Int
      BY <1>1
    <3> QED  BY <3>1, CountIsNat
  <2> QED  BY <2>3, <2>4
<1>2. ASSUME n <= count_working_days(start, to, week)
      PROVE  found \in Int /\ found <= to
  <2>1. PICK e \in start..to : Nth(week, start, n, e)
    BY <1>2, NthIsThere
  <2>2. e < start + MAX_LOOKAHEAD_DAYS
    BY DatesAssumption
  <2>3. found = e
    BY <2>1, <2>2, SearchFinds
  <2> QED  BY <2>1, <2>3
<1> QED  BY <1>1, <1>2

\* The k-th day of those that are missing up to a goal leaves the others after it.
LEMMA MissingDay ==
  ASSUME NEW week, NEW day \in Int, NEW goal \in Int, goal <= day + MAX_LOOKAHEAD_DAYS,
         NEW k \in Nat \ {0}, k <= count_working_days(day + 1, goal, week)
  PROVE  \E found \in (day + 1)..goal :
           /\ add_working_days(day + 1, k, week) = found
           /\ count_working_days(found + 1, goal, week) = count_working_days(day + 1, goal, week) - k
           /\ Works(week, goal) => (found = goal <=> count_working_days(day + 1, goal, week) = k)
<1>1. day + 1 \in Int /\ goal < (day + 1) + MAX_LOOKAHEAD_DAYS
  BY DatesAssumption
<1>2. PICK e \in (day + 1)..goal : Nth(week, day + 1, k, e)
  BY <1>1, NthIsThere
<1>3. e \in Int /\ day < e /\ e <= goal /\ e < (day + 1) + MAX_LOOKAHEAD_DAYS
  BY <1>1, <1>2, DatesAssumption
<1>4. add_working_days(day + 1, k, week) = e
  BY <1>1, <1>2, <1>3, SearchFinds
<1>5. count_working_days(day + 1, e, week) = k
  BY <1>2 DEF Nth
<1>6. count_working_days(day + 1, goal, week) = k + count_working_days(e + 1, goal, week)
  BY <1>1, <1>3, <1>5, CountSplits
<1>7. e + 1 \in Int
  BY <1>3
<1>8. /\ count_working_days(e + 1, goal, week) \in Nat
      /\ count_working_days(e + 1, goal, week) > 0 <=> \E d \in (e + 1)..goal : Works(week, d)
  BY <1>7, CountIsNat
<1>9. ASSUME Works(week, goal)
      PROVE  e = goal <=> count_working_days(e + 1, goal, week) = 0
  <2>1. e # goal => goal \in (e + 1)..goal
    BY <1>3
  <2>2. e = goal => (e + 1)..goal = {}
    BY <1>3
  <2> QED  BY <1>8, <1>9, <2>1, <2>2
<1> QED  BY <1>2, <1>4, <1>6, <1>8, <1>9

\* A later day: so many working days after it.
Later(week, day, k) == IF k = 0 THEN day ELSE add_working_days(day + 1, k, week)

\* One day less than the missing ones leaves one.
LEMMA OneDayLess ==
  ASSUME NEW week, NEW day \in Int, NEW goal \in Int, goal <= day + MAX_LOOKAHEAD_DAYS,
         NEW short \in Nat \ {0}, short = count_working_days(day + 1, goal, week)
  PROVE  LET less == Later(week, day, short - 1)
         IN /\ less \in Int /\ day <= less /\ less < goal
            /\ count_working_days(less + 1, goal, week) = 1
<1> DEFINE less == Later(week, day, short - 1)
<1>1. CASE short = 1
  <2>1. less = day
    BY <1>1 DEF Later
  <2>2. ~(goal < day + 1)
    <3>1. day + 1 \in Int
      OBVIOUS
    <3> QED  BY <1>1, <3>1, CountOfNone
  <2> QED  BY <1>1, <2>1, <2>2
<1>2. CASE short # 1
  <2>1. short - 1 \in Nat \ {0} /\ short - 1 <= count_working_days(day + 1, goal, week)
    BY <1>2
  <2>2. less = add_working_days(day + 1, short - 1, week)
    BY <2>1 DEF Later
  <2>3. /\ less \in Int /\ day < less /\ less <= goal
        /\ count_working_days(less + 1, goal, week) = short - (short - 1)
    <3> DEFINE k == short - 1
    <3>1. k \in Nat \ {0} /\ k <= count_working_days(day + 1, goal, week) /\ less = add_working_days(day + 1, k, week)
      BY <2>1, <2>2
    <3> HIDE DEF k, less
    <3>2. /\ less \in Int /\ day < less /\ less <= goal
          /\ count_working_days(less + 1, goal, week) = count_working_days(day + 1, goal, week) - k
      BY <3>1, MissingDay, DatesAssumption
    <3> QED  BY <3>2 DEF k
  <2>4. count_working_days(less + 1, goal, week) = 1
    BY <2>3
  <2>5. less # goal
    <3>1. goal + 1 \in Int
      OBVIOUS
    <3>2. count_working_days(goal + 1, goal, week) = 0
      BY <3>1, CountOfNone
    <3> QED  BY <2>4, <3>2
  <2> QED  BY <2>3, <2>4, <2>5
<1> QED  BY <1>1, <1>2

\* Of a lead time: the missing days are the fewest that help.
LEMMA LeadIsLeast ==
  ASSUME NEW node \in [start : Int, end : Int, lead : Nat], node.start <= node.end + 1, NEW week,
         NEW w \in schedule_warning(node, week)
  PROVE  /\ schedule_warning([node EXCEPT !.end = Later(week, @, w.short)], week) = {}
         /\ schedule_warning([node EXCEPT !.end = Later(week, @, w.short - 1)], week) # {}
         /\ w.derived \in Int
<1> DEFINE derived == add_working_days(node.start, node.lead, week)
           short == count_working_days(node.end + 1, derived, week)
           EndingOn(e) == [node EXCEPT !.end = e]
<1>1. /\ node.lead \in Nat \ {0} /\ derived # NoDate /\ ~(derived <= node.end)
      /\ w = [derived |-> derived, short |-> short]
  BY DEF schedule_warning
<1>2. \A e : schedule_warning(EndingOn(e), week) = {} <=> derived <= e
  BY <1>1 DEF schedule_warning
<1> HIDE DEF derived
<1>3. Nth(week, node.start, node.lead, derived) /\ derived < node.start + MAX_LOOKAHEAD_DAYS
  BY <1>1, SearchFinds DEF derived
<1>4. /\ derived \in Int /\ node.end < derived /\ Works(week, derived)
      /\ derived <= node.end + MAX_LOOKAHEAD_DAYS /\ node.end + 1 \in Int
  BY <1>1, <1>3, DatesAssumption DEF Nth
<1>5. short \in Nat \ {0}
  <2>1. derived \in (node.end + 1)..derived
    BY <1>4
  <2>2. short \in Nat /\ (short > 0 <=> \E d \in (node.end + 1)..derived : Works(week, d))
    BY <1>4, CountIsNat
  <2> QED  BY <1>4, <2>1, <2>2
<1> HIDE DEF short
<1>6. Later(week, node.end, short) = derived
  <2>1. short = count_working_days(node.end + 1, derived, week) /\ short <= short
    BY <1>5 DEF short
  <2>2. add_working_days(node.end + 1, short, week) = derived
    BY <1>4, <1>5, <2>1, MissingDay, DatesAssumption
  <2> QED  BY <1>5, <2>2 DEF Later
<1>7. Later(week, node.end, short - 1) \in Int /\ Later(week, node.end, short - 1) < derived
  <2>1. short = count_working_days(node.end + 1, derived, week)
    BY DEF short
  <2> QED  BY <1>4, <1>5, <2>1, OneDayLess
<1>8. /\ [node EXCEPT !.end = Later(week, @, w.short)] = EndingOn(derived)
      /\ [node EXCEPT !.end = Later(week, @, w.short - 1)] = EndingOn(Later(week, node.end, short - 1))
  BY <1>1, <1>6
<1>9. schedule_warning(EndingOn(derived), week) = {}
  BY <1>2, <1>4
<1>10. schedule_warning(EndingOn(Later(week, node.end, short - 1)), week) # {}
  BY <1>2, <1>4, <1>7
<1> QED  BY <1>1, <1>4, <1>8, <1>9, <1>10

\* Of a link.
LEMMA LinkIsLeast ==
  ASSUME NEW lag \in Nat, NEW end \in Int, NEW start \in Int, NEW week,
         NEW v \in check_violation(lag, end, start, week),
         v.earliest <= start + MAX_LOOKAHEAD_DAYS
  PROVE  /\ check_violation(lag, end, Later(week, start, v.short), week) = {}
         /\ check_violation(lag, end, Later(week, start, v.short - 1), week) # {}
<1> DEFINE earliest == earliest_successor_start(end, lag, week)
           short == count_working_days(start + 1, earliest, week)
<1>1. /\ earliest # NoDate /\ ~(start >= earliest)
      /\ v = [earliest |-> earliest, short |-> short]
  BY DEF check_violation
<1>2. \A x : check_violation(lag, end, x, week) = {} <=> x >= earliest
  BY <1>1 DEF check_violation
<1>3. end + 1 \in Int /\ lag + 1 \in Nat \ {0} /\ earliest = add_working_days(end + 1, lag + 1, week)
  BY DEF earliest_successor_start
<1> HIDE DEF earliest
<1>4. Nth(week, end + 1, lag + 1, earliest)
  BY <1>1, <1>3, SearchFinds
<1>5. /\ earliest \in Int /\ start < earliest /\ Works(week, earliest)
      /\ earliest <= start + MAX_LOOKAHEAD_DAYS /\ start + 1 \in Int
  BY <1>1, <1>4 DEF Nth
<1>6. short \in Nat \ {0}
  <2>1. earliest \in (start + 1)..earliest
    BY <1>5
  <2>2. short \in Nat /\ (short > 0 <=> \E d \in (start + 1)..earliest : Works(week, d))
    BY <1>5, CountIsNat
  <2> QED  BY <1>5, <2>1, <2>2
<1> HIDE DEF short
<1>7. Later(week, start, short) = earliest
  <2>1. short = count_working_days(start + 1, earliest, week) /\ short <= short
    BY <1>6 DEF short
  <2>2. add_working_days(start + 1, short, week) = earliest
    BY <1>5, <1>6, <2>1, MissingDay, DatesAssumption
  <2> QED  BY <1>6, <2>2 DEF Later
<1>8. Later(week, start, short - 1) \in Int /\ Later(week, start, short - 1) < earliest
  <2>1. short = count_working_days(start + 1, earliest, week)
    BY DEF short
  <2> QED  BY <1>5, <1>6, <2>1, OneDayLess
<1>9. v.short = short
  BY <1>1
<1>10. ~(Later(week, start, short - 1) >= earliest) /\ earliest >= earliest
  BY <1>5, <1>8
<1> QED  BY <1>2, <1>7, <1>9, <1>10

\* Of a promise: none is missing of one so much later.
LEMMA PromiseIsLeast ==
  ASSUME NEW committed \in Int, NEW planned \in Int, NEW derived \in Int \cup {NoDate}, NEW week,
         planned <= committed + MAX_LOOKAHEAD_DAYS,
         derived # NoDate => derived <= committed + MAX_LOOKAHEAD_DAYS,
         NEW b \in assess_commitment(committed, planned, derived, week)
  PROVE  /\ \A c \in assess_commitment(Later(week, committed, b.short), planned, derived, week) :
              c.short = 0
         /\ b.short > 0 =>
              \E c \in assess_commitment(Later(week, committed, b.short - 1), planned, derived, week) :
                c.short # 0
<1> DEFINE ends == {planned} \cup ({derived} \ {NoDate})
           effective == Max(ends)
           ShortOf(x) == count_working_days(x + 1, effective, week)
           Late(x) == effective > x
<1>1. effective \in ends /\ \A y \in ends : y <= effective
  <2>1. ends \in SUBSET Int /\ planned \in ends
    OBVIOUS
  <2>2. IsFiniteSet({planned}) /\ IsFiniteSet({derived} \ {NoDate})
    <3>1. IsFiniteSet({planned}) /\ IsFiniteSet({derived})
      BY FS_Singleton
    <3> QED  BY <3>1, FS_Subset
  <2>3. IsFiniteSet(ends)
    BY <2>2, FS_Union
  <2> HIDE DEF ends
  <2> QED  BY <2>1, <2>3, Extremes
<1> HIDE DEF effective
<1>2. /\ effective \in Int /\ planned <= effective /\ (derived # NoDate => derived <= effective)
      /\ effective = planned \/ (derived # NoDate /\ effective = derived)
      /\ effective <= committed + MAX_LOOKAHEAD_DAYS /\ committed + 1 \in Int
  BY <1>1
<1>3. ASSUME NEW x \in Int, NEW c \in assess_commitment(x, planned, derived, week)
      PROVE  Late(x) /\ c.short = ShortOf(x)
  <2>1. /\ (planned # NoDate /\ planned > x) \/ (derived # NoDate /\ derived > x)
        /\ c.short = ShortOf(x)
    BY <1>3 DEF assess_commitment, effective
  <2>2. derived # NoDate => derived \in Int
    OBVIOUS
  <2> QED  BY <1>2, <2>1, <2>2
<1>4. ASSUME NEW x \in Int, Late(x)
      PROVE  \E c \in assess_commitment(x, planned, derived, week) : c.short = ShortOf(x)
  <2>1. x # NoDate /\ planned # NoDate
    BY DatesAssumption
  <2>2. (planned # NoDate /\ planned > x) \/ (derived # NoDate /\ derived > x)
    BY <1>2, <1>4, <2>1
  <2>3. assess_commitment(x, planned, derived, week)
          = {[short |-> ShortOf(x), hidden |-> ~(planned # NoDate /\ planned > x)]}
    BY <2>1, <2>2 DEF assess_commitment, effective
  <2> QED  BY <2>3
<1>5. b.short = ShortOf(committed) /\ ShortOf(committed) \in Nat
  BY <1>2, <1>3, CountIsNat
<1>6. CASE b.short = 0
  <2>1. Later(week, committed, b.short) = committed
    BY <1>6 DEF Later
  <2> QED  BY <1>3, <1>5, <1>6, <2>1
<1>7. CASE b.short # 0
  <2> DEFINE kept == Later(week, committed, b.short)
             less == Later(week, committed, b.short - 1)
  <2>1. b.short \in Nat \ {0} /\ b.short <= ShortOf(committed) /\ b.short = ShortOf(committed)
    BY <1>5, <1>7
  <2>2. kept \in Int /\ ShortOf(kept) = 0
    <3>1. kept = add_working_days(committed + 1, b.short, week)
      BY <1>7 DEF Later
    <3> DEFINE k == b.short
    <3>2. k \in Nat \ {0} /\ k <= count_working_days(committed + 1, effective, week) /\ kept = add_working_days(committed + 1, k, week)
      BY <2>1, <3>1
    <3> HIDE DEF k, kept
    <3>3. kept \in Int /\ count_working_days(kept + 1, effective, week)
                             = count_working_days(committed + 1, effective, week) - k
      BY <1>2, <3>2, MissingDay, DatesAssumption
    <3>4. ShortOf(kept) = ShortOf(committed) - k
      BY <3>3
    <3>5. k = ShortOf(committed)
      BY <2>1 DEF k
    <3> QED  BY <1>5, <3>3, <3>4, <3>5
  <2>3. less \in Int /\ less < effective /\ ShortOf(less) = 1
    BY <1>2, <2>1, OneDayLess
  <2> HIDE DEF kept, less, ShortOf
  <2>4. \A c \in assess_commitment(kept, planned, derived, week) : c.short = 0
    BY <1>3, <2>2
  <2>5. Late(less)
    BY <1>2, <2>3
  <2>6. \E c \in assess_commitment(less, planned, derived, week) : c.short # 0
    BY <1>4, <2>3, <2>5
  <2> QED  BY <2>4, <2>6 DEF kept, less
<1> QED  BY <1>6, <1>7

\* A plan: packages that end no earlier than they start, and links between them.
PlanLike(plan) ==
  /\ IsFiniteSet(DOMAIN plan.nodes) /\ IsFiniteSet(plan.edges)
  /\ plan.nodes \in [DOMAIN plan.nodes -> [start : Int, end : Int, lead : Nat]]
  /\ \A n \in DOMAIN plan.nodes : plan.nodes[n].start <= plan.nodes[n].end
  /\ \A e \in plan.edges : /\ e.predecessor \in DOMAIN plan.nodes
                           /\ e.successor \in DOMAIN plan.nodes /\ e.lag \in Nat

\* What is late is late by no more than a search goes.
LateWithinReach(plan, committed, planned, week) ==
  /\ \A e \in plan.edges : \A v \in Violations(plan, week)[e] :
       v.earliest <= plan.nodes[e.successor].start + MAX_LOOKAHEAD_DAYS
  /\ committed # NoDate =>
       /\ planned <= committed + MAX_LOOKAHEAD_DAYS
       /\ \A n \in DOMAIN plan.nodes : \A w \in Lateness(plan, week)[n] :
            w.derived <= committed + MAX_LOOKAHEAD_DAYS

\* The missing days of every warning are the fewest that help, on any plan, calendar and
\* commitment: an end, a start or a promise so much later mends it, one day less does not
\* (lead_time.py:80, dependencies.py).
THEOREM ShortfallsHelp ==
  ASSUME NEW plan, PlanLike(plan), NEW week,
         NEW committed \in Int \cup {NoDate}, NEW planned \in Int,
         LateWithinReach(plan, committed, planned, week)
  PROVE  ShortfallsAreLeast(plan, committed, planned, week)
<1> DEFINE nodes == plan.nodes
           N == DOMAIN nodes
<1>1. /\ IsFiniteSet(N)
      /\ \A n \in N : nodes[n] \in [start : Int, end : Int, lead : Nat] /\ nodes[n].start <= nodes[n].end
      /\ \A e \in plan.edges : e.predecessor \in N /\ e.successor \in N /\ e.lag \in Nat
  BY DEF PlanLike
<1>2. ASSUME NEW n \in N, NEW w \in Lateness(plan, week)[n]
      PROVE  /\ schedule_warning([nodes[n] EXCEPT !.end = Later(week, @, w.short)], week) = {}
             /\ schedule_warning([nodes[n] EXCEPT !.end = Later(week, @, w.short - 1)], week) # {}
             /\ w.derived \in Int
  <2>1. w \in schedule_warning(nodes[n], week)
    BY <1>2 DEF Lateness
  <2>2. nodes[n] \in [start : Int, end : Int, lead : Nat] /\ nodes[n].start <= nodes[n].end + 1
    BY <1>1
  <2> HIDE DEF nodes, N
  <2> QED  BY <2>1, <2>2, LeadIsLeast
<1>3. ASSUME NEW e \in plan.edges, NEW v \in Violations(plan, week)[e]
      PROVE  /\ check_violation(e.lag, nodes[e.predecessor].end,
                                Later(week, nodes[e.successor].start, v.short), week) = {}
             /\ check_violation(e.lag, nodes[e.predecessor].end,
                                Later(week, nodes[e.successor].start, v.short - 1), week) # {}
  <2>1. v \in check_violation(e.lag, nodes[e.predecessor].end, nodes[e.successor].start, week)
    BY <1>3 DEF Violations
  <2>2. e.lag \in Nat /\ nodes[e.predecessor].end \in Int /\ nodes[e.successor].start \in Int
    BY <1>1
  <2>3. v.earliest <= nodes[e.successor].start + MAX_LOOKAHEAD_DAYS
    BY <1>3 DEF LateWithinReach
  <2> DEFINE lag == e.lag  end == nodes[e.predecessor].end  start == nodes[e.successor].start
  <2>4. /\ v \in check_violation(lag, end, start, week) /\ v.earliest <= start + MAX_LOOKAHEAD_DAYS
        /\ lag \in Nat /\ end \in Int /\ start \in Int
    BY <2>1, <2>2, <2>3
  <2> HIDE DEF lag, end, start
  <2>5. /\ check_violation(lag, end, Later(week, start, v.short), week) = {}
        /\ check_violation(lag, end, Later(week, start, v.short - 1), week) # {}
    BY <2>4, LinkIsLeast, DatesAssumption
  <2> QED  BY <2>5 DEF lag, end, start
<1> DEFINE late == {w.derived : w \in UNION {Lateness(plan, week)[n] : n \in N}}
           derived == IF late = {} THEN NoDate ELSE Max(late)
<1>4. \A x : Breach(plan, x, planned, week) = assess_commitment(x, planned, derived, week)
  BY DEF Breach
<1>5. late \in SUBSET Int /\ IsFiniteSet(late)
  <2> DEFINE f == [n \in N |-> add_working_days(nodes[n].start, nodes[n].lead, week)]
  <2>1. ASSUME NEW d \in late
        PROVE  \E n \in N : d = f[n] /\ d \in Int
    <3>1. PICK n \in N : \E w \in Lateness(plan, week)[n] : d = w.derived
      OBVIOUS
    <3>2. PICK w \in Lateness(plan, week)[n] : d = w.derived
      BY <3>1
    <3>3. w \in schedule_warning(nodes[n], week)
      BY <3>1, <3>2 DEF Lateness
    <3>4. w.derived = f[n]
      BY <3>1, <3>3 DEF schedule_warning
    <3>5. w.derived \in Int
      BY <1>2, <3>1, <3>2
    <3> QED  BY <3>1, <3>2, <3>4, <3>5
  <2> HIDE DEF late, f
  <2>2. late \in SUBSET {f[n] : n \in N} /\ late \in SUBSET Int
    BY <2>1
  <2>3. IsFiniteSet({f[n] : n \in N})
    BY <1>1, ImageFinite
  <2> QED  BY <2>2, <2>3, FS_Subset
<1>6. late # {} => Max(late) \in late
  <2> HIDE DEF late
  <2> QED  BY <1>5, Extremes
<1>7. ASSUME NEW b \in Breach(plan, committed, planned, week)
      PROVE  /\ \A c \in Breach(plan, Later(week, committed, b.short), planned, week) : c.short = 0
             /\ b.short > 0 =>
                  ~(\A c \in Breach(plan, Later(week, committed, b.short - 1), planned, week) : c.short = 0)
  <2>1. b \in assess_commitment(committed, planned, derived, week)
    BY <1>4, <1>7
  <2>2. committed \in Int
    BY <2>1 DEF assess_commitment
  <2>3. planned <= committed + MAX_LOOKAHEAD_DAYS /\ \A d \in late : d <= committed + MAX_LOOKAHEAD_DAYS
    BY <2>2, DatesAssumption DEF LateWithinReach
  <2>4. derived \in Int \cup {NoDate} /\ (derived # NoDate => derived <= committed + MAX_LOOKAHEAD_DAYS)
    BY <1>5, <1>6, <2>3
  <2> HIDE DEF derived
  <2>5. /\ \A c \in assess_commitment(Later(week, committed, b.short), planned, derived, week) :
             c.short = 0
        /\ b.short > 0 =>
             \E c \in assess_commitment(Later(week, committed, b.short - 1), planned, derived, week) :
               c.short # 0
    BY <2>1, <2>2, <2>3, <2>4, PromiseIsLeast
  <2> QED  BY <1>4, <2>5
<1> HIDE DEF late, derived
<1> QED  BY <1>2, <1>3, <1>7 DEF ShortfallsAreLeast, Later

\* A longer stretch counts no less.
LEMMA CountGrows ==
  ASSUME NEW week, NEW a \in Int, NEW b \in Int, NEW c \in Int, NEW d \in Int, c <= a, b <= d
  PROVE  count_working_days(a, b, week) <= count_working_days(c, d, week)
<1> DEFINE S == {x \in a..b : Works(week, x)}
           T == {x \in c..d : Works(week, x)}
<1>1. IsFiniteSet(T)
  BY CountIsNat
<1>2. S \in SUBSET T
  OBVIOUS
<1>3. Cardinality(S) = count_working_days(a, b, week) /\ Cardinality(T) = count_working_days(c, d, week)
  BY DEF count_working_days
<1> HIDE DEF S, T
<1>4. Cardinality(S) <= Cardinality(T)
  BY <1>1, <1>2, FS_Subset
<1> QED  BY <1>3, <1>4

\* Seven days on end hold every weekday.
LEMMA SevenDays ==
  ASSUME NEW week \in SUBSET (0..6), week # {}, NEW b \in Int
  PROVE  \E d \in b..(b + 6) : Works(week, d)
<1>1. PICK w \in week : w \in 0..6
  OBVIOUS
<1> DEFINE r == b % 7  d == IF w >= r THEN b + (w - r) ELSE b + (w - r) + 7
<1>2. r \in 0..6
  OBVIOUS
<1>3. d \in b..(b + 6)
  <2> HIDE DEF r
  <2> QED  BY <1>1, <1>2
<1>4. d % 7 = w
  BY <1>1
<1> QED  BY <1>1, <1>3, <1>4 DEF Works

\* A week with work has a working day in every seven.
LEMMA EveryWeek ==
  ASSUME NEW week \in SUBSET (0..6), week # {}, NEW a \in Int, NEW n \in Nat
  PROVE  n <= count_working_days(a, a + 7 * n - 1, week)
<1> DEFINE C(k) == count_working_days(a, a + 7 * k - 1, week)
           G == {k \in 0..n : k <= C(k)}
           rank == [k \in 0..n |-> k]
<1>1. ASSUME NEW k \in 0..n, \A j \in 0..n : rank[j] < rank[k] => j \in G
      PROVE  k \in G
  <2>1. k \in Int /\ C(k) \in Nat
    <3>1. k \in Int /\ a + 7 * k - 1 \in Int
      OBVIOUS
    <3> QED  BY <3>1, CountIsNat
  <2>2. CASE k = 0
    BY <2>1, <2>2
  <2>3. CASE k # 0
    <3> DEFINE j == k - 1  b == a + 7 * j - 1
    <3>1. j \in 0..n /\ j \in Int /\ j < k /\ k = j + 1
      BY <2>3
    <3>2. j <= C(j)
      BY <1>1, <3>1
    <3>3. b \in Int /\ b + 1 \in Int /\ a <= b + 1 /\ a + 7 * k - 1 = b + 7
          /\ a + 7 * k - 1 \in Int /\ b <= b + 7 /\ b + 7 \in Int
      BY <3>1
    <3>4. C(j) = count_working_days(a, b, week)
      OBVIOUS
    <3>5. C(k) = count_working_days(a, b + 7, week)
      BY <3>3
    <3> HIDE DEF j, b, C
    <3>6. \E d \in (b + 1)..((b + 1) + 6) : Works(week, d)
      BY <3>3, SevenDays
    <3>7. \E d \in (b + 1)..(b + 7) : Works(week, d)
      BY <3>3, <3>6
    <3>8. count_working_days(b + 1, b + 7, week) \in Nat /\ count_working_days(b + 1, b + 7, week) > 0
      BY <3>3, <3>7, CountIsNat
    <3>9. count_working_days(a, b + 7, week)
            = count_working_days(a, b, week) + count_working_days(b + 1, b + 7, week)
      BY <3>3, CountSplits
    <3>10. count_working_days(a, b, week) \in Nat
      BY <3>3, CountIsNat
    <3>11. k <= C(k)
      BY <3>1, <3>2, <3>4, <3>5, <3>8, <3>9, <3>10
    <3> QED  BY <3>11
  <2> QED  BY <2>2, <2>3
<1>2. G = 0..n
  <2>1. IsFiniteSet(0..n)
    BY FS_Interval
  <2>2. rank \in [0..n -> Int] /\ G \in SUBSET (0..n)
    OBVIOUS
  <2> DEFINE S == 0..n
  <2>3. \A x \in S : (\A y \in S : rank[y] < rank[x] => y \in G) => x \in G
    BY <1>1
  <2>4. IsFiniteSet(S) /\ rank \in [S -> Int] /\ G \in SUBSET S
    BY <2>1, <2>2
  <2> HIDE DEF G, rank, S
  <2>5. G = S
    BY <2>3, <2>4, RankInduction
  <2> QED  BY <2>5 DEF S
<1>3. n \in G
  <2>1. n \in 0..n
    OBVIOUS
  <2> HIDE DEF G
  <2> QED  BY <1>2, <2>1
<1> QED  BY <1>3

\* The day that ends n working days from a day on, and the one that begins n before it.
Reaches(week, start, n, e) ==
  /\ e \in Int /\ start <= e /\ Works(week, e) /\ count_working_days(start, e, week) = n
  /\ \A to \in Int : e <= to <=> n <= count_working_days(start, to, week)
ReachesBack(week, ref, n, e) ==
  /\ e \in Int /\ e <= ref /\ Works(week, e) /\ count_working_days(e, ref, week) = n
  /\ \A from \in Int : from <= e <=> n <= count_working_days(from, ref, week)

\* So a search for days that fit in its weeks finds the day.
LEMMA Finds ==
  ASSUME NEW week \in SUBSET (0..6), week # {}, NEW start \in Int,
         NEW n \in Nat \ {0}, 7 * n <= MAX_LOOKAHEAD_DAYS
  PROVE  Reaches(week, start, n, add_working_days(start, n, week))
<1> DEFINE last == start + 7 * n - 1
<1>1. last \in Int /\ last < start + MAX_LOOKAHEAD_DAYS
  BY DatesAssumption
<1>2. n <= count_working_days(start, last, week)
  BY EveryWeek
<1>3. PICK e \in start..last : Nth(week, start, n, e)
  <2> HIDE DEF last
  <2> QED  BY <1>1, <1>2, NthIsThere
<1>4. /\ e \in Int /\ start <= e /\ Works(week, e) /\ count_working_days(start, e, week) = n
      /\ e < start + MAX_LOOKAHEAD_DAYS
  BY <1>1, <1>3, DatesAssumption DEF Nth
<1>5. add_working_days(start, n, week) = e
  BY <1>3, <1>4, SearchFinds
<1>6. ASSUME NEW to \in Int
      PROVE  e <= to <=> n <= count_working_days(start, to, week)
  <2>1. CASE e <= to
    <3>1. count_working_days(start, e, week) <= count_working_days(start, to, week)
      BY <1>4, <2>1, CountGrows
    <3> QED  BY <1>4, <2>1, <3>1
  <2>2. CASE ~(e <= to)
    <3>1. e - 1 \in Int /\ to <= e - 1 /\ start \in Int
      BY <1>4, <2>2
    <3>2. count_working_days(start, to, week) <= count_working_days(start, e - 1, week)
      BY <3>1, CountGrows
    <3>3. count_working_days(start, e, week) = count_working_days(start, e - 1, week) + 1
      BY <1>4, CountOfMore
    <3>4. count_working_days(start, to, week) \in Nat /\ count_working_days(start, e - 1, week) \in Nat
      BY <3>1, CountIsNat
    <3> QED  BY <1>4, <2>2, <3>2, <3>3, <3>4
  <2> QED  BY <2>1, <2>2
<1> QED  BY <1>4, <1>5, <1>6 DEF Reaches

\* And so does the search backward.
LEMMA FindsBefore ==
  ASSUME NEW week \in SUBSET (0..6), week # {}, NEW ref \in Int,
         NEW n \in Nat \ {0}, 7 * n <= MAX_LOOKAHEAD_DAYS
  PROVE  ReachesBack(week, ref, n, working_days_before(ref, n, week))
<1> DEFINE C(d) == count_working_days(d, ref, week)
           first == ref - 7 * n + 1
           S == {d \in first..ref : n <= C(d)}
           e == Max(S)
<1>1. /\ first \in Int /\ first <= ref /\ ref - MAX_LOOKAHEAD_DAYS + 1 <= first
      /\ ref - MAX_LOOKAHEAD_DAYS + 1 \in Int
  BY DatesAssumption
<1>2. n <= C(first)
  <2>1. first + 7 * n - 1 = ref
    OBVIOUS
  <2>2. n <= count_working_days(first, first + 7 * n - 1, week)
    BY <1>1, EveryWeek
  <2> QED  BY <2>1, <2>2
<1> HIDE DEF first
<1>3. \A d \in Int : C(d) \in Nat
  BY CountIsNat
<1>4. \A d \in Int : d <= ref => C(d) = C(d + 1) + (IF Works(week, d) THEN 1 ELSE 0)
  <2> SUFFICES ASSUME NEW d \in Int, d <= ref
               PROVE  C(d) = C(d + 1) + (IF Works(week, d) THEN 1 ELSE 0)
    OBVIOUS
  <2>1. count_working_days(d, ref, week)
          = count_working_days(d, d, week) + count_working_days(d + 1, ref, week)
    BY CountSplits
  <2>2. count_working_days(d, d, week) = IF Works(week, d) THEN 1 ELSE 0
    BY CountOfOne
  <2>3. C(d + 1) \in Nat
    BY <1>3
  <2> QED  BY <2>1, <2>2, <2>3
<1>5. \A c, d \in Int : c <= d => C(d) <= C(c)
  BY CountGrows
<1>6. \A d \in Int : d > ref => C(d) = 0
  BY CountOfNone
<1> HIDE DEF C
<1>7. S \in SUBSET Int /\ IsFiniteSet(S) /\ first \in S
  <2>1. IsFiniteSet(first..ref) /\ S \in SUBSET (first..ref) /\ first \in S
    BY <1>1, <1>2, FS_Interval
  <2> HIDE DEF S
  <2>2. IsFiniteSet(S)
    BY <2>1, FS_Subset
  <2> QED  BY <1>1, <2>1, <2>2
<1>8. e \in S /\ \A y \in S : y <= e
  <2> HIDE DEF S
  <2> QED  BY <1>7, Extremes
<1> HIDE DEF e
<1>9. e \in Int /\ first <= e /\ e <= ref /\ n <= C(e)
  BY <1>1, <1>8
<1>10. C(e + 1) < n
  <2>1. CASE e + 1 <= ref
    <3>1. e + 1 \in first..ref /\ e + 1 \notin S
      BY <1>1, <1>8, <1>9, <2>1
    <3>2. C(e + 1) \in Nat
      BY <1>3, <1>9
    <3> QED  BY <3>1, <3>2
  <2>2. CASE ~(e + 1 <= ref)
    <3>1. e + 1 \in Int /\ e + 1 > ref
      BY <1>9, <2>2
    <3> QED  BY <1>6, <3>1
  <2> QED  BY <2>1, <2>2
<1>11. Works(week, e) /\ C(e) = n
  <2>1. C(e + 1) \in Nat /\ C(e) = C(e + 1) + (IF Works(week, e) THEN 1 ELSE 0)
    BY <1>3, <1>4, <1>9
  <2> QED  BY <1>9, <1>10, <2>1
<1>12. \A from \in Int : from <= e <=> n <= C(from)
  <2> SUFFICES ASSUME NEW from \in Int PROVE from <= e <=> n <= C(from)
    OBVIOUS
  <2>1. CASE from <= e
    BY <1>3, <1>5, <1>9, <1>11, <2>1
  <2>2. CASE ~(from <= e)
    <3>1. e + 1 \in Int /\ e + 1 <= from
      BY <1>9, <2>2
    <3>2. C(from) <= C(e + 1) /\ C(from) \in Nat /\ C(e + 1) \in Nat
      BY <1>3, <1>5, <3>1
    <3> QED  BY <1>10, <2>2, <3>2
  <2> QED  BY <2>1, <2>2
<1> DEFINE reached == {d \in (ref - MAX_LOOKAHEAD_DAYS + 1)..ref : Works(week, d) /\ C(d) = n}
<1>13. working_days_before(ref, n, week) = IF reached = {} THEN ref ELSE Max(reached)
  BY DEF working_days_before, C
<1>14. e \in reached /\ \A d \in reached : d <= e
  BY <1>1, <1>9, <1>11, <1>12
<1>15. Max(reached) = e
  <2>1. IsFiniteSet((ref - MAX_LOOKAHEAD_DAYS + 1)..ref)
        /\ reached \in SUBSET ((ref - MAX_LOOKAHEAD_DAYS + 1)..ref) /\ reached \in SUBSET Int
    BY <1>1, FS_Interval
  <2> HIDE DEF reached
  <2>2. IsFiniteSet(reached)
    BY <2>1, FS_Subset
  <2>3. Max(reached) \in reached /\ e <= Max(reached)
    BY <1>14, <2>1, <2>2, Extremes
  <2>4. Max(reached) \in Int
    BY <2>1, <2>3
  <2> QED  BY <1>9, <1>14, <2>3, <2>4
<1>16. working_days_before(ref, n, week) = e
  <2> HIDE DEF reached
  <2> QED  BY <1>13, <1>14, <1>15
<1> QED  BY <1>9, <1>11, <1>12, <1>16 DEF C, ReachesBack

\* What a search needs: a package takes no more working days than the weeks it looks
\* through, and a lag leaves one to spare.
InReach(plan, week) ==
  /\ week \in SUBSET (0..6)
  /\ week # {} =>
       /\ \A n \in DOMAIN plan.nodes : 7 * Duration(plan, week, n) <= MAX_LOOKAHEAD_DAYS
       /\ \A e \in plan.edges : 7 * (e.lag + 1) <= MAX_LOOKAHEAD_DAYS

\* Links that lead in one direction.
RankedLinks(plan, rank) ==
  /\ rank \in [DOMAIN plan.nodes -> Int]
  /\ \A e \in plan.edges : rank[e.predecessor] < rank[e.successor]

\* The first day the successor may start when the predecessor starts on that day.
FirstAllowed(plan, week, e, day) ==
  earliest_successor_start(add_working_days(day, Duration(plan, week, e.predecessor), week), e.lag, week)

\* The last day the predecessor may end when the successor ends on that day.
LastAllowed(plan, week, e, day) ==
  working_days_before(working_days_before(day, Duration(plan, week, e.successor), week) - 1,
                      e.lag + 1, week)

\* A package takes a day at least.
LEMMA DurationIs ==
  ASSUME NEW plan, PlanLike(plan), NEW week, NEW n \in DOMAIN plan.nodes
  PROVE  Duration(plan, week, n) \in Nat \ {0}
<1> DEFINE node == plan.nodes[n]
           count == count_working_days(node.start, node.end, week)
<1>1. node.start \in Int /\ node.end \in Int /\ node.lead \in Nat
  BY DEF PlanLike
<1>2. count \in Nat
  BY <1>1, CountIsNat
<1> HIDE DEF count
<1>3. Max({1, count}) = IF 1 <= count THEN count ELSE 1
  BY <1>2, MaxOfTwo
<1>4. Duration(plan, week, n) = IF node.lead > 0 THEN node.lead ELSE Max({1, count})
  BY DEF Duration, duration_working_days, count
<1> QED  BY <1>1, <1>2, <1>3, <1>4

\* Both days of a link exist.
LEMMA LinksAreFound ==
  ASSUME NEW plan, PlanLike(plan), NEW week, InReach(plan, week), week # {},
         NEW e \in plan.edges, NEW day \in Int
  PROVE  FirstAllowed(plan, week, e, day) \in Int /\ LastAllowed(plan, week, e, day) \in Int
<1> DEFINE p == Duration(plan, week, e.predecessor)  s == Duration(plan, week, e.successor)
           l == e.lag + 1
<1>1. e.predecessor \in DOMAIN plan.nodes /\ e.successor \in DOMAIN plan.nodes /\ e.lag \in Nat
  BY DEF PlanLike
<1>2. week \in SUBSET (0..6) /\ 7 * p <= MAX_LOOKAHEAD_DAYS /\ 7 * s <= MAX_LOOKAHEAD_DAYS
      /\ 7 * l <= MAX_LOOKAHEAD_DAYS
  BY <1>1 DEF InReach
<1>3. p \in Nat \ {0} /\ s \in Nat \ {0} /\ l \in Nat \ {0}
  BY <1>1, DurationIs
<1>4. /\ FirstAllowed(plan, week, e, day) = add_working_days(add_working_days(day, p, week) + 1, l, week)
      /\ LastAllowed(plan, week, e, day) = working_days_before(working_days_before(day, s, week) - 1, l, week)
  BY DEF FirstAllowed, LastAllowed, earliest_successor_start
<1> HIDE DEF p, s, l
<1>5. add_working_days(day, p, week) \in Int
  <2>1. Reaches(week, day, p, add_working_days(day, p, week))
    BY <1>2, <1>3, Finds, DatesAssumption
  <2> QED  BY <2>1 DEF Reaches
<1>6. working_days_before(day, s, week) \in Int
  <2>1. ReachesBack(week, day, s, working_days_before(day, s, week))
    BY <1>2, <1>3, FindsBefore, DatesAssumption
  <2> QED  BY <2>1 DEF ReachesBack
<1>7. add_working_days(day, p, week) + 1 \in Int /\ working_days_before(day, s, week) - 1 \in Int
  BY <1>5, <1>6
<1>8. add_working_days(add_working_days(day, p, week) + 1, l, week) \in Int
  <2>1. Reaches(week, add_working_days(day, p, week) + 1, l, add_working_days(add_working_days(day, p, week) + 1, l, week))
    BY <1>2, <1>3, <1>7, Finds, DatesAssumption
  <2> QED  BY <2>1 DEF Reaches
<1>9. working_days_before(working_days_before(day, s, week) - 1, l, week) \in Int
  <2>1. ReachesBack(week, working_days_before(day, s, week) - 1, l,
                    working_days_before(working_days_before(day, s, week) - 1, l, week))
    BY <1>2, <1>3, <1>7, FindsBefore, DatesAssumption
  <2> QED  BY <2>1 DEF ReachesBack
<1> QED  BY <1>4, <1>8, <1>9

\* The forward pass solves what defines it.
LEMMA EarlyIs ==
  ASSUME NEW plan, PlanLike(plan), NEW week, InReach(plan, week), week # {},
         NEW rank, RankedLinks(plan, rank)
  PROVE  LET early == EarliestStarts(plan, week)
         IN \A n \in DOMAIN plan.nodes :
              /\ early[n] \in Int /\ plan.nodes[n].start <= early[n]
              /\ \A e \in Before(plan, n) : FirstAllowed(plan, week, e, early[e.predecessor]) <= early[n]
              /\ \/ early[n] = plan.nodes[n].start
                 \/ \E e \in Before(plan, n) : early[n] = FirstAllowed(plan, week, e, early[e.predecessor])
<1> DEFINE N == DOMAIN plan.nodes
           Goal(f, n) == Max({plan.nodes[n].start}
                               \cup {FirstAllowed(plan, week, e, f[e.predecessor]) : e \in Before(plan, n)})
           step == [f \in [N -> Int] |-> [n \in N |-> Goal(f, n)]]
           early == EarliestStarts(plan, week)
<1>1. /\ IsFiniteSet(N) /\ rank \in [N -> Int] /\ IsFiniteSet(plan.edges)
      /\ \A n \in N : plan.nodes[n].start \in Int
      /\ \A e \in plan.edges : e.predecessor \in N /\ rank[e.predecessor] < rank[e.successor]
  BY DEF PlanLike, RankedLinks
<1>2. \A n \in N : IsFiniteSet(Before(plan, n)) /\ Before(plan, n) \in SUBSET plan.edges
                   /\ \A e \in Before(plan, n) : e.successor = n
  <2> SUFFICES ASSUME NEW n \in N
               PROVE  IsFiniteSet(Before(plan, n)) /\ Before(plan, n) \in SUBSET plan.edges
                      /\ \A e \in Before(plan, n) : e.successor = n
    OBVIOUS
  <2>1. Before(plan, n) \in SUBSET plan.edges /\ \A e \in Before(plan, n) : e.successor = n
    BY DEF Before
  <2> QED  BY <1>1, <2>1, FS_Subset
<1>3. ASSUME NEW f, NEW n \in N, \A e \in Before(plan, n) : f[e.predecessor] \in Int
      PROVE  /\ Goal(f, n) \in Int /\ plan.nodes[n].start <= Goal(f, n)
             /\ \A e \in Before(plan, n) : FirstAllowed(plan, week, e, f[e.predecessor]) <= Goal(f, n)
             /\ \/ Goal(f, n) = plan.nodes[n].start
                \/ \E e \in Before(plan, n) : Goal(f, n) = FirstAllowed(plan, week, e, f[e.predecessor])
  <2> DEFINE S == Before(plan, n)
             g == [e \in S |-> FirstAllowed(plan, week, e, f[e.predecessor])]
             x == plan.nodes[n].start
             days == {x} \cup {g[s] : s \in S}
  <2>1. \A e \in S : g[e] \in Int
    BY <1>2, <1>3, LinksAreFound
  <2>2. IsFiniteSet(S) /\ x \in Int
    BY <1>1, <1>2
  <2> HIDE DEF Goal
  <2>3. \A d : d \in days <=> d = x \/ \E s \in S : d = g[s]
    OBVIOUS
  <2> USE DEF Goal
  <2>4. \A e \in S : g[e] = FirstAllowed(plan, week, e, f[e.predecessor])
    OBVIOUS
  <2>5. Goal(f, n) = Max(days)
    <3>1. days = {plan.nodes[n].start} \cup {FirstAllowed(plan, week, e, f[e.predecessor]) : e \in Before(plan, n)}
      OBVIOUS
    <3> HIDE DEF days
    <3> QED  BY <3>1
  <2> HIDE DEF S, g, x, days
  <2>6. /\ Max(days) \in Int /\ x <= Max(days) /\ \A s \in S : g[s] <= Max(days)
        /\ Max(days) = x \/ \E s \in S : Max(days) = g[s]
    BY <2>1, <2>2, <2>3, ExtremesOver
  <2> HIDE DEF Goal
  <2> QED  BY <2>4, <2>5, <2>6 DEF S, x
<1>4. step \in [[N -> Int] -> [N -> Int]]
  <2> SUFFICES ASSUME NEW f \in [N -> Int], NEW n \in N PROVE Goal(f, n) \in Int
    OBVIOUS
  <2>1. \A e \in Before(plan, n) : f[e.predecessor] \in Int
    BY <1>1, <1>2
  <2> HIDE DEF Goal
  <2> QED  BY <1>3, <2>1
<1>5. \A f, g \in [N -> Int] : \A n \in N :
        (\A m \in N : rank[m] < rank[n] => f[m] = g[m]) => step[f][n] = step[g][n]
  <2> SUFFICES ASSUME NEW f \in [N -> Int], NEW g \in [N -> Int], NEW n \in N,
                      \A m \in N : rank[m] < rank[n] => f[m] = g[m]
               PROVE  Goal(f, n) = Goal(g, n)
    OBVIOUS
  <2>1. \A e \in Before(plan, n) : f[e.predecessor] = g[e.predecessor]
    BY <1>1, <1>2
  <2>2. {FirstAllowed(plan, week, e, f[e.predecessor]) : e \in Before(plan, n)}
          = {FirstAllowed(plan, week, e, g[e.predecessor]) : e \in Before(plan, n)}
    BY <2>1
  <2> QED  BY <2>2
<1>6. PICK f \in [N -> Int] : step[f] = f
  <2>1. Int # {}
    OBVIOUS
  <2> HIDE DEF step, N
  <2>2. DefinedByRank(N, Int, rank, step)
    BY <1>1, <1>4, <1>5, <2>1 DEF DefinedByRank
  <2> QED  BY <2>2, RecursionExists
<1>7. f = [n \in N |-> Goal(f, n)]
  <2> HIDE DEF Goal
  <2> QED  BY <1>6
<1>8. early = [n \in N |-> Goal(early, n)]
  <2>1. early = CHOOSE h : h = [n \in N |-> Goal(h, n)]
    BY DEF EarliestStarts, FirstAllowed
  <2> HIDE DEF Goal, early
  <2> QED  BY <1>7, <2>1
<1> HIDE DEF early
<1>9. \A n \in N : early[n] = Goal(early, n)
  <2> HIDE DEF Goal
  <2> QED  BY <1>8
<1> DEFINE G == {n \in N : early[n] \in Int}
<1>10. G = N
  <2>1. ASSUME NEW n \in N, \A m \in N : rank[m] < rank[n] => m \in G
        PROVE  n \in G
    <3>1. \A e \in Before(plan, n) : early[e.predecessor] \in Int
      BY <1>1, <1>2, <2>1
    <3> HIDE DEF Goal
    <3>2. Goal(early, n) \in Int
      BY <1>3, <3>1
    <3> QED  BY <1>9, <3>2
  <2>2. G \in SUBSET N
    OBVIOUS
  <2> HIDE DEF G, N
  <2> QED  BY <1>1, <2>1, <2>2, RankInduction
<1>11. \A n \in N : \A e \in Before(plan, n) : early[e.predecessor] \in Int
  BY <1>1, <1>2, <1>10
<1> HIDE DEF Goal, N
<1>12. \A n \in N :
         /\ early[n] \in Int /\ plan.nodes[n].start <= early[n]
         /\ \A e \in Before(plan, n) : FirstAllowed(plan, week, e, early[e.predecessor]) <= early[n]
         /\ \/ early[n] = plan.nodes[n].start
            \/ \E e \in Before(plan, n) : early[n] = FirstAllowed(plan, week, e, early[e.predecessor])
  BY <1>3, <1>9, <1>11
<1> QED  BY <1>12 DEF early, N

\* So does the backward pass.
LEMMA LateIs ==
  ASSUME NEW plan, PlanLike(plan), NEW week, InReach(plan, week), week # {},
         NEW rank, RankedLinks(plan, rank), NEW deadline \in Int
  PROVE  LET late == LatestFinishes(plan, deadline, week)
         IN \A n \in DOMAIN plan.nodes :
              /\ late[n] \in Int /\ late[n] <= deadline
              /\ \A e \in After(plan, n) : late[n] <= LastAllowed(plan, week, e, late[e.successor])
              /\ \/ late[n] = deadline
                 \/ \E e \in After(plan, n) : late[n] = LastAllowed(plan, week, e, late[e.successor])
<1> DEFINE N == DOMAIN plan.nodes
           down == [n \in N |-> -rank[n]]
           Goal(f, n) == Min({deadline}
                               \cup {LastAllowed(plan, week, e, f[e.successor]) : e \in After(plan, n)})
           step == [f \in [N -> Int] |-> [n \in N |-> Goal(f, n)]]
           late == LatestFinishes(plan, deadline, week)
<1>1. /\ IsFiniteSet(N) /\ down \in [N -> Int] /\ IsFiniteSet(plan.edges)
      /\ \A e \in plan.edges : e.successor \in N /\ down[e.successor] < down[e.predecessor]
  <2>1. rank \in [N -> Int] /\ \A e \in plan.edges : rank[e.predecessor] < rank[e.successor]
    BY DEF RankedLinks
  <2>2. /\ IsFiniteSet(N) /\ IsFiniteSet(plan.edges)
        /\ \A e \in plan.edges : e.successor \in N /\ e.predecessor \in N
    BY DEF PlanLike
  <2>3. \A e \in plan.edges : -rank[e.successor] < -rank[e.predecessor]
    BY <2>1, <2>2
  <2> HIDE DEF N
  <2> QED  BY <2>1, <2>2, <2>3
<1> HIDE DEF down
<1>2. \A n \in N : IsFiniteSet(After(plan, n)) /\ After(plan, n) \in SUBSET plan.edges
                   /\ \A e \in After(plan, n) : e.predecessor = n
  <2> SUFFICES ASSUME NEW n \in N
               PROVE  IsFiniteSet(After(plan, n)) /\ After(plan, n) \in SUBSET plan.edges
                      /\ \A e \in After(plan, n) : e.predecessor = n
    OBVIOUS
  <2>1. After(plan, n) \in SUBSET plan.edges /\ \A e \in After(plan, n) : e.predecessor = n
    BY DEF After
  <2> QED  BY <1>1, <2>1, FS_Subset
<1>3. ASSUME NEW f, NEW n \in N, \A e \in After(plan, n) : f[e.successor] \in Int
      PROVE  /\ Goal(f, n) \in Int /\ Goal(f, n) <= deadline
             /\ \A e \in After(plan, n) : Goal(f, n) <= LastAllowed(plan, week, e, f[e.successor])
             /\ \/ Goal(f, n) = deadline
                \/ \E e \in After(plan, n) : Goal(f, n) = LastAllowed(plan, week, e, f[e.successor])
  <2> DEFINE S == After(plan, n)
             g == [e \in S |-> LastAllowed(plan, week, e, f[e.successor])]
             x == deadline
             days == {x} \cup {g[s] : s \in S}
  <2>1. \A e \in S : g[e] \in Int
    BY <1>2, <1>3, LinksAreFound
  <2>2. IsFiniteSet(S) /\ x \in Int
    BY <1>1, <1>2
  <2> HIDE DEF Goal
  <2>3. \A d : d \in days <=> d = x \/ \E s \in S : d = g[s]
    OBVIOUS
  <2> USE DEF Goal
  <2>4. \A e \in S : g[e] = LastAllowed(plan, week, e, f[e.successor])
    OBVIOUS
  <2>5. Goal(f, n) = Min(days)
    <3>1. days = {deadline} \cup {LastAllowed(plan, week, e, f[e.successor]) : e \in After(plan, n)}
      OBVIOUS
    <3> HIDE DEF days
    <3> QED  BY <3>1
  <2> HIDE DEF S, g, x, days
  <2>6. /\ Min(days) \in Int /\ Min(days) <= x /\ \A s \in S : Min(days) <= g[s]
        /\ Min(days) = x \/ \E s \in S : Min(days) = g[s]
    BY <2>1, <2>2, <2>3, ExtremesOver
  <2> HIDE DEF Goal
  <2> QED  BY <2>4, <2>5, <2>6 DEF S, x
<1>4. step \in [[N -> Int] -> [N -> Int]]
  <2> SUFFICES ASSUME NEW f \in [N -> Int], NEW n \in N PROVE Goal(f, n) \in Int
    OBVIOUS
  <2>1. \A e \in After(plan, n) : f[e.successor] \in Int
    BY <1>1, <1>2
  <2> HIDE DEF Goal
  <2> QED  BY <1>3, <2>1
<1>5. \A f, g \in [N -> Int] : \A n \in N :
        (\A m \in N : down[m] < down[n] => f[m] = g[m]) => step[f][n] = step[g][n]
  <2> SUFFICES ASSUME NEW f \in [N -> Int], NEW g \in [N -> Int], NEW n \in N,
                      \A m \in N : down[m] < down[n] => f[m] = g[m]
               PROVE  Goal(f, n) = Goal(g, n)
    OBVIOUS
  <2>1. \A e \in After(plan, n) : f[e.successor] = g[e.successor]
    BY <1>1, <1>2
  <2>2. {LastAllowed(plan, week, e, f[e.successor]) : e \in After(plan, n)}
          = {LastAllowed(plan, week, e, g[e.successor]) : e \in After(plan, n)}
    BY <2>1
  <2> QED  BY <2>2
<1>6. PICK f \in [N -> Int] : step[f] = f
  <2>1. Int # {}
    OBVIOUS
  <2> HIDE DEF step, N
  <2>2. DefinedByRank(N, Int, down, step)
    BY <1>1, <1>4, <1>5, <2>1 DEF DefinedByRank
  <2> QED  BY <2>2, RecursionExists
<1>7. f = [n \in N |-> Goal(f, n)]
  <2> HIDE DEF Goal
  <2> QED  BY <1>6
<1>8. late = [n \in N |-> Goal(late, n)]
  <2>1. late = CHOOSE h : h = [n \in N |-> Goal(h, n)]
    BY DEF LatestFinishes, LastAllowed
  <2> HIDE DEF Goal, late
  <2> QED  BY <1>7, <2>1
<1> HIDE DEF late
<1>9. \A n \in N : late[n] = Goal(late, n)
  <2> HIDE DEF Goal
  <2> QED  BY <1>8
<1> DEFINE G == {n \in N : late[n] \in Int}
<1>10. G = N
  <2>1. ASSUME NEW n \in N, \A m \in N : down[m] < down[n] => m \in G
        PROVE  n \in G
    <3>1. \A e \in After(plan, n) : late[e.successor] \in Int
      BY <1>1, <1>2, <2>1
    <3> HIDE DEF Goal
    <3>2. Goal(late, n) \in Int
      BY <1>3, <3>1
    <3> QED  BY <1>9, <3>2
  <2>2. G \in SUBSET N
    OBVIOUS
  <2> HIDE DEF G, N
  <2> QED  BY <1>1, <2>1, <2>2, RankInduction
<1>11. \A n \in N : \A e \in After(plan, n) : late[e.successor] \in Int
  BY <1>1, <1>2, <1>10
<1> HIDE DEF Goal, N
<1>12. \A n \in N :
         /\ late[n] \in Int /\ late[n] <= deadline
         /\ \A e \in After(plan, n) : late[n] <= LastAllowed(plan, week, e, late[e.successor])
         /\ \/ late[n] = deadline
            \/ \E e \in After(plan, n) : late[n] = LastAllowed(plan, week, e, late[e.successor])
  BY <1>3, <1>9, <1>11
<1> QED  BY <1>12 DEF late, N

\* No cycle of links, as `DependencyPlan` keeps it: every group of packages has one that
\* none of the others follows.
Acyclic(plan) ==
  \A S \in SUBSET DOMAIN plan.nodes : S # {} =>
    \E n \in S : \A e \in plan.edges : e.predecessor = n => e.successor \notin S

\* Then packages have ranks which every link raises.
LEMMA AcyclicIsRanked ==
  ASSUME NEW plan, PlanLike(plan), Acyclic(plan)
  PROVE  \E rank : RankedLinks(plan, rank)
<1> DEFINE N == DOMAIN plan.nodes
           Rises(rank, A) == \A e \in plan.edges : e.predecessor \in A /\ e.successor \in A =>
                               rank[e.predecessor] < rank[e.successor]
           Bounded(rank, A, k) == \A n \in A : rank[n] < k
           T == {A \in SUBSET N : \E rank \in [N -> Int], k \in Int : Rises(rank, A) /\ Bounded(rank, A, k)}
<1>1. IsFiniteSet(N) /\ \A e \in plan.edges : e.predecessor \in N /\ e.successor \in N
  BY DEF PlanLike
<1>2. ASSUME NEW A \in SUBSET N, \A B \in SUBSET A : B # A => B \in T
      PROVE  A \in T
  <2>1. CASE A = {}
    <3> DEFINE flat == [n \in N |-> 1]
    <3>1. flat \in [N -> Int] /\ Rises(flat, A) /\ Bounded(flat, A, 0)
      BY <2>1
    <3> QED  BY <3>1
  <2>2. CASE A # {}
    <3>1. PICK n \in A : \A e \in plan.edges : e.predecessor = n => e.successor \notin A
      BY <2>2 DEF Acyclic
    <3>2. A \ {n} \in T
      <4> HIDE DEF T
      <4> QED  BY <1>2, <3>1
    <3>3. PICK rank \in [N -> Int], k \in Int : Rises(rank, A \ {n}) /\ Bounded(rank, A \ {n}, k)
      BY <3>2
    <3> DEFINE higher == [rank EXCEPT ![n] = k]
    <3>4. /\ n \in N /\ higher \in [N -> Int] /\ higher[n] = k
          /\ \A m \in A \ {n} : higher[m] = rank[m] /\ rank[m] < k /\ rank[m] \in Int
      BY <3>3
    <3> HIDE DEF higher
    <3>5. Rises(higher, A)
      <4> SUFFICES ASSUME NEW e \in plan.edges, e.predecessor \in A, e.successor \in A
                   PROVE  higher[e.predecessor] < higher[e.successor]
        OBVIOUS
      <4>1. e.predecessor # n
        BY <3>1
      <4>2. CASE e.successor = n
        BY <3>4, <4>1, <4>2
      <4>3. CASE e.successor # n
        BY <3>3, <3>4, <4>1, <4>3
      <4> QED  BY <4>2, <4>3
    <3>6. Bounded(higher, A, k + 1)
      BY <3>4
    <3> HIDE DEF Rises, Bounded
    <3> QED  BY <3>4, <3>5, <3>6
  <2> QED  BY <2>1, <2>2
<1>3. N \in T
  <2> HIDE DEF T, N
  <2>1. T \in SUBSET (SUBSET N)
    BY DEF T
  <2> QED  BY <1>1, <1>2, <2>1, SubsetInduction
<1>4. PICK rank \in [N -> Int] : Rises(rank, N)
  BY <1>3
<1> QED  BY <1>1, <1>4 DEF RankedLinks

\* And only then.
LEMMA RankedIsAcyclic ==
  ASSUME NEW plan, PlanLike(plan), NEW rank, RankedLinks(plan, rank)
  PROVE  Acyclic(plan)
<1> SUFFICES ASSUME NEW S \in SUBSET DOMAIN plan.nodes, S # {}
             PROVE  \E n \in S : \A e \in plan.edges : e.predecessor = n => e.successor \notin S
  BY DEF Acyclic
<1>1. IsFiniteSet(S) /\ \A n \in S : rank[n] \in Int
  BY FS_Subset DEF PlanLike, RankedLinks
<1>2. PICK n \in S : \A m \in S : rank[m] <= rank[n]
  BY <1>1, HighestRank
<1> QED  BY <1>1, <1>2 DEF RankedLinks

\* The entries of an analysis.
LEMMA EntriesAre ==
  ASSUME NEW plan, NEW deadline, NEW week, week # {}
  PROVE  LET N == DOMAIN plan.nodes
             early == EarliestStarts(plan, week)
             late == LatestFinishes(plan, deadline, week)
             latest(n) == working_days_before(late[n], Duration(plan, week, n), week)
             result == analyse(plan, deadline, week)
         IN /\ \A n \in N : \E r \in result : r.id = n
            /\ \A r \in result :
                 /\ r.id \in N /\ r.earliest_start = early[r.id]
                 /\ r.earliest_finish = add_working_days(early[r.id], Duration(plan, week, r.id), week)
                 /\ r.latest_start = latest(r.id) /\ r.latest_finish = late[r.id]
                 /\ r.float_working_days = Slack(early[r.id], latest(r.id), week)
                 /\ r.is_critical <=> r.float_working_days <= 0
<1> DEFINE N == DOMAIN plan.nodes
           early == EarliestStarts(plan, week)
           late == LatestFinishes(plan, deadline, week)
           latest(n) == working_days_before(late[n], Duration(plan, week, n), week)
           finish(n) == add_working_days(early[n], Duration(plan, week, n), week)
           slack(n) == Slack(early[n], latest(n), week)
           result == analyse(plan, deadline, week)
           Entry(n) ==
             [id |-> n, earliest_start |-> early[n], earliest_finish |-> finish(n),
              latest_start |-> latest(n), latest_finish |-> late[n],
              float_working_days |-> slack(n), is_critical |-> slack(n) <= 0]
<1>1. result = {Entry(n) : n \in N}
  BY Zenon DEF analyse
<1> HIDE DEF N, early, late, latest, finish, slack, result
<1>2. \A n \in N : \E r \in result : r.id = n
  <2> SUFFICES ASSUME NEW n \in N PROVE \E r \in result : r.id = n
    OBVIOUS
  <2>1. Entry(n) \in result /\ Entry(n).id = n
    BY <1>1
  <2> HIDE DEF Entry
  <2> QED  BY <2>1
<1>3. ASSUME NEW r \in result
      PROVE  /\ r.id \in N /\ r.earliest_start = early[r.id] /\ r.earliest_finish = finish(r.id)
             /\ r.latest_start = latest(r.id) /\ r.latest_finish = late[r.id]
             /\ r.float_working_days = slack(r.id) /\ (r.is_critical <=> r.float_working_days <= 0)
  <2>1. PICK n \in N : r = Entry(n)
    <3> HIDE DEF Entry
    <3> QED  BY <1>1
  <2>2. /\ r.id = n /\ r.earliest_start = early[n] /\ r.earliest_finish = finish(n)
        /\ r.latest_start = latest(n) /\ r.latest_finish = late[n]
        /\ r.float_working_days = slack(n)
    BY <2>1
  <2>3. r.is_critical <=> slack(n) <= 0
    BY <2>1, Zenon
  <2> HIDE DEF Entry
  <2> QED  BY <2>2, <2>3
<1> QED  BY <1>2, <1>3 DEF N, early, late, latest, finish, slack, result

\* The forward pass starts each package as early as its entered start and its
\* predecessors allow, and not a day later: on any plan without a cycle of
\* links and whose durations a search can reach (critical_path.py, forward pass).
THEOREM ForwardPassIsEarliest ==
  ASSUME NEW plan, PlanLike(plan), Acyclic(plan), NEW week, InReach(plan, week), NEW deadline
  PROVE  ForwardIsEarliest(plan, deadline, week)
<1> DEFINE N == DOMAIN plan.nodes
           early == EarliestStarts(plan, week)
           finish(n) == add_working_days(early[n], Duration(plan, week, n), week)
           result == analyse(plan, deadline, week)
           Ok(n, start) ==
             /\ start >= plan.nodes[n].start
             /\ \A e \in Before(plan, n), r \in result :
                  r.id = e.predecessor => check_violation(e.lag, r.earliest_finish, start, week) = {}
<1>1. CASE week = {}
  <2>1. result = {}
    BY <1>1 DEF analyse
  <2> HIDE DEF result
  <2> QED  BY <2>1 DEF ForwardIsEarliest, result
<1>2. CASE week # {}
  <2>1. PICK rank : RankedLinks(plan, rank)
    BY AcyclicIsRanked
  <2>2. \A n \in N :
          /\ early[n] \in Int /\ plan.nodes[n].start <= early[n]
          /\ \A e \in Before(plan, n) : FirstAllowed(plan, week, e, early[e.predecessor]) <= early[n]
          /\ \/ early[n] = plan.nodes[n].start
             \/ \E e \in Before(plan, n) : early[n] = FirstAllowed(plan, week, e, early[e.predecessor])
    BY <1>2, <2>1, EarlyIs
  <2>3. /\ \A n \in N : \E r \in result : r.id = n
        /\ \A r \in result : r.id \in N /\ r.earliest_start = early[r.id]
                             /\ r.earliest_finish = finish(r.id)
    BY <1>2, EntriesAre
  <2>4. \A n \in N : \A e \in Before(plan, n) : e \in plan.edges /\ e.predecessor \in N
    BY DEF PlanLike, Before
  <2>5. \A n \in N : plan.nodes[n].start \in Int
    BY DEF PlanLike
  <2> HIDE DEF result, N, early
  <2>6. ASSUME NEW n \in N, NEW e \in Before(plan, n), NEW start \in Int
        PROVE  LET first == FirstAllowed(plan, week, e, early[e.predecessor])
               IN /\ first \in Int
                  /\ check_violation(e.lag, finish(e.predecessor), start, week) = {} <=> start >= first
    <3> DEFINE first == FirstAllowed(plan, week, e, early[e.predecessor])
    <3>1. first \in Int
      BY <1>2, <2>2, <2>4, LinksAreFound
    <3>2. first = earliest_successor_start(finish(e.predecessor), e.lag, week)
      BY DEF FirstAllowed
    <3> HIDE DEF first, finish
    <3>3. first # NoDate
      BY <3>1, DatesAssumption
    <3>4. check_violation(e.lag, finish(e.predecessor), start, week) = {} <=> start >= first
      BY <3>2, <3>3 DEF check_violation
    <3> QED  BY <3>1, <3>4 DEF first
  <2>7. ASSUME NEW n \in N, NEW start \in Int
        PROVE  Ok(n, start) <=>
                 /\ start >= plan.nodes[n].start
                 /\ \A e \in Before(plan, n) : start >= FirstAllowed(plan, week, e, early[e.predecessor])
    <3>1. ASSUME NEW e \in Before(plan, n)
          PROVE  (\A r \in result : r.id = e.predecessor
                    => check_violation(e.lag, r.earliest_finish, start, week) = {})
                   <=> start >= FirstAllowed(plan, week, e, early[e.predecessor])
      <4>1. e.predecessor \in N
        BY <2>4
      <4>2. PICK r \in result : r.id = e.predecessor
        BY <2>3, <4>1
      <4>3. \A q \in result : q.id = e.predecessor => q.earliest_finish = finish(e.predecessor)
        BY <2>3
      <4>4. check_violation(e.lag, finish(e.predecessor), start, week) = {}
              <=> start >= FirstAllowed(plan, week, e, early[e.predecessor])
        BY <2>6
      <4> HIDE DEF finish
      <4> QED  BY <4>2, <4>3, <4>4
    <3> QED  BY <3>1
  <2> HIDE DEF Ok
  <2>8. ASSUME NEW r \in result
        PROVE  Ok(r.id, r.earliest_start) /\ ~Ok(r.id, r.earliest_start - 1)
    <3> DEFINE n == r.id  s == early[n]
    <3>1. n \in N /\ r.earliest_start = s
      BY <2>3
    <3>2. s \in Int /\ s - 1 \in Int /\ plan.nodes[n].start \in Int
          /\ \A e \in Before(plan, n) : FirstAllowed(plan, week, e, early[e.predecessor]) \in Int
      BY <2>2, <2>5, <2>6, <3>1
    <3>3. /\ plan.nodes[n].start <= s
          /\ \A e \in Before(plan, n) : FirstAllowed(plan, week, e, early[e.predecessor]) <= s
          /\ \/ s = plan.nodes[n].start
             \/ \E e \in Before(plan, n) : s = FirstAllowed(plan, week, e, early[e.predecessor])
      BY <2>2, <3>1
    <3> HIDE DEF n, s
    <3>4. Ok(n, s)
      BY <2>7, <3>1, <3>2, <3>3
    <3>5. ~Ok(n, s - 1)
      BY <2>7, <3>1, <3>2, <3>3
    <3> QED  BY <3>1, <3>4, <3>5 DEF n
  <2> QED  BY <2>8 DEF ForwardIsEarliest, Ok, result
<1> QED  BY <1>1, <1>2

\* A package that starts that day, and all that follow as soon as they may; the others not.
FromThere(plan, week, n, start, from) ==
  LET N == DOMAIN plan.nodes
      begun(e) == from[e.predecessor] # NoDate
      first(e) == FirstAllowed(plan, week, e, from[e.predecessor])
  IN /\ n \in N /\ from[n] = start /\ \A m \in N : from[m] # NoDate => from[m] \in Int
     /\ \A m \in N \ {n} :
          /\ \A e \in Before(plan, m) : begun(e) => from[m] # NoDate /\ first(e) <= from[m]
          /\ from[m] # NoDate => \E e \in Before(plan, m) : begun(e) /\ from[m] = first(e)

\* Whether that meets the deadline is what `Meets` asks.
LEMMA FromIs ==
  ASSUME NEW plan, PlanLike(plan), NEW week, InReach(plan, week), week # {},
         NEW rank, RankedLinks(plan, rank), NEW deadline, NEW n \in DOMAIN plan.nodes, NEW start \in Int
  PROVE  \E from :
           /\ FromThere(plan, week, n, start, from)
           /\ Meets(plan, deadline, week, n, start)
                <=> \A m \in DOMAIN plan.nodes :
                      from[m] # NoDate => add_working_days(from[m], Duration(plan, week, m), week) <= deadline
<1> DEFINE N == DOMAIN plan.nodes
           V == Int \cup {NoDate}
           begun(f, m) == {e \in Before(plan, m) : f[e.predecessor] # NoDate}
           days(f, m) == {FirstAllowed(plan, week, e, f[e.predecessor]) : e \in begun(f, m)}
           Goal(f, m) == IF m = n THEN start ELSE IF begun(f, m) = {} THEN NoDate ELSE Max(days(f, m))
           step == [f \in [N -> V] |-> [m \in N |-> Goal(f, m)]]
           from == CHOOSE h : h = [m \in N |-> Goal(h, m)]
<1>1. /\ IsFiniteSet(N) /\ rank \in [N -> Int] /\ IsFiniteSet(plan.edges)
      /\ \A e \in plan.edges : e.predecessor \in N /\ rank[e.predecessor] < rank[e.successor]
  BY DEF PlanLike, RankedLinks
<1>2. \A m \in N : IsFiniteSet(Before(plan, m)) /\ Before(plan, m) \in SUBSET plan.edges
                   /\ \A e \in Before(plan, m) : e.successor = m
  <2> SUFFICES ASSUME NEW m \in N
               PROVE  IsFiniteSet(Before(plan, m)) /\ Before(plan, m) \in SUBSET plan.edges
                      /\ \A e \in Before(plan, m) : e.successor = m
    OBVIOUS
  <2>1. Before(plan, m) \in SUBSET plan.edges /\ \A e \in Before(plan, m) : e.successor = m
    BY DEF Before
  <2> QED  BY <1>1, <2>1, FS_Subset
<1>3. ASSUME NEW f, NEW m \in N, \A e \in Before(plan, m) : f[e.predecessor] \in V
      PROVE  /\ Goal(f, m) \in V
             /\ m # n =>
                  /\ \A e \in begun(f, m) :
                       /\ Goal(f, m) # NoDate
                       /\ FirstAllowed(plan, week, e, f[e.predecessor]) <= Goal(f, m)
                  /\ Goal(f, m) # NoDate =>
                       \E e \in begun(f, m) : Goal(f, m) = FirstAllowed(plan, week, e, f[e.predecessor])
  <2> DEFINE S == begun(f, m)
             g == [e \in S |-> FirstAllowed(plan, week, e, f[e.predecessor])]
  <2>1. S \in SUBSET Before(plan, m) /\ \A e \in S : f[e.predecessor] # NoDate
    OBVIOUS
  <2>2. IsFiniteSet(S)
    BY <1>2, <2>1, FS_Subset
  <2>3. \A e \in S : g[e] = FirstAllowed(plan, week, e, f[e.predecessor]) /\ g[e] \in Int
    BY <1>2, <1>3, LinksAreFound
  <2>4. days(f, m) = {g[e] : e \in S}
    OBVIOUS
  <2>5. Goal(f, m) = IF m = n THEN start ELSE IF S = {} THEN NoDate ELSE Max({g[e] : e \in S})
    BY <2>4
  <2> HIDE DEF S, g, begun, Goal
  <2>6. IsFiniteSet({g[e] : e \in S})
    BY <2>2, ImageFinite
  <2> DEFINE D == {g[e] : e \in S}
  <2>7. /\ D \in SUBSET Int /\ (S # {} => D # {}) /\ \A e \in S : g[e] \in D
        /\ \A d \in D : \E e \in S : d = g[e]
    BY <2>3
  <2> HIDE DEF D
  <2>8. S # {} => Max(D) \in D /\ \A d \in D : d <= Max(D)
    BY <2>6, <2>7, Extremes DEF D
  <2>9. Goal(f, m) = IF m = n THEN start ELSE IF S = {} THEN NoDate ELSE Max(D)
    BY <2>5 DEF D
  <2>10. CASE m = n
    BY <2>9, <2>10
  <2>11. CASE m # n /\ S = {}
    BY <2>9, <2>11 DEF S
  <2>12. CASE m # n /\ S # {}
    <3>1. Goal(f, m) = Max(D) /\ Max(D) \in D /\ Max(D) \in Int
      BY <2>7, <2>8, <2>9, <2>12
    <3>2. Goal(f, m) # NoDate
      BY <3>1, DatesAssumption
    <3>3. PICK e \in S : Max(D) = g[e]
      BY <2>7, <3>1
    <3>4. \A c \in S : g[c] <= Goal(f, m)
      BY <2>7, <2>8, <3>1, <2>12
    <3> QED  BY <2>3, <2>12, <3>1, <3>2, <3>3, <3>4 DEF S
  <2> QED  BY <2>10, <2>11, <2>12
<1>4. step \in [[N -> V] -> [N -> V]]
  <2> SUFFICES ASSUME NEW f \in [N -> V], NEW m \in N PROVE Goal(f, m) \in V
    OBVIOUS
  <2>1. \A e \in Before(plan, m) : f[e.predecessor] \in V
    BY <1>1, <1>2
  <2> HIDE DEF Goal
  <2> QED  BY <1>3, <2>1
<1>5. \A f, g \in [N -> V] : \A m \in N :
        (\A k \in N : rank[k] < rank[m] => f[k] = g[k]) => step[f][m] = step[g][m]
  <2> HIDE DEF Goal
  <2> SUFFICES ASSUME NEW f \in [N -> V], NEW g \in [N -> V], NEW m \in N,
                      \A k \in N : rank[k] < rank[m] => f[k] = g[k]
               PROVE  Goal(f, m) = Goal(g, m)
    OBVIOUS
  <2> USE DEF Goal
  <2>1. \A e \in Before(plan, m) : f[e.predecessor] = g[e.predecessor]
    BY <1>1, <1>2
  <2>2. begun(f, m) = begun(g, m)
    BY <2>1
  <2>3. days(f, m) = days(g, m)
    BY <2>1
  <2> QED  BY <2>2, <2>3
<1>6. PICK f \in [N -> V] : step[f] = f
  <2>1. V # {}
    OBVIOUS
  <2> HIDE DEF step, N, V
  <2>2. DefinedByRank(N, V, rank, step)
    BY <1>1, <1>4, <1>5, <2>1 DEF DefinedByRank
  <2> QED  BY <2>2, RecursionExists
<1>7. f = [m \in N |-> Goal(f, m)]
  <2> HIDE DEF Goal
  <2> QED  BY <1>6
<1>8. from = [m \in N |-> Goal(from, m)]
  <2> HIDE DEF Goal
  <2> QED  BY <1>7
<1>9. Meets(plan, deadline, week, n, start)
        <=> \A m \in N :
              from[m] # NoDate => add_working_days(from[m], Duration(plan, week, m), week) <= deadline
  BY Zenon DEF Meets, Finish, FirstAllowed
<1> HIDE DEF from
<1>10. \A m \in N : from[m] = Goal(from, m)
  <2> HIDE DEF Goal
  <2> QED  BY <1>8
<1> DEFINE G == {m \in N : from[m] \in V}
<1>11. G = N
  <2>1. ASSUME NEW m \in N, \A k \in N : rank[k] < rank[m] => k \in G
        PROVE  m \in G
    <3>1. \A e \in Before(plan, m) : from[e.predecessor] \in V
      BY <1>1, <1>2, <2>1
    <3> HIDE DEF Goal
    <3>2. Goal(from, m) \in V
      BY <1>3, <3>1
    <3> QED  BY <1>10, <3>2
  <2>2. G \in SUBSET N
    OBVIOUS
  <2> HIDE DEF G, N
  <2> QED  BY <1>1, <2>1, <2>2, RankInduction
<1>12. \A m \in N : \A e \in Before(plan, m) : from[e.predecessor] \in V
  BY <1>1, <1>2, <1>11
<1>13. from[n] = start
  BY <1>10
<1> HIDE DEF Goal, N
<1>14. ASSUME NEW m \in N, m # n
       PROVE  /\ \A e \in Before(plan, m) :
                   from[e.predecessor] # NoDate =>
                     from[m] # NoDate /\ FirstAllowed(plan, week, e, from[e.predecessor]) <= from[m]
              /\ from[m] # NoDate =>
                   \E e \in Before(plan, m) : /\ from[e.predecessor] # NoDate
                                              /\ from[m] = FirstAllowed(plan, week, e, from[e.predecessor])
  BY <1>3, <1>10, <1>12, <1>14
<1>15. FromThere(plan, week, n, start, from)
  BY <1>11, <1>13, <1>14 DEF FromThere, N
<1> QED  BY <1>9, <1>15 DEF N

\* A stretch of work ends in time if it starts on the last day that leaves room for it.
LEMMA StartTurns ==
  ASSUME NEW week \in SUBSET (0..6), week # {}, NEW day \in Int, NEW limit \in Int,
         NEW n \in Nat \ {0}, 7 * n <= MAX_LOOKAHEAD_DAYS
  PROVE  /\ add_working_days(day, n, week) \in Int
         /\ add_working_days(day, n, week) <= limit <=> day <= working_days_before(limit, n, week)
<1>1. Reaches(week, day, n, add_working_days(day, n, week))
  BY Finds, DatesAssumption
<1>2. ReachesBack(week, limit, n, working_days_before(limit, n, week))
  BY FindsBefore, DatesAssumption
<1> QED  BY <1>1, <1>2 DEF Reaches, ReachesBack

\* From one working day to another there are as many in front of the one as behind the other.
LEMMA WorkTurns ==
  ASSUME NEW week, NEW f \in Int, NEW x \in Int, Works(week, f), Works(week, x)
  PROVE  count_working_days(f + 1, x, week) = count_working_days(f, x - 1, week)
<1>1. f + 1 \in Int /\ x - 1 \in Int
  OBVIOUS
<1>2. CASE f <= x
  <2>1. count_working_days(f, x, week)
          = count_working_days(f, f, week) + count_working_days(f + 1, x, week)
    BY <1>2, CountSplits
  <2>2. count_working_days(f, f, week) = 1
    BY CountOfOne
  <2>3. count_working_days(f, x, week) = count_working_days(f, x - 1, week) + 1
    BY <1>2, CountOfMore
  <2>4. count_working_days(f + 1, x, week) \in Nat /\ count_working_days(f, x - 1, week) \in Nat
    BY <1>1, CountIsNat
  <2> QED  BY <2>1, <2>2, <2>3, <2>4
<1>3. CASE ~(f <= x)
  <2>1. x < f + 1 /\ x - 1 < f
    BY <1>3
  <2> QED  BY <1>1, <2>1, CountOfNone
<1> QED  BY <1>2, <1>3

\* A link leaves the successor's last start free if the predecessor ends by the day
\* counted back from there.
LEMMA LinkTurns ==
  ASSUME NEW plan, PlanLike(plan), NEW week, InReach(plan, week), week # {},
         NEW e \in plan.edges, NEW day \in Int, NEW limit \in Int
  PROVE  FirstAllowed(plan, week, e, day) <= working_days_before(limit, Duration(plan, week, e.successor), week)
           <=> add_working_days(day, Duration(plan, week, e.predecessor), week)
                 <= LastAllowed(plan, week, e, limit)
<1> DEFINE p == Duration(plan, week, e.predecessor)  s == Duration(plan, week, e.successor)
           l == e.lag + 1
           f == add_working_days(day, p, week)
           x == working_days_before(limit, s, week)
           y == add_working_days(f + 1, l, week)
           z == working_days_before(x - 1, l, week)
<1>1. e.predecessor \in DOMAIN plan.nodes /\ e.successor \in DOMAIN plan.nodes /\ e.lag \in Nat
  BY DEF PlanLike
<1>2. week \in SUBSET (0..6) /\ 7 * p <= MAX_LOOKAHEAD_DAYS /\ 7 * s <= MAX_LOOKAHEAD_DAYS
      /\ 7 * l <= MAX_LOOKAHEAD_DAYS
  BY <1>1 DEF InReach
<1>3. p \in Nat \ {0} /\ s \in Nat \ {0} /\ l \in Nat \ {0}
  BY <1>1, DurationIs
<1>4. FirstAllowed(plan, week, e, day) = y /\ LastAllowed(plan, week, e, limit) = z
  BY DEF FirstAllowed, LastAllowed, earliest_successor_start
<1> HIDE DEF p, s, l
<1>5. Reaches(week, day, p, f)
  BY <1>2, <1>3, Finds, DatesAssumption
<1>6. ReachesBack(week, limit, s, x)
  BY <1>2, <1>3, FindsBefore, DatesAssumption
<1> HIDE DEF f, x
<1>7. f \in Int /\ x \in Int /\ f + 1 \in Int /\ x - 1 \in Int /\ Works(week, f) /\ Works(week, x)
  BY <1>5, <1>6 DEF Reaches, ReachesBack
<1>8. Reaches(week, f + 1, l, y)
  BY <1>2, <1>3, <1>7, Finds, DatesAssumption
<1>9. ReachesBack(week, x - 1, l, z)
  BY <1>2, <1>3, <1>7, FindsBefore, DatesAssumption
<1> HIDE DEF y, z
<1>10. y <= x <=> l <= count_working_days(f + 1, x, week)
  BY <1>7, <1>8 DEF Reaches
<1>11. f <= z <=> l <= count_working_days(f, x - 1, week)
  BY <1>7, <1>9 DEF ReachesBack
<1>12. count_working_days(f + 1, x, week) = count_working_days(f, x - 1, week)
  BY <1>7, WorkTurns
<1> QED  BY <1>4, <1>10, <1>11, <1>12 DEF f, x, p, s

\* The last day on which a package may start.
LatestStart(plan, deadline, week, n) ==
  working_days_before(LatestFinishes(plan, deadline, week)[n], Duration(plan, week, n), week)

\* A package meets the deadline with all that follows if it starts no later than that.
LEMMA MeetsIs ==
  ASSUME NEW plan, PlanLike(plan), Acyclic(plan), NEW week, InReach(plan, week), week # {},
         NEW deadline \in Int, NEW n \in DOMAIN plan.nodes, NEW start \in Int
  PROVE  Meets(plan, deadline, week, n, start) <=> start <= LatestStart(plan, deadline, week, n)
<1> DEFINE N == DOMAIN plan.nodes
           late == LatestFinishes(plan, deadline, week)
           latest(m) == LatestStart(plan, deadline, week, m)
           finish(m, day) == add_working_days(day, Duration(plan, week, m), week)
<1>1. PICK rank : RankedLinks(plan, rank)
  BY AcyclicIsRanked
<1>2. \A m \in N :
        /\ late[m] \in Int /\ late[m] <= deadline
        /\ \A e \in After(plan, m) : late[m] <= LastAllowed(plan, week, e, late[e.successor])
        /\ \/ late[m] = deadline
           \/ \E e \in After(plan, m) : late[m] = LastAllowed(plan, week, e, late[e.successor])
  BY <1>1, LateIs
<1>3. /\ IsFiniteSet(N) /\ rank \in [N -> Int]
      /\ \A e \in plan.edges : /\ e.predecessor \in N /\ e.successor \in N
                               /\ rank[e.predecessor] < rank[e.successor]
      /\ \A m \in N : /\ \A e \in Before(plan, m) : e \in plan.edges /\ e.successor = m
                      /\ \A e \in After(plan, m) : e \in plan.edges /\ e.predecessor = m
  BY <1>1 DEF PlanLike, RankedLinks, Before, After
<1>4. PICK from :
        /\ FromThere(plan, week, n, start, from)
        /\ Meets(plan, deadline, week, n, start)
             <=> \A m \in N : from[m] # NoDate => finish(m, from[m]) <= deadline
  BY <1>1, FromIs
<1>5. /\ from[n] = start /\ \A m \in N : from[m] # NoDate => from[m] \in Int
      /\ \A m \in N : m # n =>
           /\ \A e \in Before(plan, m) :
                from[e.predecessor] # NoDate =>
                  from[m] # NoDate /\ FirstAllowed(plan, week, e, from[e.predecessor]) <= from[m]
           /\ from[m] # NoDate =>
                \E e \in Before(plan, m) : /\ from[e.predecessor] # NoDate
                                           /\ from[m] = FirstAllowed(plan, week, e, from[e.predecessor])
  BY <1>4 DEF FromThere
<1>6. ASSUME NEW m \in N, NEW day \in Int, NEW limit \in Int
      PROVE  /\ finish(m, day) \in Int
             /\ finish(m, day) <= limit
                  <=> day <= working_days_before(limit, Duration(plan, week, m), week)
  <2> DEFINE d == Duration(plan, week, m)
  <2>1. week \in SUBSET (0..6) /\ 7 * d <= MAX_LOOKAHEAD_DAYS
    BY DEF InReach
  <2>2. d \in Nat \ {0}
    BY DurationIs
  <2> HIDE DEF d
  <2>3. /\ add_working_days(day, d, week) \in Int
        /\ add_working_days(day, d, week) <= limit <=> day <= working_days_before(limit, d, week)
    BY <2>1, <2>2, StartTurns, DatesAssumption
  <2> QED  BY <2>3 DEF d
<1>7. ASSUME NEW m \in N, NEW day \in Int
      PROVE  finish(m, day) \in Int /\ (finish(m, day) <= late[m] <=> day <= latest(m))
  BY <1>2, <1>6 DEF LatestStart
<1>8. ASSUME NEW e \in plan.edges, NEW day \in Int
      PROVE  /\ FirstAllowed(plan, week, e, day) \in Int
             /\ FirstAllowed(plan, week, e, day) <= latest(e.successor)
                  <=> finish(e.predecessor, day) <= LastAllowed(plan, week, e, late[e.successor])
  <2>1. e.successor \in N
    BY <1>3
  <2>2. late[e.successor] \in Int
    BY <1>2, <2>1
  <2> HIDE DEF late
  <2>3. FirstAllowed(plan, week, e, day)
          <= working_days_before(late[e.successor], Duration(plan, week, e.successor), week)
          <=> finish(e.predecessor, day) <= LastAllowed(plan, week, e, late[e.successor])
    BY <2>2, LinkTurns
  <2>4. FirstAllowed(plan, week, e, day) \in Int
    BY LinksAreFound
  <2> QED  BY <2>3, <2>4 DEF LatestStart, late
<1>9. \A m \in N : latest(m) \in Int
  <2> SUFFICES ASSUME NEW m \in N PROVE latest(m) \in Int
    OBVIOUS
  <2> DEFINE d == Duration(plan, week, m)
  <2>1. week \in SUBSET (0..6) /\ 7 * d <= MAX_LOOKAHEAD_DAYS
    BY DEF InReach
  <2>2. d \in Nat \ {0} /\ late[m] \in Int
    BY <1>2, DurationIs
  <2> HIDE DEF d, late
  <2>3. ReachesBack(week, late[m], d, working_days_before(late[m], d, week))
    BY <2>1, <2>2, FindsBefore, DatesAssumption
  <2> QED  BY <2>3 DEF ReachesBack, LatestStart, d, late
<1> HIDE DEF N, late, latest, finish
<1>10. ASSUME start <= latest(n)
       PROVE  \A m \in N : from[m] # NoDate => finish(m, from[m]) <= deadline
  <2> DEFINE G == {m \in N : from[m] # NoDate => from[m] <= latest(m)}
  <2>1. ASSUME NEW m \in N, \A k \in N : rank[k] < rank[m] => k \in G
        PROVE  m \in G
    <3>1. CASE m = n
      BY <1>5, <1>10, <3>1
    <3>2. CASE m # n /\ from[m] # NoDate
      <4>1. PICK e \in Before(plan, m) : /\ from[e.predecessor] # NoDate
                                         /\ from[m] = FirstAllowed(plan, week, e, from[e.predecessor])
        BY <1>5, <3>2
      <4> DEFINE k == e.predecessor
      <4>2. e \in plan.edges /\ e.successor = m /\ k \in N /\ rank[k] < rank[m]
        BY <1>3
      <4>3. from[k] \in Int /\ from[k] <= latest(k)
        BY <1>5, <2>1, <4>1, <4>2
      <4>4. e \in After(plan, k)
        BY <4>2 DEF After
      <4>5. finish(k, from[k]) <= late[k] /\ late[k] <= LastAllowed(plan, week, e, late[m])
            /\ finish(k, from[k]) \in Int /\ late[k] \in Int /\ late[m] \in Int
        BY <1>2, <1>7, <4>2, <4>3, <4>4
      <4>6. LastAllowed(plan, week, e, late[m]) \in Int
        BY <4>2, <4>5, LinksAreFound
      <4>7. finish(k, from[k]) <= LastAllowed(plan, week, e, late[m])
        BY <4>5, <4>6
      <4>8. FirstAllowed(plan, week, e, from[k]) <= latest(m)
        BY <1>8, <4>2, <4>3, <4>7
      <4> QED  BY <4>1, <4>8
    <3> QED  BY <3>1, <3>2
  <2>2. G = N
    <3>1. G \in SUBSET N
      OBVIOUS
    <3> HIDE DEF G
    <3> QED  BY <1>3, <2>1, <3>1, RankInduction
  <2>3. ASSUME NEW m \in N, from[m] # NoDate
        PROVE  finish(m, from[m]) <= deadline
    <3>1. from[m] \in Int /\ from[m] <= latest(m)
      BY <1>5, <2>2, <2>3
    <3>2. finish(m, from[m]) <= late[m] /\ late[m] <= deadline /\ late[m] \in Int /\ finish(m, from[m]) \in Int
      BY <1>2, <1>7, <3>1
    <3> QED  BY <3>2
  <2> QED  BY <2>3
<1>11. \A m \in N : from[m] # NoDate => rank[n] <= rank[m]
  <2> DEFINE G == {m \in N : from[m] # NoDate => rank[n] <= rank[m]}
  <2>1. ASSUME NEW m \in N, \A k \in N : rank[k] < rank[m] => k \in G
        PROVE  m \in G
    <3>1. n \in N /\ rank[n] \in Int /\ rank[m] \in Int
      BY <1>3 DEF N
    <3>2. CASE m = n
      BY <3>1, <3>2
    <3>3. CASE m # n /\ from[m] # NoDate
      <4>1. PICK e \in Before(plan, m) : from[e.predecessor] # NoDate
        BY <1>5, <3>3
      <4> DEFINE k == e.predecessor
      <4>2. k \in N /\ rank[k] < rank[m]
        BY <1>3
      <4>3. rank[n] <= rank[k] /\ rank[k] \in Int
        BY <1>3, <2>1, <4>1, <4>2
      <4> QED  BY <3>1, <4>2, <4>3
    <3> QED  BY <3>2, <3>3
  <2>2. G = N
    <3>1. G \in SUBSET N
      OBVIOUS
    <3> HIDE DEF G
    <3> QED  BY <1>3, <2>1, <3>1, RankInduction
  <2> QED  BY <2>2
<1>12. ASSUME \A m \in N : from[m] # NoDate => finish(m, from[m]) <= deadline
       PROVE  start <= latest(n)
  <2> DEFINE G == {m \in N : from[m] # NoDate => from[m] <= latest(m)}
             down == [m \in N |-> -rank[m]]
  <2>1. ASSUME NEW m \in N, \A k \in N : down[k] < down[m] => k \in G
        PROVE  m \in G
    <3> SUFFICES ASSUME from[m] # NoDate PROVE from[m] <= latest(m)
      OBVIOUS
    <3>1. from[m] \in Int /\ finish(m, from[m]) <= deadline /\ n \in N
      BY <1>5, <1>12 DEF N
    <3>2. CASE late[m] = deadline
      BY <1>7, <3>1, <3>2
    <3>3. CASE late[m] # deadline
      <4>1. PICK e \in After(plan, m) : late[m] = LastAllowed(plan, week, e, late[e.successor])
        BY <1>2, <3>3
      <4> DEFINE k == e.successor
      <4>2. e \in plan.edges /\ e.predecessor = m /\ k \in N /\ rank[m] < rank[k]
            /\ rank[m] \in Int /\ rank[k] \in Int /\ rank[n] \in Int
        BY <1>3, <3>1
      <4>3. k # n /\ e \in Before(plan, k)
        <5>1. rank[n] <= rank[m]
          BY <1>11
        <5> QED  BY <4>2, <5>1 DEF Before
      <4>4. from[k] # NoDate /\ FirstAllowed(plan, week, e, from[m]) <= from[k]
        BY <1>5, <4>2, <4>3
      <4>5. down[k] < down[m]
        BY <4>2
      <4>6. from[k] <= latest(k) /\ from[k] \in Int /\ latest(k) \in Int
        BY <1>5, <1>9, <2>1, <4>2, <4>4, <4>5
      <4>7. FirstAllowed(plan, week, e, from[m]) \in Int
        BY <1>8, <3>1, <4>2
      <4>8. FirstAllowed(plan, week, e, from[m]) <= latest(k)
        BY <4>4, <4>6, <4>7
      <4>9. finish(m, from[m]) <= late[m]
        BY <1>8, <3>1, <4>1, <4>2, <4>8
      <4> QED  BY <1>7, <3>1, <4>9
    <3> QED  BY <3>2, <3>3
  <2>2. G = N
    <3>1. G \in SUBSET N /\ down \in [N -> Int]
      BY <1>3
    <3> HIDE DEF G, down
    <3> QED  BY <1>3, <2>1, <3>1, RankInduction
  <2>3. n \in G /\ from[n] # NoDate
    BY <1>5, <2>2, DatesAssumption DEF N
  <2> QED  BY <1>5, <2>3
<1>13. Meets(plan, deadline, week, n, start) <=> start <= latest(n)
  BY <1>4, <1>10, <1>12
<1> QED  BY <1>13 DEF latest

\* The last start is a working day.
LEMMA LatestStartIs ==
  ASSUME NEW plan, PlanLike(plan), Acyclic(plan), NEW week, InReach(plan, week), week # {},
         NEW deadline \in Int, NEW n \in DOMAIN plan.nodes
  PROVE  /\ LatestStart(plan, deadline, week, n) \in Int
         /\ Works(week, LatestStart(plan, deadline, week, n))
<1> DEFINE d == Duration(plan, week, n)  l == LatestFinishes(plan, deadline, week)[n]
<1>1. week \in SUBSET (0..6) /\ 7 * d <= MAX_LOOKAHEAD_DAYS
  BY DEF InReach
<1>2. d \in Nat \ {0}
  BY DurationIs
<1>3. l \in Int
  <2>1. PICK rank : RankedLinks(plan, rank)
    BY AcyclicIsRanked
  <2> QED  BY <2>1, LateIs
<1> HIDE DEF d, l
<1>4. ReachesBack(week, l, d, working_days_before(l, d, week))
  BY <1>1, <1>2, <1>3, FindsBefore, DatesAssumption
<1> QED  BY <1>4 DEF ReachesBack, LatestStart, d, l

\* The backward pass is the forward one read from the end: a package that starts on its
\* latest start meets the deadline with all that follows, one that starts a working day
\* later does not; on any such plan (critical_path.py, backward pass).
THEOREM BackwardPassIsLatest ==
  ASSUME NEW plan, PlanLike(plan), Acyclic(plan), NEW week, InReach(plan, week),
         NEW deadline \in Int, 14 <= MAX_LOOKAHEAD_DAYS
  PROVE  BackwardIsLatest(plan, deadline, week)
<1>1. CASE week = {}
  BY <1>1 DEF BackwardIsLatest, analyse
<1>2. CASE week # {}
  <2> SUFFICES ASSUME NEW r \in analyse(plan, deadline, week)
               PROVE  /\ Meets(plan, deadline, week, r.id, r.latest_start)
                      /\ ~Meets(plan, deadline, week, r.id, Slipped(r.latest_start, 1, week))
    BY DEF BackwardIsLatest
  <2> DEFINE n == r.id  x == r.latest_start  y == Slipped(x, 1, week)
  <2>1. n \in DOMAIN plan.nodes /\ x = LatestStart(plan, deadline, week, n)
    BY <1>2, EntriesAre DEF LatestStart
  <2>2. x \in Int /\ Works(week, x)
    BY <1>2, <2>1, LatestStartIs
  <2> HIDE DEF n, x
  <2>3. Reaches(week, x, 2, y)
    <3>1. 2 \in Nat \ {0} /\ 7 * 2 <= MAX_LOOKAHEAD_DAYS /\ week \in SUBSET (0..6)
      BY DatesAssumption DEF InReach
    <3>2. Reaches(week, x, 2, add_working_days(x, 2, week))
      BY <1>2, <2>2, <3>1, Finds, DatesAssumption
    <3> QED  BY <3>2 DEF Slipped
  <2>4. count_working_days(x, x, week) = 1
    BY <2>2, CountOfOne
  <2> HIDE DEF y
  <2>5. y \in Int /\ ~(y <= x)
    BY <2>2, <2>3, <2>4 DEF Reaches
  <2>6. \A s \in Int : Meets(plan, deadline, week, n, s) <=> s <= x
    BY <1>2, <2>1, MeetsIs
  <2>7. Meets(plan, deadline, week, n, x) /\ ~Meets(plan, deadline, week, n, y)
    BY <2>2, <2>5, <2>6
  <2> QED  BY <2>7 DEF n, x, y
<1> QED  BY <1>1, <1>2

\* The floats that a search reaches.
FloatsInReach(plan, deadline, week) ==
  \A r \in analyse(plan, deadline, week) :
    /\ 7 * (r.float_working_days + 2) <= MAX_LOOKAHEAD_DAYS
    /\ 7 * (2 - r.float_working_days) <= MAX_LOOKAHEAD_DAYS

\* What the float of one package tells, in days alone: `early` is its earliest start and
\* `latest` its last one.
LEMMA SlackTells ==
  ASSUME NEW week \in SUBSET (0..6), week # {}, NEW early \in Int, NEW latest \in Int,
         Works(week, latest), NEW float, float = Slack(early, latest, week),
         7 * (float + 2) <= MAX_LOOKAHEAD_DAYS, 7 * (2 - float) <= MAX_LOOKAHEAD_DAYS,
         NEW first, first = Slipped(early, 0, week),
         NEW missing, missing = IF Works(week, early) THEN -float ELSE 1 - float
  PROVE  /\ float \in Int /\ first \in Int /\ Slipped(first, 1, week) \in Int
         /\ float <= 0 <=> ~(Slipped(first, 1, week) <= latest)
         /\ first <= latest =>
              /\ Slipped(first, float, week) \in Int /\ Slipped(first, float + 1, week) \in Int
              /\ Slipped(first, float, week) <= latest /\ ~(Slipped(first, float + 1, week) <= latest)
         /\ ~(first <= latest) =>
              /\ missing > 0
              /\ working_days_before(first, missing + 1, week) \in Int
              /\ working_days_before(first, missing, week) \in Int
              /\ working_days_before(first, missing + 1, week) <= latest
              /\ ~(working_days_before(first, missing, week) <= latest)
<1> DEFINE C(a, b) == count_working_days(a, b, week)
<1>1. \A a, b \in Int : C(a, b) \in Nat
  BY CountIsNat
<1>2. \A a, b, c \in Int : a <= b + 1 /\ b <= c => C(a, c) = C(a, b) + C(b + 1, c)
  BY CountSplits
<1>3. \A a, b \in Int : b < a => C(a, b) = 0
  BY CountOfNone
<1>4. \A a \in Int : C(a, a) = IF Works(week, a) THEN 1 ELSE 0
  BY CountOfOne
<1>5. \A a, b, c, d \in Int : c <= a /\ b <= d => C(a, b) <= C(c, d)
  BY CountGrows
<1>6. float = IF latest >= early THEN C(early, latest) - 1 ELSE -(C(latest, early) - 1)
  BY DEF Slack
<1> HIDE DEF C
<1>7. float \in Int
  <2>1. C(early, latest) \in Nat /\ C(latest, early) \in Nat
    BY <1>1
  <2>2. C(early, latest) - 1 \in Int /\ -(C(latest, early) - 1) \in Int
    BY <2>1
  <2> QED  BY <1>6, <2>2
<1>8. 7 * 1 <= MAX_LOOKAHEAD_DAYS /\ 7 * 2 <= MAX_LOOKAHEAD_DAYS
  BY <1>7, DatesAssumption
<1>9. ASSUME NEW day \in Int, NEW k \in Nat, 7 * (k + 1) <= MAX_LOOKAHEAD_DAYS
      PROVE  /\ Slipped(day, k, week) \in Int /\ day <= Slipped(day, k, week)
             /\ Works(week, Slipped(day, k, week)) /\ C(day, Slipped(day, k, week)) = k + 1
             /\ \A to \in Int : Slipped(day, k, week) <= to <=> k + 1 <= C(day, to)
  <2> DEFINE j == k + 1
  <2>1. j \in Nat \ {0} /\ 7 * j <= MAX_LOOKAHEAD_DAYS
    BY <1>9
  <2> HIDE DEF j
  <2>2. Reaches(week, day, j, add_working_days(day, j, week))
    BY <2>1, Finds, DatesAssumption
  <2>3. Slipped(day, k, week) = add_working_days(day, j, week)
    BY DEF Slipped, j
  <2>4. /\ add_working_days(day, j, week) \in Int /\ day <= add_working_days(day, j, week)
        /\ Works(week, add_working_days(day, j, week)) /\ C(day, add_working_days(day, j, week)) = j
        /\ \A to \in Int : add_working_days(day, j, week) <= to <=> j <= C(day, to)
    BY <2>2 DEF Reaches, C
  <2> QED  BY <2>3, <2>4 DEF j
<1>10. /\ first \in Int /\ early <= first /\ Works(week, first) /\ C(early, first) = 1
       /\ \A to \in Int : first <= to <=> 1 <= C(early, to)
  <2>1. 0 \in Nat /\ 7 * (0 + 1) <= MAX_LOOKAHEAD_DAYS
    BY <1>8
  <2>2. /\ Slipped(early, 0, week) \in Int /\ early <= Slipped(early, 0, week)
        /\ Works(week, Slipped(early, 0, week)) /\ C(early, Slipped(early, 0, week)) = 0 + 1
        /\ \A to \in Int : Slipped(early, 0, week) <= to <=> 0 + 1 <= C(early, to)
    BY <1>9, <2>1
  <2> QED  BY <2>2
<1>11. \A k \in Nat : 7 * (k + 1) <= MAX_LOOKAHEAD_DAYS =>
         Slipped(first, k, week) \in Int /\ (Slipped(first, k, week) <= latest <=> k + 1 <= C(first, latest))
  BY <1>9, <1>10
<1>12. Slipped(first, 1, week) \in Int /\ (Slipped(first, 1, week) <= latest <=> 2 <= C(first, latest))
  <2>1. 1 \in Nat /\ 7 * (1 + 1) <= MAX_LOOKAHEAD_DAYS /\ 1 + 1 = 2
    BY <1>8
  <2> QED  BY <1>11, <2>1
<1>13. CASE latest >= early
  <2>1. C(early, latest) >= 1
    <3>1. latest \in early..latest
      BY <1>13
    <3>2. C(early, latest) > 0
      BY <3>1, CountIsNat DEF C
    <3> QED  BY <1>1, <3>2
  <2>2. first <= latest
    BY <1>10, <2>1
  <2>3. C(early, latest) = C(first, latest)
    <3>1. CASE first = early
      BY <3>1
    <3>2. CASE first # early
      <4>1. first - 1 \in Int /\ early <= (first - 1) + 1 /\ first - 1 <= latest /\ (first - 1) + 1 = first
            /\ ~(first <= first - 1)
        BY <1>10, <2>2
      <4>2. C(early, latest) = C(early, first - 1) + C(first, latest)
        BY <1>2, <4>1
      <4>3. C(early, first - 1) \in Nat /\ ~(1 <= C(early, first - 1))
        BY <1>1, <1>10, <4>1
      <4>4. C(first, latest) \in Nat
        BY <1>1, <1>10
      <4> QED  BY <4>2, <4>3, <4>4
    <3> QED  BY <3>1, <3>2
  <2>4. float = C(first, latest) - 1 /\ C(first, latest) \in Nat /\ float \in Nat
    <3>1. C(first, latest) \in Nat
      BY <1>1, <1>10
    <3>2. float = C(early, latest) - 1
      BY <1>6, <1>13
    <3> QED  BY <2>1, <2>3, <3>1, <3>2
  <2>5. 7 * (float + 1) <= MAX_LOOKAHEAD_DAYS /\ float + 1 \in Nat /\ 7 * ((float + 1) + 1) <= MAX_LOOKAHEAD_DAYS
    BY <2>4, DatesAssumption
  <2>6. Slipped(first, float, week) \in Int /\ (Slipped(first, float, week) <= latest <=> float + 1 <= C(first, latest))
    BY <1>11, <2>4, <2>5
  <2>7. Slipped(first, float + 1, week) \in Int
        /\ (Slipped(first, float + 1, week) <= latest <=> (float + 1) + 1 <= C(first, latest))
    BY <1>11, <2>5
  <2>8. float <= 0 <=> ~(Slipped(first, 1, week) <= latest)
    BY <1>12, <2>4
  <2>9. Slipped(first, float, week) <= latest /\ ~(Slipped(first, float + 1, week) <= latest)
    BY <2>4, <2>6, <2>7
  <2> QED  BY <1>7, <1>10, <1>12, <2>2, <2>6, <2>7, <2>8, <2>9
<1>14. CASE ~(latest >= early)
  <2>1. latest < early /\ latest < first /\ ~(first <= latest)
    BY <1>10, <1>14
  <2>2. C(first, latest) = 0
    BY <1>3, <1>10, <2>1
  <2>3. latest + 1 \in Int /\ early + 1 \in Int
    OBVIOUS
  <2>4. C(latest, early) = 1 + C(latest + 1, early) /\ C(latest, first) = 1 + C(latest + 1, first)
    BY <1>2, <1>4, <1>10, <2>1, <2>3
  <2>5. C(latest + 1, early) \in Nat /\ C(latest + 1, first) \in Nat /\ C(early + 1, first) \in Nat
    BY <1>1, <1>10, <2>3
  <2>6. float = -C(latest + 1, early)
    BY <1>6, <1>14, <2>4, <2>5
  <2>7. missing = C(latest + 1, first)
    <3>1. CASE Works(week, early)
      <4>1. C(early, early) = 1
        BY <1>4, <3>1
      <4>2. first <= early
        BY <1>10, <4>1
      <4>3. first = early
        BY <1>10, <4>2
      <4> QED  BY <2>5, <2>6, <3>1, <4>3
    <3>2. CASE ~Works(week, early)
      <4>1. C(early, first) = 0 + C(early + 1, first)
        BY <1>2, <1>4, <1>10, <3>2
      <4>2. C(early + 1, first) = 1
        BY <1>10, <2>5, <4>1
      <4>3. C(latest + 1, first) = C(latest + 1, early) + C(early + 1, first)
        <5>1. latest + 1 <= early + 1 /\ early <= first
          BY <1>10, <2>1
        <5> QED  BY <1>2, <1>10, <2>3, <5>1
      <4> QED  BY <2>5, <2>6, <3>2, <4>2, <4>3
    <3> QED  BY <3>1, <3>2
  <2>8. missing \in Nat /\ missing > 0
    <3>1. first \in (latest + 1)..first
      BY <1>10, <2>1
    <3>2. C(latest + 1, first) > 0
      BY <1>10, <2>3, <3>1, CountIsNat DEF C
    <3> QED  BY <2>5, <2>7, <3>2
  <2>9. missing <= 1 - float
    BY <1>7
  <2>10. missing + 1 \in Nat \ {0} /\ 7 * (missing + 1) <= MAX_LOOKAHEAD_DAYS /\ 7 * missing <= MAX_LOOKAHEAD_DAYS
    BY <1>7, <2>8, <2>9, DatesAssumption
  <2> DEFINE x1 == working_days_before(first, missing + 1, week)
             x2 == working_days_before(first, missing, week)
  <2>11. ReachesBack(week, first, missing + 1, x1)
    BY <1>10, <2>10, FindsBefore, DatesAssumption
  <2>12. ReachesBack(week, first, missing, x2)
    BY <1>10, <2>8, <2>10, FindsBefore, DatesAssumption
  <2> HIDE DEF x1, x2
  <2>13. x1 \in Int /\ C(x1, first) = missing + 1
    BY <2>11 DEF ReachesBack, C
  <2>14. x2 \in Int /\ (latest + 1 <= x2 <=> missing <= C(latest + 1, first))
    BY <2>3, <2>12 DEF ReachesBack, C
  <2>15. x1 <= latest
    <3>1. ASSUME ~(x1 <= latest) PROVE FALSE
      <4>1. latest + 1 <= x1
        BY <2>13, <3>1
      <4>2. C(x1, first) <= C(latest + 1, first)
        BY <1>5, <1>10, <2>3, <2>13, <4>1
      <4> QED  BY <2>5, <2>7, <2>8, <2>13, <4>2
    <3> QED  BY <3>1
  <2>16. ~(x2 <= latest)
    BY <2>7, <2>8, <2>14
  <2>17. float <= 0
    BY <2>5, <2>6
  <2>18. ~(Slipped(first, 1, week) <= latest)
    BY <1>12, <2>2
  <2> QED  BY <1>7, <1>10, <1>12, <2>1, <2>8, <2>13, <2>14, <2>15, <2>16, <2>17, <2>18 DEF x1, x2
<1> QED  BY <1>13, <1>14

\* Float is the number of working days a package may slip, a critical package may slip by
\* none, and a negative float tells how many working days are missing, one too few when
\* the earliest start has no work: on any such plan whose floats a search reaches.
THEOREM FloatMaySlip ==
  ASSUME NEW plan, PlanLike(plan), Acyclic(plan), NEW week, InReach(plan, week),
         NEW deadline \in Int, FloatsInReach(plan, deadline, week)
  PROVE  FloatIsWhatMaySlip(plan, deadline, week)
<1>1. CASE week = {}
  BY <1>1 DEF FloatIsWhatMaySlip, analyse
<1>2. CASE week # {}
  <2> SUFFICES ASSUME NEW r \in analyse(plan, deadline, week)
               PROVE  LET float == r.float_working_days
                          first == Slipped(r.earliest_start, 0, week)
                          missing == IF Works(week, r.earliest_start) THEN -float ELSE 1 - float
                          Ok(start) == Meets(plan, deadline, week, r.id, start)
                          reachable == Ok(first)
                      IN /\ r.is_critical <=> ~Ok(Slipped(first, 1, week))
                         /\ reachable => Ok(Slipped(first, float, week)) /\ ~Ok(Slipped(first, float + 1, week))
                         /\ ~reachable => /\ missing > 0
                                          /\ Ok(working_days_before(first, missing + 1, week))
                                          /\ ~Ok(working_days_before(first, missing, week))
    BY Zenon DEF FloatIsWhatMaySlip
  <2> DEFINE n == r.id
             early == r.earliest_start
             latest == LatestStart(plan, deadline, week, n)
             float == r.float_working_days
             first == Slipped(early, 0, week)
             missing == IF Works(week, early) THEN -float ELSE 1 - float
             Ok(start) == Meets(plan, deadline, week, n, start)
  <2>1. /\ n \in DOMAIN plan.nodes /\ early = EarliestStarts(plan, week)[n]
        /\ float = Slack(early, latest, week) /\ (r.is_critical <=> float <= 0)
    BY <1>2, EntriesAre DEF LatestStart
  <2>2. early \in Int
    <3>1. PICK rank : RankedLinks(plan, rank)
      BY AcyclicIsRanked
    <3>2. EarliestStarts(plan, week)[n] \in Int
      BY <1>2, <2>1, <3>1, EarlyIs
    <3> QED  BY <2>1, <3>2
  <2>3. 7 * (float + 2) <= MAX_LOOKAHEAD_DAYS /\ 7 * (2 - float) <= MAX_LOOKAHEAD_DAYS
    BY DEF FloatsInReach
  <2>4. week \in SUBSET (0..6)
    BY DEF InReach
  <2>5. latest \in Int /\ Works(week, latest)
    BY <1>2, <2>1, LatestStartIs
  <2>6. \A s \in Int : Ok(s) <=> s <= latest
    BY <1>2, <2>1, MeetsIs
  <2> HIDE DEF n, early, latest, float
  <2>7. first = Slipped(early, 0, week) /\ missing = IF Works(week, early) THEN -float ELSE 1 - float
    OBVIOUS
  <2> HIDE DEF first, missing, Ok
  <2>8. /\ float \in Int /\ first \in Int /\ Slipped(first, 1, week) \in Int
        /\ float <= 0 <=> ~(Slipped(first, 1, week) <= latest)
        /\ first <= latest =>
             /\ Slipped(first, float, week) \in Int /\ Slipped(first, float + 1, week) \in Int
             /\ Slipped(first, float, week) <= latest /\ ~(Slipped(first, float + 1, week) <= latest)
        /\ ~(first <= latest) =>
             /\ missing > 0
             /\ working_days_before(first, missing + 1, week) \in Int
             /\ working_days_before(first, missing, week) \in Int
             /\ working_days_before(first, missing + 1, week) <= latest
             /\ ~(working_days_before(first, missing, week) <= latest)
    BY <1>2, <2>1, <2>2, <2>3, <2>4, <2>5, <2>7, SlackTells, DatesAssumption
  <2>9. r.is_critical <=> ~Ok(Slipped(first, 1, week))
    BY <2>1, <2>6, <2>8
  <2>10. Ok(first) => Ok(Slipped(first, float, week)) /\ ~Ok(Slipped(first, float + 1, week))
    BY <2>6, <2>8
  <2>11. ~Ok(first) => /\ missing > 0
                       /\ Ok(working_days_before(first, missing + 1, week))
                       /\ ~Ok(working_days_before(first, missing, week))
    BY <2>6, <2>8
  <2> QED  BY <2>9, <2>10, <2>11 DEF n, early, float, first, missing, Ok
<1> QED  BY <1>1, <1>2

\* To start later is to end later.
LEMMA LaterIsLater ==
  ASSUME NEW week \in SUBSET (0..6), week # {}, NEW a \in Int, NEW b \in Int, a <= b,
         NEW n \in Nat \ {0}, 7 * n <= MAX_LOOKAHEAD_DAYS
  PROVE  /\ add_working_days(a, n, week) \in Int /\ add_working_days(b, n, week) \in Int
         /\ add_working_days(a, n, week) <= add_working_days(b, n, week)
<1>1. Reaches(week, a, n, add_working_days(a, n, week))
  BY Finds, DatesAssumption
<1>2. Reaches(week, b, n, add_working_days(b, n, week))
  BY Finds, DatesAssumption
<1> DEFINE x == add_working_days(a, n, week)  y == add_working_days(b, n, week)
<1> HIDE DEF x, y
<1>3. /\ x \in Int /\ y \in Int /\ count_working_days(b, y, week) = n
      /\ x <= y <=> n <= count_working_days(a, y, week)
  BY <1>1, <1>2 DEF Reaches, x, y
<1>4. count_working_days(b, y, week) <= count_working_days(a, y, week)
  BY <1>3, CountGrows
<1> QED  BY <1>3, <1>4 DEF x, y

\* A plan without a warning that ends by the deadline reaches it: the overview and the
\* critical path do not contradict each other, on any such plan (critical_path.py,
\* lead_time.py, dependencies.py).
THEOREM QuietIsOnTime ==
  ASSUME NEW plan, PlanLike(plan), Acyclic(plan), NEW week, InReach(plan, week), NEW deadline \in Int
  PROVE  QuietPlansAreOnTime(plan, deadline, week)
<1> DEFINE nodes == plan.nodes
           N == DOMAIN nodes
           D(n) == Duration(plan, week, n)
           finish(n, day) == add_working_days(day, D(n), week)
<1> SUFFICES ASSUME \A n \in N : /\ Lateness(plan, week)[n] = {}
                                 /\ nodes[n].end <= deadline
                                 /\ count_working_days(nodes[n].start, nodes[n].end, week) > 0,
                    \A e \in plan.edges : Violations(plan, week)[e] = {},
                    NEW r \in analyse(plan, deadline, week)
             PROVE  r.float_working_days >= 0 /\ r.earliest_finish <= nodes[r.id].end
  BY Zenon DEF QuietPlansAreOnTime
<1>1. week # {} /\ week \in SUBSET (0..6)
  BY DEF analyse, InReach
<1>2. PICK rank : RankedLinks(plan, rank)
  BY AcyclicIsRanked
<1>3. /\ IsFiniteSet(N) /\ rank \in [N -> Int]
      /\ \A n \in N : nodes[n].start \in Int /\ nodes[n].end \in Int /\ nodes[n].lead \in Nat
      /\ \A e \in plan.edges : /\ e.predecessor \in N /\ e.successor \in N /\ e.lag \in Nat
                               /\ rank[e.predecessor] < rank[e.successor]
      /\ \A n \in N : \A e \in Before(plan, n) : e \in plan.edges /\ e.successor = n
  BY <1>2 DEF PlanLike, RankedLinks, Before
<1>4. \A n \in N : D(n) \in Nat \ {0} /\ 7 * D(n) <= MAX_LOOKAHEAD_DAYS
  BY <1>1, DurationIs DEF InReach
<1> HIDE DEF D
\* Every package ends by its end.
<1>5. ASSUME NEW n \in N
      PROVE  finish(n, nodes[n].start) \in Int /\ finish(n, nodes[n].start) <= nodes[n].end
  <2> DEFINE s == nodes[n].start  t == nodes[n].end  l == nodes[n].lead  c == count_working_days(s, t, week)
             f == add_working_days(s, D(n), week)
  <2>1. s \in Int /\ t \in Int /\ l \in Nat /\ c \in Nat /\ c > 0
    BY <1>3, CountIsNat
  <2>2. D(n) = IF l > 0 THEN l ELSE Max({1, c})
    BY DEF D, Duration, duration_working_days
  <2>3. schedule_warning(nodes[n], week) = {}
    BY <1>1 DEF Lateness
  <2>4. Reaches(week, s, D(n), f)
    BY <1>1, <1>4, <2>1, Finds, DatesAssumption
  <2>5. f \in Int /\ (f <= t <=> D(n) <= c)
    BY <2>1, <2>4 DEF Reaches
  <2>6. CASE l > 0
    <3>1. D(n) = l /\ f = add_working_days(s, l, week)
      BY <2>2, <2>6
    <3>2. f # NoDate /\ ~(l < 1)
      BY <2>1, <2>5, <2>6, DatesAssumption
    <3>3. f <= t
      <4>1. nodes[n].lead < 1 \/ f = NoDate \/ f <= t
        BY <2>3, <3>1 DEF schedule_warning
      <4> QED  BY <3>2, <4>1
    <3> QED  BY <2>5, <3>3
  <2>7. CASE ~(l > 0)
    <3> HIDE DEF c
    <3>1. Max({1, c}) = c
      <4>1. Max({1, c}) = IF 1 <= c THEN c ELSE 1
        BY <2>1, MaxOfTwo
      <4> QED  BY <2>1, <4>1
    <3>2. D(n) = c
      BY <2>2, <2>7, <3>1
    <3> QED  BY <2>1, <2>5, <3>2
  <2> QED  BY <2>6, <2>7
\* So no package need wait for another.
<1>6. ASSUME NEW e \in plan.edges, NEW day \in Int, day <= nodes[e.predecessor].start
      PROVE  FirstAllowed(plan, week, e, day) \in Int
             /\ FirstAllowed(plan, week, e, day) <= nodes[e.successor].start
  <2> DEFINE p == e.predecessor  s == nodes[e.successor].start  t == nodes[p].end  l == e.lag + 1
             f == finish(p, day)
  <2>1. /\ p \in N /\ s \in Int /\ t \in Int /\ l \in Nat \ {0} /\ nodes[p].start \in Int
        /\ 7 * l <= MAX_LOOKAHEAD_DAYS
    BY <1>1, <1>3 DEF InReach
  <2>2. D(p) \in Nat \ {0} /\ 7 * D(p) <= MAX_LOOKAHEAD_DAYS
    BY <1>4, <2>1
  <2>3. f \in Int /\ f <= finish(p, nodes[p].start)
    BY <1>1, <1>6, <2>1, <2>2, LaterIsLater, DatesAssumption
  <2>4. f + 1 \in Int /\ t + 1 \in Int /\ f + 1 <= t + 1
    BY <1>5, <2>1, <2>3
  <2>5. FirstAllowed(plan, week, e, day) = add_working_days(f + 1, l, week)
    BY DEF FirstAllowed, earliest_successor_start, D
  <2>6. check_violation(e.lag, t, s, week) = {}
    BY <1>1 DEF Violations
  <2>7. add_working_days(t + 1, l, week) = NoDate \/ s >= add_working_days(t + 1, l, week)
    BY <2>6 DEF check_violation, earliest_successor_start
  <2> HIDE DEF f, t, s, l, p
  <2>8. /\ add_working_days(f + 1, l, week) \in Int /\ add_working_days(t + 1, l, week) \in Int
        /\ add_working_days(f + 1, l, week) <= add_working_days(t + 1, l, week)
    BY <1>1, <2>1, <2>4, LaterIsLater, DatesAssumption
  <2>9. add_working_days(f + 1, l, week) <= s
    <3>1. add_working_days(t + 1, l, week) # NoDate
      BY <2>8, DatesAssumption
    <3> QED  BY <2>1, <2>7, <2>8, <3>1
  <2> QED  BY <2>5, <2>8, <2>9 DEF s
<1> DEFINE n == r.id
           early == EarliestStarts(plan, week)
           latest == LatestStart(plan, deadline, week, n)
<1>7. /\ n \in N /\ r.earliest_finish = finish(n, early[n])
      /\ r.float_working_days = Slack(early[n], latest, week)
  BY <1>1, EntriesAre DEF LatestStart, D
<1> HIDE DEF n
\* Each starts when it is planned to start.
<1>8. \A m \in N :
        /\ early[m] \in Int /\ nodes[m].start <= early[m]
        /\ \/ early[m] = nodes[m].start
           \/ \E e \in Before(plan, m) : early[m] = FirstAllowed(plan, week, e, early[e.predecessor])
  BY <1>1, <1>2, EarlyIs
<1> DEFINE G == {m \in N : early[m] = nodes[m].start}
<1> HIDE DEF early
<1>9. G = N
  <2>1. ASSUME NEW m \in N, \A k \in N : rank[k] < rank[m] => k \in G
        PROVE  m \in G
    <3> SUFFICES ASSUME early[m] # nodes[m].start PROVE FALSE
      OBVIOUS
    <3>1. PICK e \in Before(plan, m) : early[m] = FirstAllowed(plan, week, e, early[e.predecessor])
      BY <1>8
    <3>2. /\ e \in plan.edges /\ e.successor = m /\ e.predecessor \in N
          /\ rank[e.predecessor] < rank[m]
      BY <1>3
    <3>3. early[e.predecessor] = nodes[e.predecessor].start /\ early[e.predecessor] \in Int
      BY <1>8, <2>1, <3>2
    <3>4. early[e.predecessor] <= nodes[e.predecessor].start
      BY <3>3
    <3>5. FirstAllowed(plan, week, e, early[e.predecessor]) <= nodes[m].start
      BY <1>6, <3>2, <3>3, <3>4
    <3>6. early[m] \in Int /\ nodes[m].start <= early[m] /\ nodes[m].start \in Int
      BY <1>3, <1>8
    <3>7. early[m] <= nodes[m].start
      BY <3>1, <3>5
    <3> QED  BY <3>6, <3>7
  <2>2. G \in SUBSET N
    OBVIOUS
  <2> HIDE DEF G, N
  <2> QED  BY <1>3, <2>1, <2>2, RankInduction
<1>10. early[n] = nodes[n].start /\ early[n] \in Int
  BY <1>7, <1>8, <1>9
<1>11. r.earliest_finish <= nodes[n].end
  BY <1>5, <1>7, <1>10
\* And all that follow it in time.
<1>12. Meets(plan, deadline, week, n, early[n])
  <2>1. PICK from :
          /\ FromThere(plan, week, n, early[n], from)
          /\ Meets(plan, deadline, week, n, early[n])
               <=> \A m \in N : from[m] # NoDate => finish(m, from[m]) <= deadline
    BY <1>1, <1>2, <1>7, <1>10, FromIs DEF D
  <2>2. /\ from[n] = early[n] /\ \A m \in N : from[m] # NoDate => from[m] \in Int
        /\ \A m \in N : m # n /\ from[m] # NoDate =>
             \E e \in Before(plan, m) : /\ from[e.predecessor] # NoDate
                                        /\ from[m] = FirstAllowed(plan, week, e, from[e.predecessor])
    BY <2>1 DEF FromThere
  <2> DEFINE H == {m \in N : from[m] # NoDate => from[m] <= nodes[m].start}
  <2>3. H = N
    <3>1. ASSUME NEW m \in N, \A k \in N : rank[k] < rank[m] => k \in H
          PROVE  m \in H
      <4>1. CASE m = n
        BY <1>10, <2>2, <4>1
      <4>2. CASE m # n /\ from[m] # NoDate
        <5>1. PICK e \in Before(plan, m) : /\ from[e.predecessor] # NoDate
                                           /\ from[m] = FirstAllowed(plan, week, e, from[e.predecessor])
          BY <2>2, <4>2
        <5>2. /\ e \in plan.edges /\ e.successor = m /\ e.predecessor \in N
              /\ rank[e.predecessor] < rank[m]
          BY <1>3
        <5>3. from[e.predecessor] \in Int /\ from[e.predecessor] <= nodes[e.predecessor].start
          BY <2>2, <3>1, <5>1, <5>2
        <5>4. FirstAllowed(plan, week, e, from[e.predecessor]) <= nodes[m].start
          BY <1>6, <5>2, <5>3
        <5> QED  BY <5>1, <5>4
      <4> QED  BY <4>1, <4>2
    <3>2. H \in SUBSET N
      OBVIOUS
    <3> HIDE DEF H, N
    <3> QED  BY <1>3, <3>1, <3>2, RankInduction
  <2>4. ASSUME NEW m \in N, from[m] # NoDate
        PROVE  finish(m, from[m]) <= deadline
    <3>1. from[m] \in Int /\ from[m] <= nodes[m].start /\ nodes[m].start \in Int /\ nodes[m].end \in Int
      BY <1>3, <2>2, <2>3, <2>4
    <3>2. D(m) \in Nat \ {0} /\ 7 * D(m) <= MAX_LOOKAHEAD_DAYS
      BY <1>4
    <3>3. finish(m, from[m]) \in Int /\ finish(m, from[m]) <= finish(m, nodes[m].start)
      BY <1>1, <3>1, <3>2, LaterIsLater, DatesAssumption
    <3>4. finish(m, nodes[m].start) \in Int /\ finish(m, nodes[m].start) <= nodes[m].end
          /\ nodes[m].end <= deadline
      BY <1>5
    <3> HIDE DEF finish
    <3> QED  BY <3>1, <3>3, <3>4
  <2> QED  BY <2>1, <2>4
<1>13. early[n] <= latest
  BY <1>1, <1>7, <1>10, <1>12, MeetsIs
<1>14. latest \in Int /\ Works(week, latest)
  BY <1>1, <1>7, LatestStartIs
<1> HIDE DEF latest
<1>15. Slack(early[n], latest, week) >= 0
  <2>1. latest \in early[n]..latest
    BY <1>10, <1>13, <1>14
  <2>2. count_working_days(early[n], latest, week) \in Nat /\ count_working_days(early[n], latest, week) > 0
    BY <1>10, <1>14, <2>1, CountIsNat
  <2>3. latest >= early[n]
    BY <1>10, <1>13, <1>14
  <2>4. Slack(early[n], latest, week) = count_working_days(early[n], latest, week) - 1
    BY <2>3 DEF Slack
  <2> QED  BY <2>2, <2>4
<1> QED  BY <1>7, <1>11, <1>15 DEF n

-----------------------------------------------------------------------------
(* The plans of the rules.                                                    *)

\* No more are counted than there are days.
LEMMA CountAtMost ==
  ASSUME NEW week, NEW a \in Int, NEW b \in Int, a <= b
  PROVE  count_working_days(a, b, week) \in 0..(b - a + 1)
<1> DEFINE S == {d \in a..b : Works(week, d)}
<1>1. IsFiniteSet(a..b) /\ Cardinality(a..b) = b - a + 1
  BY FS_Interval
<1>2. S \in SUBSET (a..b) /\ count_working_days(a, b, week) = Cardinality(S)
  BY DEF count_working_days
<1> HIDE DEF S
<1>3. Cardinality(S) <= Cardinality(a..b)
  BY <1>1, <1>2, FS_Subset
<1>4. count_working_days(a, b, week) \in Nat
  BY CountIsNat
<1> QED  BY <1>1, <1>2, <1>3, <1>4

\* A search ends within its weeks.
LEMMA WithinWeeks ==
  ASSUME NEW week \in SUBSET (0..6), week # {}, NEW day \in Int,
         NEW n \in Nat \ {0}, 7 * n <= MAX_LOOKAHEAD_DAYS
  PROVE  /\ add_working_days(day, n, week) \in day..(day + 7 * n - 1)
         /\ working_days_before(day, n, week) \in (day - 7 * n + 1)..day
<1> DEFINE last == day + 7 * n - 1  first == day - 7 * n + 1
           e == add_working_days(day, n, week)  f == working_days_before(day, n, week)
<1>1. Reaches(week, day, n, e) /\ ReachesBack(week, day, n, f)
  BY Finds, FindsBefore, DatesAssumption
<1>2. last \in Int /\ first \in Int /\ first + 7 * n - 1 = day
  OBVIOUS
<1>3. n <= count_working_days(day, last, week)
  BY EveryWeek
<1>4. n <= count_working_days(first, first + 7 * n - 1, week)
  BY <1>2, EveryWeek
<1>5. n <= count_working_days(first, day, week)
  BY <1>2, <1>4
<1> HIDE DEF last, first, e, f
<1>6. e \in Int /\ day <= e /\ e <= last
  BY <1>1, <1>2, <1>3 DEF Reaches
<1>7. f \in Int /\ f <= day /\ first <= f
  BY <1>1, <1>2, <1>5 DEF ReachesBack
<1>8. e \in day..last /\ f \in first..day
  BY <1>2, <1>6, <1>7
<1> QED  BY <1>8 DEF e, f, first, last

\* A small plan.
SmallPlan(c, plan) ==
  /\ PlanLike(plan) /\ RankedLinks(plan, [n \in 1..3 |-> n]) /\ DOMAIN plan.nodes = 1..3
  /\ c.week \in SUBSET (0..6) /\ c.deadline \in {8, 13}
  /\ \A n \in 1..3 : /\ plan.nodes[n].start \in 0..9 /\ plan.nodes[n].lead \in 0..3
                     /\ plan.nodes[n].end \in plan.nodes[n].start..(plan.nodes[n].start + 4)
  /\ \A e \in plan.edges : e.lag \in 0..4

\* The plans of the rules are small.
LEMMA RulesPlansAreSmall ==
  ASSUME NEW c \in Plans, NEW packages \in PackageDates,
         NEW plan, plan = [nodes |-> packages, edges |-> c.edges]
  PROVE  SmallPlan(c, plan)
<1>1. PICK a \in Packages({0, 5}, {0, 3}, {0, 2}), b \in Packages({3, 6}, {0, 4}, {0, 3}),
           d \in Packages({7, 9}, {2}, {0, 1}) : packages = <<a, b, d>>
  BY DEF PackageDates
<1>2. DOMAIN packages = 1..3 /\ packages[1] = a /\ packages[2] = b /\ packages[3] = d
  BY <1>1
<1>3. ASSUME NEW x \in {a, b, d}
      PROVE  /\ x \in [start : Int, end : Int, lead : Nat]
             /\ x.start \in 0..9 /\ x.lead \in 0..3 /\ x.end \in x.start..(x.start + 4)
  BY DEF Packages
<1>4. \A n \in 1..3 : packages[n] \in {a, b, d}
  BY <1>2
<1>5. c.week \in {{}, {0, 1, 2, 3, 4}, {1, 4}} /\ c.deadline \in {8, 13}
      /\ c.edges \in {{}, {Link(1, 2, 0)}, {Link(1, 2, 0), Link(2, 3, 1)}, {Link(1, 2, 2), Link(1, 3, 0)},
                      {Link(1, 3, 0), Link(2, 3, 2)}, {Link(1, 2, 0), Link(2, 3, 0), Link(1, 3, 4)}}
  BY DEF Plans
<1> DEFINE links == {Link(1, 2, 0), Link(2, 3, 1), Link(1, 2, 2), Link(1, 3, 0),
                     Link(2, 3, 2), Link(2, 3, 0), Link(1, 3, 4)}
<1>6. c.edges \in SUBSET links
  <2> HIDE DEF Link
  <2> QED  BY <1>5
<1>7. \A e \in links : /\ e.predecessor \in 1..3 /\ e.successor \in 1..3 /\ e.lag \in 0..4
                       /\ e.predecessor < e.successor
  BY DEF Link
<1>8. IsFiniteSet(links)
  <2> DEFINE l == <<Link(1, 2, 0), Link(2, 3, 1), Link(1, 2, 2), Link(1, 3, 0),
                    Link(2, 3, 2), Link(2, 3, 0), Link(1, 3, 4)>>
  <2>1. IsFiniteSet(1..7)
    <3>1. 1 \in Int /\ 7 \in Int
      OBVIOUS
    <3> QED  BY <3>1, FS_Interval, Zenon
  <2>2. IsFiniteSet({l[i] : i \in 1..7})
    BY <2>1, ImageFinite
  <2>3. links = {l[i] : i \in 1..7}
    <3> HIDE DEF Link
    <3> QED  OBVIOUS
  <2> QED  BY <2>2, <2>3
<1> HIDE DEF links
<1>9. IsFiniteSet(c.edges)
  BY <1>6, <1>8, FS_Subset
<1>10. plan.nodes = packages /\ plan.edges = c.edges
  OBVIOUS
<1>11. \A n \in 1..3 : /\ packages[n] \in [start : Int, end : Int, lead : Nat]
                       /\ packages[n].start \in 0..9 /\ packages[n].lead \in 0..3
                       /\ packages[n].end \in packages[n].start..(packages[n].start + 4)
  BY <1>3, <1>4
<1>12. IsFiniteSet(1..3)
  <2>1. 1 \in Int /\ 3 \in Int
    OBVIOUS
  <2> QED  BY <2>1, FS_Interval, Zenon
<1>13. packages \in [1..3 -> [start : Int, end : Int, lead : Nat]]
  <2>1. packages = [n \in 1..3 |-> packages[n]]
    BY <1>1, <1>2
  <2> QED  BY <1>11, <2>1
<1>14. \A n \in 1..3 : packages[n].start <= packages[n].end
  BY <1>11
<1>15. \A e \in c.edges : /\ e.predecessor \in 1..3 /\ e.successor \in 1..3 /\ e.lag \in 0..4
                          /\ e.predecessor < e.successor
  BY <1>6, <1>7
<1>16. PlanLike(plan)
  BY <1>2, <1>9, <1>10, <1>12, <1>13, <1>14, <1>15 DEF PlanLike
<1>17. RankedLinks(plan, [n \in 1..3 |-> n])
  BY <1>2, <1>10, <1>15 DEF RankedLinks
<1>18. c.week \in SUBSET (0..6)
  BY <1>5
<1> QED  BY <1>2, <1>5, <1>10, <1>11, <1>15, <1>16, <1>17, <1>18 DEF SmallPlan

\* They are within reach of a search through enough weeks.
LEMMA RulesPlansAreInReach ==
  ASSUME NEW c \in Plans, NEW packages \in PackageDates,
         NEW plan, plan = [nodes |-> packages, edges |-> c.edges], 2300 <= MAX_LOOKAHEAD_DAYS
  PROVE  /\ \A n \in 1..3 : Duration(plan, c.week, n) \in 1..5
         /\ InReach(plan, c.week)
<1>1. /\ PlanLike(plan) /\ DOMAIN plan.nodes = 1..3 /\ c.week \in SUBSET (0..6)
      /\ \A n \in 1..3 : /\ plan.nodes[n].start \in 0..9 /\ plan.nodes[n].lead \in 0..3
                         /\ plan.nodes[n].end \in plan.nodes[n].start..(plan.nodes[n].start + 4)
      /\ \A e \in plan.edges : e.lag \in 0..4
  <2>1. SmallPlan(c, plan)
    BY RulesPlansAreSmall
  <2> QED  BY <2>1 DEF SmallPlan
<1>2. ASSUME NEW n \in 1..3
      PROVE  Duration(plan, c.week, n) \in 1..5
  <2> DEFINE s == plan.nodes[n].start  t == plan.nodes[n].end  l == plan.nodes[n].lead
             k == count_working_days(s, t, c.week)
  <2>1. s \in 0..9 /\ l \in 0..3 /\ t \in s..(s + 4) /\ s \in Int /\ t \in Int /\ s <= t /\ t - s + 1 <= 5
    BY <1>1
  <2>2. Duration(plan, c.week, n) = IF l > 0 THEN l ELSE Max({1, k})
    BY DEF Duration, duration_working_days
  <2> HIDE DEF s, t, l
  <2>3. k \in 0..(t - s + 1)
    BY <2>1, CountAtMost
  <2>4. k \in 0..5
    BY <2>1, <2>3
  <2> HIDE DEF k
  <2>5. Max({1, k}) = IF 1 <= k THEN k ELSE 1
    BY <2>4, MaxOfTwo
  <2> QED  BY <2>1, <2>2, <2>4, <2>5
<1>3. InReach(plan, c.week)
  <2>1. ASSUME NEW n \in DOMAIN plan.nodes PROVE 7 * Duration(plan, c.week, n) <= MAX_LOOKAHEAD_DAYS
    <3>1. Duration(plan, c.week, n) \in 1..5
      BY <1>1, <1>2
    <3> QED  BY <3>1, DatesAssumption
  <2>2. ASSUME NEW e \in plan.edges PROVE 7 * (e.lag + 1) <= MAX_LOOKAHEAD_DAYS
    BY <1>1, DatesAssumption
  <2> QED  BY <1>1, <2>1, <2>2 DEF InReach
<1> QED  BY <1>2, <1>3

\* So are their floats.
LEMMA RulesFloatsAreInReach ==
  ASSUME NEW c \in Plans, NEW packages \in PackageDates,
         NEW plan, plan = [nodes |-> packages, edges |-> c.edges], 2300 <= MAX_LOOKAHEAD_DAYS
  PROVE  FloatsInReach(plan, c.deadline, c.week)
<1> DEFINE N == 1..3
           week == c.week
           rank == [n \in 1..3 |-> n]
           down == [n \in 1..3 |-> -n]
           early == EarliestStarts(plan, week)
           late == LatestFinishes(plan, c.deadline, week)
           D(n) == Duration(plan, week, n)
<1> SUFFICES ASSUME NEW r \in analyse(plan, c.deadline, week)
             PROVE  /\ 7 * (r.float_working_days + 2) <= MAX_LOOKAHEAD_DAYS
                    /\ 7 * (2 - r.float_working_days) <= MAX_LOOKAHEAD_DAYS
  BY DEF FloatsInReach
<1>1. /\ PlanLike(plan) /\ RankedLinks(plan, rank) /\ DOMAIN plan.nodes = N /\ week \in SUBSET (0..6)
      /\ c.deadline \in {8, 13} /\ c.deadline \in Int
      /\ \A n \in N : plan.nodes[n].start \in 0..9
      /\ \A e \in plan.edges : e.lag \in 0..4
  <2>1. SmallPlan(c, plan)
    BY RulesPlansAreSmall
  <2> QED  BY <2>1 DEF SmallPlan
<1>2. week # {}
  BY DEF analyse
<1>3. InReach(plan, week) /\ \A n \in N : D(n) \in 1..5
  BY RulesPlansAreInReach
<1>4. /\ IsFiniteSet(N) /\ rank \in [N -> Int] /\ down \in [N -> Int]
      /\ \A e \in plan.edges : /\ e.predecessor \in N /\ e.successor \in N
                               /\ e.predecessor < e.successor
  <2>1. IsFiniteSet(N) /\ \A e \in plan.edges : e.predecessor \in N /\ e.successor \in N
    BY <1>1 DEF PlanLike
  <2>2. \A e \in plan.edges : rank[e.predecessor] < rank[e.successor]
    BY <1>1 DEF RankedLinks
  <2>3. rank \in [N -> Int] /\ down \in [N -> Int]
    OBVIOUS
  <2>4. \A k \in N : rank[k] = k
    OBVIOUS
  <2> HIDE DEF rank, down, N
  <2>5. \A e \in plan.edges : e.predecessor < e.successor
    BY <2>1, <2>2, <2>4
  <2> QED  BY <2>1, <2>3, <2>5
<1>5. \A n \in N :
        /\ \A e \in Before(plan, n) : e \in plan.edges /\ e.successor = n
        /\ \A e \in After(plan, n) : e \in plan.edges /\ e.predecessor = n
  BY DEF Before, After
<1>6. \A n \in N :
        /\ early[n] \in Int
        /\ \/ early[n] = plan.nodes[n].start
           \/ \E e \in Before(plan, n) : early[n] = FirstAllowed(plan, week, e, early[e.predecessor])
        /\ plan.nodes[n].start <= early[n]
  BY <1>1, <1>2, <1>3, EarlyIs
<1>7. \A n \in N :
        /\ late[n] \in Int /\ late[n] <= c.deadline
        /\ \/ late[n] = c.deadline
           \/ \E e \in After(plan, n) : late[n] = LastAllowed(plan, week, e, late[e.successor])
  BY <1>1, <1>2, <1>3, LateIs
<1> HIDE DEF week, early, late, D
<1>8. ASSUME NEW n \in N, NEW day \in Int
      PROVE  /\ add_working_days(day, D(n), week) \in Int /\ add_working_days(day, D(n), week) <= day + 34
             /\ working_days_before(day, D(n), week) \in Int
             /\ day - 34 <= working_days_before(day, D(n), week)
             /\ working_days_before(day, D(n), week) <= day
  <2>1. D(n) \in Nat \ {0} /\ 7 * D(n) <= MAX_LOOKAHEAD_DAYS /\ 7 * D(n) <= 35
    BY <1>3, DatesAssumption
  <2>2. /\ add_working_days(day, D(n), week) \in day..(day + 7 * D(n) - 1)
        /\ working_days_before(day, D(n), week) \in (day - 7 * D(n) + 1)..day
    BY <1>1, <1>2, <2>1, WithinWeeks, DatesAssumption
  <2> QED  BY <2>1, <2>2
<1>9. ASSUME NEW e \in plan.edges, NEW day \in Int
      PROVE  /\ add_working_days(day, e.lag + 1, week) \in Int
             /\ add_working_days(day, e.lag + 1, week) <= day + 34
             /\ working_days_before(day, e.lag + 1, week) \in Int
             /\ day - 34 <= working_days_before(day, e.lag + 1, week)
  <2> DEFINE l == e.lag + 1
  <2>1. l \in Nat \ {0} /\ 7 * l <= MAX_LOOKAHEAD_DAYS /\ 7 * l <= 35
    BY <1>1, DatesAssumption
  <2> HIDE DEF l
  <2>2. /\ add_working_days(day, l, week) \in day..(day + 7 * l - 1)
        /\ working_days_before(day, l, week) \in (day - 7 * l + 1)..day
    BY <1>1, <1>2, <2>1, WithinWeeks, DatesAssumption
  <2>3. /\ add_working_days(day, l, week) \in Int /\ add_working_days(day, l, week) <= day + 34
        /\ working_days_before(day, l, week) \in Int /\ day - 34 <= working_days_before(day, l, week)
    BY <2>1, <2>2
  <2> QED  BY <2>3 DEF l
<1>10. ASSUME NEW e \in plan.edges, NEW day \in Int
       PROVE  /\ FirstAllowed(plan, week, e, day) \in Int /\ FirstAllowed(plan, week, e, day) <= day + 70
              /\ LastAllowed(plan, week, e, day) \in Int /\ day - 70 <= LastAllowed(plan, week, e, day)
  <2> DEFINE f == add_working_days(day, D(e.predecessor), week)
             x == working_days_before(day, D(e.successor), week)
  <2>0. e.predecessor \in N /\ e.successor \in N
    BY <1>4
  <2> HIDE DEF N
  <2> DEFINE p == e.predecessor  s == e.successor
  <2>1. f \in Int /\ f <= day + 34 /\ x \in Int /\ day - 34 <= x
    <3>1. p \in N /\ s \in N
      BY <2>0
    <3> HIDE DEF p, s
    <3>2. /\ add_working_days(day, D(p), week) \in Int /\ add_working_days(day, D(p), week) <= day + 34
          /\ working_days_before(day, D(s), week) \in Int
          /\ day - 34 <= working_days_before(day, D(s), week)
      BY <1>8, <3>1
    <3> QED  BY <3>2 DEF p, s
  <2>2. /\ FirstAllowed(plan, week, e, day) = add_working_days(f + 1, e.lag + 1, week)
        /\ LastAllowed(plan, week, e, day) = working_days_before(x - 1, e.lag + 1, week)
    BY DEF FirstAllowed, LastAllowed, earliest_successor_start, D
  <2> HIDE DEF f, x
  <2>3. f + 1 \in Int /\ x - 1 \in Int
    BY <2>1
  <2>4. /\ add_working_days(f + 1, e.lag + 1, week) \in Int
        /\ add_working_days(f + 1, e.lag + 1, week) <= (f + 1) + 34
        /\ working_days_before(x - 1, e.lag + 1, week) \in Int
        /\ (x - 1) - 34 <= working_days_before(x - 1, e.lag + 1, week)
    BY <1>9, <2>3
  <2> QED  BY <2>1, <2>2, <2>4
<1> DEFINE G == {n \in N : early[n] <= 9 + 70 * (n - 1)}
           H == {n \in N : 8 - 70 * (3 - n) <= late[n]}
<1>11. G = N
  <2>1. ASSUME NEW n \in N, \A k \in N : rank[k] < rank[n] => k \in G
        PROVE  n \in G
    <3>1. CASE early[n] = plan.nodes[n].start
      BY <1>1, <3>1
    <3>2. CASE early[n] # plan.nodes[n].start
      <4>1. PICK e \in Before(plan, n) : early[n] = FirstAllowed(plan, week, e, early[e.predecessor])
        BY <1>6, <3>2
      <4> DEFINE k == e.predecessor
      <4>2. e \in plan.edges /\ k \in N /\ k < n
        BY <1>4, <1>5
      <4>3. early[k] \in Int /\ early[k] <= 9 + 70 * (k - 1)
        BY <1>6, <2>1, <4>2
      <4>4. early[n] <= early[k] + 70 /\ early[n] \in Int
        BY <1>10, <4>1, <4>2, <4>3
      <4> HIDE DEF k
      <4>5. k \in Int /\ n \in Int /\ k <= n - 1
        BY <4>2
      <4>6. 9 + 70 * (k - 1) + 70 <= 9 + 70 * (n - 1)
        BY <4>5
      <4> QED  BY <4>3, <4>4, <4>5, <4>6
    <3> QED  BY <3>1, <3>2
  <2>2. G \in SUBSET N
    OBVIOUS
  <2> HIDE DEF G, N, rank
  <2> QED  BY <1>4, <2>1, <2>2, RankInduction
<1>12. H = N
  <2>1. ASSUME NEW n \in N, \A k \in N : down[k] < down[n] => k \in H
        PROVE  n \in H
    <3>1. CASE late[n] = c.deadline
      BY <1>1, <3>1
    <3>2. CASE late[n] # c.deadline
      <4>1. PICK e \in After(plan, n) : late[n] = LastAllowed(plan, week, e, late[e.successor])
        BY <1>7, <3>2
      <4> DEFINE k == e.successor
      <4>2. e \in plan.edges /\ k \in N /\ n < k
        BY <1>4, <1>5
      <4>3. late[k] \in Int /\ 8 - 70 * (3 - k) <= late[k]
        BY <1>7, <2>1, <4>2
      <4>4. late[k] - 70 <= late[n] /\ late[n] \in Int
        BY <1>10, <4>1, <4>2, <4>3
      <4> HIDE DEF k
      <4>5. k \in Int /\ n \in Int /\ n + 1 <= k
        BY <4>2
      <4>6. 8 - 70 * (3 - n) <= 8 - 70 * (3 - k) - 70
        BY <4>5
      <4> QED  BY <4>3, <4>4, <4>5, <4>6
    <3> QED  BY <3>1, <3>2
  <2>2. H \in SUBSET N
    OBVIOUS
  <2> HIDE DEF H, N, down
  <2> QED  BY <1>4, <2>1, <2>2, RankInduction
<1> DEFINE n == r.id
           x == early[n]
           y == working_days_before(late[n], D(n), week)
           float == r.float_working_days
<1>13. n \in N /\ float = Slack(x, y, week)
  BY <1>1, <1>2, EntriesAre DEF week, early, late, D
<1> HIDE DEF n
<1>14. x \in 0..149
  <2>1. n \in G
    BY <1>11, <1>13
  <2>2. n \in 1..3 /\ x \in Int /\ plan.nodes[n].start <= x /\ plan.nodes[n].start \in 0..9
    BY <1>1, <1>6, <1>13
  <2> QED  BY <2>1, <2>2
<1>15. y \in (-166)..13
  <2>1. n \in H
    BY <1>12, <1>13
  <2>2. late[n] \in Int /\ late[n] <= 13 /\ n \in 1..3
    BY <1>1, <1>7, <1>13
  <2>3. -132 <= late[n]
    BY <2>1, <2>2
  <2> DEFINE l == late[n]
  <2>4. y \in Int /\ l - 34 <= y /\ y <= l /\ l <= 13 /\ -132 <= l /\ l \in Int
    <3>1. l \in Int /\ l <= 13 /\ -132 <= l
      BY <2>2, <2>3
    <3> HIDE DEF l, N
    <3>2. y = working_days_before(l, D(n), week)
      BY DEF l
    <3> QED  BY <1>8, <1>13, <3>1, <3>2
  <2> HIDE DEF y, l
  <2> QED  BY <2>4
<1> HIDE DEF x, y, float
<1>16. float \in (-315)..13
  <2>1. x \in Int /\ y \in Int
    BY <1>14, <1>15
  <2>2. CASE y >= x
    <3>1. count_working_days(x, y, week) \in 0..(y - x + 1)
      BY <2>1, <2>2, CountAtMost
    <3>2. float = count_working_days(x, y, week) - 1
      BY <1>13, <2>2 DEF Slack
    <3> QED  BY <1>14, <1>15, <3>1, <3>2
  <2>3. CASE ~(y >= x)
    <3>1. count_working_days(y, x, week) \in 0..(x - y + 1)
      BY <2>1, <2>3, CountAtMost
    <3>2. float = -(count_working_days(y, x, week) - 1)
      BY <1>13, <2>3 DEF Slack
    <3> QED  BY <1>14, <1>15, <3>1, <3>2
  <2> QED  BY <2>2, <2>3
<1>17. 7 * (float + 2) <= 2300 /\ 7 * (2 - float) <= 2300
  BY <1>16
<1>18. 7 * (float + 2) \in Int /\ 7 * (2 - float) \in Int
  BY <1>16
<1> QED  BY <1>17, <1>18, DatesAssumption DEF float

\* And what is late among them.
LEMMA RulesLateness ==
  ASSUME NEW c \in Plans, NEW packages \in PackageDates, NEW planned \in {6, 9},
         NEW plan, plan = [nodes |-> packages, edges |-> c.edges], 2300 <= MAX_LOOKAHEAD_DAYS
  PROVE  LateWithinReach(plan, c.deadline, planned, c.week)
<1> DEFINE week == c.week
<1>1. /\ PlanLike(plan) /\ DOMAIN plan.nodes = 1..3 /\ week \in SUBSET (0..6)
      /\ c.deadline \in {8, 13}
      /\ \A n \in 1..3 : /\ plan.nodes[n].start \in 0..9 /\ plan.nodes[n].lead \in 0..3
                         /\ plan.nodes[n].end \in plan.nodes[n].start..(plan.nodes[n].start + 4)
      /\ \A e \in plan.edges : e.lag \in 0..4
  <2>1. SmallPlan(c, plan)
    BY RulesPlansAreSmall
  <2> QED  BY <2>1 DEF SmallPlan
<1> HIDE DEF week
<1>2. \A n \in 1..3 : plan.nodes[n].end \in 0..13
  BY <1>1
<1>3. \A e \in plan.edges : e.predecessor \in 1..3 /\ e.successor \in 1..3
  BY <1>1 DEF PlanLike
<1>4. ASSUME NEW day \in Int, NEW k \in 1..5, week # {}
      PROVE  add_working_days(day, k, week) \in Int /\ add_working_days(day, k, week) <= day + 34
  <2>1. k \in Nat \ {0} /\ 7 * k <= MAX_LOOKAHEAD_DAYS /\ 7 * k <= 35
    BY DatesAssumption
  <2>2. add_working_days(day, k, week) \in day..(day + 7 * k - 1)
    BY <1>1, <1>4, <2>1, WithinWeeks, DatesAssumption
  <2> QED  BY <2>1, <2>2
<1>5. ASSUME NEW e \in plan.edges, NEW v \in Violations(plan, week)[e]
      PROVE  v.earliest <= plan.nodes[e.successor].start + MAX_LOOKAHEAD_DAYS
  <2> DEFINE t == plan.nodes[e.predecessor].end  s == plan.nodes[e.successor].start  l == e.lag + 1
  <2>1. t \in 0..13 /\ s \in 0..9 /\ l \in 1..5 /\ t + 1 \in Int
    BY <1>1, <1>2, <1>3
  <2>2. week # {} /\ v \in check_violation(e.lag, t, s, week)
    BY <1>5 DEF Violations
  <2>3. v.earliest = add_working_days(t + 1, l, week)
    BY <2>2 DEF check_violation, earliest_successor_start
  <2> HIDE DEF t, s, l
  <2>4. add_working_days(t + 1, l, week) \in Int /\ add_working_days(t + 1, l, week) <= (t + 1) + 34
    <3> DEFINE u == t + 1
    <3>1. u \in Int /\ l \in 1..5 /\ week # {}
      BY <2>1, <2>2
    <3> HIDE DEF u
    <3>2. add_working_days(u, l, week) \in Int /\ add_working_days(u, l, week) <= u + 34
      <4>1. l \in Nat \ {0} /\ 7 * l <= MAX_LOOKAHEAD_DAYS /\ 7 * l <= 35
        BY <3>1, DatesAssumption
      <4>2. add_working_days(u, l, week) \in u..(u + 7 * l - 1)
        BY <1>1, <3>1, <4>1, WithinWeeks, DatesAssumption
      <4> QED  BY <3>1, <4>1, <4>2
    <3> QED  BY <3>2 DEF u
  <2>5. v.earliest \in Int /\ v.earliest <= 48
    BY <2>1, <2>3, <2>4
  <2>6. v.earliest <= s + MAX_LOOKAHEAD_DAYS
    BY <2>1, <2>5, DatesAssumption
  <2> QED  BY <2>6 DEF s
<1>6. ASSUME NEW n \in DOMAIN plan.nodes, NEW w \in Lateness(plan, week)[n]
      PROVE  w.derived <= c.deadline + MAX_LOOKAHEAD_DAYS
  <2> DEFINE s == plan.nodes[n].start  l == plan.nodes[n].lead
  <2>1. s \in 0..9 /\ l \in 0..3 /\ s \in Int
    BY <1>1
  <2>2. week # {} /\ w \in schedule_warning(plan.nodes[n], week)
    BY <1>6 DEF Lateness
  <2>3. w.derived = add_working_days(s, l, week) /\ ~(l < 1)
    BY <2>2 DEF schedule_warning
  <2> HIDE DEF s, l
  <2>4. l \in 1..5
    BY <2>1, <2>3
  <2>5. add_working_days(s, l, week) \in Int /\ add_working_days(s, l, week) <= s + 34
    BY <1>4, <2>1, <2>2, <2>4
  <2>6. w.derived \in Int /\ w.derived <= 43
    BY <2>1, <2>3, <2>5
  <2> QED  BY <1>1, <2>6, DatesAssumption
<1>7. planned <= c.deadline + MAX_LOOKAHEAD_DAYS
  BY <1>1, DatesAssumption
<1> QED  BY <1>5, <1>6, <1>7 DEF LateWithinReach, week

\* The input of a calculation of dates is one of those listed.
DatesPicked == part = "dates" => calendar \in Plans /\ (input = <<>> \/ input \in PackageDates)

\* It stays so.
LEMMA DatesArePicked == RulesSpec => []DatesPicked
<1>1. RulesInit => DatesPicked
  BY DEF RulesInit, DatesPicked
<1>2. DatesPicked /\ [RulesNext]_ruleVars => DatesPicked'
  <2> SUFFICES ASSUME DatesPicked, [RulesNext]_ruleVars PROVE DatesPicked'
    OBVIOUS
  <2>1. CASE UNCHANGED <<part, calendar, input>>
    BY <2>1 DEF DatesPicked
  <2>2. ASSUME NEW name, NEW inputs, Pick(name, inputs), name = "dates" => inputs = PackageDates
        PROVE  DatesPicked'
    BY <2>2 DEF DatesPicked, Pick
  <2> HIDE DEF DatesPicked
  <2> USE DEF RulesNext
  <2>3. CASE Pick("people", PersonBookings)
    BY <2>2, <2>3, "people" # "dates"
  <2>4. CASE Pick("machines", MachineBookings)
    BY <2>2, <2>4, "machines" # "dates"
  <2>5. CASE Pick("crowds", Crowds)
    BY <2>2, <2>5, "crowds" # "dates"
  <2>6. CASE Pick("dates", PackageDates)
    BY <2>2, <2>6
  <2> QED  BY <2>1, <2>3, <2>4, <2>5, <2>6 DEF ruleVars
<1> QED  BY <1>1, <1>2, PTL DEF RulesSpec

\* What the run of edits and calculations checks of the dates of a plan, when a search
\* goes as far as the code's does.
THEOREM DatesAmongRules ==
  ASSUME 2300 <= MAX_LOOKAHEAD_DAYS
  PROVE  RulesSpec => []DatesKeepTheirMeaning
<1>1. DatesPicked => DatesKeepTheirMeaning
  <2> SUFFICES ASSUME DatesPicked, Picked("dates") PROVE DatesKeepTheirMeaning
    BY DEF DatesKeepTheirMeaning
  <2> DEFINE plan == [nodes |-> input, edges |-> calendar.edges]
             week == calendar.week  deadline == calendar.deadline
  <2>1. calendar \in Plans /\ input \in PackageDates
    BY DEF DatesPicked, Picked
  <2>2. plan = [nodes |-> input, edges |-> calendar.edges]
    OBVIOUS
  <2> HIDE DEF plan
  <2>3. PlanLike(plan) /\ RankedLinks(plan, [n \in 1..3 |-> n]) /\ deadline \in Int
    BY <2>1, <2>2, RulesPlansAreSmall DEF SmallPlan
  <2>4. Acyclic(plan)
    BY <2>3, RankedIsAcyclic
  <2>5. InReach(plan, week)
    BY <2>1, <2>2, RulesPlansAreInReach
  <2>6. FloatsInReach(plan, deadline, week)
    BY <2>1, <2>2, RulesFloatsAreInReach
  <2>7. \A planned \in {6, 9} : LateWithinReach(plan, deadline, planned, week)
    BY <2>1, <2>2, RulesLateness
  <2> HIDE DEF week, deadline
  <2>8. ForwardIsEarliest(plan, deadline, week)
    BY <2>3, <2>4, <2>5, ForwardPassIsEarliest
  <2>9. BackwardIsLatest(plan, deadline, week)
    BY <2>3, <2>4, <2>5, BackwardPassIsLatest, DatesAssumption
  <2>10. FloatIsWhatMaySlip(plan, deadline, week)
    BY <2>3, <2>4, <2>5, <2>6, FloatMaySlip
  <2>11. QuietPlansAreOnTime(plan, deadline, week)
    BY <2>3, <2>4, <2>5, QuietIsOnTime
  <2>12. ASSUME NEW planned \in {6, 9}
         PROVE  ShortfallsAreLeast(plan, deadline, planned, week)
    BY <2>3, <2>7, ShortfallsHelp
  <2> QED  BY <2>8, <2>9, <2>10, <2>11, <2>12 DEF plan, week, deadline, DatesKeepTheirMeaning
<1> QED  BY <1>1, DatesArePicked, PTL

-----------------------------------------------------------------------------
(* The samples of the calculations of conflicts.                              *)

\* A sample booking, and some of them.
BookingLike(b) ==
  /\ {"start", "end", "percent"} \subseteq DOMAIN b
  /\ b.start \in Int /\ b.end \in Int /\ b.percent \in Nat

\* A booking of the samples takes some days or, of a length that is not 0, some time.
LEMMA BookedAreLike ==
  ASSUME NEW starts \in SUBSET Int, NEW lengths \in SUBSET Nat, NEW percents \in SUBSET Nat,
         NEW b \in Booked(starts, lengths, percents)
  PROVE  /\ BookingLike(b) /\ b.start <= b.end
         /\ 0 \notin lengths => b.start < b.end
<1>1. PICK x \in starts, l \in lengths, p \in percents : b = [start |-> x, end |-> x + l, percent |-> p]
  BY DEF Booked
<1>2. b.start = x /\ b.end = x + l /\ b.percent = p /\ DOMAIN b = {"start", "end", "percent"}
  BY <1>1
<1>3. x \in Int /\ l \in Nat /\ p \in Nat
  OBVIOUS
<1> QED  BY <1>2, <1>3 DEF BookingLike

\* The ids of one, two or three sample bookings are finitely many.
LEMMA FewAreFinite == IsFiniteSet({1}) /\ IsFiniteSet({1, 2}) /\ IsFiniteSet({1, 2, 3})
<1>1. IsFiniteSet(1..1) /\ IsFiniteSet(1..2) /\ IsFiniteSet(1..3)
  <2>1. 1 \in Int /\ 2 \in Int /\ 3 \in Int
    OBVIOUS
  <2> QED  BY <2>1, FS_Interval, Zenon
<1>2. 1..1 = {1} /\ 1..2 = {1, 2} /\ 1..3 = {1, 2, 3}
  OBVIOUS
<1> QED  BY <1>1, <1>2

\* The bookings of people in the samples.
LEMMA PeopleAreBooked ==
  ASSUME NEW bookings \in PersonBookings
  PROVE  BookingsTyped(bookings) /\ bookings # <<>>
<1>1. /\ 2..4 \in SUBSET Int /\ 2..8 \in SUBSET Int /\ {2, 3} \in SUBSET Int /\ {4, 7} \in SUBSET Int
      /\ {0, 2, 5} \in SUBSET Nat /\ {0, 1, 4} \in SUBSET Nat /\ {2, 5} \in SUBSET Nat
      /\ {0, 2} \in SUBSET Nat /\ {1} \in SUBSET Nat /\ {50, 100} \in SUBSET Nat
      /\ {50, 60} \in SUBSET Nat /\ {60} \in SUBSET Nat /\ {40, 94} \in SUBSET Nat
  OBVIOUS
<1> DEFINE Ok(b) == BookingLike(b) /\ b.start <= b.end
<1>2. /\ \A b \in Booked(2..4, {0, 2, 5}, {50, 100}) : Ok(b)
      /\ \A b \in Booked(2..8, {0, 1, 4}, {50, 60}) : Ok(b)
      /\ \A b \in Booked({2, 3}, {2, 5}, {60}) : Ok(b)
      /\ \A b \in Booked(2..8, {0, 2}, {60}) : Ok(b)
      /\ \A b \in Booked({4, 7}, {1}, {40, 94}) : Ok(b)
  BY <1>1, BookedAreLike
<1> HIDE DEF Ok
<1>3. \/ \E a, b : bookings = <<a, b>> /\ Ok(a) /\ Ok(b)
      \/ \E a, b, c : bookings = <<a, b, c>> /\ Ok(a) /\ Ok(b) /\ Ok(c)
  <2>1. CASE bookings \in {<<a, b>> : a \in Booked(2..4, {0, 2, 5}, {50, 100}), b \in Booked(2..8, {0, 1, 4}, {50, 60})}
    BY <1>2, <2>1
  <2>2. CASE bookings \in {<<a, b, c>> : a \in Booked({2, 3}, {2, 5}, {60}),
                                         b \in Booked(2..8, {0, 2}, {60}), c \in Booked({4, 7}, {1}, {40, 94})}
    BY <1>2, <2>2
  <2> QED  BY <2>1, <2>2 DEF PersonBookings
<1>4. CASE \E a, b : bookings = <<a, b>> /\ Ok(a) /\ Ok(b)
  <2>1. PICK a, b : bookings = <<a, b>> /\ Ok(a) /\ Ok(b)
    BY <1>4
  <2>2. DOMAIN bookings = {1, 2} /\ bookings[1] = a /\ bookings[2] = b
    BY <2>1
  <2>3. \A i \in DOMAIN bookings : Ok(bookings[i])
    BY <2>1, <2>2
  <2>4. IsFiniteSet(DOMAIN bookings) /\ DOMAIN bookings # {} /\ bookings # <<>>
    BY <2>1, <2>2, FewAreFinite
  <2> QED  BY <2>3, <2>4 DEF BookingsTyped, BookingsAreSpans, Ids, Ok, BookingLike
<1>5. CASE \E a, b, c : bookings = <<a, b, c>> /\ Ok(a) /\ Ok(b) /\ Ok(c)
  <2>1. PICK a, b, c : bookings = <<a, b, c>> /\ Ok(a) /\ Ok(b) /\ Ok(c)
    BY <1>5
  <2>2. DOMAIN bookings = {1, 2, 3} /\ bookings[1] = a /\ bookings[2] = b /\ bookings[3] = c
    BY <2>1
  <2>3. \A i \in DOMAIN bookings : Ok(bookings[i])
    BY <2>1, <2>2
  <2>4. IsFiniteSet(DOMAIN bookings) /\ DOMAIN bookings # {} /\ bookings # <<>>
    BY <2>1, <2>2, FewAreFinite
  <2> QED  BY <2>3, <2>4 DEF BookingsTyped, BookingsAreSpans, Ids, Ok, BookingLike
<1> QED  BY <1>3, <1>4, <1>5

\* Those of machines.
LEMMA MachinesAreBooked ==
  ASSUME NEW bookings \in MachineBookings \cup Crowds
  PROVE  MachineBookingsTyped(bookings)
<1>1. /\ 5..20 \in SUBSET Int /\ {5, 12} \in SUBSET Int /\ 8..18 \in SUBSET Int
      /\ 4..8 \in SUBSET Int /\ 4..9 \in SUBSET Int
      /\ {1, 3, 10} \in SUBSET Nat /\ {3} \in SUBSET Nat /\ {1, 4} \in SUBSET Nat
      /\ {1, 3, 6} \in SUBSET Nat /\ {2, 5} \in SUBSET Nat /\ {0} \in SUBSET Nat
      /\ 0 \notin {1, 3, 10} /\ 0 \notin {3} /\ 0 \notin {1, 4} /\ 0 \notin {1, 3, 6} /\ 0 \notin {2, 5}
  OBVIOUS
<1> DEFINE Ok(b) == BookingLike(b) /\ b.start < b.end
<1>2. /\ \A b \in Hours(5..20, {1, 3, 10}) : Ok(b)
      /\ \A b \in Hours({5, 12}, {3}) : Ok(b)
      /\ \A b \in Hours(8..18, {3}) : Ok(b)
      /\ \A b \in Hours(4..8, {1, 4}) : Ok(b)
      /\ \A b \in Hours(4..9, {1, 3, 6}) : Ok(b)
      /\ \A b \in Hours(4..9, {2, 5}) : Ok(b)
  BY <1>1, BookedAreLike DEF Hours
<1> HIDE DEF Ok
<1>3. \/ \E a : bookings = <<a>> /\ Ok(a)
      \/ \E a, b : bookings = <<a, b>> /\ Ok(a) /\ Ok(b)
      \/ \E a, b, c : bookings = <<a, b, c>> /\ Ok(a) /\ Ok(b) /\ Ok(c)
  <2>1. CASE bookings \in {<<a>> : a \in Hours(5..20, {1, 3, 10})}
    BY <1>2, <2>1
  <2>2. CASE bookings \in {<<a, b>> : a \in Hours({5, 12}, {3}), b \in Hours(8..18, {3})}
    BY <1>2, <2>2
  <2>3. CASE bookings \in Crowds
    BY <1>2, <2>3 DEF Crowds
  <2> QED  BY <2>1, <2>2, <2>3 DEF MachineBookings
<1>4. /\ IsFiniteSet(DOMAIN bookings) /\ DOMAIN bookings # {}
      /\ \A i \in DOMAIN bookings : Ok(bookings[i])
  <2>1. CASE \E a : bookings = <<a>> /\ Ok(a)
    <3>1. PICK a : bookings = <<a>> /\ Ok(a)
      BY <2>1
    <3>2. DOMAIN bookings = {1} /\ bookings[1] = a
      BY <3>1
    <3> QED  BY <3>1, <3>2, FewAreFinite
  <2>2. CASE \E a, b : bookings = <<a, b>> /\ Ok(a) /\ Ok(b)
    <3>1. PICK a, b : bookings = <<a, b>> /\ Ok(a) /\ Ok(b)
      BY <2>2
    <3>2. DOMAIN bookings = {1, 2} /\ bookings[1] = a /\ bookings[2] = b
      BY <3>1
    <3> QED  BY <3>1, <3>2, FewAreFinite
  <2>3. CASE \E a, b, c : bookings = <<a, b, c>> /\ Ok(a) /\ Ok(b) /\ Ok(c)
    <3>1. PICK a, b, c : bookings = <<a, b, c>> /\ Ok(a) /\ Ok(b) /\ Ok(c)
      BY <2>3
    <3>2. DOMAIN bookings = {1, 2, 3} /\ bookings[1] = a /\ bookings[2] = b /\ bookings[3] = c
      BY <3>1
    <3> QED  BY <3>1, <3>2, FewAreFinite
  <2> QED  BY <1>3, <2>1, <2>2, <2>3
<1> QED  BY <1>4 DEF MachineBookingsTyped, BookingsTakeTime, Ids, Ok, BookingLike

\* The profiles and bindings of the samples.
LEMMA ProfilesAre == Full \in Profile /\ Short \in Profile
BY DEF Full, Short, Profile

\* A binding is one of a profile to days.
LEMMA BindingsAre ==
  ASSUME NEW from \in Int, NEW until \in Int, NEW profile \in Profile
  PROVE  Bind(from, until, profile) \in [from : Int, until : Int, profile : Profile]
BY DEF Bind

\* A calendar put together of typed parts.
LEMMA PersonsAre ==
  ASSUME NEW levels \in Seq(SUBSET [from : Int, until : Int, profile : Profile]), NEW holidays,
         \A d \in DOMAIN holidays : holidays[d] \in Nat,
         NEW absences, IsFiniteSet(absences), \A a \in absences : a.percent \in Nat,
         NEW default \in Profile \cup {NoProfile}
  PROVE  /\ CalendarTyped(Person(levels, holidays, absences))
         /\ CalendarTyped([Person(levels, holidays, absences) EXCEPT !.default = default])
<1> DEFINE p == Person(levels, holidays, absences)  q == [p EXCEPT !.default = default]
<1>1. /\ DOMAIN p = {"levels", "default", "holidays", "absences", "windows"}
      /\ p.levels = levels /\ p.default = Full /\ p.holidays = holidays /\ p.absences = absences
  BY DEF Person
<1> HIDE DEF p
<1>2. /\ DOMAIN q = {"levels", "default", "holidays", "absences", "windows"}
      /\ q.levels = levels /\ q.default = default /\ q.holidays = holidays /\ q.absences = absences
  BY <1>1
<1> HIDE DEF q
<1>3. CalendarTyped(p)
  BY <1>1, ProfilesAre DEF CalendarTyped
<1>4. CalendarTyped(q)
  BY <1>2 DEF CalendarTyped
<1> QED  BY <1>3, <1>4 DEF p, q

\* The calendars of people in the samples.
LEMMA PeopleHaveCalendars ==
  ASSUME NEW cal \in PersonCalendars
  PROVE  CalendarTyped(cal)
<1> DEFINE B == [from : Int, until : Int, profile : Profile]
           halfDay == [d \in {3, 5} |-> IF d = 3 THEN 0 ELSE 240]
           a1 == {Off(2, 2, 50)}  a2 == {Off(3, 7, 60), Off(4, 4, 60)}
           a3 == {Off(4, 4, 15)}  a4 == {Off(7, 7, 100)}
           l2 == <<{}, {Bind(0, 3, Short), Bind(4, 9, Full)}>>
           l3 == <<{Bind(2, 4, Short)}, {Bind(0, 9, Full)}>>
           l4 == <<{Bind(2, 7, Short)}>>
<1>1. \A d \in DOMAIN halfDay : halfDay[d] \in Nat
  OBVIOUS
<1>2. /\ \A d \in DOMAIN NoHolidays : NoHolidays[d] \in Nat
      /\ \A d \in DOMAIN Exceptions({7}, 240) : Exceptions({7}, 240)[d] \in Nat
  BY DEF NoHolidays, Exceptions
<1>3. /\ IsFiniteSet(a1) /\ IsFiniteSet(a2) /\ IsFiniteSet(a3) /\ IsFiniteSet(a4)
      /\ \A a \in a1 \cup a2 \cup a3 \cup a4 : a.percent \in Nat
  <2>1. \A x, y : IsFiniteSet({x}) /\ IsFiniteSet({x, y})
    <3> TAKE x, y
    <3>1. IsFiniteSet({x})
      BY FS_Singleton
    <3>2. IsFiniteSet({x} \cup {y})
      BY <3>1, FS_AddElement
    <3>3. {x} \cup {y} = {x, y}
      OBVIOUS
    <3> QED  BY <3>1, <3>2, <3>3
  <2>2. \A a \in a1 \cup a2 \cup a3 \cup a4 : a.percent \in Nat
    BY DEF Off
  <2> QED  BY <2>1, <2>2
<1>4. /\ Bind(0, 3, Short) \in B /\ Bind(4, 9, Full) \in B /\ Bind(2, 4, Short) \in B
      /\ Bind(0, 9, Full) \in B /\ Bind(2, 7, Short) \in B
  BY ProfilesAre, BindingsAre
<1> HIDE DEF B, halfDay, a1, a2, a3, a4
<1>5. <<>> \in Seq(SUBSET B) /\ l2 \in Seq(SUBSET B) /\ l3 \in Seq(SUBSET B) /\ l4 \in Seq(SUBSET B)
  <2>1. /\ {} \in SUBSET B /\ {Bind(0, 3, Short), Bind(4, 9, Full)} \in SUBSET B
        /\ {Bind(2, 4, Short)} \in SUBSET B /\ {Bind(0, 9, Full)} \in SUBSET B /\ {Bind(2, 7, Short)} \in SUBSET B
    BY <1>4
  <2>2. \A x, y \in SUBSET B : <<>> \in Seq(SUBSET B) /\ <<x>> \in Seq(SUBSET B) /\ <<x, y>> \in Seq(SUBSET B)
    OBVIOUS
  <2> QED  BY <2>1, <2>2, Zenon
<1> HIDE DEF l2, l3, l4
<1>6. \/ cal = Person(<<>>, halfDay, a1)
      \/ cal = Person(l2, NoHolidays, a2)
      \/ cal = Person(l3, Exceptions({7}, 240), a3)
      \/ cal = [Person(l4, NoHolidays, a4) EXCEPT !.default = NoProfile]
  BY DEF PersonCalendars, halfDay, a1, a2, a3, a4, l2, l3, l4
<1>7. \A a \in a1 : a.percent \in Nat
  BY <1>3
<1>8. \A a \in a2 : a.percent \in Nat
  BY <1>3
<1>9. \A a \in a3 : a.percent \in Nat
  BY <1>3
<1>10. \A a \in a4 : a.percent \in Nat
  BY <1>3
<1>11. NoProfile \in Profile \cup {NoProfile}
  OBVIOUS
<1>12. CalendarTyped(Person(<<>>, halfDay, a1))
  BY <1>1, <1>3, <1>5, <1>7, <1>11, PersonsAre DEF B
<1>13. CalendarTyped(Person(l2, NoHolidays, a2))
  BY <1>2, <1>3, <1>5, <1>8, <1>11, PersonsAre DEF B
<1>14. CalendarTyped(Person(l3, Exceptions({7}, 240), a3))
  BY <1>2, <1>3, <1>5, <1>9, <1>11, PersonsAre DEF B
<1>15. CalendarTyped([Person(l4, NoHolidays, a4) EXCEPT !.default = NoProfile])
  BY <1>2, <1>3, <1>5, <1>10, <1>11, PersonsAre DEF B
<1> QED  BY <1>6, <1>12, <1>13, <1>14, <1>15

\* The windows that are previewed in the samples are spans.
LEMMA PreviewsAre ==
  ASSUME NEW windows \in PreviewWindows \cup {{<<0, 0>>}, {<<1, 1>>, <<1, 2>>}}
  PROVE  WindowsTyped(windows)
<1>1. \E x, y \in Int \X Int : windows = {x} \/ windows = {x, y}
  <2>1. /\ <<2, 4>> \in Int \X Int /\ <<2, 3>> \in Int \X Int /\ <<5, 6>> \in Int \X Int
        /\ <<4, 7>> \in Int \X Int /\ <<3, 5>> \in Int \X Int /\ <<0, 0>> \in Int \X Int
        /\ <<1, 1>> \in Int \X Int /\ <<1, 2>> \in Int \X Int
    OBVIOUS
  <2>2. \/ windows = {<<2, 4>>} \/ windows = {<<2, 3>>, <<5, 6>>} \/ windows = {<<4, 7>>, <<3, 5>>}
        \/ windows = {<<0, 0>>} \/ windows = {<<1, 1>>, <<1, 2>>}
    BY DEF PreviewWindows
  <2> QED  BY <2>1, <2>2, Zenon
<1>2. PICK x \in Int \X Int, y \in Int \X Int : windows = {x} \/ windows = {x, y}
  BY <1>1
<1>3. IsFiniteSet({x}) /\ IsFiniteSet({x} \cup {y})
  BY FS_Singleton, FS_AddElement
<1>4. {x, y} = {x} \cup {y} /\ {x} \in SUBSET (Int \X Int) /\ {x, y} \in SUBSET (Int \X Int)
  OBVIOUS
<1> QED  BY <1>2, <1>3, <1>4 DEF WindowsTyped, SpansTyped

\* No sample clock skips two readings in a row, nor a midnight of a day of eight
\* minutes or more, unless the day has ten.
LEMMA ClocksAreOrdinary ==
  ASSUME 8 <= MINUTES_PER_DAY, MINUTES_PER_DAY # 10, NEW zone \in Zones
  PROVE  /\ OrdinaryClock(zone)
         /\ \A r \in Int : InstantsOf(zone, r) # {} \/ InstantsOf(zone, r + 1) # {}
<1> DEFINE D == MINUTES_PER_DAY
           c == zone.change  b == zone.before  a == zone.after
<1>1. D \in Nat \ {0} /\ 8 <= D /\ D # 10
  BY DayAssumption
<1>2. /\ zone \in ZoneType
      /\ \/ c = 0 /\ b = 1 /\ a = 1
         \/ c = 9 /\ b = 1 /\ a = 2
         \/ c = 9 /\ b = 2 /\ a = 1
  BY DEF Zones, ZoneType
<1>3. \A i : local_time(zone, i) = IF i < c THEN i + b ELSE i + a
  BY DEF local_time
<1>4. \A r \in Int : InstantsOf(zone, r) = {i \in {r - b, r - a} : local_time(zone, i) = r}
  BY DEF InstantsOf
<1>5. /\ local_date(zone, c - 1) = local_time(zone, c - 1) \div D
      /\ local_date(zone, c) = local_time(zone, c) \div D
  BY DEF local_date
<1> HIDE DEF D, a, b, c
<1>6. ASSUME NEW r \in Int, r # 10
      PROVE  InstantsOf(zone, r) # {}
  <2>1. local_time(zone, r - b) = r \/ local_time(zone, r - a) = r
    BY <1>2, <1>3, <1>6
  <2> QED  BY <1>4, <2>1
<1>7. local_time(zone, c - 1) \in Int /\ local_time(zone, c) \in Int
      /\ local_time(zone, c - 1) <= local_time(zone, c)
  BY <1>2, <1>3
<1>8. DatesDoNotFallBack(zone)
  <2> DEFINE x == local_time(zone, c - 1)  y == local_time(zone, c)
  <2>1. x \in Int /\ y \in Int /\ x <= y
    BY <1>7
  <2> HIDE DEF x, y
  <2>2. x \div D <= y \div D
    BY <1>1, <2>1, DivMonotone
  <2> QED  BY <1>2, <1>5, <2>2 DEF DatesDoNotFallBack, x, y, c
<1>9. ASSUME NEW d \in Int
      PROVE  d * D \in Int /\ d * D # 10
  <2>1. d * D \in Int
    BY <1>1
  <2>2. CASE d <= 0
    <3>1. d * D <= 0 * D
      BY <1>1, <2>2
    <3> QED  BY <1>1, <2>1, <3>1
  <2>3. CASE d = 1
    BY <1>1, <2>3
  <2>4. CASE d >= 2
    <3>1. d * D >= 2 * D
      BY <1>1, <2>4
    <3> QED  BY <1>1, <2>1, <3>1
  <2> QED  BY <2>1, <2>2, <2>3, <2>4
<1>10. \A d \in Int : InstantsOf(zone, d * MINUTES_PER_DAY) # {}
  BY <1>6, <1>9 DEF D
<1>11. ASSUME NEW r \in Int
       PROVE  InstantsOf(zone, r) # {} \/ InstantsOf(zone, r + 1) # {}
  <2>1. r # 10 \/ r + 1 # 10
    OBVIOUS
  <2> QED  BY <1>6, <2>1
<1> QED  BY <1>8, <1>10, <1>11 DEF OrdinaryClock

\* The shifts of the samples, on such days.
LEMMA ShiftsAre ==
  ASSUME 8 <= MINUTES_PER_DAY, NEW c \in MachineCalendars
  PROVE  /\ c.zone \in Zones /\ ShiftsTyped(c.cal)
         /\ has_windows(c.cal) /\ \A w \in c.cal.windows : w.start \in {0, 2, 6} /\ w.end \in {0, 2, 3, 6}
<1>1. PICK h \in {NoHolidays, Exceptions({1}, 0), Exceptions({0}, 0)}, a \in Shifts, b \in Shifts, z \in Zones :
        c = [cal |-> [Person(<<>>, h, {}) EXCEPT !.windows = {a, b}], zone |-> z]
  BY DEF MachineCalendars
<1>2. DOMAIN Person(<<>>, h, {}) = {"levels", "default", "holidays", "absences", "windows"}
  BY DEF Person
<1>3. /\ c.zone = z /\ c.cal.windows = {a, b}
      /\ DOMAIN c.cal = {"levels", "default", "holidays", "absences", "windows"}
  BY <1>1, <1>2
<1>4. \A w \in {a, b} : w.start \in {0, 2, 6} /\ w.end \in {0, 2, 3, 6}
  BY DEF Shifts
<1>5. IsFiniteSet({a, b})
  <2>1. IsFiniteSet({a} \cup {b}) /\ {a} \cup {b} = {a, b}
    BY FS_Singleton, FS_AddElement
  <2> QED  BY <2>1
<1>6. \A w \in {a, b} : w.start \in 0..(MINUTES_PER_DAY - 1) /\ w.end \in 0..MINUTES_PER_DAY
  BY <1>4, DayAssumption
<1> QED  BY <1>3, <1>4, <1>5, <1>6 DEF ShiftsTyped, has_windows

\* A last span that is not the only one takes more than a minute.
LEMMA LastSpansTakeTime ==
  ASSUME 8 <= MINUTES_PER_DAY, NEW c \in MachineCalendars, NEW d \in Int,
         Len(covered_spans(c.cal, d)) > 1
  PROVE  LET s == Last(covered_spans(c.cal, d))
         IN  s[1] \in Int /\ s[2] \in Int /\ s[1] + 1 < s[2]
<1> DEFINE cal == c.cal  D == MINUTES_PER_DAY  m == covered_spans(cal, d)  L == Len(m)
           first == m[L][1]  end == m[L][2]
<1>1. D \in Nat /\ 8 <= D
  BY DayAssumption
<1>2. ShiftsTyped(cal) /\ has_windows(cal)
      /\ \A w \in cal.windows : w.start \in {0, 2, 6} /\ w.end \in {0, 2, 3, 6}
  BY ShiftsAre
<1> HIDE DEF cal
<1>3. Apart(m) /\ \A j \in Int : Covered(m, j) <=> CoveredAt(cal, d, j)
  BY <1>2, CoveredSpansAre
<1>4. ASSUME NEW s \in SpansOf(cal, d)
      PROVE  /\ s[1] \in {0, 2, 6} /\ s[2] \in {2, 3, 6, D}
             /\ s[1] < s[2]
             /\ \A j \in Int : s[1] <= j /\ j < s[2] => Covered(m, j)
  <2>1. SpansOf(cal, d) = Today(cal, d) \cup Tonight(cal, d)
    BY <1>2 DEF SpansOf
  <2>2. windows_for(cal, d) \subseteq cal.windows /\ windows_for(cal, d - 1) \subseteq cal.windows
    BY DEF windows_for
  <2>3. CASE s \in Today(cal, d)
    <3>1. PICK w \in windows_for(cal, d) : s = <<w.start, IF Overnight(w) THEN D ELSE w.end>>
      BY <2>3 DEF Today
    <3>2. s[1] = w.start /\ s[2] = (IF Overnight(w) THEN D ELSE w.end)
      BY <3>1
    <3>3. w.start \in {0, 2, 6} /\ w.end \in {0, 2, 3, 6} /\ (~Overnight(w) <=> w.start < w.end)
      BY <1>2, <2>2 DEF Overnight
    <3>4. s[1] \in {0, 2, 6} /\ s[2] \in {2, 3, 6, D} /\ s[1] < s[2]
      <4> HIDE DEF D
      <4> QED  BY <1>1, <3>2, <3>3
    <3> QED  BY <1>3, <3>4 DEF CoveredAt
  <2>4. CASE s \in Tonight(cal, d)
    <3>1. PICK w \in windows_for(cal, d - 1) : s = <<0, w.end>> /\ w.end > 0
      BY <2>4 DEF Tonight
    <3>2. s[1] = 0 /\ s[2] = w.end /\ w.end > 0
      BY <3>1
    <3>3. w.end \in {0, 2, 3, 6}
      BY <1>2, <2>2
    <3> QED  BY <1>3, <3>2, <3>3 DEF CoveredAt
  <2> QED  BY <2>1, <2>3, <2>4
<1>5. \A j \in Int : Covered(m, j) => /\ 0 <= j
                                      /\ \E s \in SpansOf(cal, d) : s[1] <= j /\ j < s[2]
  BY <1>2, <1>3, CoveredInDay DEF CoveredAt
<1>6. L > 1
  BY DEF cal
<1> HIDE DEF m, D
<1>7. L \in Nat /\ Last(m) = m[L] /\ 1 \in 1..L /\ L \in 1..L
  <2>1. m \in Seq(Int \X Int)
    BY <1>3 DEF Apart
  <2>2. L \in Nat
    BY <2>1
  <2>3. 1 \in 1..L /\ L \in 1..L
    BY <1>6, <2>2
  <2> QED  BY <2>2, <2>3 DEF Last
<1>8. /\ \A i \in 1..L : m[i][1] \in Int /\ m[i][2] \in Int /\ m[i][1] < m[i][2]
      /\ \A i, j \in 1..L : i < j => m[i][2] < m[j][1]
  BY <1>3 DEF Apart
<1>9. first \in Int /\ end \in Int /\ first < end
  BY <1>7, <1>8
<1>10. Covered(m, first) /\ Covered(m, m[1][1]) /\ m[1][1] \in Int /\ m[1][2] \in Int
       /\ m[1][1] < m[1][2] /\ m[1][2] < first
  BY <1>6, <1>7, <1>8 DEF Covered
<1>11. ~Covered(m, first - 1) /\ ~Covered(m, end) /\ ~Covered(m, m[1][2])
  <2>1. ASSUME NEW i \in 1..L, m[i][1] <= first - 1, first - 1 < m[i][2] PROVE FALSE
    <3>1. i < L \/ i = L
      BY <1>7
    <3>2. i < L => m[i][2] < first
      BY <1>7, <1>8
    <3> QED  BY <1>8, <1>9, <2>1, <3>1, <3>2
  <2>2. ASSUME NEW i \in 1..L, m[i][1] <= end, end < m[i][2] PROVE FALSE
    <3>1. i < L \/ i = L
      BY <1>7
    <3>2. i < L => m[i][2] < first
      BY <1>7, <1>8
    <3> QED  BY <1>8, <1>9, <2>2, <3>1, <3>2
  <2>3. ASSUME NEW i \in 1..L, m[i][1] <= m[1][2], m[1][2] < m[i][2] PROVE FALSE
    <3>1. 1 < i \/ i = 1
      BY <1>7
    <3>2. 1 < i => m[1][2] < m[i][1]
      BY <1>7, <1>8
    <3> QED  BY <1>8, <1>10, <2>3, <3>1, <3>2
  <2> QED  BY <2>1, <2>2, <2>3 DEF Covered, L
<1> HIDE DEF L
<1>12. SUFFICES ASSUME end = first + 1 PROVE FALSE
  <2>1. end # first + 1 => first + 1 < end
    BY <1>9
  <2> QED  BY <1>7, <1>9, <2>1, Zenon DEF m, cal
<1> HIDE DEF first, end
<1>13. PICK s \in SpansOf(cal, d) : s[1] <= first /\ first < s[2]
  BY <1>5, <1>9, <1>10
<1>14. s[1] = first /\ s[2] = end
  <2>1. s[1] \in Int /\ s[2] \in Int /\ \A j \in Int : s[1] <= j /\ j < s[2] => Covered(m, j)
    BY <1>1, <1>4
  <2>2. ~(s[1] <= first - 1 /\ first - 1 < s[2]) /\ ~(s[1] <= end /\ end < s[2])
    BY <1>9, <1>11, <2>1
  <2> QED  BY <1>9, <1>12, <1>13, <2>1, <2>2
<1>15. first = 2
  <2>1. s[1] \in {0, 2, 6} /\ s[2] \in {2, 3, 6, D}
    BY <1>4
  <2>2. 0 <= m[1][1]
    BY <1>5, <1>10
  <2> QED  BY <1>1, <1>9, <1>10, <1>12, <1>14, <2>1, <2>2
<1>16. m[1][1] = 0 /\ m[1][2] = 1
  <2>1. 0 <= m[1][1]
    BY <1>5, <1>10
  <2> QED  BY <1>10, <1>15, <2>1
<1>17. PICK t \in SpansOf(cal, d) : t[1] <= 0 /\ 0 < t[2]
  BY <1>5, <1>10, <1>16
<1>18. t[2] \in {2, 3, 6, D} /\ \A j \in Int : t[1] <= j /\ j < t[2] => Covered(m, j)
  BY <1>4
<1>19. t[1] \in {0, 2, 6}
  BY <1>4
<1>20. t[1] <= 1 /\ 1 < t[2]
  BY <1>1, <1>17, <1>18, <1>19
<1>21. Covered(m, 1)
  BY <1>18, <1>20
<1> QED  BY <1>11, <1>16, <1>21

\* So the clock shows some minute of it.
LEMMA LastShiftsAreShown ==
  ASSUME 8 <= MINUTES_PER_DAY, MINUTES_PER_DAY # 10, NEW c \in MachineCalendars, NEW d \in Int
  PROVE  LastShiftIsShown(c.cal, c.zone, d)
<1> DEFINE m == covered_spans(c.cal, d)  s == Last(m)  M == d * MINUTES_PER_DAY
<1> SUFFICES ASSUME Len(m) > 1
             PROVE  \E j \in s[1]..(s[2] - 1) : InstantsOf(c.zone, M + j) # {}
  BY DEF LastShiftIsShown
<1>1. s[1] \in Int /\ s[2] \in Int /\ s[1] + 1 < s[2]
  BY LastSpansTakeTime
<1>2. M \in Int
  BY DayAssumption
<1>3. c.zone \in Zones
  BY ShiftsAre
<1>4. \A r \in Int : InstantsOf(c.zone, r) # {} \/ InstantsOf(c.zone, r + 1) # {}
  BY <1>3, ClocksAreOrdinary
<1> HIDE DEF s, M
<1>5. M + s[1] \in Int /\ (M + s[1]) + 1 = M + (s[1] + 1)
  BY <1>1, <1>2
<1>6. InstantsOf(c.zone, M + s[1]) # {} \/ InstantsOf(c.zone, M + (s[1] + 1)) # {}
  BY <1>4, <1>5
<1>7. s[1] \in s[1]..(s[2] - 1) /\ s[1] + 1 \in s[1]..(s[2] - 1)
  BY <1>1
<1> QED  BY <1>6, <1>7

\* The input of every other calculation is one of those listed, too.
ConflictsPicked ==
  /\ part = "people" => calendar \in PersonCalendars /\ (input = <<>> \/ input \in PersonBookings)
  /\ part = "machines" => calendar \in MachineCalendars /\ (input = <<>> \/ input \in MachineBookings)
  /\ part = "crowds" => calendar \in Zones /\ (input = <<>> \/ input \in Crowds)

\* They stay so.
LEMMA ConflictsArePicked == RulesSpec => []ConflictsPicked
<1>1. RulesInit => ConflictsPicked
  BY DEF RulesInit, ConflictsPicked
<1>2. ConflictsPicked /\ [RulesNext]_ruleVars => ConflictsPicked'
  <2> SUFFICES ASSUME ConflictsPicked, [RulesNext]_ruleVars PROVE ConflictsPicked'
    OBVIOUS
  <2>1. CASE UNCHANGED <<part, calendar, input>>
    BY <2>1 DEF ConflictsPicked
  <2>2. ASSUME NEW name, NEW inputs, Pick(name, inputs),
               name = "people" => inputs = PersonBookings,
               name = "machines" => inputs = MachineBookings,
               name = "crowds" => inputs = Crowds
        PROVE  ConflictsPicked'
    BY <2>2 DEF ConflictsPicked, Pick
  <2> HIDE DEF ConflictsPicked
  <2> USE DEF RulesNext
  <2>3. CASE Pick("people", PersonBookings)
    BY <2>2, <2>3, "people" # "machines", "people" # "crowds"
  <2>4. CASE Pick("machines", MachineBookings)
    BY <2>2, <2>4, "machines" # "people", "machines" # "crowds"
  <2>5. CASE Pick("crowds", Crowds)
    BY <2>2, <2>5, "crowds" # "people", "crowds" # "machines"
  <2>6. CASE Pick("dates", PackageDates)
    BY <2>2, <2>6, "dates" # "people", "dates" # "machines", "dates" # "crowds"
  <2> QED  BY <2>1, <2>3, <2>4, <2>5, <2>6 DEF ruleVars
<1> QED  BY <1>1, <1>2, PTL DEF RulesSpec

\* What the run of edits and calculations checks of conflicts: on days of eight
\* minutes or more, in which no sample clock skips a midnight.
THEOREM ConflictsAmongRules ==
  ASSUME 8 <= MINUTES_PER_DAY, MINUTES_PER_DAY # 10
  PROVE  RulesSpec => []ConflictsAreFound
<1>1. ConflictsPicked => ConflictsAreFound
  <2> SUFFICES ASSUME ConflictsPicked PROVE ConflictsAreFound
    OBVIOUS
  <2>1. ASSUME Picked("people")
        PROVE  /\ SweepFindsTheDays(calendar, input) /\ PeriodsTellTheDays(calendar, input)
               /\ DashboardAgrees(calendar, input)
               /\ \A windows \in PreviewWindows : PreviewShowsWhatIsStored(calendar, input, windows)
    <3>1. calendar \in PersonCalendars /\ input \in PersonBookings
      BY <2>1 DEF ConflictsPicked, Picked
    <3>2. CalendarTyped(calendar) /\ BookingsTyped(input)
      BY <3>1, PeopleHaveCalendars, PeopleAreBooked
    <3>3. BookingsAreSpans(input) /\ \A i \in Ids(input) : input[i].percent \in Nat
      BY <3>2 DEF BookingsTyped
    <3>4. \A windows \in PreviewWindows : PreviewShowsWhatIsStored(calendar, input, windows)
      BY <3>2, PreviewsAre, PreviewShows
    <3> QED  BY <3>2, <3>3, <3>4, SweepFinds, PeriodsAreTold, DashboardShows
  <2>2. ASSUME Picked("machines")
        PROVE  ReportsWhatIsLoaded(calendar.cal, calendar.zone, input)
    <3>1. calendar \in MachineCalendars /\ input \in MachineBookings
      BY <2>2 DEF ConflictsPicked, Picked
    <3>2. ShiftsTyped(calendar.cal) /\ OrdinaryClock(calendar.zone)
      BY <3>1, ShiftsAre, ClocksAreOrdinary
    <3>3. BookingsTakeTime(input)
      BY <3>1, MachinesAreBooked DEF MachineBookingsTyped
    <3> QED  BY <3>2, <3>3, WindowsAreReported
  <2>3. ASSUME part = "machines", NEW d \in 0..2
        PROVE  DayBookingFits(calendar.cal, calendar.zone, d)
    <3>1. calendar \in MachineCalendars /\ d \in Int
      BY <2>3 DEF ConflictsPicked
    <3>2. ShiftsTyped(calendar.cal) /\ calendar.zone \in ZoneType
      BY <3>1, ShiftsAre, ClocksAreOrdinary DEF OrdinaryClock, DatesDoNotFallBack
    <3>3. LastShiftIsShown(calendar.cal, calendar.zone, d)
      BY <3>1, LastShiftsAreShown
    <3> QED  BY <3>1, <3>2, <3>3, WholeDaysFit
  <2>4. ASSUME Picked("crowds")
        PROVE  /\ OverlapsAreShared(calendar, input)
               /\ \A windows \in {{<<0, 0>>}, {<<1, 1>>, <<1, 2>>}} : OverlapsAreShown(calendar, input, windows)
    <3>1. calendar \in Zones /\ input \in Crowds
      BY <2>4 DEF ConflictsPicked, Picked
    <3>2. OrdinaryClock(calendar) /\ DatesDoNotFallBack(calendar)
      BY <3>1, ClocksAreOrdinary DEF OrdinaryClock
    <3>3. MachineBookingsTyped(input) /\ BookingsTakeTime(input)
      BY <3>1, MachinesAreBooked DEF MachineBookingsTyped
    <3> QED  BY <3>2, <3>3, PreviewsAre, OverlapsAreExact, OverlapsShow
  <2> QED  BY <2>1, <2>2, <2>3, <2>4 DEF ConflictsAreFound
<1> QED  BY <1>1, ConflictsArePicked, PTL
=============================================================================
