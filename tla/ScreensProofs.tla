--------------------------- MODULE ScreensProofs ---------------------------
(* What the screens promise, for any number of records, rows, folders and     *)
(* charts, and for every set of views and of writes: the cache first, then    *)
(* the editors, the pages on the way in, the lists, the charts and the links  *)
(* to the problems, and all of them side by side.                             *)
EXTENDS MCScreens, FiniteFolds

-----------------------------------------------------------------------------
(* The cache: a browser reads its own writes.  An entry without an answer     *)
(* misses nothing, which the steps that flag an entry rest on.                *)
MissedOnlyIfFull == entry.missed # {} => entry.full

CacheInv == CacheTypeOK /\ OwnWriteIsFlagged /\ RunningRequestIsAccountedFor
            /\ ShownFlagIsServed /\ MissedOnlyIfFull

\* An entry starts without an answer, so it misses nothing.
LEMMA InitInv == CacheInit => CacheInv
<1> SUFFICES ASSUME CacheInit PROVE CacheInv
  OBVIOUS
<1>1. /\ entry \in [view : Queries, shown : BOOLEAN, full : BOOLEAN, missed : SUBSET Causes,
                    invalid : BOOLEAN, aged : BOOLEAN]
      /\ entry.missed = {} /\ entry.invalid = FALSE
  BY DEF CacheInit
<1>2. fetch = [at |-> "none", missed |-> {}] /\ change.cause = "uncovered"
      /\ change \in [at : {"none", "sent", "committed"}, cause : {"covered", "uncovered"},
                     settles : BOOLEAN]
  BY DEF CacheInit, NoFetch, NoChange
<1> QED
  BY <1>1, <1>2 DEF CacheInv, CacheTypeOK, OwnWriteIsFlagged, RunningRequestIsAccountedFor,
     ShownFlagIsServed, MissedOnlyIfFull

(* Replacing one cause by another never brings the first one back. *)
LEMMA BlameFacts ==
  ASSUME NEW missed \in SUBSET Causes, NEW new \in Causes \ {"covered"}
  PROVE /\ Blame(missed, "covered", new) \in SUBSET Causes
        /\ "covered" \notin Blame(missed, "covered", new)
        /\ Blame(missed, "covered", new) # {} => missed # {}
BY DEF Blame, Causes

\* What an acknowledgement leaves of the request under way, where no answer is on
\* display, lacks no covered write.
LEMMA CrossingFacts ==
  ASSUME CacheInv
  PROVE /\ Crossing \in [at : {"none", "sent", "read", "failed"}, missed : SUBSET Causes]
        /\ Crossing.at = fetch.at
        /\ ~(entry.shown /\ entry.full) => "covered" \notin Crossing.missed
        /\ ~Pending => Crossing = fetch
<1>1. "crossed" \in Causes \ {"covered"}
  BY DEF Causes
<1>2. Blame(fetch.missed, "covered", "crossed") \in SUBSET Causes
      /\ "covered" \notin Blame(fetch.missed, "covered", "crossed")
  BY <1>1, BlameFacts DEF CacheInv, CacheTypeOK
<1>3. ~Pending => Blame(fetch.missed, "covered", "crossed") = fetch.missed
  BY DEF CacheInv, RunningRequestIsAccountedFor, Blame
<1> QED BY <1>2, <1>3 DEF CacheInv, CacheTypeOK, Crossing

\* The invalidation that ends a write keeps the invariant.
LEMMA InvalidateInv ==
  ASSUME CacheInv, Invalidate(Crossing), change' = NoChange
  PROVE CacheInv'
<1>2. CacheTypeOK'
  BY CrossingFacts DEF CacheInv, CacheTypeOK, Invalidate, NewFetch, NoChange, Idle
<1>3. OwnWriteIsFlagged' /\ MissedOnlyIfFull'
  BY DEF CacheInv, CacheTypeOK, OwnWriteIsFlagged, MissedOnlyIfFull, Invalidate
<1>4. RunningRequestIsAccountedFor'
  BY CrossingFacts DEF CacheInv, CacheTypeOK, RunningRequestIsAccountedFor, Invalidate, NewFetch
<1>5. ShownFlagIsServed'
  BY CrossingFacts DEF CacheInv, CacheTypeOK, ShownFlagIsServed, Invalidate, NewFetch, Idle
<1> QED BY <1>2, <1>3, <1>4, <1>5 DEF CacheInv

\* A committed write is missed by the answer and by the request under way, and by
\* nothing else.
LEMMA MissingFacts ==
  ASSUME CacheTypeOK, NEW cause \in Causes, Missing(cause)
  PROVE /\ entry' \in [view : Queries, shown : BOOLEAN, full : BOOLEAN,
                       missed : SUBSET Causes, invalid : BOOLEAN, aged : BOOLEAN]
        /\ fetch' \in [at : {"none", "sent", "read", "failed"}, missed : SUBSET Causes]
        /\ entry'.full = entry.full /\ entry'.shown = entry.shown
        /\ entry'.invalid = entry.invalid /\ fetch'.at = fetch.at
        /\ entry'.missed \subseteq entry.missed \cup {cause}
        /\ fetch'.missed \subseteq fetch.missed \cup {cause}
        /\ ~entry.full => entry'.missed = entry.missed
BY DEF CacheTypeOK, Missing

\* Every step of the cache keeps its invariant.
LEMMA NextInv == CacheInv /\ [CacheNext]_cacheVars => CacheInv'
<1> SUFFICES ASSUME CacheInv, [CacheNext]_cacheVars PROVE CacheInv'
  OBVIOUS
<1> USE DEF CacheInv, CacheTypeOK, OwnWriteIsFlagged, RunningRequestIsAccountedFor,
            ShownFlagIsServed, MissedOnlyIfFull, Pending
<1>1. CASE Mount
  BY <1>1 DEF Mount, NewFetch, Idle
<1>2. CASE Unmount
  BY <1>2 DEF Unmount, NoFetch
<1>3. CASE Age
  BY <1>3 DEF Age
<1>4. CASE Collect
  BY <1>4 DEF Collect
<1>5. CASE Poll
  BY <1>5 DEF Poll, NewFetch
<1>6. CASE ServerAnswers
  BY <1>6 DEF ServerAnswers
<1>7. CASE Land
  BY <1>7 DEF Land, NoFetch
<1>8. CASE FetchFails
  BY <1>8 DEF FetchFails, NoFetch
<1>9. CASE ForeignWrite
  <2>1. "foreign" \in Causes /\ "foreign" # "covered"
    BY DEF Causes
  <2>2. Missing("foreign") /\ UNCHANGED change
    BY <1>9 DEF ForeignWrite
  <2> QED BY <2>1, <2>2, MissingFacts
<1>10. CASE Commit
  <2>1. change.cause \in Causes /\ Missing(change.cause)
    BY <1>10 DEF Commit, Causes
  <2>2. change.at = "sent" /\ change' = [change EXCEPT !.at = "committed"]
    BY <1>10 DEF Commit
  <2> QED BY <2>1, <2>2, MissingFacts
<1>11. CASE Acknowledge
  <2>1. CASE change.cause = "covered"
    BY <1>11, <2>1, InvalidateInv DEF Acknowledge
  <2>2. CASE change.cause # "covered"
    BY <1>11, <2>2 DEF Acknowledge, NoChange
  <2> QED BY <2>1, <2>2
<1>12. CASE Refuse
  <2>1. CASE change.cause = "covered" /\ change.settles
    <3>1. Invalidate(Crossing) /\ change' = NoChange
      BY <1>12, <2>1, CrossingFacts DEF Refuse
    <3> QED BY <3>1, InvalidateInv
  <2>2. CASE ~(change.cause = "covered" /\ change.settles)
    BY <1>12, <2>2 DEF Refuse, NoChange
  <2> QED BY <2>1, <2>2
<1>13. CASE LoseAnswer
  <2>1. CASE change.cause = "covered" /\ change.settles
    BY <1>13, <2>1, InvalidateInv DEF LoseAnswer
  <2>2. CASE ~(change.cause = "covered" /\ change.settles)
    <3>1. "unheard" \in Causes \ {"covered"}
      BY DEF Causes
    <3>2. Blame(entry.missed, "covered", "unheard") \in SUBSET Causes
          /\ "covered" \notin Blame(entry.missed, "covered", "unheard")
          /\ (Blame(entry.missed, "covered", "unheard") # {} => entry.missed # {})
      BY <3>1, BlameFacts
    <3>3. Blame(fetch.missed, "covered", "unheard") \in SUBSET Causes
          /\ "covered" \notin Blame(fetch.missed, "covered", "unheard")
      BY <3>1, BlameFacts
    <3> QED BY <1>13, <2>2, <3>2, <3>3 DEF LoseAnswer, NoChange
  <2> QED BY <2>1, <2>2
<1>14. CASE \E m \in Mutations : Send(m)
  BY <1>14, SettlesAssumption DEF Send, CauseOf
<1>15. CASE UNCHANGED cacheVars
  BY <1>15 DEF cacheVars
<1> QED
  BY <1>1, <1>2, <1>3, <1>4, <1>5, <1>6, <1>7, <1>8, <1>9, <1>10, <1>11, <1>12, <1>13,
     <1>14, <1>15 DEF CacheNext

(* In every reachable state of every instance. *)
LEMMA CacheInvariant == CacheSpec => []CacheInv
BY InitInv, NextInv, PTL DEF CacheSpec

(* The entry, the request and the write stay within their types. *)
THEOREM CacheTypeCorrect == CacheSpec => []CacheTypeOK
BY CacheInvariant, PTL DEF CacheInv

(* Whatever the views and the writes: an answer that misses an acknowledged   *)
(* covered write is flagged, unless the answer of the write was lost or its   *)
(* acknowledgement met the request of this answer where none was on display.  *)
THEOREM OwnWritesAreFlagged == CacheSpec => []OwnWriteIsFlagged
BY CacheInvariant, PTL DEF CacheInv

(* A flagged answer on screen is being replaced, or the last attempt failed. *)
THEOREM ShownFlagsAreServed == CacheSpec => []ShownFlagIsServed
BY CacheInvariant, PTL DEF CacheInv

\* What the promise sees of the cache.
PromiseVars ==
  <<Stage, Pending, entry.shown /\ entry.full, fetch.missed \cap (OwnWrites \ {"covered"}) # {}>>

(* One step of the cache is one step of ReadYourWrites, or none of its. *)
LEMMA StepImplementsPromise ==
  ASSUME CacheInv, [CacheNext]_cacheVars
  PROVE [Promise!Next]_PromiseVars
<1> USE DEF Stage, OwnWrites, CacheInv, CacheTypeOK, OwnWriteIsFlagged, RunningRequestIsAccountedFor
<1>1. CASE Mount \/ Unmount \/ Age \/ Poll \/ ServerAnswers
  <2>1. entry'.missed = entry.missed /\ entry'.invalid = entry.invalid /\ change' = change
    BY <1>1 DEF Mount, Unmount, Age, Poll, ServerAnswers
  <2>2. fetch'.missed = {} \/ fetch'.missed = fetch.missed
    BY <1>1 DEF Mount, Unmount, Age, Poll, ServerAnswers, NewFetch, NoFetch
  <2>3. UNCHANGED <<Stage, Pending>>
    BY <2>1 DEF Pending
  <2>4. Promise!Turn
    BY <2>2, <2>3 DEF Promise!Turn
  <2> QED BY <2>4 DEF Promise!Next
<1>2. CASE Collect
  <2>1. Promise!Refresh
    BY <1>2 DEF Collect, Promise!Refresh, Pending
  <2> QED BY <2>1 DEF Promise!Next
<1>3. CASE Land
  <2>1. Pending' = Pending
    BY <1>3 DEF Land, Pending
  <2>2. entry'.missed = fetch.missed /\ entry'.invalid = FALSE /\ fetch'.missed = {}
    BY <1>3 DEF Land, NoFetch
  <2>3. Promise!Refresh
    BY <2>1, <2>2 DEF Promise!Refresh
  <2> QED BY <2>3 DEF Promise!Next
<1>4. CASE FetchFails
  <2>1. Pending' = Pending /\ entry'.missed = entry.missed /\ entry'.invalid = entry.full
        /\ fetch'.missed = {} /\ entry'.shown = entry.shown /\ entry'.full = entry.full
    BY <1>4 DEF FetchFails, Pending, NoFetch
  <2>2. Promise!Turn \/ Promise!Flag
    BY <2>1 DEF Promise!Flag, Promise!Turn, MissedOnlyIfFull
  <2> QED BY <2>2 DEF Promise!Next
<1>5. CASE ForeignWrite
  <2>1. "foreign" \in Causes /\ Missing("foreign") /\ UNCHANGED change
    BY <1>5 DEF ForeignWrite, Causes
  <2>2. entry'.invalid = entry.invalid /\ entry'.missed \cap OwnWrites = entry.missed \cap OwnWrites
        /\ fetch'.missed \cap OwnWrites = fetch.missed \cap OwnWrites
    BY <2>1 DEF Missing
  <2>3. Promise!Turn
    BY <2>1, <2>2 DEF Pending, Promise!Turn
  <2> QED BY <2>3 DEF Promise!Next
<1>6. CASE Commit
  <2>1. change.at = "sent" /\ Missing(change.cause) /\ change' = [change EXCEPT !.at = "committed"]
    BY <1>6 DEF Commit
  <2>2. ~Pending
    BY <2>1 DEF Pending
  <2>3. /\ entry'.invalid = entry.invalid
        /\ entry'.shown = entry.shown /\ entry'.full = entry.full
        /\ entry'.missed \in {entry.missed, entry.missed \cup {change.cause}}
        /\ fetch'.missed \in {fetch.missed, fetch.missed \cup {change.cause}}
        /\ change.cause \in {"covered", "uncovered"}
    BY <2>1 DEF Missing
  <2>6. (fetch'.missed \cap (OwnWrites \ {"covered"}) # {})
          = (fetch.missed \cap (OwnWrites \ {"covered"}) # {})
    <3>1. fetch'.missed \cap (OwnWrites \ {"covered"}) = fetch.missed \cap (OwnWrites \ {"covered"})
      BY <2>3
    <3> QED BY <3>1
  <2>4. CASE change.cause = "covered"
    <3>1. Pending' = TRUE /\ Pending = FALSE
      BY <2>1, <2>4 DEF Pending
    <3>2. CASE entry'.missed = entry.missed
      <4>1. Stage' = Stage
        BY <2>3, <3>2
      <4> QED BY <2>3, <2>6, <3>1, <4>1 DEF Promise!Write, Promise!Next
    <3>3. CASE entry'.missed = entry.missed \cup {"covered"}
      <4>1. Stage' = IF entry.invalid THEN "flagged" ELSE "behind"
        BY <2>3, <3>3
      <4>2. Stage \in {"in step", "excused", "flagged"} /\ (Stage = "flagged" => entry.invalid)
        BY <2>2
      <4>3. Stage' = Stage \/ (Stage \in {"in step", "excused"} /\ Stage' \in {"behind", "flagged"})
        BY <4>1, <4>2
      <4> QED BY <2>3, <2>6, <3>1, <4>3 DEF Promise!Write, Promise!Next
    <3> QED BY <2>3, <2>4, <3>2, <3>3
  <2>5. CASE change.cause # "covered"
    <3>1. entry'.missed \cap OwnWrites = entry.missed \cap OwnWrites
          /\ ("covered" \in entry'.missed <=> "covered" \in entry.missed)
      BY <2>3, <2>5
    <3>2. Pending' = Pending
      BY <2>1, <2>5 DEF Pending
    <3>3. Stage' = Stage
      BY <2>3, <3>1
    <3>4. Promise!Turn
      BY <2>6, <3>2, <3>3 DEF Promise!Turn
    <3> QED BY <3>4 DEF Promise!Next
  <2> QED BY <2>4, <2>5
<1>7. ASSUME Invalidate(Crossing), Pending, ~Pending'
      PROVE Promise!Acknowledge
  <2>1. entry'.missed = entry.missed /\ entry'.invalid = entry.full
        /\ entry'.shown = entry.shown /\ entry'.full = entry.full
    BY <1>7 DEF Invalidate
  <2>2. entry.shown /\ entry.full => fetch'.missed = {}
    BY <1>7 DEF Invalidate, NewFetch
  <2>3. Pending = TRUE /\ Pending' = FALSE
    BY <1>7 DEF Pending
  <2> QED BY <2>1, <2>2, <2>3 DEF Promise!Acknowledge, MissedOnlyIfFull
<1>8. CASE Acknowledge
  <2>1. change.at = "committed" /\ change' = NoChange
    BY <1>8 DEF Acknowledge
  <2>2. CASE change.cause = "covered"
    <3>1. Invalidate(Crossing) /\ Pending /\ ~Pending'
      BY <1>8, <2>1, <2>2 DEF Acknowledge, Pending, NoChange
    <3> QED BY <1>7, <3>1 DEF Promise!Next
  <2>3. CASE change.cause # "covered"
    <3>1. Promise!Turn
      BY <1>8, <2>1, <2>3 DEF Acknowledge, Pending, NoChange, Promise!Turn
    <3> QED BY <3>1 DEF Promise!Next
  <2> QED BY <2>2, <2>3
<1>9. CASE Refuse
  <2>1. change.at = "sent" /\ change' = NoChange /\ entry'.missed = entry.missed
        /\ (entry'.invalid = entry.invalid \/ entry'.invalid = entry.full)
        /\ entry'.shown = entry.shown /\ entry'.full = entry.full
    BY <1>9 DEF Refuse, Invalidate
  <2>2. fetch'.missed = {} \/ fetch' = fetch
    BY <1>9 DEF Refuse, Invalidate, NewFetch
  <2>3. ~Pending /\ Pending = Pending'
    BY <2>1 DEF Pending, NoChange
  <2>4. Promise!Turn \/ Promise!Flag
    BY <2>1, <2>2, <2>3 DEF MissedOnlyIfFull, Promise!Turn, Promise!Flag
  <2> QED BY <2>4 DEF Promise!Next
<1>10. CASE LoseAnswer
  <2>1. change.at = "committed" /\ change' = NoChange
    BY <1>10 DEF LoseAnswer
  <2>2. Pending' = FALSE
    BY <2>1 DEF Pending, NoChange
  <2>3. CASE change.cause = "covered" /\ change.settles
    <3>1. Invalidate(Crossing) /\ Pending /\ ~Pending'
      BY <1>10, <2>1, <2>2, <2>3 DEF LoseAnswer, Pending
    <3> QED BY <1>7, <3>1 DEF Promise!Next
  <2>4. CASE ~(change.cause = "covered" /\ change.settles)
    <3>1. /\ entry'.invalid = entry.invalid
          /\ entry'.shown = entry.shown /\ entry'.full = entry.full
          /\ entry.invalid => entry'.missed = entry.missed
          /\ ~entry.invalid => entry'.missed = Blame(entry.missed, "covered", "unheard")
          /\ fetch'.missed = Blame(fetch.missed, "covered", "unheard")
      BY <1>10, <2>4 DEF LoseAnswer
    <3>2. CASE Pending
      <4>1. Pending = TRUE
        BY <3>2 DEF Pending
      <4>2. Stage' = IF Stage = "behind" THEN "excused" ELSE Stage
        BY <3>1 DEF Blame
      <4>3. Promise!Excuse
        BY <2>2, <3>1, <4>1, <4>2 DEF Promise!Excuse
      <4> QED BY <4>3 DEF Promise!Next
    <3>3. CASE ~Pending
      <4>1. entry'.missed = entry.missed /\ fetch'.missed = fetch.missed
        BY <3>1, <3>3 DEF Blame
      <4>2. Pending = FALSE
        BY <3>3 DEF Pending
      <4>3. Promise!Turn
        BY <2>2, <3>1, <4>1, <4>2 DEF Promise!Turn
      <4> QED BY <4>3 DEF Promise!Next
    <3> QED BY <3>2, <3>3
  <2> QED BY <2>3, <2>4
<1>11. CASE \E m \in Mutations : Send(m)
  <2>1. UNCHANGED <<entry, fetch>> /\ change.at = "none" /\ change'.at = "sent"
    BY <1>11 DEF Send
  <2>2. Promise!Turn
    BY <2>1 DEF Pending, Promise!Turn
  <2> QED BY <2>2 DEF Promise!Next
<1>12. CASE UNCHANGED cacheVars
  BY <1>12 DEF cacheVars, Pending, PromiseVars
<1> QED
  BY <1>1, <1>2, <1>3, <1>4, <1>5, <1>6, <1>8, <1>9, <1>10, <1>11, <1>12 DEF CacheNext

(* The cache implements ReadYourWrites, whatever the views and the writes. *)
THEOREM CacheKeepsThePromise == CacheSpec => KeepsThePromise
<1>1. CacheInit => Promise!Init
  <2>1. CacheInit => entry.missed = {} /\ entry.shown = FALSE
    BY DEF CacheInit
  <2>2. CacheInit => fetch.missed = {} /\ change.at = "none"
    BY DEF CacheInit, NoFetch, NoChange
  <2> QED BY <2>1, <2>2 DEF Promise!Init, Stage, OwnWrites, Pending
<1>2. CacheInv /\ [CacheNext]_cacheVars => [Promise!Next]_PromiseVars
  BY StepImplementsPromise
<1>3. CacheInv /\ [CacheNext]_cacheVars => [Promise!Next]_(Promise!vars)
  BY <1>2 DEF PromiseVars, Promise!vars
<1> QED BY <1>1, <1>3, CacheInvariant, PTL DEF CacheSpec, KeepsThePromise, Promise!Spec

-----------------------------------------------------------------------------
(* The editors.                                                               *)
(* What the table of editors guarantees.  One that sends what was pressed     *)
(* takes record and draft with the press.  One that creates once is refused   *)
(* twice, or has one save at a time whose success takes the draft away, or    *)
(* creates nothing.  One that keeps the order has one save at a time, or a    *)
(* save that works once, or saves no record.  And one whose answers end their *)
(* own form leaves it as it is, or cannot be left before.                     *)
Shape(e) == LET f == EditorOf[e] IN
  /\ f.ends \in {"closes", "clears", "keeps"}
  /\ e \in SendWhatWasPressed => f.aims = "press" /\ f.takes = "press"
  /\ e \notin {"packages", "groups"} =>
       f.unique \/ (~f.queues /\ ~f.lingers /\ f.ends # "keeps") \/ (~f.creates /\ f.aims = "press")
  /\ e \notin {"groupNames", "skillNames", "attributes", "attributeNames", "lags"} =>
       ~f.queues \/ f.removes \/ (~f.edits /\ f.aims = "press")
  /\ e \in EndTheirOwnForm =>
       (f.ends = "keeps" /\ ~f.lingers) \/ (f.pinned /\ f.overlay /\ ~f.queues /\ ~f.fetches)

\* Read off the table, editor by editor.
LEMMA ShapeOf ==
  ASSUME NEW e \in DOMAIN EditorOf
  PROVE  Shape(e)
<1> USE DEF Shape, EditorOf, Questions, SendWhatWasPressed, EndTheirOwnForm, Dialog
<1>1. Shape("assignments")  BY DEF AssignmentsEditor, Forgetting, RecordOfTheScreen
<1>2. Shape("packages")  BY DEF PackagesEditor, Forgetting, RecordOfTheScreen
<1>3. Shape("projects")  BY DEF ProjectsEditor, Forgetting, RecordOfTheScreen
<1>4. Shape("users")  BY DEF UsersEditor, Forgetting, RecordOfTheScreen
<1>5. Shape("holidays")  BY DEF HolidaysEditor, Forgetting, RecordOfTheScreen
<1>6. Shape("sites")  BY DEF SitesEditor, RecordOfTheScreen
<1>7. Shape("profiles")  BY DEF ProfilesEditor, RecordOfTheScreen
<1>8. Shape("resources")  BY DEF ResourcesEditor, RecordOfTheScreen
<1>9. Shape("templates")  BY DEF TemplatesEditor, RecordOfTheScreen
<1>10. Shape("links")  BY DEF LinksEditor, RecordOfTheScreen
<1>11. Shape("baselines")  BY DEF BaselinesEditor
<1>12. Shape("customers")  BY DEF CustomersEditor
<1>13. Shape("password")  BY DEF PasswordEditor
<1>14. Shape("absences")  BY DEF AbsencesEditor
<1>15. Shape("bindings")  BY DEF BindingsEditor
<1>16. Shape("windows")  BY DEF WindowsEditor
<1>17. Shape("resolution")  BY DEF ResolutionEditor
<1>18. Shape("folders")  BY DEF FoldersEditor
<1>19. Shape("groupNames")  BY DEF GroupNamesEditor, RowField
<1>20. Shape("groups")  BY DEF GroupsEditor, RowField
<1>21. Shape("skillNames")  BY DEF SkillNamesEditor, RowField
<1>22. Shape("skills")  BY DEF SkillsEditor, RowField
<1>23. Shape("attributes")  BY DEF AttributesEditor, RowField
<1>24. Shape("attributeNames")  BY DEF AttributeNamesEditor, RowField
<1>25. Shape("lags")  BY DEF LagsEditor, RowField
<1>26. Shape("deletion")  BY DEF AssignmentDeletion, Question
<1>27. Shape("packageDeletion")  BY DEF PackageDeletion, Question
<1>28. Shape("projectDeletion")  BY DEF ProjectDeletion, Question
<1>29. Shape("deactivation")  BY DEF UserDeactivation, Question
<1>30. Shape("userDeletion")  BY DEF UserDeletion, Question
<1>31. Shape("resourceDeletion")  BY DEF ResourceDeletion, Question
<1>32. Shape("folderDeletion")  BY DEF FolderDeletion, Question
<1>33. DOMAIN EditorOf =
       {"assignments", "packages", "projects", "users", "holidays", "sites",
        "profiles", "resources", "templates", "links", "baselines", "customers",
        "password", "absences", "bindings", "windows", "resolution", "folders",
        "groupNames", "groups", "skillNames", "skills", "attributes",
        "attributeNames", "lags", "deletion", "packageDeletion", "projectDeletion",
        "deactivation", "userDeletion", "resourceDeletion", "folderDeletion"}
  BY DEF EditorOf
<1> HIDE DEF Shape, EditorOf, Questions, SendWhatWasPressed, EndTheirOwnForm, Dialog
<1> QED  BY <1>1, <1>2, <1>3, <1>4, <1>5, <1>6, <1>7, <1>8, <1>9, <1>10, <1>11, <1>12,
     <1>13, <1>14, <1>15, <1>16, <1>17, <1>18, <1>19, <1>20, <1>21, <1>22, <1>23, <1>24,
     <1>25, <1>26, <1>27, <1>28, <1>29, <1>30, <1>31, <1>32, <1>33

Content == [record : Records \cup {New}, draft : Nat]
Save == [at : {"held", "sent", "committed", "landed", "over"}, turn : 1..MaxTurns,
         wanted : Content, sends : Content \cup {Nothing}]
Screen == [shown : BOOLEAN, record : Records \cup {New}, turn : 0..MaxTurns, draft : Nat]

EditorsTyped ==
  /\ editor \in DOMAIN EditorOf /\ open \in Screen /\ opening \subseteq Records
  /\ saves \in [Pressed -> Save]
  /\ \E n \in 0..MaxPresses : Pressed = 1..n /\ rows \in [Records -> 0..n]
  /\ made \subseteq [press : Pressed, draft : Nat, turn : 1..MaxTurns] /\ told \subseteq 1..MaxTurns

\* What is open, being opened or wanted can be opened in this editor.
OpenIsOpenable ==
  /\ open.shown => open.record \in Openable /\ open.turn # 0
  /\ opening \subseteq Openable /\ (~Form.fetches => opening = {})
  /\ \A n \in Pressed : saves[n].wanted.record \in Openable

\* What a save sends was on the screen at its press or later.
SavesAreOfTheScreen ==
  \A n \in Pressed :
    /\ saves[n].wanted.draft <= open.draft
    /\ IF saves[n].at = "held" THEN saves[n].sends = Nothing
       ELSE saves[n].sends \in Content
    /\ saves[n].at # "held" =>
       /\ saves[n].wanted.draft <= saves[n].sends.draft /\ saves[n].sends.draft <= open.draft
       /\ Form.aims = "press" => saves[n].sends.record = saves[n].wanted.record
       /\ Form.takes = "press" => saves[n].sends.draft = saves[n].wanted.draft

\* Where Save is locked while a save is under way, only the last press is.
OneUnderWay ==
  ~Form.queues => \A n, k \in Pressed : n < k => saves[n].at = "over"

\* A pinned form stays until its own save has landed.
Pins(f) == f.pinned /\ f.overlay /\ ~f.queues /\ ~f.fetches
PinnedUntilLanded ==
  Pins(Form) => \A n \in Pressed :
    saves[n].at \in {"held", "sent", "committed"} => open.shown /\ saves[n].turn = open.turn

\* A record was made by one committed save, of its draft and in its turn.
MadeBySaves ==
  /\ \A m \in made : /\ saves[m.press].at \notin {"held", "sent"}
                     /\ saves[m.press].sends.record = New /\ saves[m.press].sends.draft = m.draft
                     /\ saves[m.press].turn = m.turn
  /\ \A a, b \in made : a.press = b.press => a = b

\* A draft whose save has landed is gone from the screen and in no later save.
DraftsAreUsedUp ==
  /\ ~Form.queues /\ ~Form.lingers /\ Form.ends # "keeps" =>
       \A m \in made : \/ m.turn \in told
                       \/ /\ open.shown /\ saves[m.press].at # "committed" => m.draft < open.draft
                          /\ \A n \in Pressed : m.press < n => m.draft < saves[n].wanted.draft
  /\ Form.unique => \A a, b \in made : a.draft = b.draft => a = b

\* Drafts beyond the bound are those that a success made way for.
Landed == {n \in Pressed : saves[n].at \in {"landed", "over"}}
DraftsAreBounded == open.draft <= MaxDrafts + Cardinality(Landed)

EditorsInv ==
  /\ EditorsTyped /\ OpenIsOpenable /\ SavesAreOfTheScreen /\ OneUnderWay /\ PinnedUntilLanded
  /\ MadeBySaves /\ DraftsAreUsedUp /\ DraftsAreBounded

\* Nothing is open, pressed or made at the start.
LEMMA EditorsStart == (EditorsInit \/ StillEditors) => EditorsInv
<1> SUFFICES ASSUME EditorsInit \/ StillEditors PROVE EditorsInv
  OBVIOUS
<1>1. /\ editor \in DOMAIN EditorOf /\ open = Closed /\ opening = {} /\ saves = <<>>
      /\ rows = [r \in Records |-> 0] /\ made = {} /\ told = {}
  BY DEF EditorsInit, StillEditors, EditorOf
<1>2. Pressed = {} /\ Pressed = 1..0 /\ saves \in [Pressed -> Save]
  BY <1>1 DEF Pressed
<1>3. open \in Screen /\ open.shown = FALSE /\ open.draft = 0
  BY <1>1, EditorsAssumption DEF Closed, Screen
<1>4. Cardinality(Landed) = 0
  <2>1. Landed = {}
    BY <1>2 DEF Landed
  <2> QED  BY <2>1, FS_EmptySet
<1>5. EditorsTyped
  <2>1. 0 \in 0..MaxPresses /\ rows \in [Records -> 0..0]
    BY <1>1, EditorsAssumption
  <2> QED  BY <1>1, <1>2, <1>3, <2>1 DEF EditorsTyped
<1>6. DraftsAreBounded
  BY <1>3, <1>4, EditorsAssumption DEF DraftsAreBounded
<1> QED
  BY <1>1, <1>2, <1>3, <1>5, <1>6 DEF EditorsInv, OpenIsOpenable, SavesAreOfTheScreen, OneUnderWay,
     PinnedUntilLanded, MadeBySaves, DraftsAreUsedUp

\* The presses are numbered from one on.
LEMMA PressesAreCounted ==
  ASSUME EditorsTyped
  PROVE  /\ IsFiniteSet(Pressed) /\ Cardinality(Pressed) \in 0..MaxPresses
         /\ Pressed = 1..Cardinality(Pressed) /\ rows \in [Records -> 0..Cardinality(Pressed)]
<1>1. PICK n \in 0..MaxPresses : Pressed = 1..n /\ rows \in [Records -> 0..n]
  BY DEF EditorsTyped
<1>2. n \in Nat /\ IsFiniteSet(1..n) /\ Cardinality(1..n) = n
  BY FS_Interval, EditorsAssumption
<1> QED  BY <1>1, <1>2

\* At most as many saves have landed as were pressed.
LEMMA LandedAreFinite ==
  ASSUME EditorsTyped
  PROVE  IsFiniteSet(Landed) /\ Cardinality(Landed) \in 0..MaxPresses
<1>1. IsFiniteSet(Landed) /\ Cardinality(Landed) <= Cardinality(Pressed)
  BY PressesAreCounted, FS_Subset DEF Landed
<1> QED  BY <1>1, PressesAreCounted, FS_CardinalityType, EditorsAssumption

(* A step that only looks: it opens, leaves or edits a form.                  *)
LEMMA LookingStep ==
  ASSUME EditorsInv, UNCHANGED <<editor, saves, rows, made, told>>,
         opening' \subseteq Openable \cap Records, ~Form.fetches => opening' = {},
         open' \in Screen, open.draft <= open'.draft,
         open'.draft <= MaxDrafts \/ open'.draft = open.draft,
         open'.shown => open'.record \in Openable /\ open'.turn # 0,
         open'.shown => open.shown \/ open.draft < open'.draft,
         Pins(Form) /\ open.shown => open'.shown /\ open'.turn = open.turn
  PROVE  EditorsInv'
<1> USE DEF EditorsInv
<1>f. Form' = Form /\ Openable' = Openable /\ Pressed' = Pressed /\ Landed' = Landed
  BY DEF Form, Openable, Pressed, Landed
<1>t. open \in Screen /\ saves \in [Pressed -> Save]
      /\ made \subseteq [press : Pressed, draft : Nat, turn : 1..MaxTurns]
  BY DEF EditorsTyped
<1>n. open.draft \in Nat /\ open'.draft \in Nat
  BY <1>t DEF Screen
<1>s. \A n \in Pressed : saves[n].wanted.draft \in Nat
                        /\ (saves[n].sends \in Content => saves[n].sends.draft \in Nat)
  BY <1>t DEF Save, Content
<1>1. EditorsTyped'
  BY <1>f DEF EditorsTyped
<1>2. OpenIsOpenable'
  BY <1>f DEF OpenIsOpenable
<1>3. SavesAreOfTheScreen'
  BY <1>f, <1>n, <1>s DEF SavesAreOfTheScreen
<1>4. OneUnderWay' /\ MadeBySaves'
  BY <1>f DEF OneUnderWay, MadeBySaves
<1>5. PinnedUntilLanded'
  BY <1>f DEF PinnedUntilLanded
<1>6. DraftsAreUsedUp'
  <2>1. \A m \in made : m.draft \in Nat
    BY <1>t
  <2>2. \A m \in made : m.press \in Pressed /\ saves[m.press].at \notin {"held", "sent"}
    BY <1>t DEF MadeBySaves
  <2>3. \A m \in made : m.draft <= open.draft
    BY <2>2 DEF MadeBySaves, SavesAreOfTheScreen
  <2>4. \A m \in made : open'.shown /\ (open.shown => m.draft < open.draft) => m.draft < open'.draft
    BY <1>n, <2>1, <2>3
  <2> QED  BY <1>f, <2>4 DEF DraftsAreUsedUp
<1>7. DraftsAreBounded'
  <2>1. Cardinality(Landed) \in Nat
    BY LandedAreFinite, FS_CardinalityType
  <2> QED  BY <1>f, <1>n, <2>1, EditorsAssumption DEF DraftsAreBounded
<1> QED  BY <1>1, <1>2, <1>3, <1>4, <1>5, <1>6, <1>7

\* Opening, reading, leaving and editing a form are such steps.
LEMMA LooksAreSteps ==
  ASSUME EditorsInv,
         \/ \E r \in Records \cup {New} : OpenForm(r) \/ RecordRead(r) \/ RecordNotRead(r)
         \/ LeaveForm \/ EditForm
  PROVE  EditorsInv'
<1> USE DEF EditorsInv
<1>t. open \in Screen /\ open.draft \in Nat /\ opening \subseteq Records /\ opening \subseteq Openable
      /\ open.shown \in BOOLEAN /\ open.turn \in 0..MaxTurns
  BY DEF EditorsTyped, OpenIsOpenable, Screen
<1>o. open.shown => open.record \in Openable /\ open.turn # 0
  BY DEF OpenIsOpenable
<1>s. ASSUME NEW r \in Records \cup {New}, Shows(r)
      PROVE  /\ open' \in Screen /\ open.draft < open'.draft /\ open.draft <= open'.draft
             /\ open'.draft <= MaxDrafts /\ open'.record = r /\ open'.turn # 0
  BY <1>s, <1>t, EditorsAssumption DEF Shows, Screen
<1>1. ASSUME NEW r \in Records \cup {New}, OpenForm(r) PROVE EditorsInv'
  <2>1. CASE Form.fetches /\ r # New
    <3>1. opening' = opening \cup {r} /\ r \in Openable /\ UNCHANGED open
      BY <1>1, <2>1 DEF OpenForm
    <3> QED  BY <1>1, <1>t, <1>o, <2>1, <3>1, LookingStep DEF OpenForm
  <2>2. CASE ~(Form.fetches /\ r # New)
    <3>1. Shows(r) /\ UNCHANGED opening /\ r \in Openable
          /\ ~(open.shown /\ Form.overlay)
      BY <1>1, <2>2 DEF OpenForm
    <3>2. ~(Pins(Form) /\ open.shown) /\ (~Form.fetches => opening = {})
      BY <3>1 DEF Pins, OpenIsOpenable
    <3>3. /\ open' \in Screen /\ open.draft <= open'.draft /\ open.draft < open'.draft
          /\ open'.draft <= MaxDrafts /\ open'.record \in Openable /\ open'.turn # 0
          /\ opening' \subseteq Openable \cap Records
      <4>1. opening' \subseteq Openable \cap Records
        BY <1>t, <3>1
      <4> QED  BY <1>s, <3>1, <4>1
    <3>4. UNCHANGED <<editor, saves, rows, made, told>>
      BY <1>1 DEF OpenForm
    <3> QED  BY <1>t, <3>1, <3>2, <3>3, <3>4, LookingStep
  <2> QED  BY <2>1, <2>2
<1>2. ASSUME NEW r \in Records \cup {New}, RecordRead(r) PROVE EditorsInv'
  <2>1. r \in opening /\ opening' \subseteq opening /\ r \in Openable /\ Form.fetches
        /\ ~Pins(Form)
    BY <1>2, <1>t DEF RecordRead, OpenIsOpenable, Pins
  <2>2. CASE UNCHANGED open
    BY <1>2, <1>t, <1>o, <2>1, <2>2, LookingStep DEF RecordRead
  <2>3. CASE Shows(r)
    <3>1. /\ open' \in Screen /\ open.draft <= open'.draft /\ open.draft < open'.draft
          /\ open'.draft <= MaxDrafts /\ open'.record \in Openable /\ open'.turn # 0
      BY <1>s, <2>1, <2>3
    <3>2. UNCHANGED <<editor, saves, rows, made, told>> /\ opening' \subseteq Openable \cap Records
      BY <1>2, <1>t, <2>1 DEF RecordRead
    <3> QED  BY <2>1, <3>1, <3>2, LookingStep
  <2> QED  BY <1>2, <2>2, <2>3 DEF RecordRead
<1>3. ASSUME NEW r \in Records \cup {New}, RecordNotRead(r) PROVE EditorsInv'
  <2>1. opening' \subseteq opening /\ Form.fetches
    BY <1>3 DEF RecordNotRead, OpenIsOpenable
  <2> QED  BY <1>3, <1>t, <1>o, <2>1, LookingStep DEF RecordNotRead
<1>4. CASE LeaveForm
  <2>1. open' \in Screen /\ open'.shown = FALSE /\ open'.draft = open.draft /\ ~Pins(Form)
    BY <1>4, <1>t DEF LeaveForm, Left, Screen, Pins
  <2> QED  BY <1>4, <1>t, <2>1, LookingStep DEF LeaveForm, OpenIsOpenable
<1>5. CASE EditForm
  <2>1. open' \in Screen /\ open'.draft = open.draft + 1 /\ open'.draft <= MaxDrafts
        /\ open'.shown = open.shown /\ open'.record = open.record /\ open'.turn = open.turn
    <3>1. open' = [open EXCEPT !.draft = @ + 1] /\ open.draft < MaxDrafts /\ MaxDrafts \in Nat
      BY <1>5, EditorsAssumption DEF EditForm
    <3> QED  BY <1>t, <3>1 DEF Screen
  <2> QED  BY <1>5, <1>t, <1>o, <2>1, LookingStep DEF EditForm, OpenIsOpenable
<1> QED  BY <1>1, <1>2, <1>3, <1>4, <1>5

(* Save is pressed: the new save is the last, and what it wants is on screen. *)
LEMMA PressStep ==
  ASSUME EditorsInv, PressSave
  PROVE  EditorsInv'
<1> USE DEF EditorsInv
<1> DEFINE k == Cardinality(Pressed)
<1>k. k \in Nat /\ k + 1 \in 0..MaxPresses /\ Pressed = 1..k /\ rows \in [Records -> 0..k]
  BY PressesAreCounted, EditorsAssumption DEF PressSave
<1> HIDE DEF k
<1>t. open \in Screen /\ saves \in [Pressed -> Save] /\ open.draft \in Nat /\ open.shown = TRUE
      /\ open.record \in Openable /\ open.turn \in 1..MaxTurns
  BY DEF EditorsTyped, OpenIsOpenable, Screen, PressSave
<1>p. PICK at \in {"held", "sent"} :
        saves' = [n \in Pressed \cup {k + 1} |->
                   IF n \in Pressed THEN saves[n]
                   ELSE [at |-> at, turn |-> open.turn, wanted |-> OnScreen,
                         sends |-> IF at = "sent" THEN OnScreen ELSE Nothing]]
  BY DEF PressSave, k
<1>u. UNCHANGED <<editor, open, opening, rows, made, told>> /\ (Form.queues \/ UnderWay = {})
  BY DEF PressSave
<1>c. OnScreen \in Content /\ OnScreen.record = open.record /\ OnScreen.draft = open.draft
  BY <1>t DEF OnScreen, Content, Screen
<1>d. Pressed' = 1 .. k + 1 /\ k + 1 \notin Pressed
  BY <1>k, <1>p DEF Pressed
<1>s. /\ \A n \in Pressed : saves'[n] = saves[n]
      /\ saves'[k + 1] \in Save /\ saves'[k + 1].at = at /\ saves'[k + 1].turn = open.turn
      /\ saves'[k + 1].wanted = OnScreen
      /\ saves'[k + 1].sends = IF at = "sent" THEN OnScreen ELSE Nothing
  <2>1. \A n \in Pressed : saves'[n] = saves[n]
    BY <1>p
  <2>2. saves'[k + 1] = [at |-> at, turn |-> open.turn, wanted |-> OnScreen,
                         sends |-> IF at = "sent" THEN OnScreen ELSE Nothing]
    BY <1>p, <1>d
  <2> QED  BY <1>t, <1>c, <2>1, <2>2 DEF Save
<1>e. \A n \in 1 .. k + 1 : n \in Pressed \/ n = k + 1
  BY <1>k
<1>f. Form' = Form /\ Openable' = Openable
  BY <1>u DEF Form, Openable
<1>m. made \subseteq [press : Pressed, draft : Nat, turn : 1..MaxTurns]
  BY DEF EditorsTyped
<1>1. EditorsTyped'
  <2>1. saves' \in [Pressed' -> Save]
    <3>1. \A n \in Pressed' : saves'[n] \in Save
      BY <1>t, <1>d, <1>e, <1>s
    <3>2. saves' = [n \in Pressed' |-> saves'[n]]
      BY <1>p, <1>d, <1>k
    <3> QED  BY <3>1, <3>2
  <2>2. rows' \in [Records -> 0 .. k + 1]
    BY <1>k, <1>u
  <2>3. made' \subseteq [press : Pressed', draft : Nat, turn : 1..MaxTurns]
    <3>1. Pressed \subseteq Pressed'
      BY <1>k, <1>d
    <3> QED  BY <1>m, <1>u, <3>1
  <2> QED  BY <1>d, <1>k, <1>u, <2>1, <2>2, <2>3 DEF EditorsTyped
<1>2. OpenIsOpenable'
  BY <1>u, <1>f, <1>d, <1>e, <1>s, <1>c, <1>t DEF OpenIsOpenable
<1>3. SavesAreOfTheScreen'
  <2>1. ASSUME NEW n \in Pressed' PROVE n \in Pressed \/ n = k + 1
    BY <1>d, <1>e
  <2> QED  BY <1>u, <1>f, <1>s, <1>c, <1>t, <2>1 DEF SavesAreOfTheScreen
<1>4. OneUnderWay'
  <2>1. ASSUME NEW n \in Pressed', NEW l \in Pressed', n < l, ~Form.queues
        PROVE  saves'[n].at = "over"
    <3>1. n \in Pressed
      BY <1>d, <1>e, <1>k, <2>1
    <3> QED  BY <1>s, <1>u, <2>1, <3>1 DEF UnderWay
  <2> QED  BY <1>f, <2>1 DEF OneUnderWay
<1>5. PinnedUntilLanded'
  <2>1. ASSUME NEW n \in Pressed', Pins(Form), saves'[n].at \in {"held", "sent", "committed"}
        PROVE  open.shown /\ saves'[n].turn = open.turn
    BY <1>d, <1>e, <1>s, <1>t, <2>1 DEF PinnedUntilLanded
  <2> QED  BY <1>f, <1>u, <2>1 DEF PinnedUntilLanded
<1>6. MadeBySaves'
  <2>1. \A m \in made : saves'[m.press] = saves[m.press]
    BY <1>m, <1>s
  <2> QED  BY <1>u, <2>1 DEF MadeBySaves
<1>7. DraftsAreUsedUp'
  <2>1. \A m \in made : m.press \in Pressed /\ saves'[m.press] = saves[m.press]
    BY <1>m, <1>s
  <2>2. ASSUME NEW m \in made, ~Form.queues, ~Form.lingers, Form.ends # "keeps", m.turn \notin told
        PROVE  m.draft < open.draft /\ \A n \in Pressed' : m.press < n => m.draft < saves'[n].wanted.draft
    <3>1. saves[m.press].at = "over"
      BY <1>u, <2>1, <2>2 DEF UnderWay
    <3>2. m.draft < open.draft /\ \A n \in Pressed : m.press < n => m.draft < saves[n].wanted.draft
      BY <1>t, <2>2, <3>1 DEF DraftsAreUsedUp
    <3> QED  BY <1>d, <1>e, <1>s, <1>c, <3>2
  <2> QED  BY <1>u, <1>f, <2>1, <2>2 DEF DraftsAreUsedUp
<1>8. DraftsAreBounded'
  <2>1. Landed' = Landed
    <3>1. \A n : n \in Landed' <=> n \in Landed
      BY <1>d, <1>e, <1>k, <1>s DEF Landed
    <3> QED  BY <3>1
  <2> QED  BY <1>u, <2>1 DEF DraftsAreBounded
<1> QED  BY <1>1, <1>2, <1>3, <1>4, <1>5, <1>6, <1>7, <1>8

\* What else a save is stays as it is when it gets on.
LEMMA BecomingFacts ==
  ASSUME saves \in [Pressed -> Save], NEW n \in Pressed,
         NEW at \in {"held", "sent", "committed", "landed", "over"}, SaveBecomes(n, at)
  PROVE  /\ Pressed' = Pressed /\ saves' \in [Pressed -> Save] /\ saves'[n].at = at
         /\ \A k \in Pressed : k # n => saves'[k] = saves[k]
         /\ \A k \in Pressed : /\ saves'[k].turn = saves[k].turn /\ saves'[k].sends = saves[k].sends
                               /\ saves'[k].wanted = saves[k].wanted
<1>1. saves' = [saves EXCEPT ![n].at = at] /\ saves[n] \in Save
  BY DEF SaveBecomes
<1>2. [saves[n] EXCEPT !.at = at] \in Save /\ [saves[n] EXCEPT !.at = at].at = at
  BY <1>1 DEF Save
<1>3. saves'[n] = [saves[n] EXCEPT !.at = at] /\ \A k \in Pressed : k # n => saves'[k] = saves[k]
  BY <1>1
<1>4. Pressed' = Pressed /\ saves' \in [Pressed -> Save]
  BY <1>1, <1>2 DEF Pressed
<1>5. /\ saves'[n].turn = saves[n].turn /\ saves'[n].sends = saves[n].sends
      /\ saves'[n].wanted = saves[n].wanted
  BY <1>1, <1>3 DEF Save
<1> QED  BY <1>2, <1>3, <1>4, <1>5

(* A save gets its answer: it is over, or it has landed and may have taken    *)
(* the form or its draft away.                                                *)
LEMMA AnswerStep ==
  ASSUME EditorsInv, NEW n \in Pressed, saves[n].at \in {"sent", "committed", "landed"},
         NEW at \in {"landed", "over"}, SaveBecomes(n, at),
         UNCHANGED <<editor, opening, rows, made>>, told \subseteq told', told' \subseteq 1..MaxTurns,
         open' \in Screen,
         open'.shown => open.shown /\ open'.record = open.record /\ open'.turn = open.turn,
         \/ open'.draft = open.draft
         \/ open'.draft = open.draft + 1 /\ saves[n].at = "committed",
         \/ saves[n].turn \in told' \/ saves[n].at = "landed"
         \/ ~Form.lingers /\ Form.ends # "keeps" /\ open'.shown => open'.draft = open.draft + 1
  PROVE  EditorsInv'
<1> USE DEF EditorsInv
<1>t. open \in Screen /\ saves \in [Pressed -> Save] /\ open.draft \in Nat /\ open'.draft \in Nat
      /\ made \subseteq [press : Pressed, draft : Nat, turn : 1..MaxTurns]
  BY DEF EditorsTyped, Screen
<1>b. /\ Pressed' = Pressed /\ saves' \in [Pressed -> Save] /\ saves'[n].at = at
      /\ \A k \in Pressed : k # n => saves'[k] = saves[k]
      /\ \A k \in Pressed : /\ saves'[k].turn = saves[k].turn /\ saves'[k].sends = saves[k].sends
                            /\ saves'[k].wanted = saves[k].wanted
  BY <1>t, BecomingFacts
<1>f. Form' = Form /\ Openable' = Openable
  BY DEF Form, Openable
<1>p. Pressed \subseteq Nat
  BY DEF EditorsTyped
<1>d. \A k \in Pressed : saves[k].wanted.draft \in Nat
                        /\ (saves[k].sends \in Content => saves[k].sends.draft \in Nat)
  BY <1>t DEF Save, Content
<1>1. EditorsTyped'
  BY <1>b, <1>f DEF EditorsTyped
<1>2. OpenIsOpenable'
  BY <1>b, <1>f DEF OpenIsOpenable
<1>3. SavesAreOfTheScreen'
  <2>1. ASSUME NEW k \in Pressed
        PROVE  (saves'[k].at = "held" <=> saves[k].at = "held") /\ open.draft <= open'.draft
    BY <1>t, <1>b
  <2>2. ASSUME NEW k \in Pressed
        PROVE  /\ saves[k].wanted.draft <= open'.draft
               /\ saves[k].at # "held" => saves[k].sends.draft <= open'.draft
    BY <1>t, <1>d, <2>1 DEF SavesAreOfTheScreen
  <2> QED  BY <1>b, <1>f, <2>1, <2>2 DEF SavesAreOfTheScreen
<1>4. OneUnderWay'
  <2>1. ASSUME NEW k \in Pressed, NEW l \in Pressed, k < l, ~Form.queues PROVE saves'[k].at = "over"
    BY <1>b, <2>1 DEF OneUnderWay
  <2> QED  BY <1>b, <1>f, <2>1 DEF OneUnderWay
<1>5. PinnedUntilLanded'
  <2>1. ASSUME NEW k \in Pressed, Pins(Form) PROVE saves'[k].at \in {"landed", "over"}
    <3>1. k # n => k < n \/ n < k
      BY <1>p
    <3>2. k < n => saves[k].at = "over"
      BY <2>1 DEF OneUnderWay, Pins
    <3>3. ~(n < k)
      BY <2>1 DEF OneUnderWay, Pins
    <3> QED  BY <1>b, <3>1, <3>2, <3>3
  <2> QED  BY <1>b, <1>f, <2>1 DEF PinnedUntilLanded
<1>6. MadeBySaves'
  <2>1. ASSUME NEW m \in made PROVE m.press \in Pressed /\ saves'[m.press].at \notin {"held", "sent"}
    BY <1>t, <1>b DEF MadeBySaves
  <2> QED  BY <1>b, <2>1 DEF MadeBySaves
<1>7. DraftsAreUsedUp'
  <2>1. ASSUME NEW m \in made
        PROVE  /\ m.press \in Pressed /\ m.draft \in Nat /\ m.turn = saves[m.press].turn
               /\ saves[m.press].at \notin {"held", "sent"} /\ m.draft <= open.draft
    <3>1. m.press \in Pressed /\ m.draft \in Nat
      BY <1>t
    <3> QED  BY <3>1 DEF MadeBySaves, SavesAreOfTheScreen
  <2>2. ASSUME NEW m \in made, ~Form.queues, ~Form.lingers, Form.ends # "keeps", m.turn \notin told',
               open'.shown, saves'[m.press].at # "committed"
        PROVE  m.draft < open'.draft
    <3>1. CASE m.press # n \/ saves[n].at = "landed"
      <4>1. saves[m.press].at # "committed"
        BY <1>b, <2>1, <2>2, <3>1
      <4>2. m.draft < open.draft
        BY <2>2, <4>1 DEF DraftsAreUsedUp
      <4> QED  BY <1>t, <2>1, <4>2
    <3>2. CASE m.press = n /\ saves[n].at # "landed"
      BY <1>t, <2>1, <2>2, <3>2
    <3> QED  BY <3>1, <3>2
  <2> QED  BY <1>b, <1>f, <2>2 DEF DraftsAreUsedUp
<1>8. DraftsAreBounded'
  <2>1. Landed' = Landed \cup {n}
    BY <1>b DEF Landed
  <2>2. IsFiniteSet(Landed) /\ Cardinality(Landed) \in Nat
    BY LandedAreFinite, FS_CardinalityType
  <2>3. /\ Cardinality(Landed) <= Cardinality(Landed')
        /\ n \notin Landed => Cardinality(Landed') = Cardinality(Landed) + 1
    <3>1. CASE n \in Landed
      <4>1. Landed' = Landed
        BY <2>1, <3>1
      <4> QED  BY <2>2, <3>1, <4>1
    <3>2. CASE n \notin Landed
      <4>1. Cardinality(Landed') = Cardinality(Landed) + 1
        BY <2>1, <2>2, <3>2, FS_AddElement
      <4> QED  BY <2>2, <4>1
    <3> QED  BY <3>1, <3>2
  <2>4. saves[n].at = "committed" => n \notin Landed
    BY DEF Landed
  <2>5. Cardinality(Landed') \in Nat
    BY <2>1, <2>2, FS_AddElement, FS_CardinalityType
  <2> QED  BY <1>t, <2>2, <2>3, <2>4, <2>5, EditorsAssumption DEF DraftsAreBounded
<1> QED  BY <1>1, <1>2, <1>3, <1>4, <1>5, <1>6, <1>7, <1>8

\* Sending, failing, landing and settling are such steps.
LEMMA AnswersAreSteps ==
  ASSUME EditorsInv, NEW n \in Pressed, SaveFails(n) \/ SaveLands(n) \/ SaveSettles(n)
  PROVE  EditorsInv'
<1> USE DEF EditorsInv
<1>t. open \in Screen /\ open.draft \in Nat /\ saves[n].turn \in 1..MaxTurns /\ told \subseteq 1..MaxTurns
  BY DEF EditorsTyped, Screen, Save
<1>1. CASE SaveFails(n)
  BY <1>1, <1>t, AnswerStep DEF SaveFails
<1>2. CASE SaveSettles(n)
  BY <1>2, <1>t, AnswerStep DEF SaveSettles
<1>3. CASE SaveLands(n)
  <2>1. /\ saves[n].at = "committed" /\ SaveBecomes(n, "landed")
        /\ UNCHANGED <<editor, opening, rows, made, told>>
        /\ open' = AfterSuccess \/ (Form.lingers /\ open' = open)
    BY <1>3 DEF SaveLands
  <2>2. CASE Form.lingers /\ open' = open
    BY <1>t, <2>1, <2>2, AnswerStep
  <2>3. CASE open' = AfterSuccess
    <3>0. Form.ends \in {"closes", "clears", "keeps"}
      BY ShapeOf DEF EditorsTyped, Shape, Form
    <3>1. CASE Form.ends = "closes"
      <4>1. open' = Left
        BY <2>3, <3>1 DEF AfterSuccess
      <4>2. open' \in Screen /\ open'.shown = FALSE /\ open'.draft = open.draft
        BY <4>1, <1>t DEF Left, Screen
      <4> QED  BY <1>t, <2>1, <4>2, AnswerStep
    <3>2. CASE Form.ends = "clears"
      <4>1. open' = [open EXCEPT !.draft = @ + 1]
        BY <2>3, <3>2 DEF AfterSuccess
      <4>2. open' \in Screen /\ open'.shown = open.shown /\ open'.draft = open.draft + 1
            /\ open'.record = open.record /\ open'.turn = open.turn
        BY <4>1, <1>t DEF Screen
      <4> QED  BY <1>t, <2>1, <4>2, AnswerStep
    <3>3. CASE Form.ends = "keeps"
      <4>1. open' = open
        BY <2>3, <3>3 DEF AfterSuccess
      <4> QED  BY <1>t, <2>1, <3>3, <4>1, AnswerStep
    <3> QED  BY <3>0, <3>1, <3>2, <3>3
  <2> QED  BY <2>1, <2>2, <2>3
<1> QED  BY <1>1, <1>2, <1>3

(* A held save leaves, with what the screen has now where the mutation reads  *)
(* it from there.                                                             *)
LEMMA LeavingStep ==
  ASSUME EditorsInv, NEW n \in Pressed, SaveLeaves(n)
  PROVE  EditorsInv'
<1> USE DEF EditorsInv
<1>t. open \in Screen /\ saves \in [Pressed -> Save] /\ open.draft \in Nat
      /\ open.record \in Records \cup {New} /\ saves[n] \in Save /\ saves[n].at = "held"
      /\ made \subseteq [press : Pressed, draft : Nat, turn : 1..MaxTurns]
  BY DEF EditorsTyped, Screen, SaveLeaves
<1> DEFINE sent == [record |-> IF Form.aims = "press" THEN saves[n].wanted.record ELSE open.record,
                    draft |-> IF Form.takes = "press" THEN saves[n].wanted.draft ELSE open.draft]
<1>1. saves' = [saves EXCEPT ![n].at = "sent", ![n].sends = sent]
      /\ UNCHANGED <<editor, open, opening, rows, made, told>>
  BY DEF SaveLeaves
<1>w. saves[n].wanted \in Content /\ saves[n].wanted.draft \in Nat
      /\ saves[n].wanted.record \in Records \cup {New} /\ saves[n].wanted.draft <= open.draft
  BY <1>t DEF Save, Content, SavesAreOfTheScreen
<1>2. /\ sent \in Content /\ saves[n].wanted.draft <= sent.draft /\ sent.draft <= open.draft
      /\ Form.aims = "press" => sent.record = saves[n].wanted.record
      /\ Form.takes = "press" => sent.draft = saves[n].wanted.draft
  BY <1>t, <1>w DEF Content
<1> HIDE DEF sent
<1>3. saves'[n] = [[saves[n] EXCEPT !.at = "sent"] EXCEPT !.sends = sent]
      /\ \A k \in Pressed : k # n => saves'[k] = saves[k]
  BY <1>1, <1>t
<1>4. [saves[n] EXCEPT !.at = "sent"] \in Save
  BY <1>t DEF Save
<1>5. /\ saves'[n] \in Save /\ saves'[n].at = "sent" /\ saves'[n].sends = sent
      /\ saves'[n].turn = saves[n].turn /\ saves'[n].wanted = saves[n].wanted
  BY <1>2, <1>3, <1>4, <1>t DEF Save
<1>6. Pressed' = Pressed /\ saves' \in [Pressed -> Save]
  BY <1>1, <1>t, <1>3, <1>5 DEF Pressed
<1>f. Form' = Form /\ Openable' = Openable
  BY <1>1 DEF Form, Openable
<1>m. \A m \in made : m.press \in Pressed /\ m.press # n
  BY <1>t DEF MadeBySaves
<1>7. EditorsTyped' /\ OpenIsOpenable'
  <2>1. EditorsTyped'
    BY <1>1, <1>6 DEF EditorsTyped
  <2>2. OpenIsOpenable'
    BY <1>1, <1>f, <1>3, <1>5, <1>6 DEF OpenIsOpenable
  <2> QED  BY <2>1, <2>2
<1>8. SavesAreOfTheScreen'
  <2>1. ASSUME NEW k \in Pressed', k # n PROVE k \in Pressed /\ saves'[k] = saves[k]
    BY <1>3, <1>6, <2>1
  <2>2. /\ saves'[n].wanted.draft <= open.draft /\ saves'[n].at # "held"
        /\ saves'[n].sends \in Content /\ saves'[n].wanted.draft <= saves'[n].sends.draft
        /\ saves'[n].sends.draft <= open.draft
        /\ Form.aims = "press" => saves'[n].sends.record = saves'[n].wanted.record
        /\ Form.takes = "press" => saves'[n].sends.draft = saves'[n].wanted.draft
    BY <1>2, <1>5, <1>w
  <2> QED  BY <1>1, <1>f, <2>1, <2>2 DEF SavesAreOfTheScreen
<1>9. OneUnderWay' /\ PinnedUntilLanded'
  <2>1. OneUnderWay'
    BY <1>f, <1>t, <1>3, <1>5, <1>6 DEF OneUnderWay
  <2>2. PinnedUntilLanded'
    BY <1>1, <1>f, <1>t, <1>3, <1>5, <1>6 DEF PinnedUntilLanded
  <2> QED  BY <2>1, <2>2
<1>10. MadeBySaves'
  BY <1>1, <1>m, <1>3 DEF MadeBySaves
<1>11. DraftsAreUsedUp'
  <2>1. \A m \in made : saves'[m.press] = saves[m.press]
    BY <1>m, <1>3
  <2>2. \A k \in Pressed : saves'[k].wanted = saves[k].wanted
    BY <1>3, <1>5
  <2> QED  BY <1>1, <1>f, <1>6, <2>1, <2>2 DEF DraftsAreUsedUp
<1>12. DraftsAreBounded'
  <2>1. Landed' = Landed
    BY <1>t, <1>3, <1>5, <1>6 DEF Landed
  <2> QED  BY <1>1, <2>1 DEF DraftsAreBounded
<1> QED  BY <1>7, <1>8, <1>9, <1>10, <1>11, <1>12

(* A save commits: it makes a record or writes one.                           *)
LEMMA CommitStep ==
  ASSUME EditorsInv, NEW n \in Pressed, SaveCommits(n)
  PROVE  EditorsInv'
<1> USE DEF EditorsInv
<1> DEFINE sent == saves[n].sends
           new == [press |-> n, draft |-> sent.draft, turn |-> saves[n].turn]
<1>t. open \in Screen /\ saves \in [Pressed -> Save] /\ saves[n] \in Save /\ saves[n].at = "sent"
      /\ made \subseteq [press : Pressed, draft : Nat, turn : 1..MaxTurns]
      /\ SaveBecomes(n, "committed") /\ UNCHANGED <<editor, open, opening, told>>
  BY DEF EditorsTyped, SaveCommits
<1>1. sent \in Content /\ sent.draft \in Nat /\ sent.record \in Records \cup {New}
      /\ saves[n].turn \in 1..MaxTurns
  BY <1>t DEF SavesAreOfTheScreen, Content, Save
<1>2. \/ /\ sent.record = New /\ made' = made \cup {new} /\ UNCHANGED rows
         /\ ~(Form.unique /\ \E m \in made : m.draft = sent.draft)
      \/ sent.record # New /\ rows' = [rows EXCEPT ![sent.record] = n] /\ UNCHANGED made
  BY DEF SaveCommits
<1>b. /\ Pressed' = Pressed /\ saves' \in [Pressed -> Save] /\ saves'[n].at = "committed"
      /\ \A k \in Pressed : k # n => saves'[k] = saves[k]
      /\ \A k \in Pressed : /\ saves'[k].turn = saves[k].turn /\ saves'[k].sends = saves[k].sends
                            /\ saves'[k].wanted = saves[k].wanted
  BY <1>t, BecomingFacts
<1>f. Form' = Form /\ Openable' = Openable
  BY <1>t DEF Form, Openable
<1>m. \A m \in made : m.press \in Pressed /\ m.press # n
  BY <1>t DEF MadeBySaves
<1>n. /\ new \in [press : Pressed, draft : Nat, turn : 1..MaxTurns]
      /\ new.press = n /\ new.draft = sent.draft /\ new.turn = saves[n].turn
  BY <1>1
<1> HIDE DEF new
<1>3. EditorsTyped'
  <2>1. PICK k \in 0..MaxPresses : Pressed = 1..k /\ rows \in [Records -> 0..k]
    BY DEF EditorsTyped
  <2>2. rows' \in [Records -> 0..k]
    <3>1. n \in 0..k
      BY <2>1, EditorsAssumption
    <3> QED  BY <1>2, <2>1, <3>1
  <2>3. made' \subseteq [press : Pressed', draft : Nat, turn : 1..MaxTurns]
    BY <1>t, <1>2, <1>n, <1>b
  <2> QED  BY <1>t, <1>b, <2>1, <2>2, <2>3 DEF EditorsTyped
<1>4. OpenIsOpenable'
  BY <1>t, <1>f, <1>b DEF OpenIsOpenable
<1>5. SavesAreOfTheScreen'
  <2>1. ASSUME NEW k \in Pressed PROVE saves'[k].at = "held" <=> saves[k].at = "held"
    BY <1>t, <1>b
  <2> QED  BY <1>t, <1>f, <1>b, <2>1 DEF SavesAreOfTheScreen
<1>6. OneUnderWay' /\ PinnedUntilLanded'
  <2>1. OneUnderWay'
    BY <1>t, <1>f, <1>b DEF OneUnderWay
  <2>2. PinnedUntilLanded'
    BY <1>t, <1>f, <1>b DEF PinnedUntilLanded
  <2> QED  BY <2>1, <2>2
<1>7. MadeBySaves'
  <2>1. ASSUME NEW m \in made PROVE m.press \in Pressed /\ saves'[m.press] = saves[m.press]
    BY <1>m, <1>b
  <2>2. ASSUME NEW m \in made'
        PROVE  /\ saves'[m.press].at \notin {"held", "sent"} /\ saves'[m.press].sends.record = New
               /\ saves'[m.press].sends.draft = m.draft /\ saves'[m.press].turn = m.turn
    <3>1. CASE m \in made
      BY <2>1, <3>1 DEF MadeBySaves
    <3>2. CASE m = new /\ sent.record = New
      BY <1>n, <1>b, <3>2
    <3> QED  BY <1>2, <3>1, <3>2
  <2>3. ASSUME NEW a \in made', NEW b \in made', a.press = b.press PROVE a = b
    BY <1>2, <1>m, <1>n, <2>3 DEF MadeBySaves
  <2> QED  BY <2>2, <2>3 DEF MadeBySaves
<1>8. DraftsAreUsedUp'
  <2>1. \A m \in made : saves'[m.press] = saves[m.press]
    BY <1>m, <1>b
  <2>2. ASSUME ~Form.queues PROVE \A k \in Pressed : ~(n < k)
    BY <1>t, <2>2 DEF OneUnderWay
  <2>3. Form.unique => \A a, b \in made' : a.draft = b.draft => a = b
    BY <1>2, <1>n DEF DraftsAreUsedUp
  <2>4. ASSUME NEW m \in made', ~Form.queues, ~Form.lingers, Form.ends # "keeps", m.turn \notin told
        PROVE  /\ open.shown /\ saves'[m.press].at # "committed" => m.draft < open.draft
               /\ \A k \in Pressed : m.press < k => m.draft < saves'[k].wanted.draft
    <3>1. CASE m \in made
      BY <1>b, <2>1, <2>4, <3>1 DEF DraftsAreUsedUp
    <3>2. CASE m = new
      BY <1>n, <1>b, <2>2, <2>4, <3>2
    <3> QED  BY <1>2, <3>1, <3>2
  <2> QED  BY <1>t, <1>f, <1>b, <2>3, <2>4 DEF DraftsAreUsedUp
<1>9. DraftsAreBounded'
  <2>1. Landed' = Landed
    BY <1>t, <1>b DEF Landed
  <2> QED  BY <1>t, <2>1 DEF DraftsAreBounded
<1> QED  BY <1>3, <1>4, <1>5, <1>6, <1>7, <1>8, <1>9

\* Every step of an editor keeps the invariant.
LEMMA EditorsStep == EditorsInv /\ [EditorsNext]_editorVars => EditorsInv'
<1> SUFFICES ASSUME EditorsInv, [EditorsNext]_editorVars PROVE EditorsInv'
  OBVIOUS
<1>1. CASE UNCHANGED editorVars
  BY <1>1 DEF editorVars, EditorsInv, EditorsTyped, OpenIsOpenable, SavesAreOfTheScreen, OneUnderWay,
     PinnedUntilLanded, MadeBySaves, DraftsAreUsedUp, DraftsAreBounded, Pressed, Landed, Form, Openable
<1> QED  BY <1>1, LooksAreSteps, PressStep, LeavingStep, CommitStep, AnswersAreSteps DEF EditorsNext

-----------------------------------------------------------------------------
\* What the editors promise follows from the invariant and from their table.
LEMMA EditorsTypes == EditorsInv => EditorsTypeOK
<1> SUFFICES ASSUME EditorsInv PROVE EditorsTypeOK
  OBVIOUS
<1> USE DEF EditorsInv
<1>1. open.draft \in 0 .. MaxDrafts + MaxPresses
  <2>1. open.draft \in Nat
    BY DEF EditorsTyped, Screen
  <2> QED  BY <2>1, LandedAreFinite, EditorsAssumption DEF DraftsAreBounded
<1>2. rows \in [Records -> 0..MaxPresses]
  <2>1. 0..Cardinality(Pressed) \subseteq 0..MaxPresses
    BY PressesAreCounted, EditorsAssumption
  <2> QED  BY <2>1, PressesAreCounted
<1>3. \A n \in Pressed : saves[n].at \in {"held", "sent", "committed", "landed", "over"}
  BY DEF EditorsTyped, Save
<1>4. open \in [shown : BOOLEAN, record : Records \cup {New}, turn : 0..MaxTurns,
                draft : 0 .. MaxDrafts + MaxPresses]
  BY <1>1 DEF EditorsTyped, Screen
<1> QED  BY <1>2, <1>3, <1>4, PressesAreCounted DEF EditorsTypeOK, EditorsTyped

\* What a save sends is what was on the form when it was pressed.
LEMMA SendingPromise == EditorsInv => SendsWhatWasPressed
<1> SUFFICES ASSUME EditorsInv, editor \in SendWhatWasPressed, NEW n \in Pressed
             PROVE  saves[n].sends \in {Nothing, saves[n].wanted}
  BY DEF SendsWhatWasPressed
<1>1. Form.aims = "press" /\ Form.takes = "press"
  BY ShapeOf DEF EditorsInv, EditorsTyped, Shape, Form
<1>2. CASE saves[n].at = "held"
  BY <1>2 DEF EditorsInv, SavesAreOfTheScreen
<1>3. CASE saves[n].at # "held"
  <2>1. /\ saves[n].sends.record = saves[n].wanted.record /\ saves[n].sends.draft = saves[n].wanted.draft
        /\ saves[n].sends \in Content /\ saves[n].wanted \in Content
    BY <1>1, <1>3 DEF EditorsInv, SavesAreOfTheScreen, EditorsTyped, Save
  <2>2. saves[n].sends = saves[n].wanted
    BY <2>1 DEF Content
  <2> QED  BY <2>2
<1> QED  BY <1>2, <1>3

\* One form makes one record.
LEMMA CreatingPromise == EditorsInv => CreatesOnce
<1> SUFFICES ASSUME EditorsInv, editor \in CreateOnce, NEW a \in made, NEW b \in made,
                    a.draft = b.draft, a # b
             PROVE  {a.turn, b.turn} \cap told # {}
  BY DEF CreatesOnce
<1> USE DEF EditorsInv
<1>1. \/ Form.unique \/ (~Form.queues /\ ~Form.lingers /\ Form.ends # "keeps")
      \/ (~Form.creates /\ Form.aims = "press")
  BY ShapeOf DEF EditorsTyped, Shape, Form, CreateOnce
<1>2. ~Form.unique
  BY DEF DraftsAreUsedUp
<1>3. ~(~Form.creates /\ Form.aims = "press")
  <2>1. a.press \in Pressed
    BY DEF EditorsTyped
  <2>2. saves[a.press].sends.record = New /\ saves[a.press].at # "held"
    BY DEF MadeBySaves
  <2>3. Form.aims = "press" => saves[a.press].wanted.record = New
    BY <2>1, <2>2 DEF SavesAreOfTheScreen
  <2>4. saves[a.press].wanted.record \in Openable
    BY <2>1 DEF OpenIsOpenable
  <2>5. ~Form.creates => New \notin Openable
    BY EditorsAssumption DEF Openable
  <2> QED  BY <2>3, <2>4, <2>5
<1>4. ASSUME NEW x \in made, NEW y \in made, x.draft = y.draft, x.press < y.press
      PROVE  x.turn \in told
  <2>1. y.press \in Pressed /\ saves[y.press].at # "held" /\ saves[y.press].sends.draft = y.draft
    BY DEF EditorsTyped, MadeBySaves
  <2>2. saves[y.press].wanted.draft <= y.draft /\ saves[y.press].wanted.draft \in Nat
        /\ x.draft \in Nat
    BY <2>1 DEF SavesAreOfTheScreen, EditorsTyped, Save, Content
  <2>3. x.turn \notin told => x.draft < saves[y.press].wanted.draft
    BY <1>1, <1>2, <1>3, <1>4, <2>1 DEF DraftsAreUsedUp
  <2> QED  BY <1>4, <2>2, <2>3
<1>5. a.press < b.press \/ b.press < a.press
  BY DEF EditorsTyped, MadeBySaves
<1> QED  BY <1>4, <1>5

\* A record never falls back to an earlier save.
LEMMA OrderStep ==
  ASSUME EditorsInv, [EditorsNext]_editorVars, editor \in KeepTheOrder, NEW r \in Records
  PROVE  rows[r] <= rows'[r]
<1> USE DEF EditorsInv
<1> DEFINE k == Cardinality(Pressed)
<1>t. k \in Nat /\ Pressed = 1..k /\ rows \in [Records -> 0..k] /\ rows[r] \in 0..k
  BY PressesAreCounted
<1> HIDE DEF k
<1>1. CASE UNCHANGED rows
  BY <1>t, <1>1
<1>2. ASSUME NEW n \in Pressed, SaveCommits(n), rows' # rows PROVE rows[r] <= rows'[r]
  <2>1. /\ saves[n].at = "sent" /\ saves[n].sends.record # New
        /\ ~(Form.removes /\ rows[saves[n].sends.record] # 0)
        /\ rows' = [rows EXCEPT ![saves[n].sends.record] = n]
    BY <1>2 DEF SaveCommits
  <2>2. saves[n].sends.record \in Records
    BY <2>1 DEF SavesAreOfTheScreen, Content
  <2>3. ~Form.queues \/ Form.removes \/ (~Form.edits /\ Form.aims = "press")
    BY ShapeOf DEF EditorsTyped, Shape, Form, KeepTheOrder
  <2>4. CASE ~Form.queues
    <3>1. \A l \in Pressed : ~(n < l)
      BY <2>1, <2>4 DEF OneUnderWay
    <3>2. n = k
      BY <1>t, <3>1
    <3> QED  BY <1>t, <2>1, <2>2, <3>2
  <2>5. CASE Form.removes
    <3>1. rows[saves[n].sends.record] = 0
      BY <2>1, <2>5
    <3>2. rows'[r] = IF r = saves[n].sends.record THEN n ELSE rows[r]
      BY <1>t, <2>1, <2>2
    <3> QED  BY <1>t, <3>1, <3>2
  <2>6. CASE ~Form.edits /\ Form.aims = "press"
    <3>1. saves[n].sends.record \in Openable
      BY <2>1, <2>6 DEF SavesAreOfTheScreen, OpenIsOpenable
    <3> QED  BY <2>1, <2>6, <3>1 DEF Openable
  <2> QED  BY <2>3, <2>4, <2>5, <2>6
<1>3. rows' = rows \/ \E n \in Pressed : SaveCommits(n)
  BY DEF EditorsNext, editorVars, OpenForm, RecordRead, RecordNotRead, LeaveForm, EditForm, PressSave,
     SaveLeaves, SaveFails, SaveLands, SaveSettles
<1> QED  BY <1>1, <1>2, <1>3

\* The answer of an earlier form leaves the open one alone.
LEMMA EndingStep ==
  ASSUME EditorsInv, editor \in EndTheirOwnForm, NEW n \in Pressed, SaveLands(n),
         saves[n].turn # open.turn
  PROVE  open' = open
<1>1. (Form.ends = "keeps" /\ ~Form.lingers) \/ Pins(Form)
  BY ShapeOf DEF EditorsInv, EditorsTyped, Shape, Form, Pins
<1>2. ~Pins(Form)
  BY DEF EditorsInv, PinnedUntilLanded, SaveLands
<1>3. open' = AfterSuccess
  BY <1>1, <1>2 DEF SaveLands
<1> QED  BY <1>1, <1>2, <1>3 DEF AfterSuccess

-----------------------------------------------------------------------------
(* The pages on the way in keep their types.                                  *)
Checks == [at : {"idle", "asked", "failed"}, data : {"none", "required", "done"}, aged : BOOLEAN]

\* Looking at the first run asks for it, and leaves a check of the same type.
LEMMA WatchedIsACheck == ASSUME NEW c \in Checks PROVE Watched(c) \in Checks
BY DEF Watched, Checks

\* The pages start, or stand still, with values of their types.
LEMMA PagesStart == PagesInit \/ StillPages => PagesTypeOK
<1>1. 0 \in 0..MaxVisits
  BY VisitsAssumption
<1>2. [loading |-> TRUE, user |-> FALSE] \in [loading : BOOLEAN, user : BOOLEAN]
      /\ [loading |-> FALSE, user |-> FALSE] \in [loading : BOOLEAN, user : BOOLEAN]
  OBVIOUS
<1>3. \A at \in {"idle", "asked"} : [at |-> at, data |-> "none", aged |-> FALSE] \in Checks
  BY DEF Checks
<1>4. ASSUME PagesInit PROVE PagesTypeOK
  <2>1. check \in Checks
    BY <1>3, <1>4 DEF PagesInit
  <2> QED  BY <1>1, <1>2, <1>4, <2>1 DEF PagesInit, PagesTypeOK, Checks
<1>5. ASSUME StillPages PROVE PagesTypeOK
  <2>1. check \in Checks
    BY <1>3, <1>5 DEF StillPages
  <2> QED  BY <1>1, <1>2, <1>5, <2>1 DEF StillPages, PagesTypeOK, Checks
<1> QED  BY <1>4, <1>5

\* Every step of the pages keeps the types.
LEMMA PagesStep == PagesTypeOK /\ [PagesNext]_pageVars => PagesTypeOK'
<1> SUFFICES ASSUME PagesTypeOK, [PagesNext]_pageVars PROVE PagesTypeOK'
  OBVIOUS
<1>t. /\ page \in {"app", "login", "setup", "callback"} /\ session \in [loading : BOOLEAN, user : BOOLEAN]
      /\ check \in Checks /\ admin \in BOOLEAN /\ leaving \in BOOLEAN /\ visits \in 0..MaxVisits
      /\ form \in {"none", "setup sent", "setup created", "branding", "login sent"}
  BY DEF PagesTypeOK, Checks
<1>v. ASSUME Visit PROVE visits' \in 0..MaxVisits
  <2>1. visits < MaxVisits /\ visits' = visits + 1
    BY <1>v DEF Visit
  <2>2. visits \in Nat /\ MaxVisits \in Nat
    <3>1. visits \in 0..MaxVisits
      BY <1>t
    <3> QED  BY <3>1, VisitsAssumption
  <2>3. visits + 1 \in 0..MaxVisits
    BY <2>1, <2>2
  <2> QED  BY <2>1, <2>3
<1>w. Watched(check) \in Checks
  BY <1>t, WatchedIsACheck
<1>g. ASSUME NEW p \in {"app", "login", "setup", "callback"}, GoTo(p)
      PROVE  page' \in {"app", "login", "setup", "callback"} /\ check' \in Checks
  BY <1>g, <1>t, <1>w DEF GoTo
<1>s. ASSUME NEW s, SessionBecomes(s) PROVE session' = s /\ check' \in Checks
  BY <1>s, <1>t, <1>w DEF SessionBecomes
<1>k. PagesTypeOK' <=>
        /\ page' \in {"app", "login", "setup", "callback"}
        /\ session' \in [loading : BOOLEAN, user : BOOLEAN] /\ check' \in Checks
        /\ form' \in {"none", "setup sent", "setup created", "branding", "login sent"}
        /\ leaving' \in BOOLEAN /\ admin' \in BOOLEAN /\ visits' \in 0..MaxVisits
  BY DEF PagesTypeOK, Checks
<1>1. CASE \E found \in BOOLEAN : BootEnds(found)
  <2>1. PICK found \in BOOLEAN : BootEnds(found)
    BY <1>1
  <2>2. [loading |-> FALSE, user |-> found] \in [loading : BOOLEAN, user : BOOLEAN]
    OBVIOUS
  <2>3. session' = [loading |-> FALSE, user |-> found] /\ check' \in Checks
        /\ UNCHANGED <<page, form, leaving, admin, visits>>
    BY <1>s, <2>1 DEF BootEnds
  <2> QED  BY <1>t, <1>k, <2>2, <2>3
<1>2. CASE Redirect
  <2>1. \E p \in {"app", "login", "setup", "callback"} : GoTo(p)
    BY <1>2 DEF Redirect, GuardSendsAway, LoginPageLetsIn, CallbackEnds, SetupPageLeaves, LeavingFires
  <2>2. UNCHANGED <<session, form, admin, visits>> /\ leaving' \in BOOLEAN
    BY <1>2, <1>t DEF Redirect, GuardSendsAway, LoginPageLetsIn, CallbackEnds, SetupPageLeaves,
       LeavingFires
  <2> QED  BY <1>t, <1>g, <1>k, <2>1, <2>2
<1>3. CASE CheckLands \/ CheckFails \/ CheckAges
  <2>1. check' \in Checks
    <3>1. CASE CheckLands
      BY <3>1 DEF CheckLands, Checks
    <3>2. CASE CheckFails
      BY <1>t, <3>2 DEF CheckFails, Checks
    <3>3. CASE CheckAges
      BY <1>t, <3>3 DEF CheckAges, Checks
    <3> QED  BY <1>3, <3>1, <3>2, <3>3
  <2> QED  BY <1>3, <1>t, <1>k, <2>1 DEF CheckLands, CheckFails, CheckAges
<1>4. CASE SubmitSetup \/ ServerCreatesAdmin \/ SetupRefused \/ SetupFails
  BY <1>4, <1>t, <1>v, <1>k DEF SubmitSetup, ServerCreatesAdmin, SetupRefused, SetupFails
<1>5. CASE SubmitLogin \/ LoginSucceeds \/ LoginRefused \/ AdminAppears
  BY <1>5, <1>t, <1>v, <1>k DEF SubmitLogin, LoginSucceeds, LoginRefused, AdminAppears
<1>6. CASE SetupSignsIn \/ SessionEnds
  <2>1. /\ [session EXCEPT !.user = TRUE] \in [loading : BOOLEAN, user : BOOLEAN]
        /\ [session EXCEPT !.user = FALSE] \in [loading : BOOLEAN, user : BOOLEAN]
    BY <1>t
  <2> QED  BY <1>6, <1>t, <1>v, <1>s, <1>k, <2>1 DEF SetupSignsIn, SessionEnds
<1>7. CASE SetupEnds
  BY <1>7, <1>t, <1>g, <1>k DEF SetupEnds
<1>8. CASE UNCHANGED pageVars
  BY <1>8, <1>t, <1>k DEF pageVars
<1> QED  BY <1>1, <1>2, <1>3, <1>4, <1>5, <1>6, <1>7, <1>8 DEF PagesNext

-----------------------------------------------------------------------------
(* The lists.  Ticks and folder are kept by every step, because the tables    *)
(* forget with every change of what they show; the rest follows.              *)
ListsInv ==
  /\ list \in {"projects", "resources", "assignments"} /\ ListsTypeOK
  /\ TicksAreVisible /\ ScopeIsInTheTree

\* A list starts with nothing ticked and no folder chosen.
LEMMA ListsStart == ListsInit \/ StillLists => ListsInv
<1> SUFFICES ASSUME ListsInit \/ StillLists PROVE ListsInv
  OBVIOUS
<1> USE DEF ListsInv, ListsTypeOK, TicksAreVisible, ScopeIsInTheTree
<1>1. CASE ListsInit
  BY <1>1 DEF ListsInit
<1>2. CASE StillLists
  BY <1>2 DEF StillLists
<1> QED  BY <1>1, <1>2

\* Every step of the lists keeps ticks on the screen and the folder in the tree.
LEMMA ListsStep == ListsInv /\ [ListsNext]_listVars => ListsInv'
<1> SUFFICES ASSUME ListsInv, [ListsNext]_listVars
             PROVE  list' = list /\ ListsTypeOK' /\ TicksAreVisible' /\ ScopeIsInTheTree'
  BY DEF ListsInv
<1> USE DEF ListsInv
<1>t. /\ reading \in {"pending", "read", "failed", "stale"}
      /\ DOMAIN known \subseteq Items /\ \A i \in DOMAIN known : known[i] \in Row
      /\ tree \subseteq Folders /\ scope \in Folders \cup {All, Unfiled}
      /\ wanted \in Kinds \cup {AnyKind} /\ ticked \subseteq Items
      /\ {marks, narrowed, lostScope} \subseteq BOOLEAN /\ ticked \subseteq Visible
      /\ (scope \in tree \cup {All, Unfiled} \/ lostScope)
  BY DEF ListsTypeOK, TicksAreVisible, ScopeIsInTheTree
<1>1. CASE RowsRead
  <2>1. /\ FirstRead \/ ReadAgain
        /\ reading' = "read" /\ Retain(known', scope, marks, wanted)
        /\ UNCHANGED <<list, tree, scope, wanted, marks, narrowed, lostScope>>
    BY <1>1 DEF RowsRead
  <2>2. DOMAIN known' \subseteq Items /\ \A j \in DOMAIN known' : known'[j] \in Row
    <3>1. CASE FirstRead
      BY <3>1 DEF FirstRead
    <3>2. CASE ReadAgain
      BY <1>t, <3>2 DEF ReadAgain
    <3> QED  BY <2>1, <3>1, <3>2
  <2>3. ticked' = ticked \cap Visible'
    BY <2>1 DEF Retain, Visible
  <2> QED  BY <1>t, <2>1, <2>2, <2>3 DEF ListsTypeOK, TicksAreVisible, ScopeIsInTheTree
<1>2. CASE \E k \in Kinds \cup {AnyKind} : FilterBy(k)
  <2>1. ticked' = ticked \cap Visible'
    BY <1>2 DEF FilterBy, Retain, Visible
  <2> QED  BY <1>2, <1>t, <2>1 DEF FilterBy, ListsTypeOK, TicksAreVisible, ScopeIsInTheTree
<1>3. CASE ConflictsOnly
  <2>1. ticked' = ticked \cap Visible'
    BY <1>3 DEF ConflictsOnly, Retain, Visible
  <2> QED  BY <1>3, <1>t, <2>1 DEF ConflictsOnly, ListsTypeOK, TicksAreVisible, ScopeIsInTheTree
<1>4. CASE ShowAllBookings
  <2>1. Visible \subseteq Visible'
    BY <1>4 DEF ShowAllBookings, Visible, Filtered, Given
  <2> QED  BY <1>4, <1>t, <2>1 DEF ShowAllBookings, ListsTypeOK, TicksAreVisible, ScopeIsInTheTree
<1>5. CASE TickAll \/ \E i \in Items : Tick(i)
  <2>1. Visible' = Visible /\ Shown \subseteq Visible /\ Visible \subseteq Items
    BY <1>5, <1>t DEF TickAll, Tick, Visible, Filtered, Given, Shown
  <2>2. ticked' \subseteq Visible
    BY <1>5, <1>t, <2>1 DEF TickAll, Tick
  <2> QED  BY <1>5, <1>t, <2>1, <2>2 DEF TickAll, Tick, ListsTypeOK, TicksAreVisible, ScopeIsInTheTree
<1>6. CASE ShowTicked \/ ClearTicks
  <2>1. Visible' = Visible
    BY <1>6 DEF ShowTicked, ClearTicks, Visible
  <2> QED
    BY <1>6, <1>t, <2>1 DEF ShowTicked, ClearTicks, ListsTypeOK, TicksAreVisible, ScopeIsInTheTree
<1>7. CASE \E s \in Folders \cup {All, Unfiled} : SelectFolder(s)
  BY <1>7, <1>t DEF SelectFolder, OpenScope, ListsTypeOK, TicksAreVisible, ScopeIsInTheTree
<1>8. ASSUME NEW f \in Folders, DeleteFolder(f) \/ FolderGone(f)
      PROVE  list' = list /\ ListsTypeOK' /\ TicksAreVisible' /\ ScopeIsInTheTree'
  <2>1. UNCHANGED <<list, reading, known, wanted, marks>> /\ tree' = tree \ {f}
    BY <1>8 DEF DeleteFolder, FolderGone, FolderDeleted
  <2>2. CASE DeleteFolder(f) /\ scope = f
    BY <1>t, <2>1, <2>2 DEF DeleteFolder, ListsTypeOK, TicksAreVisible, ScopeIsInTheTree
  <2>3. CASE DeleteFolder(f) /\ scope # f
    <3>1. UNCHANGED <<scope, ticked, narrowed, lostScope>>
      BY <2>3 DEF DeleteFolder
    <3>2. Visible' = Visible
      BY <2>1, <3>1 DEF Visible
    <3> QED  BY <1>t, <2>1, <2>3, <3>1, <3>2 DEF ListsTypeOK, TicksAreVisible, ScopeIsInTheTree
  <2>4. CASE FolderGone(f)
    <3>1. UNCHANGED <<scope, ticked, narrowed>> /\ lostScope' = (lostScope \/ scope = f)
      BY <2>4 DEF FolderGone
    <3>2. Visible' = Visible
      BY <2>1, <3>1 DEF Visible
    <3> QED  BY <1>t, <2>1, <3>1, <3>2 DEF ListsTypeOK, TicksAreVisible, ScopeIsInTheTree
  <2> QED  BY <1>8, <2>2, <2>3, <2>4
<1>9. CASE UNCHANGED listVars
  <2>1. Visible' = Visible
    BY <1>9 DEF listVars, Visible
  <2> QED  BY <1>9, <1>t, <2>1 DEF listVars, ListsTypeOK, TicksAreVisible, ScopeIsInTheTree
<1>10. CASE ReadFails \/ AskForRows
  <2>1. Visible' = Visible
    BY <1>10 DEF ReadFails, AskForRows, Visible
  <2> QED
    BY <1>10, <1>t, <2>1 DEF ReadFails, AskForRows, ListsTypeOK, TicksAreVisible, ScopeIsInTheTree
<1> QED  BY <1>1, <1>2, <1>3, <1>4, <1>5, <1>6, <1>7, <1>8, <1>9, <1>10 DEF ListsNext

\* A row is missing only for something that can be seen.
LEMMA ListsPromise == ListsInv => ListsHideNothing
<1> SUFFICES ASSUME ListsInv, Shown # DOMAIN known, ~marks, ~HasBar,
                    ~(scope \in tree \cup {Unfiled} \/ lostScope),
                    ~(list = "assignments" /\ wanted # AnyKind)
             PROVE  wanted \in Options
  BY DEF ListsInv, ListsHideNothing, MissingForAReason
<1>1. Shown = Visible /\ scope = All
  BY DEF Shown, HasBar, ListsInv, ScopeIsInTheTree
<1>2. wanted # AnyKind
  BY <1>1 DEF Visible, Filtered, Given
<1> QED  BY <1>2 DEF ListsInv, Options, CustomersOffered, GroupOptions

-----------------------------------------------------------------------------
(* The page of the charts.  An answer that was never read has no rows, and    *)
(* the page reports the failure of a list it is on.                           *)
Answer == [read : BOOLEAN, failed : BOOLEAN,
           rows : SUBSET (ChartProjects \cup ChartGroups \cup ChartBars)]
FailureIsReported(view, q) ==
  perspective = view /\ answers[q].failed /\ ~answers[q].read => error
ChartsInv ==
  /\ ChartsTypeOK
  /\ \A q \in Sources : ~answers[q].read => answers[q].rows = {}
  /\ FailureIsReported("project", "projects") /\ FailureIsReported("resources", "groups")

\* The charts start before any answer, so no failure is kept back.
LEMMA ChartsStart == ChartsInit => ChartsInv
<1> SUFFICES ASSUME ChartsInit PROVE ChartsInv
  OBVIOUS
<1>1. Unread \in Answer /\ Unread.read = FALSE /\ Unread.failed = FALSE /\ Unread.rows = {}
  BY DEF Unread, Answer
<1>2. \A q \in Sources : answers[q] = Unread
  BY DEF ChartsInit
<1>3. answers \in [Sources -> Answer]
  BY <1>1 DEF ChartsInit
<1>4. "projects" \in Sources /\ "groups" \in Sources
  BY DEF Sources
<1> QED
  BY <1>1, <1>2, <1>3, <1>4 DEF ChartsInit, ChartsInv, ChartsTypeOK, FailureIsReported, Answer

\* What is asked for again keeps its answer if there was one.
LEMMA AskedForFacts ==
  ASSUME ChartsInv, NEW qs, answers' = AskedFor(qs)
  PROVE  /\ answers' \in [Sources -> Answer]
         /\ \A q \in Sources : ~answers'[q].read => answers'[q].rows = {}
         /\ \A q \in Sources : q \in qs /\ ~answers'[q].read => ~answers'[q].failed
         /\ \A q \in Sources : answers'[q].failed => answers[q].failed
         /\ \A q \in Sources : answers'[q].read = answers[q].read
<1>1. Unread \in Answer /\ Unread.read = FALSE /\ Unread.failed = FALSE /\ Unread.rows = {}
  BY DEF Unread, Answer
<1>2. answers \in [Sources -> Answer]
  BY DEF ChartsInv, ChartsTypeOK, Answer
<1>3. \A q \in Sources : answers'[q] = IF q \in qs /\ ~answers[q].read THEN Unread ELSE answers[q]
  BY DEF AskedFor
<1>4. answers' \in [Sources -> Answer]
  BY <1>1, <1>2 DEF AskedFor
<1>5. \A q \in Sources : answers[q].read \in BOOLEAN /\ answers'[q].read \in BOOLEAN
  BY <1>2, <1>4 DEF Answer
<1> QED  BY <1>1, <1>3, <1>4, <1>5 DEF ChartsInv

\* Every step of the charts keeps a failure without rows on the screen.
LEMMA ChartsStep == ChartsInv /\ [ChartsNext]_chartVars => ChartsInv'
<1> SUFFICES ASSUME ChartsInv, [ChartsNext]_chartVars PROVE ChartsInv'
  OBVIOUS
<1>t. /\ perspective \in {"project", "resources"} /\ selected \in ChartGroups \cup {NoGroup}
      /\ expanded \subseteq everExpanded /\ everExpanded \subseteq ChartProjects /\ error \in BOOLEAN
      /\ answers \in [Sources -> Answer]
      /\ \A q \in Sources : ~answers[q].read => answers[q].rows = {}
      /\ FailureIsReported("project", "projects") /\ FailureIsReported("resources", "groups")
  BY DEF ChartsInv, ChartsTypeOK, Answer
<1>q. "projects" \in Sources /\ "groups" \in Sources
  BY DEF Sources
<1>k. ASSUME /\ perspective' \in {"project", "resources"}
             /\ selected' \in ChartGroups \cup {NoGroup}
             /\ expanded' \subseteq everExpanded' /\ everExpanded' \subseteq ChartProjects
             /\ error' \in BOOLEAN /\ answers' \in [Sources -> Answer],
             \A q \in Sources : ~answers'[q].read => answers'[q].rows = {},
             perspective' = "project" /\ answers'["projects"].failed /\ ~answers'["projects"].read
               => error',
             perspective' = "resources" /\ answers'["groups"].failed /\ ~answers'["groups"].read
               => error'
      PROVE  ChartsInv'
  BY <1>k DEF ChartsInv, ChartsTypeOK, FailureIsReported, Answer
<1>f. \A reported \in BOOLEAN : \A clear, view, group :
        Effect(reported, clear, view, group) \in BOOLEAN
        /\ (reported => Effect(reported, clear, view, group))
  BY DEF Effect
<1>1. ASSUME NEW view \in {"project", "resources"}, handlePerspectiveChange(view)
      PROVE  ChartsInv'
  <2>1. /\ perspective' = view /\ selected' = NoGroup /\ expanded' = {} /\ everExpanded' = {}
        /\ answers' = AskedFor(Enabled(view, {}, {})) /\ error' = Effect(FALSE, answers', view, {})
    BY <1>1 DEF handlePerspectiveChange
  <2>2. (view = "project" => "projects" \in Enabled(view, {}, {}))
        /\ (view = "resources" => "groups" \in Enabled(view, {}, {}))
    BY DEF Enabled
  <2>3. error' \in BOOLEAN
    BY <1>f, <2>1
  <2> QED  BY <1>k, <1>q, <2>1, <2>2, <2>3, AskedForFacts
<1>2. ASSUME NEW g \in ChartGroups \cup {NoGroup}, SelectGroup(g) PROVE ChartsInv'
  <2>1. /\ selected' = g /\ answers' = AskedFor({g} \cap ChartGroups)
        /\ error' = Effect(error, answers', perspective, {g} \cap ChartGroups)
        /\ UNCHANGED <<perspective, expanded, everExpanded>>
    BY <1>2 DEF SelectGroup
  <2>2. error' \in BOOLEAN /\ (error => error')
    BY <1>t, <1>f, <2>1
  <2> QED  BY <1>t, <1>k, <1>q, <2>1, <2>2, AskedForFacts DEF FailureIsReported
<1>3. ASSUME NEW p \in ChartProjects, Toggle(p) PROVE ChartsInv'
  <2>1. /\ p \in ChartProjects /\ expanded' = (expanded \ {p}) \cup ({p} \ expanded)
        /\ everExpanded' = everExpanded \cup {p} /\ UNCHANGED <<perspective, selected, error>>
        /\ answers' = answers \/ answers' = AskedFor({p})
    BY <1>3 DEF Toggle
  <2>2. CASE answers' = answers
    BY <1>t, <1>k, <2>1, <2>2 DEF FailureIsReported
  <2>3. CASE answers' = AskedFor({p})
    BY <1>t, <1>k, <1>q, <2>1, <2>3, AskedForFacts DEF FailureIsReported
  <2> QED  BY <2>1, <2>2, <2>3
<1>4. ASSUME NEW p \in ChartProjects \cup ChartGroups, OpenConflicts(p) PROVE ChartsInv'
  <2>1. /\ perspective' = "project" /\ selected' = NoGroup /\ expanded' = {} /\ everExpanded' = {}
        /\ answers' = AskedFor({"projects", "counts"}) /\ error' \in BOOLEAN
    BY <1>4 DEF OpenConflicts
  <2> QED  BY <1>k, <1>q, <2>1, AskedForFacts
<1>5. ASSUME NEW q \in Sources, Failed(q) PROVE ChartsInv'
  <2>1. /\ answers' = [answers EXCEPT ![q].failed = TRUE]
        /\ error' = (error \/ q \in Heard(perspective, selectedGroup))
        /\ UNCHANGED <<perspective, selected, expanded, everExpanded>>
    BY <1>5 DEF Failed
  <2>2. [answers[q] EXCEPT !.failed = TRUE] \in Answer
        /\ [answers[q] EXCEPT !.failed = TRUE].read = answers[q].read
        /\ [answers[q] EXCEPT !.failed = TRUE].rows = answers[q].rows
    BY <1>t DEF Answer
  <2>3. answers'[q] = [answers[q] EXCEPT !.failed = TRUE] /\ answers' \in [Sources -> Answer]
        /\ \A x \in Sources : x # q => answers'[x] = answers[x]
    BY <1>t, <2>1, <2>2
  <2>4. "projects" \in Heard(perspective, selectedGroup)
        /\ (perspective = "resources" => "groups" \in Heard(perspective, selectedGroup))
    BY DEF Heard
  <2> QED  BY <1>t, <1>k, <1>q, <2>1, <2>2, <2>3, <2>4 DEF FailureIsReported
<1>6. ASSUME NEW q \in Sources, AskAgain(q) PROVE ChartsInv'
  <2>1. /\ answers' = AskedFor({q}) /\ error' = Effect(error, answers', perspective, selectedGroup)
        /\ UNCHANGED <<perspective, selected, expanded, everExpanded>>
    BY <1>6 DEF AskAgain
  <2>2. error' \in BOOLEAN /\ (error => error')
    BY <1>t, <1>f, <2>1
  <2> QED  BY <1>t, <1>k, <1>q, <2>1, <2>2, AskedForFacts DEF FailureIsReported
<1>7. ASSUME NEW q \in Sources, NEW got \in SUBSET (ChartProjects \cup ChartGroups \cup ChartBars),
             Answered(q, got)
      PROVE  ChartsInv'
  <2>1. /\ answers' = [answers EXCEPT ![q] = [read |-> TRUE, rows |-> got, failed |-> FALSE]]
        /\ error' = Effect(error, answers', perspective, {selected} \cap answers'["groups"].rows)
        /\ UNCHANGED <<perspective, selected, expanded, everExpanded>>
    BY <1>7 DEF Answered
  <2>2. [read |-> TRUE, rows |-> got, failed |-> FALSE] \in Answer
    BY DEF Answer
  <2>3. answers'[q].read /\ ~answers'[q].failed /\ answers' \in [Sources -> Answer]
        /\ \A x \in Sources : x # q => answers'[x] = answers[x]
    BY <1>t, <2>1, <2>2
  <2>4. error' \in BOOLEAN /\ (error => error')
    BY <1>t, <1>f, <2>1
  <2> QED  BY <1>t, <1>k, <1>q, <2>1, <2>3, <2>4 DEF FailureIsReported
<1>8. CASE UNCHANGED chartVars
  BY <1>t, <1>k, <1>8 DEF chartVars, FailureIsReported
<1>9. ASSUME NEW q, NEW got, Answered(q, got),
             \/ q \in {"projects", "counts"} /\ got \in SUBSET ChartProjects
             \/ q = "groups" /\ got \in SUBSET ChartGroups
             \/ q \in ChartProjects \cup ChartGroups /\ got \in SUBSET ChartBars
      PROVE  ChartsInv'
  <2>1. q \in Sources /\ got \in SUBSET (ChartProjects \cup ChartGroups \cup ChartBars)
    BY <1>9 DEF Sources
  <2> QED  BY <1>7, <1>9, <2>1
<1> QED  BY <1>1, <1>2, <1>3, <1>4, <1>5, <1>6, <1>8, <1>9 DEF ChartsNext

\* So that there are no projects or no groups is said on an answer or beside an error.
LEMMA ChartsPromise == ChartsInv => ChartsRestOnAnswers
<1> SUFFICES ASSUME ChartsInv PROVE ChartsRestOnAnswers
  OBVIOUS
<1>1. "projects" \in Sources /\ "groups" \in Sources
  BY DEF Sources
<1>2. SaysNoProjects => SaidToBeEmpty("projects") \/ error
  BY <1>1 DEF ChartsInv, SaysNoProjects, isPending, Listed, RowsOf, SaidToBeEmpty, FailureIsReported
<1>3. SaysNoGroups => SaidToBeEmpty("groups") \/ error
  BY <1>1 DEF ChartsInv, ChartsTypeOK, SaysNoGroups, isPending, RowsOf, SaidToBeEmpty, FailureIsReported
<1> QED  BY <1>2, <1>3 DEF ChartsRestOnAnswers

-----------------------------------------------------------------------------
(* The links to the planning page.  A conflict is of the resource its bookings*)
(* use, ids are unique, and a booking without a project has no package.       *)
ConflictsAreOfTheirBookings(conflicts) ==
  /\ \A c \in conflicts : \A b \in c.bookings :
       b.resource = c.resource /\ b.resource # None /\ (b.project = None => b.package = None)
  /\ \A b, d \in UNION {c.bookings : c \in conflicts} : b.id = d.id => b = d

Focus(project, package, resource) ==
  [f \in FocusFields |-> CASE f = "project" -> project
                           [] f = "package" -> package
                           [] f = "resource" -> resource]

\* The page reads from a link what was put into it.
LEMMA LinkIsRead ==
  ASSUME NEW project, NEW package, NEW resource
  PROVE  parseConflictFocus(planningConflictUrl(Focus(project, package, resource)))
           = Focus(project, package, resource)
<1> DEFINE focus == Focus(project, package, resource)
           link == planningConflictUrl(focus)
           set == {f \in FocusFields : focus[f] # None}
<1>0. focus["project"] = project /\ focus["package"] = package /\ focus["resource"] = resource
      /\ DOMAIN focus = FocusFields
  BY DEF Focus, FocusFields
<1>1. focus = [f \in FocusFields |-> focus[f]]
  <2>1. \A f \in FocusFields : focus[f] = CASE f = "project" -> project
                                            [] f = "package" -> package
                                            [] f = "resource" -> resource
    BY <1>0 DEF FocusFields
  <2>2. focus = [f \in FocusFields |-> CASE f = "project" -> project
                                         [] f = "package" -> package
                                         [] f = "resource" -> resource]
    BY DEF Focus
  <2> HIDE DEF focus
  <2> QED  BY <2>1, <2>2
<1> HIDE DEF focus
<1>2. DOMAIN link = set /\ \A f \in set : link[f] = focus[f]
  BY DEF planningConflictUrl
<1>3. parseConflictFocus(link) = [f \in FocusFields |-> IF f \in DOMAIN link THEN link[f] ELSE None]
  BY DEF parseConflictFocus
<1> HIDE DEF link
<1>4. \A f \in FocusFields : (IF f \in DOMAIN link THEN link[f] ELSE None) = focus[f]
  BY <1>2
<1>5. parseConflictFocus(link) = focus
  BY <1>1, <1>3, <1>4
<1> QED  BY <1>5 DEF link, focus

\* What is shown for a link, field by field.
LEMMA ShownForALink ==
  ASSUME NEW conflicts, NEW project, NEW package, NEW resource
  PROVE  visibleConflicts(conflicts,
           parseConflictFocus(planningConflictUrl(Focus(project, package, resource)))) =
           {c \in conflicts :
              /\ resource \in {None, c.resource}
              /\ project # None \/ package # None =>
                   \E b \in c.bookings : project \in {None, b.project} /\ package \in {None, b.package}}
<1> DEFINE focus == Focus(project, package, resource)
<1>1. focus.project = project /\ focus.package = package /\ focus.resource = resource
  BY DEF Focus, FocusFields
<1>2. parseConflictFocus(planningConflictUrl(focus)) = focus
  BY LinkIsRead
<1> HIDE DEF focus
<1>3. visibleConflicts(conflicts, focus) =
           {c \in conflicts :
              /\ resource \in {None, c.resource}
              /\ project # None \/ package # None =>
                   \E b \in c.bookings : project \in {None, b.project} /\ package \in {None, b.package}}
  BY <1>1 DEF visibleConflicts, matchesFocusedConflict, MatchesAssignment
<1> QED  BY <1>2, <1>3 DEF focus

(* features/planning/conflictFocus.ts and the panels: for every set           *)
(* of conflicts and of bookings without the qualification, a link opens the   *)
(* page on what it was drawn for, and each booking of a conflict is offered   *)
(* suggestions exactly once in the panel of its package.                      *)
THEOREM LinksLead ==
  ASSUME NEW conflicts, NEW mismatches, ConflictsAreOfTheirBookings(conflicts)
  PROVE  LinksLeadToTheirProblems(conflicts, mismatches)
<1> DEFINE shown(focus) == visibleConflicts(conflicts, parseConflictFocus(planningConflictUrl(focus)))
           with(field, x) == [NoFocus EXCEPT ![field] = x]
           bookings == UNION {c.bookings : c \in conflicts}
<1>f. /\ \A x : with("project", x) = Focus(x, None, None) /\ with("package", x) = Focus(None, x, None)
      /\ \A x, r : [with("package", x) EXCEPT !.resource = r] = Focus(None, x, r)
      /\ NoFocus = Focus(None, None, None)
  BY DEF NoFocus, FocusFields, Focus
<1>s. \A x, y, r : shown(Focus(x, y, r)) =
        {c \in conflicts : /\ r \in {None, c.resource}
                           /\ x # None \/ y # None =>
                                \E b \in c.bookings : x \in {None, b.project} /\ y \in {None, b.package}}
  BY ShownForALink
<1> HIDE DEF shown, with
<1>1. shown(NoFocus) = conflicts
  <2>1. shown(NoFocus) = shown(Focus(None, None, None))
    BY <1>f
  <2>2. shown(Focus(None, None, None)) =
          {c \in conflicts : /\ None \in {None, c.resource}
                             /\ None # None \/ None # None =>
                                  \E b \in c.bookings : None \in {None, b.project} /\ None \in {None, b.package}}
    BY <1>s
  <2> QED  BY <2>1, <2>2
<1>2. visibleMismatches(mismatches, NoFocus) = mismatches
  BY DEF visibleMismatches, matchesFocusedMismatch, MatchesAssignment, NoFocus, FocusFields
<1>3. ASSUME NEW b \in bookings, ~WasRemoved(b)
      PROVE  /\ Cardinality(shown(with("project", b.project)))
                  = open_conflict_count(conflicts, b.project)
             /\ \A c \in conflicts : b \in c.bookings =>
                  /\ c \in shown(with("package", b.package))
                  /\ c \in shown([with("package", b.package) EXCEPT !.resource = b.resource])
  <2>1. b.project # None /\ b.package # None
    BY <1>3 DEF ConflictsAreOfTheirBookings, WasRemoved
  <2>2. shown(with("project", b.project)) = {c \in conflicts : \E x \in c.bookings : x.project = b.project}
    <3>1. shown(with("project", b.project)) =
            {c \in conflicts :
              /\ None \in {None, c.resource}
              /\ b.project # None \/ None # None =>
                   \E x \in c.bookings : b.project \in {None, x.project} /\ None \in {None, x.package}}
      BY <1>f, <1>s
    <3> QED  BY <2>1, <3>1
  <2>3. shown(with("package", b.package)) =
            {c \in conflicts :
              /\ None \in {None, c.resource}
              /\ None # None \/ b.package # None =>
                   \E x \in c.bookings : None \in {None, x.project} /\ b.package \in {None, x.package}}
    BY <1>f, <1>s
  <2>k. [with("package", b.package) EXCEPT !.resource = b.resource] = Focus(None, b.package, b.resource)
    BY <1>f
  <2>4. shown([with("package", b.package) EXCEPT !.resource = b.resource]) =
            {c \in conflicts :
              /\ b.resource \in {None, c.resource}
              /\ None # None \/ b.package # None =>
                   \E x \in c.bookings : None \in {None, x.project} /\ b.package \in {None, x.package}}
    BY <2>k, <1>s
  <2>5. \A c \in conflicts : b \in c.bookings => b.resource = c.resource
    BY DEF ConflictsAreOfTheirBookings
  <2>6. Cardinality(shown(with("project", b.project))) = open_conflict_count(conflicts, b.project)
    BY <2>2 DEF open_conflict_count
  <2> QED  BY <2>3, <2>4, <2>5, <2>6
<1>4. ASSUME NEW b \in bookings, NEW c \in conflicts, b \in c.bookings
      PROVE  LET own == {x \in bookings : x.package = b.package}
                 offered == readinessSuggestions({x \in conflicts : x.bookings \cap own # {}}, own)
             IN  Cardinality({r \in DOMAIN offered : b.id \in offered[r]}) = 1
  <2> DEFINE own == {x \in bookings : x.package = b.package}
             of == {x \in conflicts : x.bookings \cap own # {}}
             offered == readinessSuggestions(of, own)
             offers(r) == {x.id : x \in {x \in own : /\ x.resource = r
                                    /\ \E k \in of : k.resource = r /\ x \in k.bookings}}
  <2>1. b \in own /\ c \in of /\ c.resource = b.resource
    BY <1>4 DEF ConflictsAreOfTheirBookings
  <2>2. /\ DOMAIN offered = {k.resource : k \in of}
        /\ \A r \in DOMAIN offered : offered[r] = offers(r)
    BY DEF readinessSuggestions
  <2>3. \A x \in own : x.id = b.id => x = b
    BY DEF ConflictsAreOfTheirBookings
  <2> HIDE DEF own, of, offered
  <2>4. \A r : b.id \in offers(r) => r = b.resource
    BY <2>3
  <2>5. b.id \in offers(b.resource) /\ b.resource \in DOMAIN offered
    BY <1>4, <2>1, <2>2
  <2> HIDE DEF offers
  <2>6. {r \in DOMAIN offered : b.id \in offered[r]} = {b.resource}
    BY <2>2, <2>4, <2>5
  <2>7. Cardinality({b.resource}) = 1
    BY FS_Singleton
  <2> QED  BY <2>6, <2>7 DEF own, of, offered
<1> QED  BY <1>1, <1>2, <1>3, <1>4 DEF LinksLeadToTheirProblems, shown, with

-----------------------------------------------------------------------------
(* The cards of the planning page.  A card is folded from its conflicts, one  *)
(* at a time; what is shown of the fold holds of every part of them.          *)
\* The days, the severity and the ratio of a conflict are numbers.
ConflictTyped(c) == c.first \in Int /\ c.last \in Int /\ c.severity \in Int /\ c.ratio \in Nat
Buckets(S) == [conflicts : SUBSET S, worstSeverity : Int, worstRatio : Nat, totalDays : Int]

\* One conflict more in a bucket, field by field.
LEMMA BucketedTyped ==
  ASSUME NEW S, NEW c \in S, ConflictTyped(c), NEW b \in Buckets(S)
  PROVE  /\ Bucketed(b, c) \in Buckets(S)
         /\ Bucketed(b, c).conflicts = b.conflicts \cup {c}
         /\ Bucketed(b, c).worstSeverity = IF c.severity < b.worstSeverity THEN c.severity ELSE b.worstSeverity
         /\ Bucketed(b, c).worstRatio = IF c.ratio # 0 /\ (b.worstRatio = 0 \/ c.ratio > b.worstRatio) THEN c.ratio ELSE b.worstRatio
         /\ Bucketed(b, c).totalDays = b.totalDays + spanDays(c)
<1>1. spanDays(c) \in Int
  BY DEF spanDays, ConflictTyped
<1> DEFINE sev == IF c.severity < b.worstSeverity THEN c.severity ELSE b.worstSeverity
           rat == IF c.ratio # 0 /\ (b.worstRatio = 0 \/ c.ratio > b.worstRatio) THEN c.ratio ELSE b.worstRatio
<1>2. sev \in Int /\ rat \in Nat
  BY DEF ConflictTyped, Buckets
<1> DEFINE new == b.conflicts \cup {c}  days == b.totalDays + spanDays(c)
<1>2a. Bucketed(b, c) = [b EXCEPT !.conflicts = new, !.worstSeverity = sev, !.worstRatio = rat, !.totalDays = days]
  BY Zenon DEF Bucketed
<1> HIDE DEF sev, rat, new, days
<1>3. Bucketed(b, c) = [conflicts |-> new, worstSeverity |-> sev, worstRatio |-> rat, totalDays |-> days]
  BY <1>2a DEF Buckets
<1>4. b.conflicts \cup {c} \in SUBSET S /\ b.totalDays + spanDays(c) \in Int
  BY <1>1 DEF Buckets
<1>5. Bucketed(b, c) \in Buckets(S)
  BY <1>2, <1>3, <1>4 DEF Buckets, new, days
<1> QED BY <1>3, <1>5 DEF sev, rat, new, days

\* The fold of a bucket as the community modules define it.
BucketFold(S, base, iter) ==
  iter = [s \in SUBSET S |-> IF s = {} THEN base ELSE
     LET x == CHOOSE x \in s : TRUE IN Bucketed(iter[s \ {x}], x)]

\* The fold of a bucket exists: what is folded so far is a bucket.
LEMMA BucketFolds ==
  ASSUME NEW S, IsFiniteSet(S), \A c \in S : ConflictTyped(c), NEW base \in Buckets(S)
  PROVE  \E iter : BucketFold(S, base, iter)
<1> DEFINE step == [p \in S \X Buckets(S) |-> Bucketed(p[2], p[1])]
<1>1. \A s \in SUBSET S : s # {} => AnyOf(S)[s] \in s
  BY AnyIsOf
<1>2. PICK iter : Folds(S, base, AnyOf(S), step, iter)
  <2> HIDE DEF step
  <2> QED  BY AnyFoldExists
<1>3. ASSUME NEW s \in SUBSET S, s # {}
      PROVE  /\ iter[s] = step[<<AnyOf(S)[s], iter[s \ {AnyOf(S)[s]}]>>]
             /\ AnyOf(S)[s] \in S
  BY <1>1, <1>2, <1>3 DEF Folds
<1>4. iter[{}] = base
  BY <1>2 DEF Folds
<1> DEFINE T == {A \in SUBSET S : iter[A] \in Buckets(S)}
<1>5. ASSUME NEW A \in SUBSET S, A # {}, A \ {AnyOf(S)[A]} \in T PROVE A \in T
  <2>1. step[<<AnyOf(S)[A], iter[A \ {AnyOf(S)[A]}]>>] = Bucketed(iter[A \ {AnyOf(S)[A]}], AnyOf(S)[A])
    BY <1>3, <1>5
  <2>2. Bucketed(iter[A \ {AnyOf(S)[A]}], AnyOf(S)[A]) \in Buckets(S)
    BY <1>3, <1>5, BucketedTyped
  <2> QED  BY <1>3, <1>5, <2>1, <2>2
<1>6. {} \in T /\ T \in SUBSET (SUBSET S)
  BY <1>4
<1> HIDE DEF T, step
<1>7. T = SUBSET S
  BY <1>5, <1>6, AnyFoldInduction
<1>8. ASSUME NEW s \in SUBSET S, s # {}
      PROVE  iter[s] = LET x == CHOOSE x \in s : TRUE IN Bucketed(iter[s \ {x}], x)
  <2>1. AnyOf(S)[s] = CHOOSE x \in s : TRUE
    BY DEF AnyOf
  <2>2. AnyOf(S)[s] \in S /\ iter[s \ {AnyOf(S)[s]}] \in Buckets(S)
    BY <1>3, <1>7, <1>8 DEF T
  <2>3. step[<<AnyOf(S)[s], iter[s \ {AnyOf(S)[s]}]>>] = Bucketed(iter[s \ {AnyOf(S)[s]}], AnyOf(S)[s])
    BY <2>2 DEF step
  <2> QED  BY <1>3, <1>8, <2>1, <2>3
<1>9. BucketFold(S, base, iter)
  <2>1. iter = [s \in SUBSET S |-> iter[s]]
    BY <1>2 DEF Folds
  <2> QED  BY <1>4, <1>8, <2>1 DEF BucketFold
<1> QED  BY <1>9

\* The sum of the days exists, and adds up in the same order.
SumFold(S, iter) ==
  iter = [s \in SUBSET S |-> IF s = {} THEN 0 ELSE
     LET x == CHOOSE x \in s : TRUE IN spanDays(x) + iter[s \ {x}]]

\* The days of spans add up by a fold.
LEMMA SumFolds ==
  ASSUME NEW S, IsFiniteSet(S), \A c \in S : ConflictTyped(c)
  PROVE  \E iter : SumFold(S, iter)
<1> DEFINE days == [c \in S |-> spanDays(c)]
<1>1. \A c \in S : days[c] = spanDays(c) /\ days[c] \in Int
  BY DEF spanDays, ConflictTyped
<1> HIDE DEF days
<1>2. PICK iter : Summed(S, days, iter)
  BY <1>1, SumExists
<1>3. iter = [s \in SUBSET S |-> iter[s]] /\ iter[{}] = 0
  BY <1>2 DEF Summed
<1>4. ASSUME NEW s \in SUBSET S, s # {}
      PROVE  iter[s] = LET x == CHOOSE x \in s : TRUE IN spanDays(x) + iter[s \ {x}]
  BY <1>1, <1>2, <1>4 DEF Summed
<1>5. SumFold(S, iter)
  <2>1. iter = [s \in SUBSET S |-> iter[s]]
    BY <1>3
  <2> QED  BY <1>3, <1>4, <2>1 DEF SumFold
<1> QED  BY <1>5

\* The days of a card are that sum.
LEMMA SumIsFold ==
  ASSUME NEW S, IsFiniteSet(S), \A c \in S : ConflictTyped(c)
  PROVE  \E iter : SumFold(S, iter) /\ MapThenSumSet(spanDays, S) = iter[S]
<1> DEFINE it == CHOOSE iter : SumFold(S, iter)
<1>1. SumFold(S, it)
  BY SumFolds
<1>2. MapThenSumSet(spanDays, S) = it[S]
  BY DEF MapThenSumSet, MapThenFoldSet, SumFold
<1> QED BY <1>1, <1>2

\* The bucket of some conflicts is that fold, set up by one of them.
LEMMA BucketIsFold ==
  ASSUME NEW S, IsFiniteSet(S), S # {}, \A c \in S : ConflictTyped(c)
  PROVE  \E f \in S : \E iter : BucketFold(S, FirstOf(f), iter) /\ BucketOf(S) = iter[S]
<1> DEFINE f == CHOOSE c \in S : TRUE
           it == CHOOSE iter : BucketFold(S, FirstOf(f), iter)
<1>0. f \in S
  OBVIOUS
<1>1. FirstOf(f) \in Buckets(S)
  BY <1>0 DEF FirstOf, Buckets, ConflictTyped
<1>2. BucketFold(S, FirstOf(f), it)
  <2> HIDE DEF f
  <2> QED  BY <1>1, BucketFolds
<1>3. BucketOf(S) = it[S]
  BY DEF BucketOf, FoldSet, MapThenFoldSet, BucketFold
<1> QED BY <1>0, <1>2, <1>3

\* Ratios that can be said.
Ratios(A) == {c.ratio : c \in A} \ {0}
Severities(A) == {c.severity : c \in A}

\* A bucket of some of the conflicts, f being the first: it has them, the worst
\* of them and of f, and the sum of their days.
Tells(b, A, f, days) ==
  /\ b.conflicts = A /\ b.totalDays = days /\ days \in Int
  /\ b.worstSeverity \in Severities(A \cup {f})
  /\ \A y \in Severities(A \cup {f}) : b.worstSeverity <= y
  /\ b.worstRatio \in Ratios(A \cup {f}) \/ (b.worstRatio = 0 /\ Ratios(A \cup {f}) = {})
  /\ \A y \in Ratios(A \cup {f}) : b.worstRatio >= y

\* One conflict more.
LEMMA TellsMore ==
  ASSUME NEW S, \A c \in S : ConflictTyped(c), NEW A \in SUBSET S, NEW f \in S, NEW x \in S,
         NEW b \in Buckets(S), NEW n \in Int, Tells(b, A, f, n)
  PROVE  Tells(Bucketed(b, x), A \cup {x}, f, spanDays(x) + n)
<1>1. /\ Bucketed(b, x).conflicts = b.conflicts \cup {x}
      /\ Bucketed(b, x).worstSeverity = IF x.severity < b.worstSeverity THEN x.severity ELSE b.worstSeverity
      /\ Bucketed(b, x).worstRatio = IF x.ratio # 0 /\ (b.worstRatio = 0 \/ x.ratio > b.worstRatio) THEN x.ratio ELSE b.worstRatio
      /\ Bucketed(b, x).totalDays = b.totalDays + spanDays(x)
  BY BucketedTyped
<1>2. spanDays(x) \in Int /\ x.severity \in Int /\ x.ratio \in Nat
  BY DEF spanDays, ConflictTyped
<1>3. Severities(A \cup {f}) \subseteq Int /\ Ratios(A \cup {f}) \subseteq Nat \ {0}
  BY DEF Severities, Ratios, ConflictTyped
<1>4. /\ Severities((A \cup {x}) \cup {f}) = Severities(A \cup {f}) \cup {x.severity}
      /\ Ratios((A \cup {x}) \cup {f}) = Ratios(A \cup {f}) \cup ({x.ratio} \ {0})
  BY DEF Severities, Ratios
<1> DEFINE d == Bucketed(b, x)
<1>5. d.conflicts = A \cup {x} /\ d.totalDays = spanDays(x) + n /\ spanDays(x) + n \in Int
  BY <1>1, <1>2 DEF Tells
<1> HIDE DEF d
<1>6. /\ d.worstSeverity \in Severities((A \cup {x}) \cup {f})
      /\ \A y \in Severities((A \cup {x}) \cup {f}) : d.worstSeverity <= y
  <2>1. d.worstSeverity = IF x.severity < b.worstSeverity THEN x.severity ELSE b.worstSeverity
    BY <1>1 DEF d
  <2>2. b.worstSeverity \in Severities(A \cup {f}) /\ \A y \in Severities(A \cup {f}) : b.worstSeverity <= y
    BY DEF Tells
  <2>3. CASE x.severity < b.worstSeverity
    BY <1>2, <1>3, <1>4, <2>1, <2>2, <2>3
  <2>4. CASE ~(x.severity < b.worstSeverity)
    BY <1>2, <1>3, <1>4, <2>1, <2>2, <2>4
  <2> QED  BY <2>3, <2>4
<1>7. /\ \/ d.worstRatio \in Ratios((A \cup {x}) \cup {f})
         \/ d.worstRatio = 0 /\ Ratios((A \cup {x}) \cup {f}) = {}
      /\ \A y \in Ratios((A \cup {x}) \cup {f}) : d.worstRatio >= y
  <2> DEFINE R == Ratios(A \cup {f})
  <2>1. d.worstRatio = IF x.ratio # 0 /\ (b.worstRatio = 0 \/ x.ratio > b.worstRatio) THEN x.ratio ELSE b.worstRatio
    BY <1>1 DEF d
  <2>2. (b.worstRatio \in R \/ (b.worstRatio = 0 /\ R = {})) /\ \A y \in R : b.worstRatio >= y
    BY DEF Tells
  <2>3. R \subseteq Nat \ {0}
    BY <1>3
  <2>4. Ratios((A \cup {x}) \cup {f}) = R \cup ({x.ratio} \ {0})
    BY <1>4
  <2> DEFINE r == x.ratio  w == b.worstRatio
  <2> HIDE DEF R, r, w
  <2>5. CASE r = 0
    <3>1. d.worstRatio = w
      BY <2>1, <2>5 DEF r, w
    <3> QED  BY <2>2, <2>4, <2>5, <3>1 DEF r, w
  <2>6. CASE r # 0 /\ (w = 0 \/ r > w)
    <3>1. d.worstRatio = r
      BY <2>1, <2>6 DEF r, w
    <3>2. (w \in R \/ (w = 0 /\ R = {})) /\ (\A y \in R : w >= y) /\ r \in Nat
      BY <1>2, <2>2 DEF r, w
    <3>3. \A y \in R \cup ({r} \ {0}) : r >= y
      <4>1. CASE w = 0
        BY <2>3, <2>6, <3>2, <4>1
      <4>2. CASE w # 0
        <5>1. w \in R /\ w \in Nat /\ r > w
          BY <2>3, <2>6, <3>2, <4>2
        <5> QED  BY <2>3, <3>2, <5>1
      <4> QED  BY <4>1, <4>2
    <3>4. r \in R \cup ({r} \ {0})
      BY <2>6
    <3> QED  BY <2>4, <3>1, <3>3, <3>4 DEF r
  <2>7. CASE r # 0 /\ ~(w = 0 \/ r > w)
    <3>1. d.worstRatio = w
      BY <2>1, <2>7 DEF r, w
    <3>2. w \in R /\ (\A y \in R : w >= y) /\ r \in Nat /\ w \in Nat
      BY <1>2, <2>2, <2>3, <2>7 DEF r, w
    <3>3. \A y \in R \cup ({r} \ {0}) : w >= y
      BY <2>3, <2>7, <3>2
    <3> QED  BY <2>4, <3>1, <3>2, <3>3 DEF r
  <2> QED  BY <2>5, <2>6, <2>7
<1> QED  BY <1>5, <1>6, <1>7 DEF Tells, d

\* So the bucket of all says what its conflicts say.
LEMMA BucketTells ==
  ASSUME NEW S, IsFiniteSet(S), S # {}, \A c \in S : ConflictTyped(c)
  PROVE  /\ BucketOf(S).conflicts = S
         /\ BucketOf(S).worstSeverity = Min(Severities(S))
         /\ BucketOf(S).worstRatio = IF Ratios(S) = {} THEN 0 ELSE Max(Ratios(S))
         /\ BucketOf(S).totalDays = MapThenSumSet(spanDays, S)
<1>1. PICK f \in S : \E iter : BucketFold(S, FirstOf(f), iter) /\ BucketOf(S) = iter[S]
  BY BucketIsFold
<1>2. PICK iter : BucketFold(S, FirstOf(f), iter) /\ BucketOf(S) = iter[S]
  BY <1>1
<1>3. PICK sum : SumFold(S, sum) /\ MapThenSumSet(spanDays, S) = sum[S]
  BY SumIsFold
<1> DEFINE T == {A \in SUBSET S : iter[A] \in Buckets(S) /\ sum[A] \in Int /\ Tells(iter[A], A, f, sum[A])}
<1>4. {} \in T /\ T \in SUBSET (SUBSET S)
  <2>1. iter[{}] = FirstOf(f) /\ sum[{}] = 0
    BY <1>2, <1>3 DEF BucketFold, SumFold
  <2>2. f.severity \in Int /\ f.ratio \in Nat
    BY DEF ConflictTyped
  <2>3. FirstOf(f) \in Buckets(S)
    BY <2>2 DEF FirstOf, Buckets
  <2>4. Severities({} \cup {f}) = {f.severity} /\ Ratios({} \cup {f}) = {f.ratio} \ {0}
    BY DEF Severities, Ratios
  <2>5. Tells(FirstOf(f), {}, f, 0)
    BY <2>2, <2>4 DEF Tells, FirstOf
  <2> QED  BY <2>1, <2>3, <2>5
<1>5. ASSUME NEW A \in SUBSET S, A # {}, A \ {AnyOf(S)[A]} \in T PROVE A \in T
  <2> DEFINE x == AnyOf(S)[A]  B == A \ {x}
  <2>1. x \in A /\ x \in S
    BY <1>5, AnyIsOf
  <2>2. x = CHOOSE y \in A : TRUE
    BY DEF AnyOf
  <2> HIDE DEF x
  <2>3. iter[A] = Bucketed(iter[B], x) /\ sum[A] = spanDays(x) + sum[B]
    BY <1>2, <1>3, <1>5, <2>2 DEF BucketFold, SumFold
  <2>4. B \in T /\ B \in SUBSET S /\ A = B \cup {x}
    BY <1>5, <2>1 DEF x
  <2> HIDE DEF B
  <2>5. iter[B] \in Buckets(S) /\ sum[B] \in Int /\ Tells(iter[B], B, f, sum[B])
    BY <2>4
  <2>6. Tells(Bucketed(iter[B], x), B \cup {x}, f, spanDays(x) + sum[B])
    BY <2>1, <2>4, <2>5, TellsMore
  <2>7. Bucketed(iter[B], x) \in Buckets(S) /\ spanDays(x) + sum[B] \in Int
    BY <2>1, <2>5, <2>6, BucketedTyped DEF Tells
  <2> QED  BY <2>3, <2>4, <2>6, <2>7
<1> HIDE DEF T
<1>7. T = SUBSET S
  BY <1>4, <1>5, AnyFoldInduction
<1>8. Tells(BucketOf(S), S, f, MapThenSumSet(spanDays, S)) /\ S \cup {f} = S
  BY <1>2, <1>3, <1>7 DEF T
<1>9. /\ Severities(S) \in SUBSET Int /\ Severities(S) # {}
      /\ Ratios(S) \in SUBSET Int
  BY DEF Severities, Ratios, ConflictTyped
<1>10. BucketOf(S).worstSeverity = Min(Severities(S))
  <2>1. /\ BucketOf(S).worstSeverity \in Severities(S)
        /\ \A y \in Severities(S) : BucketOf(S).worstSeverity <= y
    BY <1>8 DEF Tells
  <2>2. IsFiniteSet(Severities(S))
    <3> DEFINE g == [c \in S |-> c.severity]
    <3>1. IsFiniteSet({g[c] : c \in S})
      BY ImageFinite
    <3>2. {g[c] : c \in S} = Severities(S)
      BY DEF Severities
    <3> QED  BY <3>1, <3>2
  <2>3. Min(Severities(S)) \in Severities(S) /\ \A y \in Severities(S) : Min(Severities(S)) <= y
    BY <1>9, <2>2, Extremes
  <2> QED  BY <1>9, <2>1, <2>3
<1>11. BucketOf(S).worstRatio = IF Ratios(S) = {} THEN 0 ELSE Max(Ratios(S))
  <2>1. /\ BucketOf(S).worstRatio \in Ratios(S) \/ (BucketOf(S).worstRatio = 0 /\ Ratios(S) = {})
        /\ \A y \in Ratios(S) : BucketOf(S).worstRatio >= y
    BY <1>8 DEF Tells
  <2>2. IsFiniteSet(Ratios(S))
    <3> DEFINE g == [c \in S |-> c.ratio]
    <3>1. IsFiniteSet({g[c] : c \in S})
      BY ImageFinite
    <3>2. Ratios(S) = {g[c] : c \in S} \ {0}
      BY DEF Ratios
    <3> HIDE DEF g
    <3>3. Ratios(S) \subseteq {g[c] : c \in S}
      BY <3>2
    <3> QED  BY <3>1, <3>3, FS_Subset
  <2>3. CASE Ratios(S) # {}
    <3>1. Max(Ratios(S)) \in Ratios(S) /\ \A y \in Ratios(S) : y <= Max(Ratios(S))
      BY <1>9, <2>2, <2>3, Extremes
    <3> QED  BY <1>9, <2>1, <2>3, <3>1
  <2> QED  BY <2>1, <2>3
<1> QED  BY <1>8, <1>10, <1>11 DEF Tells

ConflictsTyped(conflicts) == IsFiniteSet(conflicts) /\ \A c \in conflicts : ConflictTyped(c)

\* The conflicts of one resource.
Own(cs, r) == {c \in cs : c.resource = r}
CapacityCard(cs, r) ==
  [type |-> "capacity", resource |-> r, conflicts |-> Own(cs, r),
   bookings |-> UNION {c.bookings : c \in Own(cs, r)}]
SkillCard(ms, r) ==
  [type |-> "skill", resource |-> r, conflicts |-> {}, bookings |-> {b \in ms : b.resource = r}]

\* The cards, resource by resource.
LEMMA CardsAre ==
  ASSUME NEW cs, ConflictsTyped(cs), NEW ms
  PROVE  problemBuckets(cs, ms) = {CapacityCard(cs, r) : r \in {c.resource : c \in cs}}
                                   \cup {SkillCard(ms, r) : r \in {b.resource : b \in ms}}
<1> DEFINE buckets == buildResourceBuckets(cs)
           R == {c.resource : c \in cs}
<1>1. DOMAIN buckets = R /\ \A r \in R : buckets[r] = BucketOf(Own(cs, r))
  BY DEF buildResourceBuckets, Own
<1>2. ASSUME NEW r \in R PROVE buckets[r].conflicts = Own(cs, r)
  <2>1. Own(cs, r) # {} /\ Own(cs, r) \subseteq cs
    BY DEF Own
  <2>2. IsFiniteSet(Own(cs, r)) /\ \A c \in Own(cs, r) : ConflictTyped(c)
    BY <2>1, FS_Subset DEF ConflictsTyped
  <2>3. BucketOf(Own(cs, r)).conflicts = Own(cs, r)
    BY <2>1, <2>2, BucketTells
  <2> QED  BY <1>1, <2>3
<1> HIDE DEF buckets
<1>3. problemBuckets(cs, ms) =
        {[type |-> "capacity", resource |-> r, conflicts |-> buckets[r].conflicts,
          bookings |-> UNION {c.bookings : c \in buckets[r].conflicts}] : r \in DOMAIN buckets}
        \cup {SkillCard(ms, r) : r \in {b.resource : b \in ms}}
  BY DEF problemBuckets, SkillCard, buckets
<1>4. \A r \in R : [type |-> "capacity", resource |-> r, conflicts |-> buckets[r].conflicts,
                     bookings |-> UNION {c.bookings : c \in buckets[r].conflicts}] = CapacityCard(cs, r)
  BY <1>2 DEF CapacityCard
<1> QED  BY <1>1, <1>3, <1>4

(* features/planning/problemBuckets.ts: for every finite set of conflicts and *)
(* of bookings without the qualification, and whatever is in focus, every     *)
(* problem in focus is on one card of its resource with all its bookings, and *)
(* a card says the worst of its conflicts and the sum of their days.          *)
THEOREM CardsShow ==
  ASSUME NEW conflicts, NEW mismatches, NEW focus, ConflictsTyped(conflicts)
  PROVE  CardsShowEveryProblem(conflicts, mismatches, focus)
<1> DEFINE cs == visibleConflicts(conflicts, focus)
           ms == visibleMismatches(mismatches, focus)
           cards == problemBuckets(cs, ms)
           buckets == buildResourceBuckets(cs)
           R == {c.resource : c \in cs}
           Q == {b.resource : b \in ms}
<1>1. ConflictsTyped(cs)
  BY FS_Subset DEF ConflictsTyped, visibleConflicts
<1>s. \A c \in cs : matchesFocusedConflict(c, focus)
  BY DEF visibleConflicts
<1>m. \A b \in ms : matchesFocusedMismatch(b, focus)
  BY DEF visibleMismatches
<1> HIDE DEF cs, ms
<1>2. cards = {CapacityCard(cs, r) : r \in R} \cup {SkillCard(ms, r) : r \in Q}
  BY <1>1, CardsAre
<1>b. DOMAIN buckets = R /\ \A r \in R : buckets[r] = BucketOf(Own(cs, r))
  BY DEF buildResourceBuckets, Own
<1> HIDE DEF cards, buckets
<1>3. /\ \A r : /\ CapacityCard(cs, r).type = "capacity" /\ CapacityCard(cs, r).resource = r
               /\ CapacityCard(cs, r).conflicts = Own(cs, r)
               /\ CapacityCard(cs, r).bookings = UNION {c.bookings : c \in Own(cs, r)}
      /\ \A r : /\ SkillCard(ms, r).type = "skill" /\ SkillCard(ms, r).resource = r
               /\ SkillCard(ms, r).conflicts = {}
               /\ SkillCard(ms, r).bookings = {b \in ms : b.resource = r}
  BY DEF CapacityCard, SkillCard
<1>4. ASSUME NEW c \in cs PROVE Cardinality({k \in cards : c \in k.conflicts}) = 1
  <2>1. \A r : c \in Own(cs, r) <=> r = c.resource
    BY DEF Own
  <2>2. {k \in cards : c \in k.conflicts} = {CapacityCard(cs, c.resource)}
    BY <1>2, <1>3, <2>1
  <2> QED  BY <2>2, FS_Singleton
<1>5. ASSUME NEW b \in ms PROVE Cardinality({k \in cards : k.type = "skill" /\ b \in k.bookings}) = 1
  <2>1. {k \in cards : k.type = "skill" /\ b \in k.bookings} = {SkillCard(ms, b.resource)}
    BY <1>2, <1>3
  <2> QED  BY <2>1, FS_Singleton
<1>6. ASSUME NEW k \in cards
      PROVE  \A b \in k.bookings : b \in Grouped(k)[b.project] /\ b.id \in SuggestionsFor(k)
  BY DEF Grouped, SuggestionsFor
<1>7. ASSUME NEW k \in cards, NEW c \in k.conflicts
      PROVE  /\ c.resource = k.resource /\ c.bookings \subseteq k.bookings
             /\ EarliestStart(k) <= c.first /\ c.last <= LatestEnd(k)
  <2>1. PICK r \in R : k = CapacityCard(cs, r)
    BY <1>2, <1>3
  <2>2. c \in Own(cs, r) /\ c.resource = r /\ k.conflicts = Own(cs, r)
        /\ k.bookings = UNION {d.bookings : d \in Own(cs, r)} /\ k.resource = r
    BY <1>3, <2>1 DEF Own
  <2>3. IsFiniteSet(k.conflicts) /\ \A d \in k.conflicts : d.first \in Int /\ d.last \in Int
    <3>1. Own(cs, r) \subseteq cs
      BY DEF Own
    <3> QED  BY <1>1, <2>2, <3>1, FS_Subset DEF ConflictsTyped, ConflictTyped
  <2> DEFINE F == {d.first : d \in k.conflicts}  L == {d.last : d \in k.conflicts}
             f == [d \in k.conflicts |-> d.first]  l == [d \in k.conflicts |-> d.last]
  <2>4. IsFiniteSet({f[d] : d \in k.conflicts}) /\ IsFiniteSet({l[d] : d \in k.conflicts})
    <3> HIDE DEF f, l
    <3> QED  BY <2>3, ImageFinite
  <2>5. IsFiniteSet(F) /\ IsFiniteSet(L) /\ F \in SUBSET Int /\ L \in SUBSET Int
        /\ c.first \in F /\ c.last \in L
    BY <2>3, <2>4, <1>7
  <2> HIDE DEF F, L
  <2>6. Min(F) <= c.first
    BY <2>5, Extremes
  <2>7. c.last <= Max(L)
    BY <2>5, Extremes
  <2> QED  BY <2>2, <2>6, <2>7 DEF EarliestStart, LatestEnd, F, L
<1>8. ASSUME NEW k \in cards, focus.package # None PROVE Highlighted(k, focus) # {}
  <2>1. CASE \E r \in R : k = CapacityCard(cs, r)
    <3>1. PICK r \in R : k = CapacityCard(cs, r)
      BY <2>1
    <3>2. PICK c \in cs : c.resource = r
      OBVIOUS
    <3>3. PICK b \in c.bookings : MatchesAssignment(b, focus)
      BY <1>s, <1>8, <3>2 DEF matchesFocusedConflict
    <3>4. b.package = focus.package /\ b \in k.bookings
      BY <1>3, <1>8, <3>1, <3>2, <3>3 DEF MatchesAssignment, Own
    <3> QED  BY <1>8, <3>4 DEF Highlighted
  <2>2. CASE \E r \in Q : k = SkillCard(ms, r)
    <3>1. PICK r \in Q : k = SkillCard(ms, r)
      BY <2>2
    <3>2. PICK b \in ms : b.resource = r
      OBVIOUS
    <3>3. b.package = focus.package /\ b \in k.bookings
      BY <1>3, <1>8, <1>m, <3>1, <3>2 DEF matchesFocusedMismatch, MatchesAssignment
    <3> QED  BY <1>8, <3>3 DEF Highlighted
  <2> QED  BY <1>2, <2>1, <2>2
<1>9. ASSUME NEW k \in cards, k.type = "capacity"
      PROVE  /\ buckets[k.resource].worstSeverity = Min({c.severity : c \in k.conflicts})
             /\ buckets[k.resource].worstRatio = WorstRatio(k)
             /\ buckets[k.resource].totalDays = TotalDays(k)
  <2>1. PICK r \in R : k = CapacityCard(cs, r)
    BY <1>2, <1>3, <1>9
  <2>2. k.conflicts = Own(cs, r) /\ k.resource = r
    BY <1>3, <2>1
  <2>3. Own(cs, r) # {} /\ Own(cs, r) \subseteq cs
    BY DEF Own
  <2>4. IsFiniteSet(Own(cs, r)) /\ \A c \in Own(cs, r) : ConflictTyped(c)
    BY <1>1, <2>3, FS_Subset DEF ConflictsTyped
  <2>5. /\ BucketOf(Own(cs, r)).worstSeverity = Min(Severities(Own(cs, r)))
        /\ BucketOf(Own(cs, r)).worstRatio = IF Ratios(Own(cs, r)) = {} THEN 0 ELSE Max(Ratios(Own(cs, r)))
        /\ BucketOf(Own(cs, r)).totalDays = MapThenSumSet(spanDays, Own(cs, r))
    BY <2>3, <2>4, BucketTells
  <2> QED  BY <1>b, <2>2, <2>5 DEF WorstRatio, TotalDays, Ratios, Severities
<1> QED  BY <1>4, <1>5, <1>6, <1>7, <1>8, <1>9 DEF CardsShowEveryProblem, cs, ms, cards, buckets

-----------------------------------------------------------------------------
(* The calendar: years, months and days (utils/date.ts), for every day there  *)
(* is.                                                                        *)

\* The days before a year, counted.
LEMMA LeapDaysGrow ==
  ASSUME NEW y \in Int
  PROVE  /\ LeapDays(y) \in Int
         /\ LeapDays(y) = LeapDays(y - 1) + (IF IsLeap(y) THEN 1 ELSE 0)
         /\ 97 * y - 700 <= 400 * LeapDays(y) /\ 400 * LeapDays(y) <= 97 * y + 400
<1>1. y \div 4 \in Int /\ y \div 100 \in Int /\ y \div 400 \in Int
  OBVIOUS
<1>2. (y \div 4) = ((y-1) \div 4) + (IF y % 4 = 0 THEN 1 ELSE 0)
  OBVIOUS
<1>3. (y \div 100) = ((y-1) \div 100) + (IF y % 100 = 0 THEN 1 ELSE 0)
  OBVIOUS
<1>4. (y \div 400) = ((y-1) \div 400) + (IF y % 400 = 0 THEN 1 ELSE 0)
  OBVIOUS
<1>5. (y % 400 = 0 => y % 100 = 0) /\ (y % 100 = 0 => y % 4 = 0)
  OBVIOUS
<1>6. 97 * y - 700 <= 400 * ((y \div 4) - (y \div 100) + (y \div 400))
      /\ 400 * ((y \div 4) - (y \div 100) + (y \div 400)) <= 97 * y + 400
  OBVIOUS
<1> QED  BY <1>1, <1>2, <1>3, <1>4, <1>5, <1>6 DEF LeapDays, IsLeap

\* The days of a year before a month, counted from zero.
InYear(y, m) == MonthOffsets[m + 1] + (IF IsLeap(y) /\ m + 1 > 2 THEN 1 ELSE 0)

\* The day of a month is that many days into its year.
LEMMA DateIs ==
  ASSUME NEW y \in Int, NEW m \in Int, 0 <= m, m <= 11, NEW d \in Int
  PROVE  /\ DateUTC(y, m, d) = DaysBefore(y) - DaysBefore(1970) + InYear(y, m) + d - 1
         /\ DaysBefore(y) \in Int /\ DaysBefore(1970) \in Int /\ InYear(y, m) \in Nat
<1>1. y + (m \div 12) = y /\ (m % 12) + 1 = m + 1
  OBVIOUS
<1>2. MonthOffsets[m + 1] \in Nat
  <2>1. \A k \in 1..12 : MonthOffsets[k] \in Nat
    BY DEF MonthOffsets
  <2> QED  BY <2>1
<1>3. DaysBefore(y) \in Int /\ DaysBefore(1970) \in Int
  BY LeapDaysGrow DEF DaysBefore
<1>4. DateUTC(y, m, d) = DaysBefore(y) - DaysBefore(1970) + MonthOffsets[m + 1]
                           + (IF IsLeap(y) /\ m + 1 > 2 THEN 1 ELSE 0) + d - 1
  BY <1>1 DEF DateUTC
<1> QED  BY <1>2, <1>3, <1>4 DEF InYear

\* The month after December is the next January.
LEMMA YearTurns ==
  ASSUME NEW y \in Int, NEW d \in Int
  PROVE  DateUTC(y, 12, d) = DateUTC(y + 1, 0, d)
<1>1. /\ y + (12 \div 12) = y + 1 /\ (12 % 12) + 1 = 1
      /\ y + 1 + (0 \div 12) = y + 1 /\ (0 % 12) + 1 = 1
  OBVIOUS
<1> QED  BY <1>1 DEF DateUTC

\* A year is as long as its days, and four hundred of them are 146097 days.
LEMMA YearsFollow ==
  ASSUME NEW y \in Int
  PROVE  /\ FirstOfYear(y) = DaysBefore(y) - DaysBefore(1970)
         /\ FirstOfYear(y) \in Int
         /\ FirstOfYear(y + 1) = FirstOfYear(y) + (IF IsLeap(y) THEN 366 ELSE 365)
         /\ 146097 * (y - 1970) - 700 <= 400 * FirstOfYear(y)
         /\ 400 * FirstOfYear(y) <= 146097 * (y - 1970) + 700
<1>1. \A z \in Int : InYear(z, 0) = 0
  BY DEF InYear, MonthOffsets
<1>2. ASSUME NEW z \in Int
      PROVE  FirstOfYear(z) = DaysBefore(z) - DaysBefore(1970) /\ DaysBefore(z) \in Int
  <2>1. FirstOfYear(z) = DateUTC(z, 0, 1) /\ InYear(z, 0) = 0
    BY <1>1 DEF FirstOfYear
  <2>2. DateUTC(z, 0, 1) = DaysBefore(z) - DaysBefore(1970) + InYear(z, 0) + 1 - 1
        /\ DaysBefore(z) \in Int /\ DaysBefore(1970) \in Int
    BY <2>1, DateIs
  <2> QED  BY <2>1, <2>2
<1>3. DaysBefore(1970) = 365 * 1970 + 477
  BY DEF DaysBefore, LeapDays
<1>4. DaysBefore(y + 1) = DaysBefore(y) + (IF IsLeap(y) THEN 366 ELSE 365)
  <2>1. DaysBefore(y + 1) = 365 * (y + 1) + LeapDays(y)
    BY DEF DaysBefore
  <2>2. y - 1 \in Int /\ LeapDays(y - 1) \in Int
    BY LeapDaysGrow
  <2>3. LeapDays(y) = LeapDays(y - 1) + (IF IsLeap(y) THEN 1 ELSE 0)
    BY LeapDaysGrow
  <2> QED  BY <2>1, <2>2, <2>3 DEF DaysBefore
<1>5. /\ 146097 * y - 97 - 700 <= 400 * DaysBefore(y)
      /\ 400 * DaysBefore(y) <= 146097 * y - 97 + 400
  <2>1. y - 1 \in Int
    OBVIOUS
  <2>2. 97 * (y - 1) - 700 <= 400 * LeapDays(y - 1) /\ 400 * LeapDays(y - 1) <= 97 * (y - 1) + 400
        /\ LeapDays(y - 1) \in Int
    BY <2>1, LeapDaysGrow
  <2> QED  BY <2>2 DEF DaysBefore
<1>6. y + 1 \in Int
  OBVIOUS
<1> QED  BY <1>2, <1>3, <1>4, <1>5, <1>6

\* The year of a day is the one it lies in.
LEMMA YearIs ==
  ASSUME NEW a \in Int
  PROVE  /\ UTCFullYear(a) \in Int
         /\ FirstOfYear(UTCFullYear(a)) <= a /\ a < FirstOfYear(UTCFullYear(a) + 1)
         /\ \A y \in Int : FirstOfYear(y) <= a /\ a < FirstOfYear(y + 1) => y = UTCFullYear(a)
<1> DEFINE guess == 1970 + ((400 * a) \div 146097)
           In(y) == FirstOfYear(y) <= a /\ a < FirstOfYear(y + 1)
<1>1. guess \in Int /\ 146097 * (guess - 1970) <= 400 * a /\ 400 * a < 146097 * (guess - 1969)
  OBVIOUS
<1> HIDE DEF guess
<1>2. \A y \in Int : /\ FirstOfYear(y) \in Int
                     /\ 146097 * (y - 1970) - 700 <= 400 * FirstOfYear(y)
                     /\ 400 * FirstOfYear(y) <= 146097 * (y - 1970) + 700
                     /\ FirstOfYear(y) < FirstOfYear(y + 1)
  BY YearsFollow
<1>3. FirstOfYear(guess - 1) <= a /\ a < FirstOfYear(guess + 2)
  BY <1>1, <1>2
<1>4. \E y \in guess - 1 .. guess + 1 : In(y)
  <2>1. guess - 1 + 1 = guess /\ guess + 1 + 1 = guess + 2
    BY <1>1
  <2>2. FirstOfYear(guess) \in Int /\ FirstOfYear(guess + 1) \in Int
    BY <1>1, <1>2
  <2> QED  BY <1>1, <1>3, <2>1, <2>2
<1>5. UTCFullYear(a) \in guess - 1 .. guess + 1 /\ In(UTCFullYear(a))
  BY <1>4 DEF UTCFullYear, guess
<1>6. ASSUME NEW y \in Int, NEW z \in Int, y < z PROVE FirstOfYear(y + 1) <= FirstOfYear(z)
  <2>1. /\ FirstOfYear(y + 1) \in Int /\ FirstOfYear(z) \in Int
        /\ 400 * FirstOfYear(y + 1) <= 146097 * (y - 1969) + 700
        /\ 146097 * (z - 1970) - 700 <= 400 * FirstOfYear(z)
    <3>1. y + 1 \in Int /\ (y + 1) - 1970 = y - 1969
      OBVIOUS
    <3> QED  BY <1>2, <3>1
  <2>2. CASE z = y + 1
    BY <2>1, <2>2
  <2>3. CASE z > y + 1
    BY <2>1, <2>3
  <2> QED  BY <1>6, <2>2, <2>3
<1>7. ASSUME NEW y \in Int, NEW z \in Int, In(y), In(z) PROVE y = z
  <2>1. FirstOfYear(y) \in Int /\ FirstOfYear(z) \in Int /\ FirstOfYear(y + 1) \in Int /\ FirstOfYear(z + 1) \in Int
    BY <1>2
  <2> QED  BY <1>6, <1>7, <2>1
<1> QED  BY <1>1, <1>5, <1>7

\* The months of a year follow one another and fill it.
LEMMA MonthsFill ==
  ASSUME NEW y \in Int
  PROVE  /\ InYear(y, 0) = 0
         /\ \A m \in 0..11 : DaysIn(y, m + 1) \in 28..31 /\ InYear(y, m) \in Nat
         /\ \A m \in 0..10 : InYear(y, m + 1) = InYear(y, m) + DaysIn(y, m + 1)
         /\ InYear(y, 11) + 31 = (IF IsLeap(y) THEN 366 ELSE 365)
         /\ \A m, n \in 0..11 : m < n => InYear(y, m) + DaysIn(y, m + 1) <= InYear(y, n)
<1>1. MonthOffsets = <<0, 31, 59, 90, 120, 151, 181, 212, 243, 273, 304, 334>>
  BY DEF MonthOffsets
<1>2. /\ MonthOffsets[1] = 0 /\ MonthOffsets[2] = 31 /\ MonthOffsets[3] = 59 /\ MonthOffsets[4] = 90
      /\ MonthOffsets[5] = 120 /\ MonthOffsets[6] = 151 /\ MonthOffsets[7] = 181 /\ MonthOffsets[8] = 212
      /\ MonthOffsets[9] = 243 /\ MonthOffsets[10] = 273 /\ MonthOffsets[11] = 304 /\ MonthOffsets[12] = 334
  BY <1>1
<1>3. /\ InYear(y, 0) = 0 /\ InYear(y, 1) = 31
      /\ \A m \in 2..11 : InYear(y, m) = MonthOffsets[m + 1] + (IF IsLeap(y) THEN 1 ELSE 0)
  BY <1>2 DEF InYear
<1>4. /\ DaysIn(y, 1) = 31 /\ DaysIn(y, 2) = (IF IsLeap(y) THEN 29 ELSE 28) /\ DaysIn(y, 3) = 31
      /\ DaysIn(y, 4) = 30 /\ DaysIn(y, 5) = 31 /\ DaysIn(y, 6) = 30 /\ DaysIn(y, 7) = 31
      /\ DaysIn(y, 8) = 31 /\ DaysIn(y, 9) = 30 /\ DaysIn(y, 10) = 31 /\ DaysIn(y, 11) = 30
      /\ DaysIn(y, 12) = 31
  BY DEF DaysIn
<1>5. \A m \in 0..11 : m \in {0, 1, 2, 3, 4, 5, 6, 7, 8, 9, 10, 11}
  OBVIOUS
<1>6. \A m \in 2..11 : MonthOffsets[m + 1] \in Nat
  BY <1>2
<1>7. \A m \in 0..11 : DaysIn(y, m + 1) \in 28..31
  BY <1>4
<1>8. \A m \in 0..11 : InYear(y, m) \in Nat
  BY <1>3, <1>6
<1>9. ASSUME NEW m \in 0..10 PROVE InYear(y, m + 1) = InYear(y, m) + DaysIn(y, m + 1)
  BY <1>2, <1>3, <1>4
<1>10. InYear(y, 11) + 31 = (IF IsLeap(y) THEN 366 ELSE 365)
  BY <1>2, <1>3
<1>11. ASSUME NEW m \in 0..11, NEW n \in 0..11, m < n
       PROVE  InYear(y, m) + DaysIn(y, m + 1) <= InYear(y, n)
  BY <1>2, <1>3, <1>4, <1>11
<1> QED  BY <1>3, <1>7, <1>8, <1>9, <1>10, <1>11

\* Where a month ends, the next one or the year does.
LEMMA MonthSpan ==
  ASSUME NEW y \in Int, NEW m \in Int, 0 <= m, m <= 11
  PROVE  /\ InYear(y, m) \in Nat /\ DaysIn(y, m + 1) \in 28..31
         /\ m = 11 => InYear(y, m) + DaysIn(y, m + 1) = (IF IsLeap(y) THEN 366 ELSE 365)
         /\ m # 11 => InYear(y, m) + DaysIn(y, m + 1) = InYear(y, m + 1)
         /\ InYear(y, m) + DaysIn(y, m + 1) <= (IF IsLeap(y) THEN 366 ELSE 365)
<1>0. m \in 0..11
  OBVIOUS
<1>1. InYear(y, m) \in Nat /\ DaysIn(y, m + 1) \in 28..31 /\ InYear(y, 11) \in Nat
  <2>1. 11 \in 0..11
    OBVIOUS
  <2>2. \A k \in 0..11 : DaysIn(y, k + 1) \in 28..31 /\ InYear(y, k) \in Nat
    BY MonthsFill
  <2> QED  BY <1>0, <2>1, <2>2
<1>2. InYear(y, 11) + 31 = (IF IsLeap(y) THEN 366 ELSE 365)
  BY MonthsFill
<1>3. CASE m = 11
  <2>1. DaysIn(y, m + 1) = 31
    BY <1>3 DEF DaysIn
  <2> QED  BY <1>1, <1>2, <1>3, <2>1
<1>4. CASE m # 11
  <2>1. m \in 0..10 /\ m < 11 /\ 11 \in 0..11
    BY <1>4
  <2>2. \A k \in 0..10 : InYear(y, k + 1) = InYear(y, k) + DaysIn(y, k + 1)
    BY MonthsFill
  <2>3. \A k, n \in 0..11 : k < n => InYear(y, k) + DaysIn(y, k + 1) <= InYear(y, n)
    BY MonthsFill
  <2>4. InYear(y, m) + DaysIn(y, m + 1) <= InYear(y, 11)
    BY <2>1, <2>3
  <2> QED  BY <1>1, <1>2, <1>4, <2>1, <2>2, <2>4
<1> QED  BY <1>3, <1>4

\* Where the days of a month lie.
LEMMA MonthsLie ==
  ASSUME NEW y \in Int, NEW m \in Int, 0 <= m, m <= 11
  PROVE  /\ \A d \in Int : DateUTC(y, m, d) = FirstOfYear(y) + InYear(y, m) + d - 1
         /\ DateUTC(y, m, 1) \in Int
         /\ DateUTC(y, m + 1, 1) = DateUTC(y, m, 1) + DaysIn(y, m + 1)
         /\ FirstOfYear(y) <= DateUTC(y, m, 1) /\ DateUTC(y, m + 1, 1) <= FirstOfYear(y + 1)
<1>1. /\ FirstOfYear(y) = DaysBefore(y) - DaysBefore(1970) /\ FirstOfYear(y) \in Int
      /\ FirstOfYear(y + 1) = FirstOfYear(y) + (IF IsLeap(y) THEN 366 ELSE 365)
  BY YearsFollow
<1>2. ASSUME NEW n \in Int, 0 <= n, n <= 11, NEW d \in Int
      PROVE  DateUTC(y, n, d) = FirstOfYear(y) + InYear(y, n) + d - 1
  <2>1. DateUTC(y, n, d) = DaysBefore(y) - DaysBefore(1970) + InYear(y, n) + d - 1
    BY <1>2, DateIs
  <2>2. DaysBefore(y) \in Int /\ DaysBefore(1970) \in Int
    BY <1>2, DateIs
  <2> QED  BY <1>1, <2>1, <2>2
<1>3. /\ InYear(y, m) \in Nat /\ DaysIn(y, m + 1) \in 28..31
      /\ m = 11 => InYear(y, m) + DaysIn(y, m + 1) = (IF IsLeap(y) THEN 366 ELSE 365)
      /\ m # 11 => InYear(y, m) + DaysIn(y, m + 1) = InYear(y, m + 1)
      /\ InYear(y, m) + DaysIn(y, m + 1) <= (IF IsLeap(y) THEN 366 ELSE 365)
  BY MonthSpan
<1>4. DateUTC(y, m, 1) = FirstOfYear(y) + InYear(y, m)
  BY <1>1, <1>2, <1>3
<1>5. CASE m = 11
  <2>1. DaysIn(y, m + 1) = 31
    BY <1>5 DEF DaysIn
  <2>2. DateUTC(y, m + 1, 1) = FirstOfYear(y + 1)
    BY <1>5, YearTurns DEF FirstOfYear
  <2> QED  BY <1>1, <1>2, <1>3, <1>4, <1>5, <2>1, <2>2
<1>6. CASE m # 11
  <2>1. DateUTC(y, m + 1, 1) = FirstOfYear(y) + InYear(y, m + 1)
    <3>1. m + 1 \in Int /\ 0 <= m + 1 /\ m + 1 <= 11
      BY <1>6
    <3>2. InYear(y, m + 1) \in Int
      BY <1>3, <1>6
    <3> QED  BY <1>1, <1>2, <3>1, <3>2
  <2> QED  BY <1>1, <1>2, <1>3, <1>4, <1>6, <2>1
<1> QED  BY <1>5, <1>6

\* The month and the day of a day are those it is spelled with.
LEMMA DayIs ==
  ASSUME NEW a \in Int
  PROVE  LET y == UTCFullYear(a)  m == UTCMonth(a)  d == UTCDate(a)
         IN  /\ y \in Int /\ m \in 0..11 /\ d \in 1..DaysIn(y, m + 1) /\ DateUTC(y, m, d) = a
<1> DEFINE y == UTCFullYear(a)
           In(m) == DateUTC(y, m, 1) <= a /\ a < DateUTC(y, m + 1, 1)
<1>1. y \in Int /\ FirstOfYear(y) <= a /\ a < FirstOfYear(y + 1)
  BY YearIs
<1>2. /\ FirstOfYear(y) \in Int /\ FirstOfYear(y + 1) = FirstOfYear(y) + (IF IsLeap(y) THEN 366 ELSE 365)
  <2> HIDE DEF y
  <2> QED  BY <1>1, YearsFollow
<1>3. \E m \in 0..11 : In(m)
  <2> DEFINE begun == {m \in 0..11 : DateUTC(y, m, 1) <= a}
             last == Max(begun)
  <2> HIDE DEF y
  <2>1. \A m \in Int : 0 <= m /\ m <= 11 => DateUTC(y, m, 1) \in Int
    BY <1>1, MonthsLie
  <2>2. DateUTC(y, 0, 1) = FirstOfYear(y) /\ DateUTC(y, 12, 1) = FirstOfYear(y + 1)
    BY <1>1, YearTurns DEF FirstOfYear
  <2>3. begun \in SUBSET Int /\ begun # {} /\ IsFiniteSet(begun)
    <3>1. begun \in SUBSET (0..11) /\ 0 \in begun
      BY <1>1, <2>2
    <3>2. IsFiniteSet(0..11)
      BY FS_Interval, 0 \in Int, 11 \in Int
    <3>3. begun \in SUBSET Int
      BY <3>1
    <3> HIDE DEF begun
    <3> QED  BY <3>1, <3>2, <3>3, FS_Subset
  <2>4. last \in begun /\ \A m \in begun : m <= last
    <3> HIDE DEF begun
    <3> QED  BY <2>3, Extremes
  <2>5. last \in 0..11 /\ DateUTC(y, last, 1) <= a
    BY <2>4
  <2>6. a < DateUTC(y, last + 1, 1)
    <3>1. CASE last = 11
      BY <1>1, <2>2, <3>1
    <3>2. CASE last # 11
      <4>1. last + 1 \in 0..11 /\ ~(last + 1 <= last) /\ last + 1 \in Int /\ 0 <= last + 1 /\ last + 1 <= 11
        BY <2>5, <3>2
      <4>2. ~(DateUTC(y, last + 1, 1) <= a)
        BY <2>4, <4>1
      <4> QED  BY <2>1, <4>1, <4>2
    <3> QED  BY <3>1, <3>2
  <2> QED  BY <2>5, <2>6
<1>4. UTCMonth(a) \in 0..11 /\ In(UTCMonth(a))
  BY <1>3 DEF UTCMonth
<1> DEFINE m == UTCMonth(a)
<1> HIDE DEF y, m, In
<1>5. /\ \A d \in Int : DateUTC(y, m, d) = FirstOfYear(y) + InYear(y, m) + d - 1
      /\ DateUTC(y, m, 1) \in Int
      /\ DateUTC(y, m + 1, 1) = DateUTC(y, m, 1) + DaysIn(y, m + 1)
  <2>1. m \in Int /\ 0 <= m /\ m <= 11
    BY <1>4 DEF m
  <2> QED  BY <1>1, <2>1, MonthsLie
<1>6. InYear(y, m) \in Nat /\ DaysIn(y, m + 1) \in 28..31
  <2>1. m \in Int /\ 0 <= m /\ m <= 11
    BY <1>4 DEF m
  <2> QED  BY <1>1, <2>1, MonthSpan
<1>7. UTCDate(a) = a - DateUTC(y, m, 1) + 1
  BY DEF UTCDate, y, m
<1>8. DateUTC(y, m, 1) <= a /\ a < DateUTC(y, m + 1, 1)
  BY <1>4 DEF y, m, In
<1>9. UTCDate(a) \in 1..DaysIn(y, m + 1)
  BY <1>5, <1>6, <1>7, <1>8
<1>10. DateUTC(y, m, UTCDate(a)) = a
  <2>1. DateUTC(y, m, 1) = FirstOfYear(y) + InYear(y, m) + 1 - 1
    BY <1>5
  <2>2. DateUTC(y, m, UTCDate(a)) = FirstOfYear(y) + InYear(y, m) + UTCDate(a) - 1 /\ UTCDate(a) \in Int
    BY <1>5, <1>6, <1>9
  <2> QED  BY <1>2, <1>5, <1>6, <1>7, <2>1, <2>2
<1> QED  BY <1>1, <1>4, <1>9, <1>10 DEF y, m

\* A later year begins after an earlier one has ended.
LEMMA YearOrder ==
  ASSUME NEW y \in Int, NEW z \in Int, y < z
  PROVE  FirstOfYear(y) \in Int /\ FirstOfYear(y + 1) \in Int /\ FirstOfYear(z) \in Int
         /\ FirstOfYear(y + 1) <= FirstOfYear(z)
<1>1. \A x \in Int : /\ FirstOfYear(x) \in Int
                     /\ 146097 * (x - 1970) - 700 <= 400 * FirstOfYear(x)
                     /\ 400 * FirstOfYear(x) <= 146097 * (x - 1970) + 700
  BY YearsFollow
<1>2. y + 1 \in Int /\ (y + 1) - 1970 = y - 1969
  OBVIOUS
<1>3. /\ FirstOfYear(y) \in Int /\ FirstOfYear(y + 1) \in Int /\ FirstOfYear(z) \in Int
      /\ 400 * FirstOfYear(y + 1) <= 146097 * (y - 1969) + 700
      /\ 146097 * (z - 1970) - 700 <= 400 * FirstOfYear(z)
  BY <1>1, <1>2
<1>4. CASE z = y + 1
  BY <1>3, <1>4
<1>5. CASE z > y + 1
  BY <1>3, <1>5
<1> QED  BY <1>3, <1>4, <1>5

\* A later month of a year begins after an earlier one has ended.
LEMMA MonthOrder ==
  ASSUME NEW y \in Int, NEW m \in Int, 0 <= m, m < 12, NEW n \in Int, 0 <= n, n < 12, m < n
  PROVE  InYear(y, m) + DaysIn(y, m + 1) <= InYear(y, n)
<1>1. m \in 0..11 /\ n \in 0..11
  OBVIOUS
<1>2. \A k, l \in 0..11 : k < l => InYear(y, k) + DaysIn(y, k + 1) <= InYear(y, l)
  BY MonthsFill
<1> QED  BY <1>1, <1>2

\* What a date is spelled with: a year, a month from zero, and a day of that month.
Spells(y, m, d) == /\ y \in Int /\ m \in Int /\ 0 <= m /\ m < 12
                   /\ d \in Int /\ 1 <= d /\ d <= DaysIn(y, m + 1)
Precedes(y, m, d, z, n, e) == y < z \/ (y = z /\ (m < n \/ (m = n /\ d < e)))

\* A spelled day lies in its year.
LEMMA SpelledIs ==
  ASSUME NEW y, NEW m, NEW d, Spells(y, m, d)
  PROVE  /\ DateUTC(y, m, d) \in Int /\ FirstOfYear(y) \in Int /\ FirstOfYear(y + 1) \in Int
         /\ DateUTC(y, m, d) = FirstOfYear(y) + InYear(y, m) + d - 1
         /\ InYear(y, m) \in Nat /\ DaysIn(y, m + 1) \in 28..31
         /\ FirstOfYear(y) <= DateUTC(y, m, d) /\ DateUTC(y, m, d) < FirstOfYear(y + 1)
<1>1. y \in Int /\ m \in Int /\ 0 <= m /\ m <= 11 /\ d \in Int /\ 1 <= d /\ d <= DaysIn(y, m + 1)
  BY DEF Spells
<1>2. /\ InYear(y, m) \in Nat /\ DaysIn(y, m + 1) \in 28..31
      /\ InYear(y, m) + DaysIn(y, m + 1) <= (IF IsLeap(y) THEN 366 ELSE 365)
  BY <1>1, MonthSpan
<1>3. /\ FirstOfYear(y) \in Int
      /\ FirstOfYear(y + 1) = FirstOfYear(y) + (IF IsLeap(y) THEN 366 ELSE 365)
  BY <1>1, YearsFollow
<1>4. DateUTC(y, m, d) = FirstOfYear(y) + InYear(y, m) + d - 1
  BY <1>1, MonthsLie
<1> QED  BY <1>1, <1>2, <1>3, <1>4

\* Dates are in the order of their spelling.
LEMMA SpelledInOrder ==
  ASSUME NEW y, NEW m, NEW d, Spells(y, m, d), NEW z, NEW n, NEW e, Spells(z, n, e),
         Precedes(y, m, d, z, n, e)
  PROVE  DateUTC(y, m, d) < DateUTC(z, n, e)
<1>1. /\ y \in Int /\ m \in Int /\ 0 <= m /\ m < 12 /\ d \in Int /\ 1 <= d /\ d <= DaysIn(y, m + 1)
      /\ z \in Int /\ n \in Int /\ 0 <= n /\ n < 12 /\ e \in Int /\ 1 <= e
  BY DEF Spells
<1>2. /\ DateUTC(y, m, d) \in Int /\ DateUTC(z, n, e) \in Int
      /\ FirstOfYear(y) \in Int /\ FirstOfYear(y + 1) \in Int /\ FirstOfYear(z) \in Int
      /\ DateUTC(y, m, d) = FirstOfYear(y) + InYear(y, m) + d - 1 /\ DateUTC(y, m, d) < FirstOfYear(y + 1)
      /\ DateUTC(z, n, e) = FirstOfYear(z) + InYear(z, n) + e - 1 /\ FirstOfYear(z) <= DateUTC(z, n, e)
      /\ InYear(y, m) \in Nat /\ InYear(z, n) \in Nat /\ DaysIn(y, m + 1) \in 28..31
  BY SpelledIs
<1>3. CASE y < z
  BY <1>1, <1>2, <1>3, YearOrder
<1>4. CASE y = z /\ m < n
  <2>1. InYear(y, m) + DaysIn(y, m + 1) <= InYear(y, n)
    BY <1>1, <1>4, MonthOrder
  <2> QED  BY <1>1, <1>2, <1>4, <2>1
<1>5. CASE y = z /\ m = n /\ d < e
  BY <1>1, <1>2, <1>5
<1> QED  BY <1>3, <1>4, <1>5 DEF Precedes

\* A day has one spelling, the one the program gives it.
LEMMA SpelledOnce ==
  ASSUME NEW a \in Int
  PROVE  /\ Spells(UTCFullYear(a), UTCMonth(a), UTCDate(a))
         /\ DateUTC(UTCFullYear(a), UTCMonth(a), UTCDate(a)) = a
         /\ \A y, m, d : Spells(y, m, d) /\ DateUTC(y, m, d) = a =>
              y = UTCFullYear(a) /\ m = UTCMonth(a) /\ d = UTCDate(a)
<1> DEFINE z == UTCFullYear(a)  n == UTCMonth(a)  e == UTCDate(a)
<1>1. z \in Int /\ n \in 0..11 /\ e \in 1..DaysIn(z, n + 1) /\ DateUTC(z, n, e) = a
  BY DayIs
<1> HIDE DEF z, n, e
<1>2. Spells(z, n, e)
  <2>1. DaysIn(z, n + 1) \in 28..31
    BY <1>1, MonthSpan
  <2> QED  BY <1>1, <2>1 DEF Spells
<1>3. ASSUME NEW y, NEW m, NEW d, Spells(y, m, d), DateUTC(y, m, d) = a
      PROVE  y = z /\ m = n /\ d = e
  <2>1. ~Precedes(y, m, d, z, n, e) /\ ~Precedes(z, n, e, y, m, d)
    BY <1>1, <1>2, <1>3, SpelledInOrder
  <2> QED  BY <1>2, <1>3, <2>1 DEF Precedes, Spells
<1> QED  BY <1>1, <1>2, <1>3 DEF z, n, e

\* What the browser says of the day that is spelled with these three.
LEMMA SpellingIs ==
  ASSUME NEW y, NEW m, NEW d, Spells(y, m, d)
  PROVE  LET a == DateUTC(y, m, d)
         IN  /\ a \in Int /\ UTCFullYear(a) = y /\ UTCMonth(a) = m /\ UTCDate(a) = d
             /\ dayAnchorToIso(a) = Day(y, m + 1, d)
<1>1. DateUTC(y, m, d) \in Int
  BY SpelledIs
<1>2. UTCFullYear(DateUTC(y, m, d)) = y /\ UTCMonth(DateUTC(y, m, d)) = m /\ UTCDate(DateUTC(y, m, d)) = d
  BY <1>1, SpelledOnce
<1> QED  BY <1>1, <1>2 DEF dayAnchorToIso

\* The next day is spelled as the calendar goes on.
LEMMA NextIsSpelled ==
  ASSUME NEW y, NEW m, NEW d, Spells(y, m, d)
  PROVE  dayAnchorToIso(DateUTC(y, m, d) + 1) = NextDay(Day(y, m + 1, d))
<1> DEFINE iso == Day(y, m + 1, d)
<1>1. /\ y \in Int /\ m \in Int /\ 0 <= m /\ m < 12 /\ d \in Int /\ 1 <= d /\ d <= DaysIn(y, m + 1)
      /\ DaysIn(y, m + 1) \in 28..31
  BY SpelledIs DEF Spells
<1>2. iso.y = y /\ iso.m = m + 1 /\ iso.d = d
  BY DEF Day
<1> HIDE DEF iso
<1>3. DateUTC(y, m, d) = FirstOfYear(y) + InYear(y, m) + d - 1
      /\ FirstOfYear(y) \in Int /\ InYear(y, m) \in Nat
  BY SpelledIs
<1>4. CASE d < DaysIn(y, m + 1)
  <2>1. Spells(y, m, d + 1)
    BY <1>1, <1>4 DEF Spells
  <2>2. DateUTC(y, m, d + 1) = FirstOfYear(y) + InYear(y, m) + (d + 1) - 1
    BY <2>1, SpelledIs
  <2>3. DateUTC(y, m, d + 1) = DateUTC(y, m, d) + 1
    BY <1>1, <1>3, <2>2
  <2>4. dayAnchorToIso(DateUTC(y, m, d + 1)) = Day(y, m + 1, d + 1)
    BY <2>1, SpellingIs
  <2>5. NextDay(iso) = Day(y, m + 1, d + 1)
    BY <1>1, <1>2, <1>4 DEF NextDay
  <2> QED  BY <2>3, <2>4, <2>5 DEF iso
<1>5. CASE d = DaysIn(y, m + 1) /\ m < 11
  <2>1. m + 1 \in Int /\ 0 <= m + 1 /\ m + 1 <= 11 /\ m <= 11
    BY <1>1, <1>5
  <2>2. Spells(y, m + 1, 1)
    <3>1. DaysIn(y, (m + 1) + 1) \in 28..31
      BY <1>1, <2>1, MonthSpan
    <3> QED  BY <1>1, <2>1, <3>1 DEF Spells
  <2>3. /\ DateUTC(y, m, 1) = FirstOfYear(y) + InYear(y, m) + 1 - 1
        /\ DateUTC(y, m + 1, 1) = DateUTC(y, m, 1) + DaysIn(y, m + 1)
    BY <1>1, <2>1, MonthsLie
  <2>4. DateUTC(y, m + 1, 1) = DateUTC(y, m, d) + 1
    BY <1>1, <1>3, <1>5, <2>3
  <2>5. dayAnchorToIso(DateUTC(y, m + 1, 1)) = Day(y, (m + 1) + 1, 1)
    BY <2>2, SpellingIs
  <2>6. NextDay(iso) = Day(y, (m + 1) + 1, 1)
    BY <1>1, <1>2, <1>5 DEF NextDay
  <2> QED  BY <2>4, <2>5, <2>6 DEF iso
<1>6. CASE d = DaysIn(y, m + 1) /\ m = 11
  <2>1. y + 1 \in Int /\ DaysIn(y + 1, 0 + 1) = 31
    BY <1>1 DEF DaysIn
  <2>2. Spells(y + 1, 0, 1)
    BY <2>1 DEF Spells
  <2>3. /\ DateUTC(y, m, 1) = FirstOfYear(y) + InYear(y, m) + 1 - 1
        /\ DateUTC(y, m + 1, 1) = DateUTC(y, m, 1) + DaysIn(y, m + 1)
        /\ m + 1 = 12
    BY <1>1, <1>6, MonthsLie
  <2>4. DateUTC(y, 12, 1) = DateUTC(y + 1, 0, 1)
    BY <1>1, YearTurns
  <2>5. DateUTC(y + 1, 0, 1) = DateUTC(y, m, d) + 1
    BY <1>1, <1>3, <1>6, <2>3, <2>4
  <2>6. dayAnchorToIso(DateUTC(y + 1, 0, 1)) = Day(y + 1, 0 + 1, 1)
    BY <2>2, SpellingIs
  <2>7. NextDay(iso) = Day(y + 1, 1, 1)
    BY <1>1, <1>2, <1>6 DEF NextDay
  <2> QED  BY <2>5, <2>6, <2>7 DEF iso
<1> QED  BY <1>1, <1>4, <1>5, <1>6

\* Comparing what two days are spelled with is comparing the days.
LEMMA SpellingsCompare ==
  ASSUME NEW a \in Int, NEW b \in Int
  PROVE  (compareDates(dayAnchorToIso(a), dayAnchorToIso(b)) < 0) = (b > a)
<1> DEFINE y == UTCFullYear(a)  m == UTCMonth(a)  d == UTCDate(a)
           z == UTCFullYear(b)  n == UTCMonth(b)  e == UTCDate(b)
<1>1. Spells(y, m, d) /\ DateUTC(y, m, d) = a /\ Spells(z, n, e) /\ DateUTC(z, n, e) = b
  BY SpelledOnce
<1> HIDE DEF y, m, d, z, n, e
<1>2. /\ y \in Int /\ m \in Int /\ d \in Int /\ z \in Int /\ n \in Int /\ e \in Int
  BY <1>1 DEF Spells
<1>3. /\ Precedes(y, m, d, z, n, e) => a < b
      /\ Precedes(z, n, e, y, m, d) => b < a
  BY <1>1, SpelledInOrder
<1>4. Precedes(y, m, d, z, n, e) <=> a < b
  BY <1>1, <1>2, <1>3 DEF Precedes
<1> DEFINE i == dayAnchorToIso(a)  j == dayAnchorToIso(b)
<1>5. i = Day(y, m + 1, d) /\ j = Day(z, n + 1, e)
  BY DEF dayAnchorToIso, y, m, d, z, n, e
<1>6. /\ i.y = y /\ i.m = m + 1 /\ i.d = d /\ j.y = z /\ j.m = n + 1 /\ j.d = e
  BY <1>5 DEF Day
<1>7. i = j <=> y = z /\ m = n /\ d = e
  BY <1>2, <1>5, <1>6
<1> HIDE DEF i, j
<1>8. (compareDates(i, j) < 0) <=> Precedes(y, m, d, z, n, e)
  <2>1. CASE i = j
    BY <1>2, <1>6, <1>7, <2>1 DEF compareDates, Precedes
  <2>2. CASE i # j /\ Precedes(y, m, d, z, n, e)
    BY <1>2, <1>6, <2>2 DEF compareDates, Precedes
  <2>3. CASE i # j /\ ~Precedes(y, m, d, z, n, e)
    BY <1>2, <1>6, <2>3 DEF compareDates, Precedes
  <2> QED  BY <2>1, <2>2, <2>3
<1> QED  BY <1>4, <1>8 DEF i, j

\* Anchors count the days of the calendar, written and read back, from one day to the
\* next; a typed day is taken exactly if it exists; and comparing spelled dates is
\* comparing anchors: for every day there is (utils/date.ts).
THEOREM AnchorsCount ==
  ASSUME NEW a \in Int
  PROVE  AnchorsAreDays(a)
<1> DEFINE y == UTCFullYear(a)  m == UTCMonth(a)  d == UTCDate(a)  iso == dayAnchorToIso(a)
<1>1. Spells(y, m, d) /\ DateUTC(y, m, d) = a
  BY SpelledOnce
<1>2. iso = Day(y, m + 1, d)
  BY DEF dayAnchorToIso
<1> HIDE DEF y, m, d, iso
<1>3. iso.y = y /\ iso.m = m + 1 /\ iso.d = d
  BY <1>2 DEF Day
<1>4. /\ y \in Int /\ m \in Int /\ 0 <= m /\ m < 12 /\ d \in Int /\ 1 <= d /\ d <= DaysIn(y, m + 1)
      /\ DaysIn(y, m + 1) \in 28..31 /\ (m + 1) - 1 = m
  BY <1>1, SpelledIs DEF Spells
<1>5. startOfDayUtc(iso) = a
  BY <1>1, <1>3, <1>4 DEF startOfDayUtc
<1>6. dayAnchorToIso(addDaysUtc(a, 1)) = NextDay(iso)
  BY <1>1, <1>2, NextIsSpelled DEF addDaysUtc
<1>7. ASSUME NEW k \in 1..32
      PROVE  (parseDisplayDate(iso.y, iso.m, k) # NoDay) = IsDay(iso.y, iso.m, k)
  <2> DEFINE c == DateUTC(y, m, k)
  <2>1. parseDisplayDate(iso.y, iso.m, k) =
          IF UTCFullYear(c) = y /\ UTCMonth(c) = m /\ UTCDate(c) = k THEN Day(y, m + 1, k) ELSE NoDay
    BY <1>3, <1>4 DEF parseDisplayDate
  <2>2. IsDay(iso.y, iso.m, k) = (k <= DaysIn(y, m + 1))
    BY <1>3, <1>4 DEF IsDay
  <2>3. Day(y, m + 1, k) # NoDay
    <3>1. Day(y, m + 1, k).m = m + 1 /\ NoDay.m = 0
      BY DEF Day, NoDay
    <3> QED  BY <1>4, <3>1
  <2> HIDE DEF c
  <2>4. CASE k <= DaysIn(y, m + 1)
    <3>1. Spells(y, m, k)
      BY <1>4, <2>4 DEF Spells
    <3>2. UTCFullYear(c) = y /\ UTCMonth(c) = m /\ UTCDate(c) = k
      BY <3>1, SpellingIs DEF c
    <3> QED  BY <2>1, <2>2, <2>3, <2>4, <3>2
  <2>5. CASE ~(k <= DaysIn(y, m + 1))
    <3>1. c \in Int
      <4>1. FirstOfYear(y) \in Int /\ InYear(y, m) \in Nat
        BY <1>1, SpelledIs
      <4>2. k \in Int /\ m <= 11
        BY <1>4
      <4>3. c = FirstOfYear(y) + InYear(y, m) + k - 1
        BY <1>4, <4>2, MonthsLie DEF c
      <4> QED  BY <4>1, <4>2, <4>3
    <3>2. UTCDate(c) <= DaysIn(UTCFullYear(c), UTCMonth(c) + 1)
      BY <3>1, SpelledOnce DEF Spells
    <3>3. ~(UTCFullYear(c) = y /\ UTCMonth(c) = m /\ UTCDate(c) = k)
      BY <2>5, <3>2
    <3> QED  BY <2>1, <2>2, <2>5, <3>3
  <2> QED  BY <2>4, <2>5
<1>8. ASSUME NEW n \in {-31, -1, 0, 1, 31}
      PROVE  /\ (compareDates(iso, dayAnchorToIso(addDaysUtc(a, n))) < 0) = (n > 0)
             /\ differenceInDays(addDaysUtc(a, n), a) = n
  <2>1. a + n \in Int /\ n \in Int /\ (a + n > a) = (n > 0) /\ (a + n) - a = n
    OBVIOUS
  <2>2. (compareDates(dayAnchorToIso(a), dayAnchorToIso(a + n)) < 0) = (a + n > a)
    BY <2>1, SpellingsCompare
  <2> QED  BY <2>1, <2>2 DEF addDaysUtc, differenceInDays, iso
<1> QED  BY <1>5, <1>6, <1>7, <1>8 DEF AnchorsAreDays, iso

\* From the first of a month, a month further is the first of the next one: in every month
\* there is (utils/date.ts).
THEOREM MonthsGoOn ==
  ASSUME NEW a \in Int
  PROVE  MonthsFollow(a)
<1> DEFINE y == UTCFullYear(a)  m == UTCMonth(a)
           first == DateUTC(y, m, 1)
<1>1. Spells(y, m, UTCDate(a)) /\ startOfMonthUtc(a) = first
  BY SpelledOnce DEF startOfMonthUtc
<1>2. dayAnchorToIso(a).y = y /\ dayAnchorToIso(a).m = m + 1
  BY DEF dayAnchorToIso, Day
<1> HIDE DEF y, m
<1>3. Spells(y, m, 1)
  BY <1>1, SpelledIs DEF Spells
<1>4. UTCFullYear(first) = y /\ UTCMonth(first) = m /\ UTCDate(first) = 1 /\ dayAnchorToIso(first) = Day(y, m + 1, 1)
  BY <1>3, SpellingIs
<1>5. DateUTC(y, m + 1, 1) = first + DaysIn(y, m + 1)
  BY <1>3, MonthsLie DEF Spells
<1>6. addMonthsUtc(first, 1) = DateUTC(y, m + 1, 1)
  BY <1>4 DEF addMonthsUtc
<1> HIDE DEF first
<1> QED  BY <1>1, <1>2, <1>4, <1>5, <1>6 DEF MonthsFollow

\* Every seventh day, counted.
LEMMA WeeksCount ==
  ASSUME NEW first \in Int, NEW last \in Int, first <= last
  PROVE  Cardinality({t \in first..last : (last - t) % 7 = 0}) = ((last - first) \div 7) + 1
<1> DEFINE S == {t \in first..last : (last - t) % 7 = 0}
           k == ((last - first) \div 7) + 1
           f == [i \in 1..k |-> last - 7 * (i - 1)]
<1>1. k \in Nat /\ 7 * (k - 1) <= last - first /\ last - first < 7 * k
  BY SMT
<1> HIDE DEF k
<1>2. ASSUME NEW i \in 1..k PROVE f[i] \in S
  <2>1. i - 1 \in Int /\ 0 <= i - 1 /\ i - 1 <= k - 1 /\ f[i] = last - 7 * (i - 1)
    BY <1>1
  <2>2. f[i] \in first..last /\ last - f[i] = 7 * (i - 1)
    BY <1>1, <2>1
  <2>3. (7 * (i - 1)) % 7 = 0
    BY <2>1
  <2> QED  BY <2>2, <2>3
<1>3. \A i, j \in 1..k : f[i] = f[j] => i = j
  BY <1>1
<1>4. ASSUME NEW t \in S PROVE \E i \in 1..k : f[i] = t
  <2> DEFINE w == (last - t) \div 7
  <2>1. t \in Int /\ first <= t /\ t <= last /\ (last - t) % 7 = 0
    OBVIOUS
  <2>2. w \in Int /\ last - t = 7 * w
    BY <2>1
  <2> HIDE DEF w
  <2>3. w + 1 \in 1..k /\ (w + 1) - 1 = w
    BY <1>1, <2>1, <2>2
  <2>4. f[w + 1] = t
    BY <2>1, <2>2, <2>3
  <2> QED  BY <2>3, <2>4
<1>5. f \in Bijection(1..k, S)
  <2> HIDE DEF S
  <2>1. f \in [1..k -> S]
    BY <1>2
  <2> HIDE DEF f
  <2> QED  BY <1>3, <1>4, <2>1 DEF Bijection, Injection, IsInjective, Surjection
<1> HIDE DEF S, f
<1>6. ExistsBijection(1..k, S)
  BY <1>5 DEF ExistsBijection
<1> QED  BY <1>1, <1>6, FS_CountingElements DEF S, k

\* A week begins on its Monday, belongs to the year of its Thursday, and is the n-th of
\* that year if n Thursdays of the year have been: for every day there is (utils/date.ts).
THEOREM WeeksBelong ==
  ASSUME NEW a \in Int
  PROVE  WeeksAreOfTheirThursday(a)
<1> DEFINE monday == startOfIsoWeekUtc(a)
           thursday == monday + 3
           y == UTCFullYear(thursday)
           first == FirstOfYear(y)
<1>1. monday = a - ((((a + 4) % 7) + 6) % 7)
  BY DEF startOfIsoWeekUtc, addDaysUtc, UTCDay
<1>2. monday \in Int /\ a - monday \in 0..6 /\ (monday + 4) % 7 = 1
  <2>1. ((a + 4) % 7) \in 0..6
    OBVIOUS
  <2>2. PICK w \in Int, r \in 0..6 : a + 4 = 7 * w + r /\ r = (a + 4) % 7
    OBVIOUS
  <2>3. (r + 6) % 7 = (IF r = 0 THEN 6 ELSE r - 1)
    OBVIOUS
  <2>4. monday = a - (IF r = 0 THEN 6 ELSE r - 1)
    BY <1>1, <2>2, <2>3
  <2>5. monday + 4 = 7 * (IF r = 0 THEN w - 1 ELSE w) + 1
    BY <2>2, <2>4
  <2> HIDE DEF monday
  <2> QED  BY <2>2, <2>4, <2>5
<1>3. addDaysUtc(a, 3 - ((UTCDay(a) + 6) % 7)) = thursday
  <2>1. (((a + 4) % 7) + 6) % 7 \in Int
    OBVIOUS
  <2> QED  BY <1>1, <2>1 DEF addDaysUtc, UTCDay
<1> HIDE DEF monday
<1>4. thursday \in Int
  BY <1>2
<1> HIDE DEF thursday
<1>5. y \in Int /\ first \in Int /\ first <= thursday
  BY <1>4, YearIs, YearsFollow
<1>6. DateUTC(y, 0, 4) = first + 3
  <2>1. Spells(y, 0, 1) /\ Spells(y, 0, 4)
    <3>1. DaysIn(y, 0 + 1) = 31
      BY <1>5 DEF DaysIn
    <3> QED  BY <1>5, <3>1 DEF Spells
  <2>2. /\ DateUTC(y, 0, 1) = FirstOfYear(y) + InYear(y, 0) + 1 - 1 /\ InYear(y, 0) \in Nat
        /\ DateUTC(y, 0, 4) = FirstOfYear(y) + InYear(y, 0) + 4 - 1
    BY <2>1, SpelledIs
  <2> QED  BY <1>5, <2>2 DEF FirstOfYear
<1> HIDE DEF y, first
<1>7. isoWeekNumber(a) = ((2 * (thursday - (first + 3)) + 7) \div 14) + 1
  BY <1>3, <1>6 DEF isoWeekNumber, y
<1>8. ((2 * (thursday - (first + 3)) + 7) \div 14) = (thursday - first) \div 7
  <2>1. PICK q \in Int : q = thursday - first /\ 0 <= q
    BY <1>4, <1>5
  <2>2. 2 * (thursday - (first + 3)) + 7 = 2 * q + 1
    BY <1>4, <1>5, <2>1
  <2>3. (2 * q + 1) \div 14 = q \div 7
    BY <2>1
  <2> QED  BY <2>1, <2>2, <2>3
<1>9. Cardinality({t \in first..thursday : (thursday - t) % 7 = 0}) = ((thursday - first) \div 7) + 1
  BY <1>4, <1>5, WeeksCount
<1>10. UTCDay(monday) = 1
  BY <1>2 DEF UTCDay
<1> QED  BY <1>2, <1>7, <1>8, <1>9, <1>10 DEF WeeksAreOfTheirThursday, monday, thursday, y, first

-----------------------------------------------------------------------------
(* Clocks.                                                                    *)

\* A zone whose clocks differ from the one they are set by for less than a day.
ZoneLike(zone) == zone.changes \in Int /\ zone.before \in -20..20 /\ zone.after \in -20..20

\* A clock shows a time at no moment, at one, or at two.
LEMMA MomentsAre ==
  ASSUME NEW zone, ZoneLike(zone), NEW t \in Int
  PROVE  LET M == Moments(zone, t)
         IN  /\ M = {i \in t - 20 .. t + 20 : i + Offset(zone, i) = t}
             /\ \A i \in M : i \in Int /\ i + Offset(zone, i) = t
             /\ \A i \in Int : i + Offset(zone, i) = t => i \in M
             /\ Cardinality(M) \in {0, 1, 2} /\ (Cardinality(M) = 0 <=> M = {})
             /\ Cardinality(M) = 1 => \E i \in M : M = {i}
<1> DEFINE M == Moments(zone, t)
           b == t - zone.before  c == t - zone.after
<1>1. /\ zone.before \in -20..20 /\ zone.after \in -20..20 /\ b \in Int /\ c \in Int
      /\ b \in t - 20 .. t + 20 /\ c \in t - 20 .. t + 20
  BY DEF ZoneLike
<1>2. M = {i \in {b, c} : i + Offset(zone, i) = t}
  BY DEF Moments
<1>3. ASSUME NEW i \in Int, i + Offset(zone, i) = t PROVE i \in {b, c}
  BY <1>1, <1>3 DEF Offset
<1> HIDE DEF M, b, c
<1>4. M = {i \in t - 20 .. t + 20 : i + Offset(zone, i) = t}
  BY <1>1, <1>2, <1>3
<1>5. M = {} \/ (\E i \in M : M = {i}) \/ (M = {b, c} /\ b # c)
  BY <1>2
<1>6. Cardinality({}) = 0 /\ \A i : Cardinality({i}) = 1
  BY FS_EmptySet, FS_Singleton
<1>7. b # c => Cardinality({b, c}) = 2
  <2>1. SUFFICES ASSUME b # c PROVE Cardinality({c} \cup {b}) = 2
    <3>1. {b, c} = {c} \cup {b}
      OBVIOUS
    <3> QED  BY <2>1, <3>1
  <2>2. IsFiniteSet({c}) /\ Cardinality({c}) = 1
    BY FS_Singleton
  <2>3. Cardinality({c} \cup {b}) = IF b \in {c} THEN Cardinality({c}) ELSE Cardinality({c}) + 1
    BY <2>2, FS_AddElement
  <2> QED  BY <2>1, <2>2, <2>3
<1>8. \A i \in M : i \in Int /\ i + Offset(zone, i) = t
  BY <1>1, <1>2
<1>9. \A i \in Int : i + Offset(zone, i) = t => i \in M
  BY <1>2, <1>3
<1>10. /\ Cardinality(M) \in {0, 1, 2} /\ (Cardinality(M) = 0 <=> M = {})
       /\ Cardinality(M) = 1 => \E i \in M : M = {i}
  <2>1. CASE M = {}
    BY <2>1, <1>6
  <2>2. CASE \E i \in M : M = {i}
    <3>1. PICK i \in M : M = {i}
      BY <2>2
    <3>2. Cardinality(M) = 1
      BY <3>1, <1>6, Zenon
    <3> QED  BY <3>1, <3>2
  <2>3. CASE M = {b, c} /\ b # c
    <3>1. Cardinality(M) = 2 /\ M # {}
      BY <2>3, <1>7
    <3> QED  BY <3>1
  <2> QED  BY <1>5, <2>1, <2>2, <2>3
<1> QED  BY <1>4, <1>8, <1>9, <1>10 DEF M

\* A time entered in a form becomes the one moment at which clocks of the zone
\* show it; if there is none, there is no choice either, and if there are two,
\* the form offers these and keeps the one that is chosen.
THEOREM ClocksKeepTheirTime ==
  ASSUME NEW zone, ZoneLike(zone), NEW t \in Int
  PROVE  ClockTimesAreKept(zone, t)
<1> DEFINE M == Moments(zone, t)
           utc == localDateTimeToUtc(Local(t), zone)
           choices == localTimeChoices(Local(t), zone)
<1>1. /\ M = {i \in t - 20 .. t + 20 : i + Offset(zone, i) = t}
      /\ \A i \in M : i \in Int /\ i + Offset(zone, i) = t
      /\ \A i \in Int : i + Offset(zone, i) = t => i \in M
      /\ Cardinality(M) \in {0, 1, 2} /\ (Cardinality(M) = 0 <=> M = {})
      /\ Cardinality(M) = 1 => \E i \in M : M = {i}
  BY MomentsAre
<1>2. utc = IF Cardinality(M) = 1 THEN Instant(CHOOSE i \in M : TRUE) ELSE NoInstant
  BY DEF localDateTimeToUtc, Local
<1>3. choices = IF Cardinality(M) = 2 THEN {Instant(i) : i \in M} ELSE {}
  BY DEF localTimeChoices, instantToLocalDateTime, Local
<1> HIDE DEF M, utc, choices
<1>4. \A i \in M : /\ Instant(i) # NoInstant
                   /\ instantToLocalDateTime(Instant(i), zone) = Local(t)
                   /\ localDateTimeToUtc(Instant(i), zone) = Instant(i)
  BY <1>1 DEF Instant, NoInstant, instantToLocalDateTime, localDateTimeToUtc, Local
<1>5. Cardinality(M) = 1 => utc # NoInstant /\ instantToLocalDateTime(utc, zone) = Local(t)
  BY <1>1, <1>2, <1>4
<1>6. utc # NoInstant => instantToLocalDateTime(utc, zone) = Local(t) /\ choices = {}
  <2>1. Cardinality(M) # 1 => utc = NoInstant
    BY <1>2
  <2>2. Cardinality(M) = 1 => choices = {}
    BY <1>3
  <2> QED  BY <1>5, <2>1, <2>2
<1>7. ASSUME utc = NoInstant, choices = {} PROVE \A i \in t - 20 .. t + 20 : i + Offset(zone, i) # t
  <2>1. Cardinality(M) # 1
    BY <1>5, <1>7
  <2>2. M = {}
    BY <1>1, <1>3, <1>7, <2>1
  <2> QED  BY <1>1, <2>2
<1>8. ASSUME utc = NoInstant, choices # {}
      PROVE choices = {Instant(i) : i \in {j \in t - 20 .. t + 20 : j + Offset(zone, j) = t}}
  BY <1>1, <1>3, <1>8
<1>9. \A c \in choices : /\ localDateTimeToUtc(c, zone) = c
                         /\ instantToLocalDateTime(c, zone) = Local(t)
  BY <1>3, <1>4
<1> QED  BY <1>6, <1>7, <1>8, <1>9 DEF ClockTimesAreKept, utc, choices

-----------------------------------------------------------------------------
(* The columns of a chart and its bars (gantt/timeAxis.ts).                   *)

\* Months carry into years.
LEMMA MonthsCarry ==
  ASSUME NEW y \in Int, NEW k \in Int, NEW d
  PROVE  /\ y + (k \div 12) \in Int /\ k % 12 \in Int /\ 0 <= k % 12 /\ k % 12 <= 11
         /\ DateUTC(y, k, d) = DateUTC(y + (k \div 12), k % 12, d)
<1> DEFINE z == y + (k \div 12)  n == k % 12
<1>1. z \in Int /\ n \in Int /\ 0 <= n /\ n <= 11 /\ z + (n \div 12) = z /\ n % 12 = n
  OBVIOUS
<1>2. DateUTC(z, n, d) =
        DaysBefore(z) - DaysBefore(1970) + MonthOffsets[n + 1]
          + (IF IsLeap(z) /\ n + 1 > 2 THEN 1 ELSE 0) + d - 1
  <2> HIDE DEF z, n
  <2> QED  BY <1>1 DEF DateUTC
<1> QED  BY <1>1, <1>2 DEF DateUTC

\* The first day of a column; days and weeks may begin anywhere.
BeginsColumn(slot, scale) ==
  slot \in Int /\ (scale = "month" => \E y, m : Spells(y, m, 1) /\ slot = DateUTC(y, m, 1))

MostDays(scale) == CASE scale = "day" -> 1 [] scale = "week" -> 7 [] scale = "month" -> 31

\* Columns follow one another; a column is today's if today lies in it.
LEMMA ColumnIs ==
  ASSUME NEW scale \in TimeScales, NEW slot, BeginsColumn(slot, scale)
  PROVE  /\ SlotAfter(slot, 0, scale) = slot
         /\ NextSlot(slot, scale) \in Int /\ slot < NextSlot(slot, scale)
         /\ NextSlot(slot, scale) <= slot + MostDays(scale)
         /\ scale # "month" => NextSlot(slot, scale) = slot + MostDays(scale)
         /\ \A n \in Nat : /\ BeginsColumn(SlotAfter(slot, n, scale), scale)
                           /\ NextSlot(SlotAfter(slot, n, scale), scale) = SlotAfter(slot, n + 1, scale)
         /\ \A today \in Int :
              isCurrentSlot(slot, scale, today) <=> slot <= today /\ today < NextSlot(slot, scale)
<1>1. CASE scale # "month"
  <2> DEFINE c == MostDays(scale)
  <2>1. c \in {1, 7} /\ slot \in Int
    BY <1>1 DEF MostDays, TimeScales, BeginsColumn
  <2>2. \A s \in Int, n \in Int : SlotAfter(s, n, scale) = s + c * n
    BY <1>1 DEF SlotAfter, MostDays, TimeScales, addDaysUtc
  <2>3. ASSUME NEW today \in Int
        PROVE  isCurrentSlot(slot, scale, today) <=> slot <= today /\ today < slot + c
    <3>1. CASE scale = "day"
      BY <2>1, <3>1 DEF isCurrentSlot, MostDays
    <3>2. CASE scale = "week"
      BY <2>1, <3>2 DEF isCurrentSlot, MostDays, addDaysUtc
    <3> QED  BY <1>1, <3>1, <3>2 DEF TimeScales
  <2> HIDE DEF c
  <2>4. \A s \in Int : NextSlot(s, scale) = s + c
    BY <2>1, <2>2 DEF NextSlot
  <2>5. \A n \in Nat : c * n \in Int /\ c * (n + 1) = c * n + c
    BY <2>1
  <2>6. ASSUME NEW n \in Nat
        PROVE  /\ BeginsColumn(SlotAfter(slot, n, scale), scale)
               /\ NextSlot(SlotAfter(slot, n, scale), scale) = SlotAfter(slot, n + 1, scale)
    <3>1. n \in Int /\ n + 1 \in Int /\ c * n \in Int /\ slot + c * n \in Int
      BY <2>1, <2>5
    <3>2. SlotAfter(slot, n, scale) = slot + c * n /\ SlotAfter(slot, n + 1, scale) = slot + c * (n + 1)
      BY <2>1, <2>2, <3>1
    <3> QED  BY <1>1, <2>1, <2>4, <2>5, <3>1, <3>2 DEF BeginsColumn
  <2>7. SlotAfter(slot, 0, scale) = slot
    BY <2>1, <2>2
  <2> QED  BY <2>1, <2>3, <2>4, <2>6, <2>7 DEF c
<1>2. CASE scale = "month"
  <2>1. PICK y, m : Spells(y, m, 1) /\ slot = DateUTC(y, m, 1)
    BY <1>2 DEF BeginsColumn
  <2>2. y \in Int /\ m \in Int /\ 0 <= m /\ m <= 11 /\ UTCFullYear(slot) = y /\ UTCMonth(slot) = m
        /\ UTCDate(slot) = 1 /\ slot \in Int
    BY <2>1, SpellingIs DEF Spells
  <2>3. ASSUME NEW n \in Int
        PROVE  LET z == y + ((m + n) \div 12)  k == (m + n) % 12
               IN  Spells(z, k, 1) /\ SlotAfter(slot, n, scale) = DateUTC(z, k, 1)
    <3> DEFINE z == y + ((m + n) \div 12)  k == (m + n) % 12
    <3>1. SlotAfter(slot, n, scale) = DateUTC(y, m + n, 1)
      BY <1>2, <2>2 DEF SlotAfter, addMonthsUtc
    <3>2. m + n \in Int
      BY <2>2
    <3>3. z \in Int /\ k \in Int /\ 0 <= k /\ k <= 11 /\ DateUTC(y, m + n, 1) = DateUTC(z, k, 1)
      <4> HIDE DEF z, k
      <4>1. \A j \in Int : /\ y + (j \div 12) \in Int /\ j % 12 \in Int /\ 0 <= j % 12 /\ j % 12 <= 11
                           /\ DateUTC(y, j, 1) = DateUTC(y + (j \div 12), j % 12, 1)
        <5>1. y \in Int
          BY <2>2
        <5> QED  BY <5>1, MonthsCarry, Zenon
      <4> QED  BY <3>2, <4>1 DEF z, k
    <3> HIDE DEF z, k
    <3>4. DaysIn(z, k + 1) \in 28..31
      BY <3>3, MonthSpan
    <3>5. Spells(z, k, 1)
      BY <3>3, <3>4 DEF Spells
    <3> QED  BY <3>1, <3>3, <3>5 DEF z, k
  <2>4. ASSUME NEW z, NEW k, Spells(z, k, 1)
        PROVE  /\ DateUTC(z, k, 1) \in Int
               /\ NextSlot(DateUTC(z, k, 1), scale) = DateUTC(z, k + 1, 1)
               /\ DateUTC(z, k + 1, 1) = DateUTC(z, k, 1) + DaysIn(z, k + 1)
               /\ DaysIn(z, k + 1) \in 28..31
    <3> DEFINE t == DateUTC(z, k, 1)
    <3>1. t \in Int /\ UTCFullYear(t) = z /\ UTCMonth(t) = k /\ UTCDate(t) = 1
      BY <2>4, SpellingIs
    <3>2. NextSlot(t, scale) = DateUTC(z, k + 1, 1)
      <4> HIDE DEF t
      <4> QED  BY <1>2, <3>1 DEF NextSlot, SlotAfter, addMonthsUtc
    <3>3. z \in Int /\ k \in Int /\ 0 <= k /\ k <= 11
      BY <2>4 DEF Spells
    <3> QED  BY <3>1, <3>2, <3>3, MonthsLie, MonthSpan
  <2>5. SlotAfter(slot, 0, scale) = slot
    <3>1. m + 0 = m
      BY <2>2
    <3> QED  BY <1>2, <2>1, <2>2, <3>1 DEF SlotAfter, addMonthsUtc
  <2>6. ASSUME NEW n \in Nat
        PROVE  /\ BeginsColumn(SlotAfter(slot, n, scale), scale)
               /\ NextSlot(SlotAfter(slot, n, scale), scale) = SlotAfter(slot, n + 1, scale)
    <3> DEFINE z == y + ((m + n) \div 12)  k == (m + n) % 12
    <3>1. Spells(z, k, 1) /\ SlotAfter(slot, n, scale) = DateUTC(z, k, 1)
      BY <2>3
    <3>2. SlotAfter(slot, n + 1, scale) = DateUTC(y, m + (n + 1), 1)
      BY <1>2, <2>2 DEF SlotAfter, addMonthsUtc
    <3>3. z + ((k + 1) \div 12) = y + ((m + (n + 1)) \div 12) /\ (k + 1) % 12 = (m + (n + 1)) % 12
      BY <2>2
    <3> HIDE DEF z, k
    <3>4. \A x, j \in Int : DateUTC(x, j, 1) = DateUTC(x + (j \div 12), j % 12, 1)
      BY MonthsCarry
    <3>5. z \in Int /\ k + 1 \in Int /\ m + (n + 1) \in Int
      BY <2>2, <3>1 DEF Spells
    <3>6. DateUTC(z, k + 1, 1) = DateUTC(y, m + (n + 1), 1)
      <4>1. DateUTC(z, k + 1, 1) = DateUTC(z + ((k + 1) \div 12), (k + 1) % 12, 1)
        BY <3>4, <3>5, Zenon
      <4>2. DateUTC(y, m + (n + 1), 1) = DateUTC(y + ((m + (n + 1)) \div 12), (m + (n + 1)) % 12, 1)
        <5>1. y \in Int
          BY <2>2
        <5> QED  BY <3>4, <3>5, <5>1, Zenon
      <4> QED  BY <3>3, <4>1, <4>2, Zenon
    <3>7. DateUTC(z, k, 1) \in Int /\ NextSlot(DateUTC(z, k, 1), scale) = DateUTC(z, k + 1, 1)
      BY <2>4, <3>1
    <3> QED  BY <3>1, <3>2, <3>6, <3>7 DEF BeginsColumn
  <2>7. ASSUME NEW today \in Int
        PROVE  isCurrentSlot(slot, scale, today) <=> slot <= today /\ today < slot + DaysIn(y, m + 1)
    <3> DEFINE d == today - slot + 1
    <3>1. isCurrentSlot(slot, scale, today) <=> UTCFullYear(today) = y /\ UTCMonth(today) = m
      BY <1>2, <2>2 DEF isCurrentSlot
    <3>2. \A e \in Int : DateUTC(y, m, e) = slot + e - 1
      <4>1. \A e \in Int : DateUTC(y, m, e) = FirstOfYear(y) + InYear(y, m) + e - 1
        BY <2>2, MonthsLie
      <4>2. FirstOfYear(y) \in Int /\ InYear(y, m) \in Nat
        BY <2>1, SpelledIs
      <4>3. slot = FirstOfYear(y) + InYear(y, m) + 1 - 1
        BY <2>1, <4>1
      <4> QED  BY <4>1, <4>2, <4>3
    <3>3. /\ Spells(UTCFullYear(today), UTCMonth(today), UTCDate(today))
          /\ DateUTC(UTCFullYear(today), UTCMonth(today), UTCDate(today)) = today
          /\ \A a, b, e : Spells(a, b, e) /\ DateUTC(a, b, e) = today =>
               a = UTCFullYear(today) /\ b = UTCMonth(today)
      BY SpelledOnce
    <3>4. DaysIn(y, m + 1) \in 28..31
      BY <2>1, <2>4
    <3>5. ASSUME UTCFullYear(today) = y, UTCMonth(today) = m
          PROVE  slot <= today /\ today < slot + DaysIn(y, m + 1)
      <4>1. UTCDate(today) \in Int /\ 1 <= UTCDate(today) /\ UTCDate(today) <= DaysIn(y, m + 1)
        BY <3>3, <3>5 DEF Spells
      <4>2. today = slot + UTCDate(today) - 1
        BY <3>2, <3>3, <3>5, <4>1
      <4> QED  BY <2>2, <3>4, <4>1, <4>2
    <3>6. ASSUME slot <= today, today < slot + DaysIn(y, m + 1)
          PROVE  UTCFullYear(today) = y /\ UTCMonth(today) = m
      <4>1. d \in Int /\ 1 <= d /\ d <= DaysIn(y, m + 1) /\ slot + d - 1 = today
        BY <2>2, <3>4, <3>6
      <4> HIDE DEF d
      <4>2. Spells(y, m, d) /\ DateUTC(y, m, d) = today
        BY <2>2, <3>2, <4>1 DEF Spells
      <4> QED  BY <3>3, <4>2
    <3> QED  BY <3>1, <3>5, <3>6
  <2>8. NextSlot(slot, scale) = slot + DaysIn(y, m + 1) /\ DaysIn(y, m + 1) \in 28..31 /\ MostDays(scale) = 31
    BY <1>2, <2>1, <2>4 DEF MostDays
  <2> HIDE DEF BeginsColumn
  <2> QED  BY <1>2, <2>2, <2>5, <2>6, <2>7, <2>8
<1> QED  BY <1>1, <1>2

\* The first column begins at or before the first day.
LEMMA FirstSlotIs ==
  ASSUME NEW scale \in TimeScales, NEW min \in Int
  PROVE  /\ BeginsColumn(FirstSlot(min, scale), scale) /\ FirstSlot(min, scale) <= min
         /\ scale = "day" => FirstSlot(min, scale) = min
<1>1. CASE scale = "day"
  BY <1>1 DEF FirstSlot, BeginsColumn
<1>2. CASE scale = "week"
  <2>1. FirstSlot(min, scale) = min - ((((min + 4) % 7) + 6) % 7)
    BY <1>2 DEF FirstSlot, startOfIsoWeekUtc, addDaysUtc, UTCDay
  <2>2. ((((min + 4) % 7) + 6) % 7) \in 0..6
    OBVIOUS
  <2> QED  BY <1>2, <2>1, <2>2 DEF BeginsColumn
<1>3. CASE scale = "month"
  <2> DEFINE y == UTCFullYear(min)  m == UTCMonth(min)  d == UTCDate(min)
  <2>1. Spells(y, m, d) /\ DateUTC(y, m, d) = min
    BY SpelledOnce
  <2>2. FirstSlot(min, scale) = DateUTC(y, m, 1)
    BY <1>3 DEF FirstSlot, startOfMonthUtc
  <2> HIDE DEF y, m, d
  <2>3. y \in Int /\ m \in Int /\ 0 <= m /\ m <= 11 /\ d \in Int /\ 1 <= d /\ d <= DaysIn(y, m + 1)
    BY <2>1 DEF Spells
  <2>4. Spells(y, m, 1)
    <3>1. DaysIn(y, m + 1) \in 28..31
      BY <2>3, MonthSpan
    <3> QED  BY <2>3, <3>1 DEF Spells
  <2>5. /\ DateUTC(y, m, d) = FirstOfYear(y) + InYear(y, m) + d - 1
        /\ DateUTC(y, m, 1) = FirstOfYear(y) + InYear(y, m) + 1 - 1
        /\ FirstOfYear(y) \in Int /\ InYear(y, m) \in Nat /\ DateUTC(y, m, 1) \in Int
    BY <2>1, <2>4, SpelledIs
  <2>6. DateUTC(y, m, 1) <= min
    BY <2>1, <2>3, <2>5
  <2> QED  BY <1>3, <2>2, <2>4, <2>5, <2>6 DEF BeginsColumn
<1> QED  BY <1>1, <1>2, <1>3 DEF TimeScales

\* Every column is a day long or longer, and none longer than its scale allows.
LEMMA ColumnsGrow ==
  ASSUME NEW scale \in TimeScales, NEW first, BeginsColumn(first, scale), NEW K \in Nat
  PROVE  \A n \in 0..K :
           LET s == SlotAfter(first, n, scale)
           IN  /\ s \in Int /\ s <= first + MostDays(scale) * n
               /\ scale # "month" => s = first + MostDays(scale) * n
               /\ \A i \in 0..n : SlotAfter(first, i, scale) + (n - i) <= s
<1> DEFINE S(n) == SlotAfter(first, n, scale)
           c == MostDays(scale)
           T == {n \in 0..K : /\ S(n) \in Int /\ S(n) <= first + c * n
                              /\ scale # "month" => S(n) = first + c * n
                              /\ \A i \in 0..n : S(i) \in Int /\ S(i) + (n - i) <= S(n)}
<1>1. c \in 1..31 /\ first \in Int
  BY DEF MostDays, TimeScales, BeginsColumn
<1>2. /\ S(0) = first
      /\ \A n \in Nat : BeginsColumn(S(n), scale) /\ NextSlot(S(n), scale) = S(n + 1)
  BY ColumnIs
<1>3. \A n \in Nat : /\ S(n) \in Int /\ S(n + 1) \in Int /\ S(n) < S(n + 1) /\ S(n + 1) <= S(n) + c
                     /\ scale # "month" => S(n + 1) = S(n) + c
  <2>1. ASSUME NEW s, BeginsColumn(s, scale)
        PROVE  /\ s \in Int /\ NextSlot(s, scale) \in Int /\ s < NextSlot(s, scale)
               /\ NextSlot(s, scale) <= s + c
               /\ scale # "month" => NextSlot(s, scale) = s + c
    BY <2>1, ColumnIs DEF BeginsColumn
  <2> HIDE DEF S, c
  <2> QED  BY <1>2, <2>1
<1> HIDE DEF S, c
<1>4. 0 \in T
  <2>1. c * 0 = 0 /\ 0..0 = {0}
    BY <1>1
  <2> QED  BY <1>1, <1>2, <2>1
<1>5. ASSUME NEW n \in 0..K, n \in T, n < K PROVE n + 1 \in T
  <2>1. n \in Nat /\ n + 1 \in 0..K /\ c * (n + 1) = c * n + c /\ c * n \in Int
    BY <1>1, <1>5
  <2>2. /\ S(n) \in Int /\ S(n) <= first + c * n /\ (scale # "month" => S(n) = first + c * n)
        /\ \A i \in 0..n : S(i) \in Int /\ S(i) + (n - i) <= S(n)
    BY <1>5
  <2>3. ASSUME NEW i \in 0..n + 1 PROVE S(i) \in Int /\ S(i) + ((n + 1) - i) <= S(n + 1)
    <3>1. CASE i = n + 1
      BY <1>3, <2>1, <3>1
    <3>2. CASE i # n + 1
      <4>1. i \in 0..n
        BY <2>1, <3>2
      <4> QED  BY <1>3, <2>1, <2>2, <4>1
    <3> QED  BY <3>1, <3>2
  <2>4. S(n + 1) \in Int /\ S(n + 1) <= first + c * (n + 1) /\ (scale # "month" => S(n + 1) = first + c * (n + 1))
    BY <1>1, <1>3, <2>1, <2>2
  <2> QED  BY <2>1, <2>3, <2>4
<1>6. \A n \in 0..K : n \in T
  <2> HIDE DEF T
  <2> QED  BY <1>4, <1>5, PrefixInduction
<1>7. ASSUME NEW n \in 0..K
      PROVE  /\ S(n) \in Int /\ S(n) <= first + c * n /\ (scale # "month" => S(n) = first + c * n)
             /\ \A i \in 0..n : S(i) + (n - i) <= S(n)
  BY <1>6
<1> QED  BY <1>7 DEF S, c

\* The columns from the first day to the last.
Columns(first, last, scale, slots) ==
  LET end == SlotAfter(first, Len(slots), scale)
  IN  /\ slots \in Seq(Int) /\ Len(slots) \in Nat /\ Len(slots) >= 1
      /\ \A n \in 1..Len(slots) : slots[n] = SlotAfter(first, n - 1, scale)
      /\ slots[Len(slots)] <= last /\ last < end /\ end \in Int

\* The columns go on until one would begin after the last day.
LEMMA SlotsAre ==
  ASSUME NEW scale \in TimeScales, NEW min \in Int, NEW max \in Int, min <= max
  PROVE  Columns(FirstSlot(min, scale), max, scale, timeSlots(min, max, scale))
<1> DEFINE first == FirstSlot(min, scale)
           S(n) == SlotAfter(first, n, scale)
           K == max - first + 1
           ends == {n \in 0..K : S(n) > max}
           Ends(n) == S(n) > max /\ (n > 0 => S(n - 1) <= max)
           count == CHOOSE n \in 0..K : Ends(n)
<1>1. BeginsColumn(first, scale) /\ first \in Int /\ first <= min
  BY FirstSlotIs DEF BeginsColumn
<1>2. K \in Nat /\ K >= 1
  BY <1>1
<1>3. S(0) = first
  BY <1>1, ColumnIs
<1> HIDE DEF first
<1>4. \A n \in 0..K : S(n) \in Int /\ S(0) + (n - 0) <= S(n)
  <2> HIDE DEF K
  <2>1. \A n \in 0..K : 0 \in 0..n
    BY <1>2
  <2> QED  BY <1>1, <1>2, <2>1, ColumnsGrow
<1> HIDE DEF S
<1>5. \E n \in 0..K : Ends(n)
  <2>1. K \in 0..K /\ S(K) > max /\ S(K) \in Int
    BY <1>1, <1>2, <1>3, <1>4
  <2>2. IsFiniteSet(ends) /\ ends \in SUBSET Int /\ ends # {}
    <3>1. IsFiniteSet(0..K)
      BY <1>2, FS_Interval, 0 \in Int
    <3> HIDE DEF K
    <3>2. ends \in SUBSET (0..K) /\ ends # {}
      BY <2>1
    <3>3. ends \in SUBSET Int
      BY <1>2, <3>2
    <3> HIDE DEF ends
    <3> QED  BY <3>1, <3>2, <3>3, FS_Subset
  <2> DEFINE n == Min(ends)
  <2>3. n \in ends /\ \A k \in ends : n <= k
    <3> HIDE DEF ends
    <3> QED  BY <2>2, Extremes
  <2> HIDE DEF n
  <2>4. n \in 0..K /\ S(n) > max
    BY <2>3
  <2>5. ASSUME n > 0 PROVE S(n - 1) <= max
    <3>1. n - 1 \in 0..K /\ ~(n <= n - 1) /\ S(n - 1) \in Int
      BY <1>2, <1>4, <2>4, <2>5
    <3>2. ~(S(n - 1) > max)
      BY <2>3, <3>1
    <3> QED  BY <3>1, <3>2
  <2> QED  BY <2>4, <2>5
<1>6. count \in 0..K /\ Ends(count)
  <2> HIDE DEF Ends, K
  <2> QED  BY <1>5
<1>7. timeSlots(min, max, scale) = [n \in 1..count |-> S(n - 1)]
  BY DEF timeSlots, first, S
<1> HIDE DEF count
<1>8. count # 0
  BY <1>1, <1>3, <1>6
<1>9. count \in Nat /\ count >= 1 /\ S(count) \in Int /\ S(count) > max /\ S(count - 1) <= max
  BY <1>2, <1>4, <1>6, <1>8
<1>10. \A n \in 1..count : S(n - 1) \in Int
  <2>1. \A n \in 1..count : n - 1 \in 0..K
    BY <1>2, <1>6
  <2> QED  BY <1>4, <2>1
<1> DEFINE slots == [n \in 1..count |-> S(n - 1)]
<1>11. slots \in Seq(Int) /\ Len(slots) = count /\ \A n \in 1..count : slots[n] = S(n - 1)
  <2>1. slots \in [1..count -> Int]
    BY <1>10
  <2>2. slots \in Seq(Int)
    BY <1>9, <2>1 DEF Seq
  <2>3. DOMAIN slots = 1..count
    OBVIOUS
  <2>4. Len(slots) = count
    <3> HIDE DEF slots
    <3> QED  BY <1>9, <2>2, <2>3, LenProperties
  <2> QED  BY <2>2, <2>4
<1> HIDE DEF slots
<1>12. slots[count] <= max
  BY <1>9, <1>11
<1> QED  BY <1>7, <1>9, <1>11, <1>12 DEF Columns, slots, S, first

\* The bars of a chart, each of which ends no earlier than it starts.
BarsLike(items) ==
  IsFiniteSet(items) /\ \A i \in items : i.start \in Int /\ i.end \in Int /\ i.start <= i.end

\* The axis begins some days before the first bar and ends some days after the last.
LEMMA AxisIs ==
  ASSUME NEW items, BarsLike(items), items # {}, NEW scale \in TimeScales, NEW today
  PROVE  LET axis == computeTimeAxis(items, scale, today)
             pad == paddingDays(scale)
             last == Latest(items) + pad
         IN  /\ pad \in {1, 3, 7} /\ Earliest(items) \in Int /\ Latest(items) \in Int
             /\ axis.min = Earliest(items) - pad /\ axis.min \in Int
             /\ Columns(FirstSlot(axis.min, scale), last, scale, axis.slots)
             /\ \A i \in items : Earliest(items) <= i.start /\ i.end <= Latest(items)
<1> DEFINE pad == paddingDays(scale)
           min == Earliest(items) - pad
           max == Latest(items) + pad
           starts == [i \in items |-> i.start]
           ends == [i \in items |-> i.end]
<1>1. pad \in {1, 3, 7}
  BY DEF paddingDays, TimeScales
<1>2. IsFiniteSet(items) /\ \A i \in items : starts[i] \in Int /\ ends[i] \in Int
  BY DEF BarsLike
<1>3. /\ \E i \in items : \A j \in items : starts[i] <= starts[j]
      /\ \E i \in items : \A j \in items : ends[j] <= ends[i]
  <2>1. \E i \in items : \A j \in items : starts[i] <= starts[j]
    <3> HIDE DEF starts, ends
    <3> QED  BY <1>2, HighestRank
  <2>2. \E i \in items : \A j \in items : ends[j] <= ends[i]
    <3> HIDE DEF starts, ends
    <3> QED  BY <1>2, HighestRank
  <2> QED  BY <2>1, <2>2
<1>4. Earliest(items) \in {i.start : i \in items} /\ \A i \in items : Earliest(items) <= i.start
  <2>1. \E t \in {i.start : i \in items} : \A i \in items : t <= i.start
    BY <1>3
  <2> QED  BY <2>1 DEF Earliest
<1>5. Latest(items) \in {i.end : i \in items} /\ \A i \in items : i.end <= Latest(items)
  <2>1. \E t \in {i.end : i \in items} : \A i \in items : i.end <= t
    BY <1>3
  <2> QED  BY <2>1 DEF Latest
<1>6. Earliest(items) \in Int /\ Latest(items) \in Int
  BY <1>4, <1>5 DEF BarsLike
<1>7. Earliest(items) <= Latest(items)
  <2>1. PICK i \in items : TRUE
    OBVIOUS
  <2>2. i.start \in Int /\ i.end \in Int /\ i.start <= i.end
    BY DEF BarsLike
  <2> QED  BY <1>4, <1>5, <1>6, <2>2
<1>8. min \in Int /\ max \in Int /\ min <= max
  BY <1>1, <1>6, <1>7
<1>9. /\ computeTimeAxis(items, scale, today).min = min
      /\ computeTimeAxis(items, scale, today).slots = timeSlots(min, max, scale)
  <2>1. Earliest(items) + (-pad) = min
    BY <1>1, <1>6
  <2> QED  BY <2>1 DEF computeTimeAxis, addDaysUtc
<1>10. Columns(FirstSlot(min, scale), max, scale, timeSlots(min, max, scale))
  <2> HIDE DEF min, max
  <2> QED  BY <1>8, SlotsAre
<1> QED  BY <1>1, <1>4, <1>5, <1>6, <1>8, <1>9, <1>10

\* Columns that follow one another from the first to an end.
ColumnsLie(slots, scale, first, end) ==
  LET L == Len(slots)
  IN  /\ L \in Nat /\ L >= 1 /\ end \in Int /\ slots \in Seq(Int)
      /\ slots[1] = first /\ first \in Int
      /\ end <= first + MostDays(scale) * L
      /\ scale # "month" => end = first + MostDays(scale) * L
      /\ \A n \in 1..L : /\ BeginsColumn(slots[n], scale) /\ slots[n] \in Int
                         /\ NextSlot(slots[n], scale) \in Int
                         /\ slots[n] < NextSlot(slots[n], scale)
                         /\ NextSlot(slots[n], scale) <= end
                         /\ n < L => NextSlot(slots[n], scale) = slots[n + 1]
                         /\ n = L => NextSlot(slots[n], scale) = end
      /\ \A n, k \in 1..L : n < k => NextSlot(slots[n], scale) <= slots[k]

\* They do, from the column of the first day to past the last day.
LEMMA ColumnsFollow ==
  ASSUME NEW scale \in TimeScales, NEW min \in Int, NEW last \in Int, NEW slots,
         Columns(FirstSlot(min, scale), last, scale, slots), NEW today
  PROVE  LET end == getTimeSpanEnd(slots, scale, today)
         IN  /\ ColumnsLie(slots, scale, FirstSlot(min, scale), end) /\ last < end
             /\ FirstSlot(min, scale) <= min /\ FirstSlot(min, scale) \in Int
             /\ scale = "day" => FirstSlot(min, scale) = min
<1> DEFINE first == FirstSlot(min, scale)
           S(n) == SlotAfter(first, n, scale)
           L == Len(slots)
           end == getTimeSpanEnd(slots, scale, today)
<1>1. /\ slots \in Seq(Int) /\ L \in Nat /\ L >= 1 /\ \A n \in 1..L : slots[n] = S(n - 1)
      /\ slots[L] <= last /\ last < S(L) /\ S(L) \in Int
  BY DEF Columns
<1>2. BeginsColumn(first, scale) /\ first \in Int /\ first <= min /\ (scale = "day" => first = min)
  BY FirstSlotIs DEF BeginsColumn
<1>3. S(0) = first /\ \A n \in Nat : BeginsColumn(S(n), scale) /\ NextSlot(S(n), scale) = S(n + 1)
  BY <1>2, ColumnIs
<1>4. \A n \in 0..L : /\ S(n) \in Int /\ S(n) <= first + MostDays(scale) * n
                      /\ scale # "month" => S(n) = first + MostDays(scale) * n
                      /\ \A i \in 0..n : S(i) + (n - i) <= S(n)
  <2> HIDE DEF first, L
  <2> QED  BY <1>1, <1>2, ColumnsGrow
<1>5. slots # <<>>
  BY <1>1
<1>6. end = NextSlot(slots[L], scale)
  BY <1>5 DEF getTimeSpanEnd
<1> HIDE DEF S, L, end, first
<1>7. end = S(L)
  <2>1. slots[L] = S(L - 1) /\ L - 1 \in Nat /\ (L - 1) + 1 = L
    BY <1>1
  <2> QED  BY <1>3, <1>6, <2>1
<1>8. slots[1] = first
  <2>1. slots[1] = S(1 - 1) /\ 1 - 1 = 0
    BY <1>1
  <2> QED  BY <1>3, <2>1
<1>9. L \in 0..L
  BY <1>1
<1>10. ASSUME NEW n \in 1..L
       PROVE  /\ BeginsColumn(slots[n], scale) /\ slots[n] = S(n - 1) /\ NextSlot(slots[n], scale) = S(n)
              /\ n \in 0..L /\ n - 1 \in 0..L /\ S(n) \in Int /\ S(n - 1) \in Int
              /\ S(n - 1) < S(n) /\ S(n) <= S(L)
  <2>1. /\ slots[n] = S(n - 1) /\ n - 1 \in Nat /\ (n - 1) + 1 = n /\ n \in 0..L /\ n - 1 \in 0..L
        /\ n - 1 \in 0..n /\ n \in 0..L
    BY <1>1
  <2>2. S(n) \in Int /\ S(n - 1) \in Int /\ S(n - 1) + (n - (n - 1)) <= S(n)
    BY <1>4, <2>1
  <2>3. S(n) + (L - n) <= S(L) /\ S(L) \in Int
    BY <1>4, <1>9, <2>1
  <2>4. slots[n] = S(n - 1) /\ BeginsColumn(S(n - 1), scale) /\ NextSlot(S(n - 1), scale) = S(n)
    BY <1>3, <2>1
  <2>5. S(n - 1) < S(n) /\ S(n) <= S(L)
    BY <1>1, <2>2, <2>3
  <2> QED  BY <2>1, <2>2, <2>4, <2>5
<1>11. ASSUME NEW n \in 1..L, NEW k \in 1..L, n < k PROVE S(n) <= S(k - 1)
  <2>1. n \in 0..(k - 1) /\ k - 1 \in 0..L
    BY <1>1, <1>11
  <2>2. S(n) + ((k - 1) - n) <= S(k - 1) /\ S(n) \in Int /\ S(k - 1) \in Int
    BY <1>4, <1>10, <2>1
  <2> QED  BY <1>11, <2>1, <2>2
<1>12. ASSUME NEW n \in 1..L, n < L PROVE S(n) = slots[n + 1]
  <2>1. n + 1 \in 1..L /\ (n + 1) - 1 = n
    BY <1>1, <1>12
  <2> QED  BY <1>1, <2>1
<1>13. end <= first + MostDays(scale) * L /\ (scale # "month" => end = first + MostDays(scale) * L)
  BY <1>4, <1>7, <1>9
<1>14. \A n \in 1..L : /\ BeginsColumn(slots[n], scale) /\ slots[n] \in Int
                       /\ NextSlot(slots[n], scale) \in Int
                       /\ slots[n] < NextSlot(slots[n], scale)
                       /\ NextSlot(slots[n], scale) <= end
                       /\ n < L => NextSlot(slots[n], scale) = slots[n + 1]
                       /\ n = L => NextSlot(slots[n], scale) = end
  BY <1>7, <1>10, <1>12
<1>15. \A n, k \in 1..L : n < k => NextSlot(slots[n], scale) <= slots[k]
  BY <1>10, <1>11
<1>16. /\ L \in Nat /\ L >= 1 /\ end \in Int /\ last < end
       /\ slots[1] = first /\ first \in Int /\ slots \in Seq(Int)
  BY <1>1, <1>2, <1>7, <1>8
<1>17. ColumnsLie(slots, scale, first, end)
  BY <1>13, <1>14, <1>15, <1>16 DEF ColumnsLie, L
<1> QED  BY <1>2, <1>16, <1>17 DEF end, first

\* The columns of a chart cover every day from the first bar to the last, follow
\* one another without a gap, and exactly one is today's if today is on the axis.
THEOREM ColumnsCover ==
  ASSUME NEW items, BarsLike(items), NEW scale \in TimeScales, NEW today \in Int
  PROVE  ColumnsCoverTheBars(items, scale, today)
<1> SUFFICES ASSUME items # {} PROVE ColumnsCoverTheBars(items, scale, today)
  BY DEF ColumnsCoverTheBars
<1> DEFINE axis == computeTimeAxis(items, scale, today)
           slots == axis.slots
           L == Len(slots)
           end == getTimeSpanEnd(slots, scale, today)
           last == Latest(items) + paddingDays(scale)
           now == {n \in 1..L : isCurrentSlot(slots[n], scale, today)}
<1>1. /\ paddingDays(scale) \in {1, 3, 7} /\ Earliest(items) \in Int /\ Latest(items) \in Int
      /\ axis.min = Earliest(items) - paddingDays(scale) /\ axis.min \in Int
      /\ Columns(FirstSlot(axis.min, scale), last, scale, slots)
  BY AxisIs
<1>2. last \in Int /\ axis.min < Earliest(items) /\ Latest(items) < last
  BY <1>1
<1> HIDE DEF axis, last
<1>3. /\ L \in Nat /\ L >= 1 /\ end \in Int /\ slots[1] <= axis.min /\ last < end /\ slots[1] \in Int
      /\ \A n \in 1..L : /\ BeginsColumn(slots[n], scale) /\ slots[n] \in Int
                         /\ NextSlot(slots[n], scale) \in Int
                         /\ slots[n] < NextSlot(slots[n], scale)
                         /\ NextSlot(slots[n], scale) <= end
                         /\ n < L => NextSlot(slots[n], scale) = slots[n + 1]
                         /\ n = L => NextSlot(slots[n], scale) = end
      /\ \A n, k \in 1..L : n < k => NextSlot(slots[n], scale) <= slots[k]
  <2> HIDE DEF slots
  <2>1. /\ ColumnsLie(slots, scale, FirstSlot(axis.min, scale), end) /\ last < end
        /\ FirstSlot(axis.min, scale) <= axis.min
    BY <1>1, <1>2, ColumnsFollow
  <2> HIDE DEF end
  <2> QED  BY <2>1 DEF ColumnsLie
<1>4. \A n \in 1..L : isCurrentSlot(slots[n], scale, today)
                        <=> slots[n] <= today /\ today < NextSlot(slots[n], scale)
  <2> HIDE DEF slots, L
  <2> QED  BY <1>3, ColumnIs
<1> HIDE DEF slots, L, end
<1>5. Cardinality({}) = 0 /\ \A n : Cardinality({n}) = 1
  BY FS_EmptySet, FS_Singleton
<1>6. ASSUME slots[1] <= today, today < end PROVE Cardinality(now) = 1
  <2> DEFINE begun == {n \in 1..L : slots[n] <= today}
             m == Max(begun)
  <2>1. begun \in SUBSET Int /\ begun # {} /\ IsFiniteSet(begun)
    <3>1. IsFiniteSet(1..L)
      BY <1>3, FS_Interval, 1 \in Int
    <3>2. begun \in SUBSET (1..L) /\ 1 \in begun
      BY <1>3, <1>6
    <3>3. begun \in SUBSET Int
      BY <1>3, <3>2
    <3> HIDE DEF begun
    <3> QED  BY <3>1, <3>2, <3>3, FS_Subset
  <2>2. m \in begun /\ \A n \in begun : n <= m
    <3> HIDE DEF begun
    <3> QED  BY <2>1, Extremes
  <2> HIDE DEF m
  <2>3. m \in 1..L /\ slots[m] <= today
    BY <2>2
  <2>4. today < NextSlot(slots[m], scale)
    <3>1. CASE m = L
      BY <1>3, <1>6, <2>3, <3>1
    <3>2. CASE m # L
      <4>1. m + 1 \in 1..L /\ ~(m + 1 <= m) /\ m < L
        BY <1>3, <2>3, <3>2
      <4>2. ~(slots[m + 1] <= today) /\ slots[m + 1] \in Int
        BY <1>3, <2>2, <4>1
      <4> QED  BY <1>3, <2>3, <4>1, <4>2
    <3> QED  BY <3>1, <3>2
  <2>5. ASSUME NEW n \in now PROVE n = m
    <3>1. n \in 1..L /\ slots[n] <= today /\ today < NextSlot(slots[n], scale)
      BY <1>4
    <3>2. n < m => NextSlot(slots[n], scale) <= slots[m]
      BY <1>3, <2>3, <3>1
    <3>3. n <= m
      BY <2>2, <3>1
    <3> QED  BY <1>3, <2>3, <3>1, <3>2, <3>3
  <2>6. now = {m}
    BY <1>4, <2>3, <2>4, <2>5
  <2> HIDE DEF now
  <2> QED  BY <1>5, <2>6, Zenon
<1>7. ASSUME ~(slots[1] <= today /\ today < end) PROVE Cardinality(now) = 0
  <2>1. ASSUME NEW n \in now PROVE FALSE
    <3>1. n \in 1..L /\ slots[n] <= today /\ today < NextSlot(slots[n], scale) /\ NextSlot(slots[n], scale) <= end
      BY <1>3, <1>4
    <3>2. slots[1] <= slots[n]
      <4>1. CASE n = 1
        BY <1>3, <4>1
      <4>2. CASE n # 1
        <5>1. 1 \in 1..L /\ 1 < n
          BY <1>3, <3>1, <4>2
        <5>2. NextSlot(slots[1], scale) <= slots[n]
          BY <1>3, <3>1, <5>1
        <5> QED  BY <1>3, <3>1, <5>1, <5>2
      <4> QED  BY <4>1, <4>2
    <3> QED  BY <1>3, <1>7, <3>1, <3>2
  <2>2. now = {}
    BY <2>1
  <2> HIDE DEF now
  <2> QED  BY <1>5, <2>2
<1>8. Cardinality(now) = IF slots[1] <= today /\ today < end THEN 1 ELSE 0
  <2> HIDE DEF now
  <2> QED  BY <1>6, <1>7
<1>9. slots[1] <= axis.min /\ axis.min < Earliest(items) /\ Latest(items) < end
  BY <1>1, <1>2, <1>3
<1>10. \A n \in 1 .. L - 1 : NextSlot(slots[n], scale) = slots[n + 1]
  <2>1. \A n \in 1 .. L - 1 : n \in 1..L /\ n < L
    BY <1>3
  <2> QED  BY <1>3, <2>1
<1> QED  BY <1>8, <1>9, <1>10 DEF ColumnsCoverTheBars, axis, slots, end, L

\* Lengths on the axis compare as the days they stand for.
LEMMA Pixels ==
  ASSUME NEW W \in Nat, W >= 1, NEW a \in Int, NEW b \in Int
  PROVE  /\ a * W \in Int /\ b * W \in Int /\ a * W + b * W = (a + b) * W
         /\ (a <= b) = (a * W <= b * W) /\ (a = b) = (a * W = b * W)
<1>1. a * W \in Int /\ b * W \in Int
  OBVIOUS
<1>2. a * W + b * W = (a + b) * W
  BY SMTT(30)
<1>3. a < b => a * W < b * W
  <2>1. ASSUME a < b PROVE a * W < b * W
    <3>1. (b - a) \in Nat /\ b - a >= 1
      BY <2>1
    <3>2. (b - a) * W >= 1
      BY <3>1, SMTT(30)
    <3>3. (b - a) * W = b * W - a * W
      BY SMTT(30)
    <3> QED  BY <1>1, <3>2, <3>3
  <2> QED  BY <2>1
<1>4. b < a => b * W < a * W
  <2>1. ASSUME b < a PROVE b * W < a * W
    <3>1. (a - b) \in Nat /\ a - b >= 1
      BY <2>1
    <3>2. (a - b) * W >= 1
      BY <3>1, SMTT(30)
    <3>3. (a - b) * W = a * W - b * W
      BY SMTT(30)
    <3> QED  BY <1>1, <3>2, <3>3
  <2> QED  BY <2>1
<1>5. a = b => a * W = b * W
  OBVIOUS
<1> QED  BY <1>1, <1>2, <1>3, <1>4, <1>5

\* A bar is as wide as its days and lies on the axis, and of two bars the one
\* that begins the day after the other ends touches it.
THEOREM BarsCover ==
  ASSUME NEW items, BarsLike(items), NEW scale \in TimeScales, NEW today
  PROVE  BarsCoverTheirDays(items, scale, today)
<1> SUFFICES ASSUME items # {} PROVE BarsCoverTheirDays(items, scale, today)
  BY DEF BarsCoverTheirDays
<1> DEFINE axis == computeTimeAxis(items, scale, today)
           slots == axis.slots
           min == axis.min
           L == Len(slots)
           w == getSlotWidth(scale)
           W == L * w
           end == getTimeSpanEnd(slots, scale, min)
           first == FirstSlot(min, scale)
           last == Latest(items) + paddingDays(scale)
           span == end - min
           px(i) == computeBarGeometry(i, axis, scale)
<1>1. /\ paddingDays(scale) \in {1, 3, 7} /\ Earliest(items) \in Int /\ Latest(items) \in Int
      /\ min = Earliest(items) - paddingDays(scale) /\ min \in Int
      /\ Columns(first, last, scale, slots)
      /\ \A i \in items : Earliest(items) <= i.start /\ i.end <= Latest(items)
  BY AxisIs
<1>2. last \in Int /\ last >= Latest(items) + 1
  BY <1>1
<1>3. /\ ColumnsLie(slots, scale, first, end) /\ last < end
      /\ first <= min /\ first \in Int /\ (scale = "day" => first = min)
  <2> HIDE DEF last, axis
  <2> QED  BY <1>1, <1>2, ColumnsFollow
<1>5. ASSUME span \in Int, span > 0, NEW i
      PROVE  /\ px(i).left = (i.start - min) * W /\ px(i).over = span
             /\ px(i).width = AtLeast(4 * span, (i.end - i.start + 1) * W)
  <2> HIDE DEF axis
  <2> QED  BY <1>5 DEF computeBarGeometry
<1> HIDE DEF axis, end, last, first, px, slots, min
<1>6. /\ L \in Nat /\ L >= 1 /\ end \in Int /\ slots[1] = first
      /\ end <= first + MostDays(scale) * L
      /\ scale # "month" => end = first + MostDays(scale) * L
  BY <1>3 DEF ColumnsLie
<1>7. /\ w \in {40, 80, 120} /\ MostDays(scale) \in {1, 7, 31} /\ 4 * MostDays(scale) <= 2 * w
      /\ scale = "day" => w = 40 /\ MostDays(scale) = 1
  BY DEF getSlotWidth, MostDays, TimeScales
<1> HIDE DEF L, w
<1>8. /\ W \in Nat /\ W >= 1 /\ 4 * (MostDays(scale) * L) <= 2 * W
  <2>1. CASE w = 40
    BY <1>6, <1>7, <2>1
  <2>2. CASE w = 80
    BY <1>6, <1>7, <2>2
  <2>3. CASE w = 120
    BY <1>6, <1>7, <2>3
  <2> QED  BY <1>7, <2>1, <2>2, <2>3
<1> HIDE DEF W
<1>9. \A i \in items : /\ i.start \in Int /\ i.end \in Int /\ i.start <= i.end
                       /\ min < i.start /\ i.end + 1 < end
  BY <1>1, <1>2, <1>3, <1>6 DEF BarsLike
<1>10. span \in Int /\ span > 0
  <2>1. PICK i \in items : TRUE
    OBVIOUS
  <2> QED  BY <1>1, <1>6, <1>9, <2>1
<1>11. 4 * span <= 2 * W
  <2>1. MostDays(scale) * L \in Int
    BY <1>6, <1>7
  <2>2. span <= MostDays(scale) * L
    BY <1>1, <1>3, <1>6, <2>1
  <2> QED  BY <1>8, <1>10, <2>1, <2>2
<1> DEFINE wide(i) == (i.end - i.start + 1) * W
<1>12. ASSUME NEW i \in items
       PROVE  /\ px(i).left = (i.start - min) * W /\ px(i).over = span
              /\ px(i).width = AtLeast(4 * span, wide(i)) /\ wide(i) \in Int
              /\ px(i).left + wide(i) = (i.end + 1 - min) * W
              /\ px(i).left \in Int /\ px(i).width \in Int
  <2>1. i.start \in Int /\ i.end \in Int
    BY <1>9
  <2>2. (i.start - min) \in Int /\ (i.end - i.start + 1) \in Int
        /\ (i.start - min) + (i.end - i.start + 1) = i.end + 1 - min
    BY <1>1, <2>1
  <2>3. /\ (i.start - min) * W \in Int /\ (i.end - i.start + 1) * W \in Int
        /\ (i.start - min) * W + (i.end - i.start + 1) * W = ((i.start - min) + (i.end - i.start + 1)) * W
    BY <1>8, <2>2, Pixels
  <2>4. /\ px(i).left = (i.start - min) * W /\ px(i).over = span
        /\ px(i).width = AtLeast(4 * span, wide(i))
    BY <1>5, <1>10
  <2> HIDE DEF span
  <2>5. px(i).width \in Int
    BY <1>10, <2>3, <2>4 DEF AtLeast
  <2> QED  BY <2>2, <2>3, <2>4, <2>5
<1> HIDE DEF wide
<1>13. ASSUME NEW i \in items PROVE px(i).left >= 0
  <2>1. i.start - min \in Int /\ 0 <= i.start - min
    BY <1>1, <1>9
  <2>2. (0 <= i.start - min) = (0 * W <= (i.start - min) * W) /\ 0 * W = 0
    BY <1>8, <2>1, Pixels
  <2> QED  BY <1>12, <2>1, <2>2
<1>14. ASSUME NEW i \in items PROVE px(i).left + px(i).width <= W * span
  <2>1. span * W \in Int /\ span * W = W * span
    BY <1>8, <1>10
  <2>2. CASE px(i).width = wide(i)
    <3>1. i.end + 1 - min \in Int /\ i.end + 1 - min <= span
      BY <1>1, <1>6, <1>9
    <3> HIDE DEF span
    <3>2. (i.end + 1 - min <= span) = ((i.end + 1 - min) * W <= span * W)
      BY <1>8, <1>10, <3>1, Pixels
    <3> QED  BY <1>12, <2>1, <2>2, <3>1, <3>2
  <2>3. CASE px(i).width = 4 * span
    <3>1. (i.start - min) + 2 \in Int /\ i.start - min \in Int /\ (i.start - min) + 2 <= span
      BY <1>1, <1>6, <1>9
    <3> HIDE DEF span
    <3>2. ((i.start - min) + 2 <= span) = (((i.start - min) + 2) * W <= span * W)
      BY <1>8, <1>10, <3>1, Pixels
    <3>3. (i.start - min) * W + 2 * W = ((i.start - min) + 2) * W /\ (i.start - min) * W \in Int /\ 2 * W \in Int
      BY <1>8, <3>1, Pixels
    <3> QED  BY <1>8, <1>10, <1>11, <1>12, <2>1, <2>3, <3>1, <3>2, <3>3
  <2> QED  BY <1>12, <2>2, <2>3 DEF AtLeast
<1>15. ASSUME NEW i \in items, NEW j \in items, px(i).width > 4 * px(i).over
       PROVE  /\ (px(i).left + px(i).width <= px(j).left) = (i.end < j.start)
              /\ (px(i).left + px(i).width = px(j).left) = (i.end + 1 = j.start)
  <2>1. px(i).left + px(i).width = (i.end + 1 - min) * W
    <3>1. px(i).width = wide(i)
      BY <1>10, <1>12, <1>15 DEF AtLeast
    <3> QED  BY <1>12, <3>1
  <2>2. px(j).left = (j.start - min) * W
    BY <1>12
  <2>3. /\ i.end + 1 - min \in Int /\ j.start - min \in Int
        /\ (i.end + 1 - min <= j.start - min) = (i.end < j.start)
        /\ (i.end + 1 - min = j.start - min) = (i.end + 1 = j.start)
    BY <1>1, <1>9
  <2>4. /\ (i.end + 1 - min <= j.start - min) = ((i.end + 1 - min) * W <= (j.start - min) * W)
        /\ (i.end + 1 - min = j.start - min) = ((i.end + 1 - min) * W = (j.start - min) * W)
    BY <1>8, <2>3, Pixels
  <2> QED  BY <2>1, <2>2, <2>3, <2>4
<1>16. ASSUME NEW i \in items, scale = "day"
       PROVE  px(i).left = 40 * (i.start - slots[1]) * px(i).over
  <2>1. w = 40 /\ slots[1] = min /\ span = L
    BY <1>1, <1>3, <1>6, <1>7, <1>16
  <2>2. i.start - min \in Int
    BY <1>1, <1>9
  <2>3. (i.start - min) * (L * 40) = 40 * (i.start - min) * L
    BY <1>6, <2>2
  <2> QED  BY <1>12, <2>1, <2>3 DEF W
<1>17. \A i \in items : Len(axis.slots) * getSlotWidth(scale) * px(i).over = W * span
  BY <1>12 DEF W, L, w, slots
<1> QED  BY <1>13, <1>14, <1>15, <1>16, <1>17 DEF BarsCoverTheirDays, px, axis, slots

\* The bars of a group's chart; no two are alike.
RowsLike(bars) ==
  /\ IsFiniteSet(bars)
  /\ \A b \in bars : b.start \in Int /\ b.end \in Int /\ b.id \in Int
  /\ \A a, b \in bars : a.id = b.id /\ a.resource = b.resource /\ a.start = b.start /\ a.end = b.end => a = b

ReadAsTime(a, b) ==
  \/ a.start < b.start
  \/ a.start = b.start /\ a.end < b.end
  \/ a.start = b.start /\ a.end = b.end /\ a.id < b.id

\* A row of bars comes in the order of time.
LEMMA RowIs ==
  ASSUME NEW bars, RowsLike(bars), NEW r \in {b.resource : b \in bars}
  PROVE  LET own == {b \in bars : b.resource = r}
             row == groupByResource(bars)[r]
         IN  /\ row \in Seq(own) /\ ToSet(row) = own
             /\ \A n, m \in 1..Len(row) : n < m => ReadAsTime(row[n], row[m])
<1> DEFINE own == {b \in bars : b.resource = r}
           R == {e \in own \X own : ReadAsTime(e[1], e[2])}
           N == Cardinality(own)
           row == groupByResource(bars)[r]
           g(k) == CHOOSE x \in own : Cardinality({y \in own : ReadAsTime(y, x)}) = k - 1
<1>1. IsFiniteSet(own) /\ N \in Nat
  BY FS_Subset, FS_CardinalityType DEF RowsLike
<1>2. \A a, b \in own : <<a, b>> \in R <=> ReadAsTime(a, b)
  OBVIOUS
<1>3. OrdersAll(own, R)
  <2>1. \A a \in own : a.start \in Int /\ a.end \in Int /\ a.id \in Int /\ a.resource = r /\ a \in bars
    BY DEF RowsLike
  <2>2. \A a \in own : ~ReadAsTime(a, a)
    BY <2>1 DEF ReadAsTime
  <2>3. \A a, b, c \in own : ReadAsTime(a, b) /\ ReadAsTime(b, c) => ReadAsTime(a, c)
    BY <2>1 DEF ReadAsTime
  <2>4. ASSUME NEW a \in own, NEW b \in own, a # b PROVE ReadAsTime(a, b) \/ ReadAsTime(b, a)
    <3>1. ~(a.id = b.id /\ a.start = b.start /\ a.end = b.end)
      BY <2>1, <2>4 DEF RowsLike
    <3> QED  BY <2>1, <3>1 DEF ReadAsTime
  <2> HIDE DEF own, R
  <2> QED  BY <1>2, <2>2, <2>3, <2>4 DEF OrdersAll
<1>4. row = InOrder(own, R)
  <2>1. row = [k \in 1..N |-> g(k)]
    BY DEF groupByResource, Ranked, Rank, ReadAsTime
  <2> DEFINE h(k) == CHOOSE x \in own : Cardinality({y \in own : <<y, x>> \in R}) = k - 1
             below(x) == {y \in own : ReadAsTime(y, x)}
  <2>2. InOrder(own, R) = [k \in 1..N |-> h(k)]
    BY DEF InOrder
  <2>3. \A x \in own : below(x) = {y \in own : <<y, x>> \in R}
    BY <1>2
  <2>4. \A k \in 1..N : g(k) = h(k)
    <3> HIDE DEF R, below, own
    <3> TAKE k \in 1..N
    <3>1. \A x \in own : Cardinality(below(x)) = k - 1
                       <=> Cardinality({y \in own : <<y, x>> \in R}) = k - 1
      BY <2>3
    <3>2. g(k) = CHOOSE x \in own : Cardinality(below(x)) = k - 1
      BY DEF below
    <3> HIDE DEF g
    <3> QED  BY <3>1, <3>2
  <2> HIDE DEF g, h, row
  <2> QED  BY <2>1, <2>2, <2>4
<1> HIDE DEF own, R, N, row
<1>5. /\ row \in [1..N -> own]
      /\ \A i, j \in 1..N : i < j <=> <<row[i], row[j]>> \in R
      /\ \A x \in own : \E i \in 1..N : row[i] = x
  BY <1>1, <1>3, <1>4, RanksOrder DEF N
<1>6. row \in Seq(own) /\ Len(row) = N
  <2>1. row \in Seq(own)
    BY <1>1, <1>5 DEF Seq
  <2> QED  BY <1>1, <1>5, <2>1, LenProperties
<1>7. ToSet(row) = own
  <2>1. ToSet(row) = {row[i] : i \in DOMAIN row}
    BY DEF ToSet
  <2>2. DOMAIN row = 1..N
    BY <1>5
  <2> QED  BY <1>5, <2>1, <2>2
<1>8. \A n, m \in 1..N : n < m => ReadAsTime(row[n], row[m])
  BY <1>2, <1>5
<1> QED  BY <1>6, <1>7, <1>8 DEF own, row

\* Both charts of a group are folds of the same rows: each bar is in one row of
\* its own resource, in the order of time.
THEOREM GroupingKeeps ==
  ASSUME NEW bars, RowsLike(bars)
  PROVE  GroupingKeepsTheBars(bars)
<1> DEFINE groups == groupByResource(bars)
           own(r) == {b \in bars : b.resource = r}
<1>1. DOMAIN groups = {b.resource : b \in bars}
  BY DEF groupByResource
<1>2. ASSUME NEW r \in DOMAIN groups
      PROVE  /\ groups[r] \in Seq(own(r)) /\ ToSet(groups[r]) = own(r)
             /\ \A n, m \in 1..Len(groups[r]) : n < m => ReadAsTime(groups[r][n], groups[r][m])
  BY <1>1, RowIs
<1> HIDE DEF groups
<1>3. ASSUME NEW r \in DOMAIN groups, NEW n \in 1..Len(groups[r])
      PROVE  /\ groups[r][n].resource = r
             /\ n > 1 => groups[r][n - 1].start <= groups[r][n].start
  <2> DEFINE row == groups[r]
  <2>1. row \in Seq(own(r)) /\ n \in 1..Len(row)
    BY <1>2
  <2> HIDE DEF row
  <2>2. row[n] \in own(r) /\ (n > 1 => row[n - 1] \in own(r) /\ n - 1 \in 1..Len(row) /\ n - 1 < n)
    BY <2>1
  <2>3. n > 1 => ReadAsTime(row[n - 1], row[n])
    BY <1>2, <2>1, <2>2 DEF row
  <2>4. n > 1 => row[n - 1].start \in Int /\ row[n].start \in Int
    BY <2>2 DEF RowsLike
  <2> QED  BY <2>2, <2>3, <2>4 DEF ReadAsTime, row
<1>4. bars = UNION {ToSet(groups[r]) : r \in DOMAIN groups}
  <2> DEFINE all == UNION {ToSet(groups[r]) : r \in DOMAIN groups}
  <2>1. ASSUME NEW b \in bars PROVE b \in all
    <3>1. b.resource \in DOMAIN groups /\ b \in own(b.resource)
      BY <1>1
    <3> QED  BY <1>2, <3>1
  <2>2. ASSUME NEW b \in all PROVE b \in bars
    <3>1. PICK r \in DOMAIN groups : b \in ToSet(groups[r])
      OBVIOUS
    <3> QED  BY <1>2, <3>1
  <2> QED  BY <2>1, <2>2
<1> QED  BY <1>3, <1>4 DEF GroupingKeepsTheBars, groups

-----------------------------------------------------------------------------
(* The tree of folders.                                                       *)

\* What is below a folder, as a least set.
LEMMA UnderIs ==
  ASSUME NEW parent, IsFiniteSet(DOMAIN parent), NEW id, NEW opened
  PROVE  LET D == DOMAIN parent
             below == under(parent, id, opened)
         IN  /\ below \in SUBSET D
             /\ \A x \in D : parent[x] = id => x \in below
             /\ \A x \in D : parent[x] \in below \cap opened => x \in below
             /\ \A C : /\ \A x \in D : parent[x] = id => x \in C
                       /\ \A x \in D : parent[x] \in C \cap opened => x \in C
                       => below \subseteq C
<1> DEFINE D == DOMAIN parent
           N == Cardinality(D)
           B == childrenOf(parent, id)
           E == {e \in D \X D : parent[e[2]] = e[1] /\ e[1] \in opened}
           next(A) == A \cup UNION {childrenOf(parent, f) : f \in A \cap opened}
           Found(r) == r = [n \in 0..N |-> IF n = 0 THEN B ELSE next(r[n - 1])]
           found == CHOOSE r : Found(r)
<1>1. under(parent, id, opened) = found[N]
  BY DEF under
<1>2. /\ N \in Nat /\ B \in SUBSET D /\ E \in SUBSET (D \X D)
      /\ \A x : x \in B <=> x \in D /\ parent[x] = id
      /\ \A f, x : <<f, x>> \in E <=> f \in D /\ x \in D /\ parent[x] = f /\ f \in opened
      /\ \A A : \A x : x \in next(A) <=> x \in A \/ (x \in D /\ parent[x] \in A \cap opened)
  BY FS_CardinalityType DEF childrenOf
<1> HIDE DEF B, E, next, N, D
<1>11. ASSUME NEW A \in SUBSET D, NEW x
       PROVE  x \in next(A) <=> x \in A \/ \E f \in A : <<f, x>> \in E
  <2>1. x \in next(A) <=> x \in A \/ (x \in D /\ parent[x] \in A \cap opened)
    BY <1>2
  <2>2. (\E f \in A : <<f, x>> \in E) <=> x \in D /\ parent[x] \in A \cap opened
    BY <1>2
  <2> QED  BY <2>1, <2>2
<1>3. \E r : Found(r)
  <2>1. PICK r \in [0..N -> SUBSET D] : Rounds(N, B, E, r)
    BY <1>2, RoundsExist
  <2>2. ASSUME NEW n \in 0..N
        PROVE  r[n] = IF n = 0 THEN B ELSE next(r[n - 1])
    <3>1. CASE n = 0
      BY <2>1, <3>1 DEF Rounds
    <3>2. CASE n # 0
      <4>1. n \in 1..N /\ n - 1 \in 0..N
        BY <1>2, <3>2
      <4>2. r[n - 1] \in SUBSET D
        BY <2>1, <4>1
      <4>3. \A x : x \in r[n] <=> x \in r[n - 1] \/ \E f \in r[n - 1] : <<f, x>> \in E
        BY <2>1, <4>1 DEF Rounds
      <4>4. \A x : x \in r[n] <=> x \in next(r[n - 1])
        BY <1>11, <4>2, <4>3
      <4>5. r[n] = next(r[n - 1])
        BY <4>4
      <4> QED  BY <3>2, <4>5
    <3> QED  BY <3>1, <3>2
  <2>3. r = [n \in 0..N |-> IF n = 0 THEN B ELSE next(r[n - 1])]
    BY <2>1, <2>2
  <2> QED  BY <2>3
<1>4. Found(found)
  <2> HIDE DEF Found
  <2> QED  BY <1>3
<1> HIDE DEF found
<1>5. 0 \in 0..N /\ \A n \in 1..N : n \in 0..N /\ n # 0 /\ n - 1 \in 0..N
  BY <1>2
<1>6. found[0] = B /\ \A n \in 1..N : found[n] = next(found[n - 1])
  BY <1>4, <1>5
<1>7. \A n \in 0..N : found[n] \in SUBSET D
  <2> DEFINE T == {n \in 0..N : found[n] \in SUBSET D}
  <2>1. 0 \in T
    BY <1>2, <1>5, <1>6
  <2>2. ASSUME NEW n \in 0..N, n \in T, n < N PROVE n + 1 \in T
    <3>1. n + 1 \in 1..N /\ n + 1 \in 0..N /\ (n + 1) - 1 = n
      BY <1>2, <2>2
    <3>2. found[n + 1] = next(found[n])
      BY <1>6, <3>1
    <3> QED  BY <1>2, <2>2, <3>1, <3>2
  <2>3. \A n \in 0..N : n \in T
    <3> HIDE DEF T
    <3> QED  BY <1>2, <2>1, <2>2, PrefixInduction
  <2> QED  BY <2>3
<1>8. Rounds(N, B, E, found)
  <2>1. ASSUME NEW n \in 1..N, NEW x
        PROVE  x \in found[n] <=> x \in found[n - 1] \/ \E f \in found[n - 1] : <<f, x>> \in E
    <3>1. found[n] = next(found[n - 1]) /\ found[n - 1] \in SUBSET D
      BY <1>5, <1>6, <1>7
    <3> QED  BY <1>11, <3>1
  <2> QED  BY <1>6, <2>1 DEF Rounds
<1>9. /\ found[N] \in SUBSET D /\ B \subseteq found[N]
      /\ \A f \in found[N] : \A x : <<f, x>> \in E => x \in found[N]
      /\ \A C : B \subseteq C /\ (\A f \in C : \A x : <<f, x>> \in E => x \in C) => found[N] \subseteq C
  <2>1. IsFiniteSet(D) /\ N = Cardinality(D)
    BY DEF D, N
  <2>2. B \in SUBSET D /\ E \in SUBSET (D \X D)
    BY <1>2
  <2>3. AllReached(D, B, E, found[N])
    BY <1>8, <2>1, <2>2, RoundsReach
  <2> QED  BY <2>3 DEF AllReached
<1>10. /\ found[N] \in SUBSET D
       /\ \A x \in D : parent[x] = id => x \in found[N]
       /\ \A x \in D : parent[x] \in found[N] \cap opened => x \in found[N]
       /\ \A C : /\ \A x \in D : parent[x] = id => x \in C
                 /\ \A x \in D : parent[x] \in C \cap opened => x \in C
                 => found[N] \subseteq C
  <2>1. \A x \in D : parent[x] = id => x \in found[N]
    BY <1>2, <1>9
  <2>2. \A x \in D : parent[x] \in found[N] \cap opened => x \in found[N]
    BY <1>2, <1>9
  <2>3. ASSUME NEW C, \A x \in D : parent[x] = id => x \in C, \A x \in D : parent[x] \in C \cap opened => x \in C
        PROVE  found[N] \subseteq C
    <3>1. B \subseteq C /\ \A f \in C : \A x : <<f, x>> \in E => x \in C
      BY <1>2, <2>3
    <3> QED  BY <1>9, <3>1
  <2> QED  BY <1>9, <2>1, <2>2, <2>3
<1> QED  BY <1>1, <1>10 DEF D

\* Of a whole tree, all that is below a folder.
LEMMA DescendantsAre ==
  ASSUME NEW parent, IsFiniteSet(DOMAIN parent), NEW id
  PROVE  LET D == DOMAIN parent
             below == descendantIds(parent, id)
         IN  /\ below \in SUBSET D
             /\ \A x \in D : parent[x] = id => x \in below
             /\ \A x \in D : parent[x] \in below => x \in below
             /\ \A C : /\ \A x \in D : parent[x] = id => x \in C
                       /\ \A x \in D : parent[x] \in C => x \in C
                       => below \subseteq C
<1> DEFINE D == DOMAIN parent
           below == under(parent, id, D)
<1>1. /\ below \in SUBSET D
      /\ \A x \in D : parent[x] = id => x \in below
      /\ \A x \in D : parent[x] \in below \cap D => x \in below
      /\ \A C : /\ \A x \in D : parent[x] = id => x \in C
                /\ \A x \in D : parent[x] \in C \cap D => x \in C
                => below \subseteq C
  BY UnderIs
<1> HIDE DEF below
<1>2. /\ \A x \in D : parent[x] \in below => x \in below
      /\ \A C : /\ \A x \in D : parent[x] = id => x \in C
                /\ \A x \in D : parent[x] \in C => x \in C
                => below \subseteq C
  BY <1>1
<1> QED  BY <1>1, <1>2 DEF descendantIds, below

\* What is below a folder is directly in it or in another that is below it.
LEMMA DescendantsAbove ==
  ASSUME NEW parent, IsFiniteSet(DOMAIN parent), NEW id, NEW x \in descendantIds(parent, id)
  PROVE  parent[x] = id \/ parent[x] \in descendantIds(parent, id)
<1> DEFINE D == DOMAIN parent
           below == descendantIds(parent, id)
           C == {y \in below : parent[y] = id \/ parent[y] \in below}
<1>1. /\ below \in SUBSET D
      /\ \A y \in D : parent[y] = id => y \in below
      /\ \A y \in D : parent[y] \in below => y \in below
      /\ (/\ \A y \in D : parent[y] = id => y \in C
          /\ \A y \in D : parent[y] \in C => y \in C) => below \subseteq C
  BY DescendantsAre
<1> HIDE DEF below
<1>2. below \subseteq C
  BY <1>1
<1> QED  BY <1>2 DEF below

\* No folder is, by way of any others, in itself.
NoLoop(parent) == \A C \in SUBSET DOMAIN parent : C # {} => \E x \in C : parent[x] \notin C

\* A forest is a tree of folders without a loop.
LEMMA ForestIs ==
  ASSUME NEW parent, IsFiniteSet(DOMAIN parent)
  PROVE  Forest(parent) <=> /\ NoLoop(parent)
                            /\ \A f \in DOMAIN parent : parent[f] \in DOMAIN parent \cup {Top}
<1> DEFINE D == DOMAIN parent
           below(id) == descendantIds(parent, id)
<1>1. \A id : /\ below(id) \in SUBSET D
              /\ \A x \in D : parent[x] = id => x \in below(id)
              /\ \A x \in D : parent[x] \in below(id) => x \in below(id)
              /\ \A C : /\ \A x \in D : parent[x] = id => x \in C
                        /\ \A x \in D : parent[x] \in C => x \in C
                        => below(id) \subseteq C
  BY DescendantsAre
<1>2. \A id : \A x \in below(id) : parent[x] = id \/ parent[x] \in below(id)
  BY DescendantsAbove
<1>3. Forest(parent) <=> /\ \A f \in D : f \notin below(f)
                         /\ \A f \in D : parent[f] \in D \cup {Top}
  BY DEF Forest
<1> HIDE DEF below
<1>4. ASSUME NoLoop(parent), NEW f \in D, f \in below(f) PROVE FALSE
  <2>1. below(f) \in SUBSET D /\ below(f) # {}
    BY <1>1, <1>4
  <2>2. PICK x \in below(f) : parent[x] \notin below(f)
    BY <1>4, <2>1 DEF NoLoop
  <2>3. parent[x] = f
    BY <1>2, <2>2
  <2> QED  BY <1>4, <2>2, <2>3
<1>5. ASSUME \A f \in D : f \notin below(f) PROVE NoLoop(parent)
  <2> DEFINE Loop(C) == C # {} /\ \A x \in C : parent[x] \in C
             T == {C \in SUBSET D : ~Loop(C)}
  <2>1. ASSUME NEW A \in SUBSET D, \A C \in SUBSET A : C # A => C \in T
        PROVE  A \in T
    <3> SUFFICES ASSUME Loop(A) PROVE FALSE
      OBVIOUS
    <3>1. PICK f \in A : TRUE
      OBVIOUS
    <3> DEFINE C == {x \in A : f \in below(x)}
    <3>2. parent[f] \in A /\ f \in below(parent[f])
      BY <1>1, <3>1
    <3>3. ASSUME NEW x \in C PROVE parent[x] \in C
      <4>1. x \in D /\ f \in below(x) /\ parent[x] \in A
        OBVIOUS
      <4>2. x \in below(parent[x])
        BY <1>1, <4>1
      <4>3. \A y \in D : parent[y] = x => y \in below(parent[x])
        BY <1>1, <4>2
      <4>4. below(x) \subseteq below(parent[x])
        BY <1>1, <4>3
      <4> QED  BY <4>1, <4>4
    <3>4. Loop(C) /\ C \in SUBSET A
      BY <3>2, <3>3
    <3>5. C = A
      BY <2>1, <3>4
    <3>6. f \in below(f) /\ f \in D
      BY <3>1, <3>5
    <3> QED  BY <1>5, <3>6
  <2>2. T = SUBSET D
    <3>1. T \in SUBSET (SUBSET D) /\ IsFiniteSet(D)
      OBVIOUS
    <3> HIDE DEF T
    <3> QED  BY <2>1, <3>1, SubsetInduction
  <2> QED  BY <2>2 DEF NoLoop
<1> QED  BY <1>3, <1>4, <1>5

\* The form of a folder offers every parent that keeps the tree a tree, and no other.
THEOREM OptionsAreWhatCanBe ==
  ASSUME NEW parent, IsFiniteSet(DOMAIN parent), Forest(parent), NEW f \in DOMAIN parent
  PROVE  OffersWhatCanBe(parent, f)
<1> DEFINE D == DOMAIN parent
           moved(p) == [parent EXCEPT ![f] = p]
           below == descendantIds(parent, f)
<1>1. NoLoop(parent) /\ \A g \in D : parent[g] \in D \cup {Top}
  BY ForestIs
<1>2. /\ below \in SUBSET D /\ f \notin below
      /\ \A x \in D : parent[x] = f => x \in below
      /\ \A x \in D : parent[x] \in below => x \in below
      /\ \A C : /\ \A x \in D : parent[x] = f => x \in C
                /\ \A x \in D : parent[x] \in C => x \in C
                => below \subseteq C
  BY DescendantsAre DEF Forest
<1>3. ASSUME NEW p
      PROVE  /\ DOMAIN moved(p) = D /\ moved(p)[f] = p
             /\ \A x \in D : x # f => moved(p)[x] = parent[x]
  OBVIOUS
<1> HIDE DEF moved, below
<1>4. \A p : Forest(moved(p)) <=>
               NoLoop(moved(p)) /\ \A g \in D : moved(p)[g] \in D \cup {Top}
  <2> SUFFICES ASSUME NEW p
               PROVE  Forest(moved(p)) <=>
                        NoLoop(moved(p)) /\ \A g \in D : moved(p)[g] \in D \cup {Top}
    OBVIOUS
  <2>1. IsFiniteSet(DOMAIN moved(p)) /\ DOMAIN moved(p) = D
    BY <1>3
  <2> QED  BY <2>1, ForestIs
<1>5. ASSUME NEW p \in D, p \notin below \cup {f} PROVE Forest(moved(p))
  <2>1. \A g \in D : moved(p)[g] \in D \cup {Top}
    BY <1>1, <1>3
  <2>2. ASSUME NEW C \in SUBSET D, C # {}, \A x \in C : moved(p)[x] \in C PROVE FALSE
    <3> DEFINE U == {x \in C : x \notin below \cup {f}}
    <3>1. U # {}
      <4>1. CASE f \in C
        <5>1. p \in C
          BY <1>3, <2>2, <4>1
        <5> QED  BY <1>5, <5>1
      <4>2. CASE f \notin C
        <5>1. \A x \in C : parent[x] \in C
          BY <1>3, <2>2, <4>2
        <5> QED  BY <1>1, <2>2, <5>1 DEF NoLoop
      <4> QED  BY <4>1, <4>2
    <3>2. ASSUME NEW x \in U PROVE parent[x] \in U
      <4>1. x \in C /\ x \in D /\ x # f /\ x \notin below
        OBVIOUS
      <4>2. parent[x] \in C
        BY <1>3, <2>2, <4>1
      <4>3. parent[x] \notin below \cup {f}
        BY <1>2, <4>1
      <4> QED  BY <4>2, <4>3
    <3> QED  BY <1>1, <3>1, <3>2 DEF NoLoop
  <2>3. NoLoop(moved(p))
    BY <1>3, <2>2 DEF NoLoop
  <2> QED  BY <1>4, <2>1, <2>3
<1>6. ASSUME NEW p \in below \cup {f} PROVE ~Forest(moved(p))
  <2> SUFFICES ASSUME NoLoop(moved(p)) PROVE FALSE
    BY <1>4
  <2>1. \A x \in below : parent[x] = f \/ parent[x] \in below
    BY DescendantsAbove DEF below
  <2> DEFINE C == below \cup {f}
  <2>2. \A x \in C : moved(p)[x] \in C
    BY <1>2, <1>3, <2>1
  <2>3. C # {} /\ C \in SUBSET D
    BY <1>2
  <2> QED  BY <1>3, <2>2, <2>3 DEF NoLoop
<1>7. parentOptions(parent, f) = D \ (below \cup {f})
  BY DEF parentOptions, below
<1>8. D \ (below \cup {f}) = {p \in D : Forest(moved(p))}
  BY <1>5, <1>6
<1> QED  BY <1>7, <1>8 DEF OffersWhatCanBe, moved

\* Every folder can be found by expanding what is above it.
THEOREM FoldersAreFound ==
  ASSUME NEW parent, IsFiniteSet(DOMAIN parent), Forest(parent)
  PROVE  FoldersCanBeFound(parent)
<1> DEFINE D == DOMAIN parent
<1>1. NoLoop(parent) /\ \A g \in D : parent[g] \in D \cup {Top}
  BY ForestIs
<1> SUFFICES ASSUME NEW f \in D,
                    f \notin Drawn(parent, {g \in D : f \in descendantIds(parent, g)})
             PROVE  FALSE
  BY DEF FoldersCanBeFound
<1> DEFINE above == {g \in D : f \in descendantIds(parent, g)}
           drawn == Drawn(parent, above)
           U == {x \in above \cup {f} : x \notin drawn}
<1>2. /\ \A x \in D : parent[x] = Top => x \in drawn
      /\ \A x \in D : parent[x] \in drawn \cap above => x \in drawn
  BY UnderIs DEF Drawn
<1>3. ASSUME NEW x \in D, x \in above \cup {f}, parent[x] \in D PROVE parent[x] \in above
  <2> DEFINE p == parent[x]  of(g) == descendantIds(parent, g)
  <2>1. /\ x \in of(p) /\ \A y \in D : parent[y] \in of(p) => y \in of(p)
        /\ \A C : /\ \A y \in D : parent[y] = x => y \in C
                  /\ \A y \in D : parent[y] \in C => y \in C
                  => of(x) \subseteq C
    BY DescendantsAre
  <2> HIDE DEF of
  <2>2. of(x) \subseteq of(p)
    BY <2>1
  <2>3. f \in of(p)
    BY <1>3, <2>1, <2>2 DEF of
  <2> QED  BY <1>3, <2>3 DEF of
<1>4. f \in U /\ U \in SUBSET D
  OBVIOUS
<1> HIDE DEF above, drawn
<1>5. ASSUME NEW x \in U PROVE parent[x] \in U
  <2>1. x \in D /\ x \in above \cup {f} /\ x \notin drawn
    BY <1>4
  <2>2. parent[x] \in D
    BY <1>1, <1>2, <2>1
  <2>3. parent[x] \in above
    BY <1>3, <2>1, <2>2
  <2> QED  BY <1>2, <2>1, <2>3
<1> HIDE DEF U
<1> QED  BY <1>1, <1>4, <1>5 DEF NoLoop

-----------------------------------------------------------------------------
(* The inputs of the instance are such as these theorems ask for.              *)

\* The days of the instance are days.
LEMMA SampleDaysAre == ASSUME NEW s \in [day : SampleDays] PROVE s.day \in Int
<1>1. ASSUME NEW y \in Int, NEW m \in Int, 0 <= m, m <= 11, NEW d \in Int
      PROVE  DateUTC(y, m, d) \in Int
  <2>1. /\ DateUTC(y, m, d) = DaysBefore(y) - DaysBefore(1970) + InYear(y, m) + d - 1
        /\ DaysBefore(y) \in Int /\ DaysBefore(1970) \in Int /\ InYear(y, m) \in Nat
    BY <1>1, DateIs
  <2> QED  BY <2>1
<1>2. \A a, b \in Int : a..b \subseteq Int
  OBVIOUS
<1>3. DateUTC(2019, 11, 20) .. DateUTC(2021, 0, 12) \subseteq Int
  <2>1. DateUTC(2019, 11, 20) \in Int /\ DateUTC(2021, 0, 12) \in Int
    BY <1>1
  <2> QED  BY <1>2, <2>1
<1>4. ASSUME NEW y \in Int PROVE DateUTC(y, 11, 25) .. DateUTC(y + 1, 0, 10) \subseteq Int
  <2>1. DateUTC(y, 11, 25) \in Int /\ DateUTC(y + 1, 0, 10) \in Int
    BY <1>1
  <2> QED  BY <1>2, <2>1
<1>5. ASSUME NEW y \in Int PROVE DateUTC(y, 1, 25) .. DateUTC(y, 2, 3) \subseteq Int
  <2>1. DateUTC(y, 1, 25) \in Int /\ DateUTC(y, 2, 3) \in Int
    BY <1>1
  <2> QED  BY <1>2, <2>1
<1>6. ASSUME NEW a \in SampleDays PROVE a \in Int
  <2>1. CASE a \in DateUTC(2019, 11, 20) .. DateUTC(2021, 0, 12)
    BY <1>3, <2>1
  <2>2. CASE \E y \in Int : a \in DateUTC(y, 11, 25) .. DateUTC(y + 1, 0, 10)
    BY <1>4, <2>2
  <2>3. CASE \E y \in Int : a \in DateUTC(y, 1, 25) .. DateUTC(y, 2, 3)
    BY <1>5, <2>3
  <2>4. (\A y \in 2021..2027 : y \in Int) /\ (\A y \in {1900, 2000, 2024, 2100} : y \in Int)
    OBVIOUS
  <2> QED  BY <2>1, <2>2, <2>3, <2>4 DEF SampleDays
<1>7. SampleDays \subseteq Int
  BY <1>6
<1> QED  BY <1>7

\* The clocks of the instance are of such zones.
LEMMA SampleClocksAre ==
  ASSUME NEW s \in SampleClocks PROVE ZoneLike(s.zone) /\ s.time \in Int
BY DEF SampleClocks, ZoneLike

\* The charts of the instance are of such bars.
LEMMA SampleChartsAre ==
  ASSUME NEW s \in SampleCharts
  PROVE  BarsLike(s.bars) /\ s.scale \in TimeScales /\ s.today \in Int
<1> DEFINE first == DateUTC(2025, 11, 20)
           Few == {{}} \cup {{Bar(first + a, b)} : a \in 0..6, b \in {0, 40}}
                    \cup {{Bar(first + a, 4), Bar(first + c, d)} :
                             a \in {0, 3, 10}, c \in {5, 14, 36}, d \in {0, 100, 700}}
<1>1. s.bars \in Few /\ s.scale \in TimeScales /\ s.today \in {first - 50, first, first + 40}
  BY DEF SampleCharts
<1>2. first \in Int
  <2>1. 2025 \in Int /\ 11 \in Int /\ 20 \in Int /\ 0 <= 11 /\ 11 <= 11
    OBVIOUS
  <2>2. /\ DateUTC(2025, 11, 20) = DaysBefore(2025) - DaysBefore(1970) + InYear(2025, 11) + 20 - 1
        /\ DaysBefore(2025) \in Int /\ DaysBefore(1970) \in Int /\ InYear(2025, 11) \in Nat
    BY <2>1, DateIs
  <2> QED  BY <2>2
<1> HIDE DEF first
<1>3. \A t \in Int, n \in Nat : Bar(t, n).start = t /\ Bar(t, n).end = t + n
  BY DEF Bar
<1> DEFINE OneBar(b) == b.start \in Int /\ b.end \in Int /\ b.start <= b.end
<1>4. ASSUME NEW t \in Int, NEW n \in Nat PROVE OneBar(Bar(t, n))
  <2>1. t + n \in Int /\ t <= t + n
    OBVIOUS
  <2> QED  BY <1>3, <2>1
<1>5. IsFiniteSet({}) /\ \A x : IsFiniteSet({x})
  BY FS_EmptySet, FS_Singleton
<1>6. \A x, y : IsFiniteSet({x, y})
  <2> SUFFICES ASSUME NEW x, NEW y PROVE IsFiniteSet({x, y})
    OBVIOUS
  <2>1. IsFiniteSet({x} \cup {y}) /\ {x, y} = {x} \cup {y}
    BY <1>5, FS_AddElement
  <2> QED  BY <2>1
<1>7. BarsLike(s.bars)
  <2>1. CASE s.bars = {}
    BY <1>5, <2>1 DEF BarsLike
  <2>2. CASE s.bars \in {{Bar(first + a, b)} : a \in 0..6, b \in {0, 40}}
    <3>1. PICK a \in 0..6, b \in {0, 40} : s.bars = {Bar(first + a, b)}
      BY <2>2
    <3>2. first + a \in Int /\ b \in Nat
      BY <1>2
    <3>3. OneBar(Bar(first + a, b))
      BY <1>4, <3>2
    <3> HIDE DEF OneBar
    <3>4. \A i \in s.bars : OneBar(i)
      BY <3>1, <3>3
    <3> QED  BY <1>5, <3>1, <3>4 DEF BarsLike, OneBar
  <2>3. CASE s.bars \in {{Bar(first + a, 4), Bar(first + c, d)} :
                           a \in {0, 3, 10}, c \in {5, 14, 36}, d \in {0, 100, 700}}
    <3>1. PICK a \in {0, 3, 10}, c \in {5, 14, 36}, d \in {0, 100, 700} :
            s.bars = {Bar(first + a, 4), Bar(first + c, d)}
      BY <2>3
    <3>2. first + a \in Int /\ first + c \in Int /\ d \in Nat /\ 4 \in Nat
      BY <1>2
    <3>3. OneBar(Bar(first + a, 4)) /\ OneBar(Bar(first + c, d))
      BY <1>4, <3>2
    <3> HIDE DEF OneBar
    <3>4. \A i \in s.bars : OneBar(i)
      BY <3>1, <3>3
    <3> QED  BY <1>6, <3>1, <3>4 DEF BarsLike, OneBar
  <2> QED  BY <1>1, <2>1, <2>2, <2>3
<1> QED  BY <1>1, <1>2, <1>7

\* The rows of the instance are such rows.
LEMMA SampleRowsAre ==
  ASSUME NEW s \in SampleRows PROVE RowsLike(s.rows)
<1> DEFINE row == [id : {1, 2}, resource : {1, 2}, start : 0..1, end : 1..2]
<1>1. PICK r \in row, q \in row : s.rows = {r, q}
  BY DEF SampleRows
<1>2. IsFiniteSet({r, q})
  <2>1. IsFiniteSet({r} \cup {q}) /\ {r, q} = {r} \cup {q}
    BY FS_Singleton, FS_AddElement
  <2> QED  BY <2>1
<1>3. \A b \in row : b.start \in Int /\ b.end \in Int /\ b.id \in Int
  OBVIOUS
<1>4. \A a, b \in row : a.id = b.id /\ a.resource = b.resource /\ a.start = b.start /\ a.end = b.end => a = b
  OBVIOUS
<1> HIDE DEF row
<1> QED  BY <1>1, <1>2, <1>3, <1>4 DEF RowsLike

\* The trees of the instance are forests.
LEMMA SampleTreesAre ==
  ASSUME NEW s \in [parent : SampleTrees]
  PROVE  IsFiniteSet(DOMAIN s.parent) /\ Forest(s.parent)
<1>1. s.parent \in [1..4 -> 0..4] /\ Forest(s.parent)
  BY DEF SampleTrees
<1>2. IsFiniteSet(1..4)
  BY FS_Interval, 1 \in Int, 4 \in Int
<1> QED  BY <1>1, <1>2

-----------------------------------------------------------------------------
(* The screens side by side.                                                  *)
\* In a part that calculates, the sample is one of its inputs.
SamplesAre ==
  /\ part = "days" => sample \in [day : SampleDays]
  /\ part = "clocks" => sample \in SampleClocks
  /\ part = "charts" => sample \in SampleCharts
  /\ part = "rows" => sample \in SampleRows
  /\ part = "problems" => sample \in SampleProblems
  /\ part = "trees" => sample \in [parent : SampleTrees]

ScreensInv ==
  /\ CacheInv /\ PagesTypeOK /\ EditorsInv /\ ListsInv
  /\ part = "gantt" => ChartsInv
  /\ SamplesAre

\* Each part starts, or stands still, within its invariant.
LEMMA ScreensStart == ScreensInit => ScreensInv
<1> SUFFICES ASSUME ScreensInit PROVE ScreensInv
  OBVIOUS
<1>1. CacheInv
  <2>1. CASE CacheInit
    BY <2>1, InitInv
  <2>2. CASE StillCache
    <3>1. CacheTypeOK
      BY <2>2, StillViewAssumption DEF StillCache, CacheTypeOK, NoFetch, NoChange, Causes
    <3>2. entry.missed = {} /\ fetch.missed = {} /\ entry.invalid = FALSE
      BY <2>2 DEF StillCache, NoFetch
    <3> QED  BY <3>1, <3>2 DEF CacheInv, OwnWriteIsFlagged, RunningRequestIsAccountedFor,
                ShownFlagIsServed, MissedOnlyIfFull
  <2> QED  BY <2>1, <2>2 DEF ScreensInit, Calculations
<1>2. PagesTypeOK /\ EditorsInv /\ ListsInv
  BY PagesStart, EditorsStart, ListsStart DEF ScreensInit, Calculations
<1>3. part = "gantt" => ChartsInv
  BY ChartsStart DEF ScreensInit, Calculations
<1>4. SamplesAre
  BY DEF ScreensInit, Calculations, SamplesAre
<1> QED  BY <1>1, <1>2, <1>3, <1>4 DEF ScreensInv

\* A step is one of a part, and leaves the variables of the others alone.
LEMMA StepsOfParts ==
  ASSUME [ScreensNext]_screenVars
  PROVE  /\ [CacheNext]_cacheVars /\ [PagesNext]_pageVars /\ [EditorsNext]_editorVars
         /\ [ListsNext]_listVars /\ [ChartsNext]_chartVars /\ part' = part /\ sample' = sample
BY DEF ScreensNext, screenVars, still, cacheVars, pageVars, editorVars, listVars, chartVars

\* Every step keeps the invariants of all parts.
LEMMA ScreensStep == ScreensInv /\ [ScreensNext]_screenVars => ScreensInv'
BY StepsOfParts, NextInv, PagesStep, EditorsStep, ListsStep, ChartsStep DEF ScreensInv, SamplesAre

\* The inductive invariants of all parts.
THEOREM ScreensKeepInv == ScreensSpec => []ScreensInv
BY ScreensStart, ScreensStep, PTL DEF ScreensSpec

(* The variables of every part keep their types.                              *)
THEOREM ScreensTyped == ScreensSpec => []ScreensTypeOK
<1>1. ScreensInv => ScreensTypeOK
  BY EditorsTypes DEF ScreensInv, CacheInv, ListsInv, ChartsInv, ScreensTypeOK
<1> QED  BY <1>1, ScreensKeepInv, PTL

(* Panels, dialogs, drawers and questions: what a save sends is what was on   *)
(* the form when it was pressed, one form makes one record, a record ends as  *)
(* its last save says, and an answer leaves a later form alone, each in the   *)
(* editors whose code sees to it.                                             *)
THEOREM EditorsKeepTheirWord == ScreensSpec => EditorsKeepTheirRecord
<1>1. ScreensInv => SendsWhatWasPressed /\ CreatesOnce
  BY SendingPromise, CreatingPromise DEF ScreensInv
<1>2. ScreensInv /\ [ScreensNext]_screenVars =>
        [(editor \in KeepTheOrder) => \A r \in Records : rows[r] <= rows'[r]]_editorVars
  BY StepsOfParts, OrderStep DEF ScreensInv
<1>3. ScreensInv /\ [ScreensNext]_screenVars =>
        [(editor \in EndTheirOwnForm) =>
           \A n \in Pressed : SaveLands(n) /\ saves[n].turn # open.turn => open' = open]_editorVars
  BY EndingStep DEF ScreensInv
<1> QED
  BY <1>1, <1>2, <1>3, ScreensKeepInv, PTL
  DEF ScreensSpec, EditorsKeepTheirRecord, RowsFollowThePresses, AnswersEndTheirOwnForm

(* The lists and the charts: ticks are on the screen, a row is missing only   *)
(* for something the screen names, a deleted folder is not open for who       *)
(* deleted it, and what a chart says of nothing rests on an answer.           *)
LEMMA ListsAndChartsHideNothing ==
  ScreensInv => ListsHideNothing /\ (part = "gantt" => ChartsRestOnAnswers)
BY ListsPromise, ChartsPromise DEF ScreensInv

\* The problems of the instance are such as CardsShow and LinksLead ask for.
LEMMA SampleProblemsAreProblems ==
  ASSUME NEW s \in SampleProblems
  PROVE  ConflictsTyped(s.conflicts) /\ ConflictsAreOfTheirBookings(s.conflicts)
<1> DEFINE b == SampleBookings
           Seen == {b.one, b.two, b.gone, b.other}
<1>1. /\ b.one = [id |-> 1, resource |-> "r1", package |-> "w1", project |-> "p1"]
      /\ b.two = [id |-> 2, resource |-> "r1", package |-> "w2", project |-> "p2"]
      /\ b.other = [id |-> 3, resource |-> "r2", package |-> "w1", project |-> "p1"]
      /\ b.gone = [id |-> 4, resource |-> "r1", package |-> None, project |-> None]
  BY DEF SampleBookings
<1> HIDE DEF b
<1> DEFINE of(r, sets) == [id : 1..2, resource : {r}, bookings : sets, first : {1}, last : {1, 3},
                           severity : {0, 2}, ratio : {0, 4}]
           conflict == of("r1", {{b.one}, {b.one, b.two}, {b.two, b.gone}}) \cup of("r2", {{b.other}})
<1>2. s.conflicts \in {{}} \cup {{c, d} : c \in {c \in conflict : c.id = 1},
                                          d \in {d \in conflict : d.id = 2}}
  BY DEF SampleProblems, b
<1>3. ASSUME NEW c \in conflict
      PROVE  /\ ConflictTyped(c)
             /\ \A x \in c.bookings : x \in Seen /\ x.resource = c.resource
  <2>1. CASE c \in of("r1", {{b.one}, {b.one, b.two}, {b.two, b.gone}})
    <3>1. c.resource = "r1" /\ c.bookings \in {{b.one}, {b.one, b.two}, {b.two, b.gone}}
          /\ c.first = 1 /\ c.last \in {1, 3} /\ c.severity \in {0, 2} /\ c.ratio \in {0, 4}
      BY <2>1
    <3> QED  BY <1>1, <3>1 DEF ConflictTyped
  <2>2. CASE c \in of("r2", {{b.other}})
    <3>1. c.resource = "r2" /\ c.bookings = {b.other}
          /\ c.first = 1 /\ c.last \in {1, 3} /\ c.severity \in {0, 2} /\ c.ratio \in {0, 4}
      BY <2>2
    <3> QED  BY <1>1, <3>1 DEF ConflictTyped
  <2> QED  BY <2>1, <2>2
<1> HIDE DEF conflict
<1>4. s.conflicts \subseteq conflict /\ IsFiniteSet(s.conflicts)
  <2>1. CASE s.conflicts = {}
    BY <2>1, FS_EmptySet
  <2>2. CASE s.conflicts # {}
    <3>1. PICK c \in conflict, d \in conflict : s.conflicts = {c, d}
      BY <1>2, <2>2
    <3>2. IsFiniteSet({c}) /\ IsFiniteSet({c} \cup {d})
      BY FS_Singleton, FS_AddElement
    <3>3. {c, d} = {c} \cup {d}
      OBVIOUS
    <3> QED  BY <3>1, <3>2, <3>3
  <2> QED  BY <2>1, <2>2
<1>5. \A x \in Seen : x.resource # None /\ (x.project = None => x.package = None)
  BY <1>1 DEF None
<1>6. \A x, y \in Seen : x.id = y.id => x = y
  BY <1>1
<1> HIDE DEF Seen
<1> QED  BY <1>3, <1>4, <1>5, <1>6 DEF ConflictsTyped, ConflictsAreOfTheirBookings

(* No screen hides what it has read: the lists, the charts, and the cards of  *)
(* the planning page with the links that lead there.                          *)
THEOREM NothingIsHidden == ScreensSpec => []ScreensHideNothing
<1>1. ScreensInv => ScreensHideNothing
  <2> SUFFICES ASSUME ScreensInv PROVE ScreensHideNothing
    OBVIOUS
  <2>1. ASSUME part = "problems"
        PROVE  /\ LinksLeadToTheirProblems(sample.conflicts, sample.mismatches)
               /\ \A focus \in SampleFocus :
                    CardsShowEveryProblem(sample.conflicts, sample.mismatches, focus)
    <3>1. sample \in SampleProblems
      BY <2>1 DEF ScreensInv, SamplesAre
    <3>2. ConflictsTyped(sample.conflicts) /\ ConflictsAreOfTheirBookings(sample.conflicts)
      BY <3>1, SampleProblemsAreProblems
    <3>3. LinksLeadToTheirProblems(sample.conflicts, sample.mismatches)
      BY <3>2, LinksLead
    <3>4. \A focus : CardsShowEveryProblem(sample.conflicts, sample.mismatches, focus)
      BY <3>2, CardsShow
    <3> QED  BY <3>3, <3>4
  <2> QED  BY <2>1, ListsAndChartsHideNothing DEF ScreensHideNothing
<1> QED  BY <1>1, ScreensKeepInv, PTL

\* Whatever the instance calculates, days are kept.
LEMMA SamplesKeepTheDay == SamplesAre => ChartsKeepTheDay
<1> SUFFICES ASSUME SamplesAre PROVE ChartsKeepTheDay
  OBVIOUS
<1>1. part = "days" => /\ AnchorsAreDays(sample.day)
                       /\ WeeksAreOfTheirThursday(sample.day)
                       /\ MonthsFollow(sample.day)
  BY SampleDaysAre, AnchorsCount, WeeksBelong, MonthsGoOn DEF SamplesAre
<1>2. part = "clocks" => ClockTimesAreKept(sample.zone, sample.time)
  BY SampleClocksAre, ClocksKeepTheirTime DEF SamplesAre
<1>3. part = "charts" => /\ ColumnsCoverTheBars(sample.bars, sample.scale, sample.today)
                         /\ BarsCoverTheirDays(sample.bars, sample.scale, sample.today)
  BY SampleChartsAre, ColumnsCover, BarsCover DEF SamplesAre
<1>4. part = "rows" => GroupingKeepsTheBars(sample.rows)
  BY SampleRowsAre, GroupingKeeps DEF SamplesAre
<1>5. part = "trees" => \A f \in DOMAIN sample.parent : OffersWhatCanBe(sample.parent, f)
                          /\ FoldersCanBeFound(sample.parent)
  <2>1. part = "trees" => IsFiniteSet(DOMAIN sample.parent) /\ Forest(sample.parent)
    BY SampleTreesAre DEF SamplesAre
  <2> QED  BY <2>1, OptionsAreWhatCanBe, FoldersAreFound
<1> QED  BY <1>1, <1>2, <1>3, <1>4, <1>5 DEF ChartsKeepTheDay

(* A day stays that day through anchors, ISO weeks, months and forms, an      *)
(* entered time becomes the moment it names or is asked about, a chart covers *)
(* all its bars and each bar all of its days, rows read as time, and the tree *)
(* of folders stays one.                                                      *)
THEOREM DaysAreKept == ScreensSpec => []ChartsKeepTheDay
<1>1. ScreensInv => ChartsKeepTheDay
  BY SamplesKeepTheDay DEF ScreensInv
<1> QED  BY <1>1, ScreensKeepInv, PTL

(* Every entry of the cache, beside whatever else goes on, is an              *)
(* implementation of ReadYourWrites.                                          *)
THEOREM ScreensKeepThePromise == ScreensSpec => KeepsThePromise
<1>1. ScreensInit => Promise!Init
  <2>1. CacheInit => entry.missed = {} /\ entry.shown = FALSE
    BY DEF CacheInit
  <2>2. StillCache => entry.missed = {} /\ entry.shown = FALSE
    BY DEF StillCache
  <2>3. CacheInit \/ StillCache => fetch = NoFetch /\ change = NoChange
    BY DEF CacheInit, StillCache
  <2>4. NoFetch.missed = {} /\ NoChange.at = "none"
    BY DEF NoFetch, NoChange
  <2> QED  BY <2>1, <2>2, <2>3, <2>4 DEF ScreensInit, Calculations, Promise!Init, Stage, OwnWrites, Pending
<1>2. ScreensInv /\ [ScreensNext]_screenVars => [Promise!Next]_(Promise!vars)
  BY StepsOfParts, StepImplementsPromise DEF ScreensInv, PromiseVars, Promise!vars
<1> QED  BY <1>1, <1>2, ScreensKeepInv, PTL DEF ScreensSpec, KeepsThePromise, Promise!Spec
=============================================================================
