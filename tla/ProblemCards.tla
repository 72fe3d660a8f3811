---------------------------- MODULE ProblemCards ----------------------------
(* The problems of the planning page: overloads and missing qualifications,   *)
(* bucketed by resource into cards, and the links of charts and panels that   *)
(* open the page on some of them.  A conflict is a record [id, resource,      *)
(* bookings, first, last, severity, ratio], severity 0 being the worst and    *)
(* ratio 0 standing for one that cannot be said; a booking is [id, resource,  *)
(* package, project], the latter two None once it is gone.  Orders and names  *)
(* are left out.                                                              *)
EXTENDS Integers, FiniteSets, FiniteSetsExt

None == "none"
FocusFields == {"project", "package", "resource"}
NoFocus == [f \in FocusFields |-> None]

\* A link carries the fields that are set, and the page reads those it finds.
planningConflictUrl(focus) == [f \in {f \in FocusFields : focus[f] # None} |-> focus[f]]
parseConflictFocus(params) ==
  [f \in FocusFields |-> IF f \in DOMAIN params THEN params[f] ELSE None]

MatchesAssignment(b, focus) ==
  focus.project \in {None, b.project} /\ focus.package \in {None, b.package}

matchesFocusedConflict(c, focus) ==
  /\ focus.resource \in {None, c.resource}
  /\ focus.project # None \/ focus.package # None =>
       \E b \in c.bookings : MatchesAssignment(b, focus)

matchesFocusedMismatch(b, focus) ==
  focus.resource \in {None, b.resource} /\ MatchesAssignment(b, focus)

visibleConflicts(conflicts, focus) == {c \in conflicts : matchesFocusedConflict(c, focus)}
visibleMismatches(bookings, focus) == {b \in bookings : matchesFocusedMismatch(b, focus)}
-----------------------------------------------------------------------------
spanDays(c) == IF c.last >= c.first THEN c.last - c.first + 1 ELSE 1

(* Folded in the order of the answer: what comes first sets the bucket up.    *)
Bucketed(bucket, c) ==
  [bucket EXCEPT !.conflicts = @ \cup {c},
                 !.worstSeverity = IF c.severity < @ THEN c.severity ELSE @,
                 !.worstRatio = IF c.ratio # 0 /\ (@ = 0 \/ c.ratio > @) THEN c.ratio ELSE @,
                 !.totalDays = @ + spanDays(c)]

FirstOf(c) ==
  [conflicts |-> {}, worstSeverity |-> c.severity, worstRatio |-> c.ratio, totalDays |-> 0]

BucketOf(conflicts) ==
  LET first == CHOOSE c \in conflicts : TRUE
  IN  FoldSet(LAMBDA c, bucket : Bucketed(bucket, c), FirstOf(first), conflicts)

buildResourceBuckets(conflicts) ==
  [r \in {c.resource : c \in conflicts} |-> BucketOf({c \in conflicts : c.resource = r})]

problemBuckets(conflicts, mismatches) ==
  LET buckets == buildResourceBuckets(conflicts)
  IN  {[type |-> "capacity", resource |-> r, conflicts |-> buckets[r].conflicts,
        bookings |-> UNION {c.bookings : c \in buckets[r].conflicts}] : r \in DOMAIN buckets}
      \cup
      {[type |-> "skill", resource |-> r, conflicts |-> {},
        bookings |-> {b \in mismatches : b.resource = r}] : r \in {b.resource : b \in mismatches}}

\* The bookings of a card under their projects, those that are gone under none.
Grouped(card) ==
  [p \in {b.project : b \in card.bookings} |-> {b \in card.bookings : b.project = p}]

\* A row that is left of a booking that is gone.
WasRemoved(b) == b.package = None

\* The suggestions of an open card are for all of its bookings.
SuggestionsFor(card) == {b.id : b \in card.bookings}

\* In focus is a package: its rows are marked.
Highlighted(card, focus) == {b \in card.bookings : b.package # None /\ b.package = focus.package}

(* The panel of one package names every conflict and offers suggestions under *)
(* the first one of each resource, for those of its bookings that are in any. *)
readinessSuggestions(conflicts, bookings) ==
  [r \in {c.resource : c \in conflicts} |->
     {b.id : b \in {b \in bookings : /\ b.resource = r
                                    /\ \E c \in conflicts : c.resource = r /\ b \in c.bookings}}]

\* The summary of a card: its days and its period.
TotalDays(card) == MapThenSumSet(spanDays, card.conflicts)
EarliestStart(card) == Min({c.first : c \in card.conflicts})
LatestEnd(card) == Max({c.last : c \in card.conflicts})
WorstRatio(card) ==
  LET ratios == {c.ratio : c \in card.conflicts} \ {0} IN IF ratios = {} THEN 0 ELSE Max(ratios)
-----------------------------------------------------------------------------
\* The server: a project is affected by the conflicts of the bookings it has.
open_conflict_count(conflicts, p) ==
  Cardinality({c \in conflicts : \E b \in c.bookings : b.project = p})

(* Nothing read is lost between the answer and the cards, whatever is in      *)
(* focus: every problem in focus is on one card of its resource, with all its *)
(* bookings and within its period, every booking of a card is in one group,   *)
(* a card says the worst of its conflicts and the sum of their days, and if a *)
(* package is in focus its rows are marked.                                   *)
CardsShowEveryProblem(conflicts, mismatches, focus) ==
  LET cs == visibleConflicts(conflicts, focus)
      ms == visibleMismatches(mismatches, focus)
      cards == problemBuckets(cs, ms)
      buckets == buildResourceBuckets(cs)
  IN  /\ \A c \in cs : Cardinality({k \in cards : c \in k.conflicts}) = 1
      /\ \A b \in ms : Cardinality({k \in cards : k.type = "skill" /\ b \in k.bookings}) = 1
      /\ \A k \in cards :
           /\ \A b \in k.bookings : b \in Grouped(k)[b.project] /\ b.id \in SuggestionsFor(k)
           /\ \A c \in k.conflicts :
                /\ c.resource = k.resource /\ c.bookings \subseteq k.bookings
                /\ EarliestStart(k) <= c.first /\ c.last <= LatestEnd(k)
           /\ focus.package # None => Highlighted(k, focus) # {}
           /\ k.type = "capacity" =>
                LET bucket == buckets[k.resource]
                IN  /\ bucket.worstSeverity = Min({c.severity : c \in k.conflicts})
                    /\ bucket.worstRatio = WorstRatio(k) /\ bucket.totalDays = TotalDays(k)

(* A link opens the page on what it was drawn for: the badge of a project on  *)
(* as many conflicts as it counts, a red bar on the conflicts of its package, *)
(* with the resource's alone from the chart of a group; without a link the    *)
(* page shows all.  And every booking of a conflict gets its suggestions once *)
(* in the panel of its package.                                               *)
LinksLeadToTheirProblems(conflicts, mismatches) ==
  LET shown(focus) == visibleConflicts(conflicts, parseConflictFocus(planningConflictUrl(focus)))
      with(field, x) == [NoFocus EXCEPT ![field] = x]
      bookings == UNION {c.bookings : c \in conflicts}
  IN  /\ shown(NoFocus) = conflicts /\ visibleMismatches(mismatches, NoFocus) = mismatches
      /\ \A b \in {b \in bookings : ~WasRemoved(b)} :
           /\ Cardinality(shown(with("project", b.project)))
                = open_conflict_count(conflicts, b.project)
           /\ \A c \in conflicts : b \in c.bookings =>
                /\ c \in shown(with("package", b.package))
                /\ c \in shown([with("package", b.package) EXCEPT !.resource = b.resource])
                /\ LET own == {x \in bookings : x.package = b.package}
                       offered == readinessSuggestions({x \in conflicts : x.bookings \cap own # {}}, own)
                   IN  Cardinality({r \in DOMAIN offered : b.id \in offered[r]}) = 1
=============================================================================
