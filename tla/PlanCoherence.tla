--------------------------- MODULE PlanCoherence ---------------------------
(* The cache over the program's own views and writes, and what the comments of*)
(* api/queryClient.ts say of all of them at once.  None of these holds of the *)
(* invalidation lists of the screens, and no run checks them.                 *)
EXTENDS PlanCache, PlanWrites

(* The writes that change the plan, by the screens' own comments: bookings,   *)
(* packages and their dependencies, projects.                                 *)
PlanChanges ==
  {resolveConflict, deleteConflicting, applySuggestion, deleteAssignment, saveAssignment,
   assignResource, addDependency, changeLag, removeDependency, deletePackage, completePackage,
   savePackage, saveProject, deleteProject}

(* Each of the writes that changes a view below the prefix invalidates it. *)
Reach(writes, prefix) ==
  \A m \in writes, v \in Views :
    Invalidates(prefix, v.key) /\ Touches(m, v) => Clears(m, v)

(* queryClient.ts:205: "every plan-changing mutation already invalidates      *)
(* resources.all, so the sheet is refreshed by writes made on screens that    *)
(* have never heard of it".  Those of packages do not.                        *)
PlanChangesReachTeamWeeks == Reach(PlanChanges, ResourceKeys.teamWeeks)

(* queryClient.ts:266: the comparison of a baseline is "invalidated by plan   *)
(* mutations".  Only those of projects invalidate it.                         *)
PlanChangesReachDiffs == Reach(PlanChanges, BaselineKeys.diffs)

(* queryClient.ts:280: digest and dashboard "are downstream of the whole plan,*)
(* so both are invalidated by the same writes".  Most leave the dashboard out.*)
DashboardGoesWithDigest ==
  \A m \in PlanChanges : DigestKeys.all \in m.clears => DashboardKeys.all \in m.clears
=============================================================================
