----------------------------- MODULE PlanWrites -----------------------------
(* Every write of the browser (its mutations): the tables of the backend that *)
(* the routes it calls change, and the prefixes its success invalidates in    *)
(* the query cache.  A write whose screen invalidates in onSettled as well    *)
(* does so whatever the answer was; every other write invalidates on success  *)
(* only.  Every write leaves an entry in the audit log.                       *)
EXTENDS PlanViews

Write(writes, clears) == [writes |-> writes \cup {"auditLog"}, clears |-> clears, settles |-> FALSE]
Settling(w) == [w EXCEPT !.settles = TRUE]

(* The invalidation helpers, one per screen. *)
invalidateUsers == {AdminKeys.all}
invalidateBaselines == {BaselineKeys.all}
invalidateResolution ==
  {AssignmentKeys.all, ConflictKeys.all, PlanningKeys.all, DigestKeys.all, ResourceKeys.all, GanttKeys.all}
invalidateApplied ==
  {AssignmentKeys.all, ConflictKeys.all, DigestKeys.all, GanttKeys.all, PlanningKeys.all, ResourceKeys.all}
invalidateAssignments ==
  {AssignmentKeys.all, ConflictKeys.all, PlanningKeys.all, DigestKeys.all, GanttKeys.all, ResourceKeys.all}
invalidateAssigned ==
  {AssignmentKeys.all, ConflictKeys.all, DigestKeys.all, GanttKeys.all, ResourceKeys.all}
reloadOverview == {PlanningKeys.all}
invalidateDependencies ==
  {ProjectKeys.all, AssignmentKeys.all, ConflictKeys.all, PlanningKeys.all, DigestKeys.all, GanttKeys.all}
invalidateFolders == {ProjectKeys.all}
invalidateProjects(deleted) ==
  {ProjectKeys.all, DashboardKeys.all, DigestKeys.all, GanttKeys.all, BaselineKeys.diffs,
   AssignmentKeys.all, PlanningKeys.all, MyPlanKeys.all, ConflictKeys.all,
   IF deleted THEN ResourceKeys.all ELSE ResourceKeys.teamWeeks}
invalidateTemplates == {TemplateKeys.all}
invalidateRequirements == {ProjectKeys.all, ConflictKeys.all, DigestKeys.all}
invalidateWorkPackages ==
  {ProjectKeys.all, AssignmentKeys.all, ConflictKeys.all, PlanningKeys.all, DigestKeys.all, GanttKeys.all}
invalidateCustomers == {CustomerKeys.all, ProjectKeys.all}
invalidateAbsences == {CapacityKeys.all, ResourceKeys.all, ConflictKeys.all, DigestKeys.all}
invalidateWindows == {CapacityKeys.all, ResourceKeys.all, ConflictKeys.all, DigestKeys.all}
invalidateBindings == {CapacityKeys.all, ResourceKeys.all, ConflictKeys.all, DigestKeys.all}
invalidateHolidays == {CapacityKeys.all, ResourceKeys.all, ConflictKeys.all, DigestKeys.all}
invalidateWeekProfiles == {CapacityKeys.all, ResourceKeys.all, ConflictKeys.all, DigestKeys.all}
invalidateQualifications == {ResourceKeys.all, ConflictKeys.all, DigestKeys.all}
invalidateGroups == {ResourceKeys.all}
invalidateResources ==
  {ResourceKeys.all, AssignmentKeys.all, ConflictKeys.all, DigestKeys.all, GanttKeys.all}
invalidateSkills ==
  {SkillKeys.all, ResourceKeys.all, ProjectKeys.all, ConflictKeys.all, DigestKeys.all}
invalidateSettings == {SettingsKeys.all}
invalidateSites == {SiteKeys.all, ResourceKeys.all}
\* A CSV bundle that was imported replaces everything, and so the last prefix is empty.
invalidateImported ==
  {ConflictKeys.all, PlanningKeys.all, GanttKeys.all, DashboardKeys.all, <<>>}

(* admin, baselines, conflicts *)
saveUser == Write({"users"}, invalidateUsers)
deactivateUser == Write({"users"}, invalidateUsers)
deleteUser == Write({"users"}, invalidateUsers)
createBaseline == Write({"baselines"}, invalidateBaselines)
deleteBaseline == Write({"baselines"}, invalidateBaselines)
resolveConflict == Write({"assignments", "conflicts"}, invalidateResolution)
deleteConflicting == Write({"assignments", "conflicts"}, invalidateResolution)
applySuggestion == Write({"assignments", "conflicts"}, invalidateApplied)

(* planning *)
deleteAssignment == Write({"assignments", "conflicts"}, invalidateAssignments)
saveAssignment == Write({"assignments", "conflicts"}, invalidateAssignments)
\* The alert's parent reloads the planning figures (onAssigned).
assignResource == Write({"assignments", "conflicts"}, invalidateAssigned \cup reloadOverview)

(* projects *)
addDependency == Write({"dependencies"}, invalidateDependencies)
changeLag == Write({"dependencies"}, invalidateDependencies)
removeDependency == Write({"dependencies"}, invalidateDependencies)
createFolder == Write({"folders"}, invalidateFolders)
updateFolder == Write({"folders"}, invalidateFolders)
deleteFolder == Write({"folders"}, invalidateFolders)
deleteProject ==
  Write({"projects", "packages", "assignments", "requirements", "dependencies", "conflicts"},
        invalidateProjects(TRUE))
saveProject == Write({"projects"}, invalidateProjects(FALSE))
saveTemplate == Write({"templates"}, invalidateTemplates)
deleteTemplate == Write({"templates"}, invalidateTemplates)
addTemplateRequirement == Write({"templates"}, invalidateTemplates)
removeTemplateRequirement == Write({"templates"}, invalidateTemplates)
addRequirement == Write({"requirements"}, invalidateRequirements)
removeRequirement == Write({"requirements"}, invalidateRequirements)
deletePackage ==
  Write({"packages", "assignments", "requirements", "dependencies", "conflicts"}, invalidateWorkPackages)
completePackage == Write({"packages"}, invalidateWorkPackages)
savePackage == Write({"packages", "requirements"}, invalidateWorkPackages)
saveCustomer == Write({"customers"}, invalidateCustomers)
removeCustomer == Write({"customers", "folders"}, invalidateCustomers)
retireCustomer == Write({"customers"}, invalidateCustomers)

(* resources, settings, working time *)
createAbsence == Write({"absences", "conflicts"}, invalidateAbsences)
deleteAbsence == Write({"absences", "conflicts"}, invalidateAbsences)
addWindow == Write({"windows", "conflicts"}, invalidateWindows)
deleteWindow == Write({"windows", "conflicts"}, invalidateWindows)
addBinding == Write({"bindings", "conflicts"}, invalidateBindings)
deleteBinding == Write({"bindings", "conflicts"}, invalidateBindings)
boundQualification == Settling(Write({"qualifications"}, invalidateQualifications))
toggleQualification == Settling(Write({"qualifications"}, invalidateQualifications))
addGroup == Write({"groups"}, invalidateGroups)
renameGroup == Write({"groups"}, invalidateGroups)
deleteGroup == Write({"groups"}, invalidateGroups)
saveResource == Write({"resources", "conflicts"}, invalidateResources)
deactivateResource == Write({"resources"}, invalidateResources)
addSkill == Write({"catalogue"}, invalidateSkills)
renameSkill == Write({"catalogue"}, invalidateSkills)
deleteSkill == Write({"catalogue", "qualifications"}, invalidateSkills)
addAttribute == Write({"catalogue"}, invalidateSkills)
renameAttribute == Write({"catalogue"}, invalidateSkills)
deleteAttribute == Write({"catalogue", "qualifications"}, invalidateSkills)
uploadLogo == Write({"settings"}, invalidateSettings)
deleteLogo == Write({"settings"}, invalidateSettings)
saveSettings == Write({"settings"}, invalidateSettings)
saveHoliday == Write({"holidays", "conflicts"}, invalidateHolidays)
deleteHoliday == Write({"holidays", "conflicts"}, invalidateHolidays)
saveSite == Write({"sites", "conflicts"}, invalidateSites)
deactivateSite == Write({"sites", "conflicts"}, invalidateSites)
saveWeekProfile == Write({"weekProfiles", "conflicts"}, invalidateWeekProfiles)
deleteWeekProfile == Write({"weekProfiles", "conflicts"}, invalidateWeekProfiles)
importBundle ==
  Write({"resources", "groups", "sites", "catalogue", "qualifications", "requirements", "templates",
         "customers", "folders", "dependencies", "conflicts"} \cup PlanDates \cup WorkingTime,
        invalidateImported)
=============================================================================
