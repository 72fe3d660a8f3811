----------------------------- MODULE PlanViews -----------------------------
(* Every query of the browser: the key its answer is cached under, the tables *)
(* of the backend the answer is computed from, and what the screen asks of    *)
(* the cache beyond its defaults:                                             *)
(*   aborts  the request is given up when no screen shows it any more (the    *)
(*           query function hands the library's signal to the request)        *)
(*   polls   it is asked again every minute while it is shown                 *)
(*   always  showing the screen asks again even when the answer is recent     *)
EXTENDS PlanKeys

View(key, reads) ==
  [key |-> key, reads |-> reads, aborts |-> FALSE, polls |-> FALSE, always |-> FALSE]
Aborting(v) == [v EXCEPT !.aborts = TRUE]
Polling(v) == [v EXCEPT !.polls = TRUE]
Remounting(v) == [v EXCEPT !.always = TRUE]

\* What the answers are computed from, as the backend's routes compute them.
PlanDates == {"projects", "packages", "assignments"}
WorkingTime == {"weekProfiles", "holidays", "absences", "windows", "bindings", "sites"}
Fitness == {"requirements", "catalogue", "qualifications"}

(* components, context, admin, audit, auth, baselines *)
AutocompleteSearch == View(AutocompleteKeys.search, {"resources", "groups"})
GuardSetupStatus == View(AuthKeys.setupStatus, {"users"})
RequirementSkills == View(SkillKeys.withAttributes, {"catalogue"})
Branding == View(SettingsKeys.tenant, {"settings"})
ScopeGroups == View(ResourceKeys.groups, {"groups"})
ScopeProjects == View(ProjectKeys.list, {"projects", "folders", "customers"})
LinkedPeople == View(ResourceKeys.personalTree, {"resources", "groups"})
UsersPage == View(AdminKeys.users, {"users"})
AuditEntries == Aborting(View(AuditKeys.entries, {"auditLog"}))
AuditSettings == View(SettingsKeys.tenant, {"settings"})
OIDCStatus == View(AuthKeys.oidcStatus, {"deployment"})
SetupStatus == View(AuthKeys.setupStatus, {"users"})
BaselineList == Aborting(View(BaselineKeys.list, {"baselines"}))
BaselineDiff == View(BaselineKeys.diff, {"baselines"} \cup PlanDates)

(* conflicts, dashboard, gantt *)
CheckStatus == Polling(Aborting(View(ConflictKeys.checkStatus, {"jobRuns"})))
Suggestions ==
  Remounting(View(ConflictKeys.suggestions,
                  {"conflicts", "resources"} \cup PlanDates \cup WorkingTime \cup Fitness))
Dashboard == View(DashboardKeys.summary, {"resources", "absences", "conflicts"} \cup PlanDates)
DashboardProjects ==
  View(DashboardKeys.projectOverview, {"dependencies", "conflicts"} \cup PlanDates \cup WorkingTime)
Digest == View(DigestKeys.today,
               {"settings", "dependencies", "resources", "weekProfiles"} \cup PlanDates \cup Fitness)
ReportGroups == View(ResourceKeys.groups, {"groups"})
GanttProjectNames == View(ProjectKeys.list, {"projects", "folders", "customers"})
GanttProjectOverview == Polling(DashboardProjects)
GanttGroups == View(ResourceKeys.groups, {"groups"})
ResourceGantt == Polling(View(GanttKeys.department, {"resources", "groups", "conflicts"} \cup PlanDates))
ProjectGantt == Polling(View(GanttKeys.projects, {"resources", "conflicts"} \cup PlanDates))

(* my plan, planning *)
MyPlan == View(MyPlanKeys.current, {"absences", "qualifications"} \cup PlanDates)
FormProjects == View(ProjectKeys.list, {"projects", "folders", "customers"})
FormPackages == View(ProjectKeys.workPackages, {"packages"})
AssignmentList == Aborting(View(AssignmentKeys.list, {"resources"} \cup PlanDates \cup Fitness))
PlanningOverview ==
  Polling(Aborting(View(PlanningKeys.overview, {"resources", "conflicts"} \cup PlanDates \cup Fitness)))
ResourceSearch ==
  View(ConflictKeys.resourceSearch,
       {"resources", "groups", "assignments", "catalogue", "qualifications"} \cup WorkingTime)
Readiness ==
  Remounting(Polling(Aborting(View(PlanningKeys.readiness,
                                   {"resources"} \cup PlanDates \cup WorkingTime \cup Fitness))))

(* projects *)
PackageDependencies == View(ProjectKeys.dependencies, {"dependencies", "packages"})
ProjectList == Aborting(View(ProjectKeys.list, {"projects", "folders", "customers"}))
FolderList == Aborting(View(ProjectKeys.folders, {"folders", "customers"}))
TemplateList == View(TemplateKeys.list, {"templates"})
TemplateDetail == View(TemplateKeys.detail, {"templates", "catalogue"})
TemplateOptions == View(TemplateKeys.list, {"templates"})
PackageRequirements == View(ProjectKeys.requirements, {"requirements", "catalogue"})
PackageList == View(ProjectKeys.workPackages, {"packages"})
ProjectSchedule == View(ProjectKeys.schedule, {"packages", "dependencies", "weekProfiles"})
CustomerList == View(CustomerKeys.list, {"customers"})
CustomerOptions == View(CustomerKeys.list, {"customers"})

(* resources, settings, working time *)
AbsenceList == View(CapacityKeys.absences, {"absences"})
WindowList == View(CapacityKeys.availabilityWindows, {"windows"})
FormGroups == View(ResourceKeys.groups, {"groups"})
FormSites == View(SiteKeys.list, {"sites"})
MatrixSkills == View(SkillKeys.withAttributes, {"catalogue"})
MatrixQualifications == View(ResourceKeys.qualifications, {"qualifications", "catalogue"})
TeamWeek == View(ResourceKeys.teamWeek, {"groups", "resources"} \cup PlanDates \cup WorkingTime)
ProfileChoices == View(CapacityKeys.weekProfiles, {"weekProfiles"})
OwnBindings == View(CapacityKeys.profileBindings, {"bindings"})
GroupBindings == View(CapacityKeys.profileBindings, {"bindings"})
GroupList == View(ResourceKeys.groups, {"groups"})
ResourceList == Aborting(View(ResourceKeys.list, {"resources", "groups", "sites"}))
ListSites == View(SiteKeys.list, {"sites"})
SkillCatalogue == View(SkillKeys.withAttributes, {"catalogue"})
TeamWeekGroups == View(ResourceKeys.groups, {"groups"})
JobRuns == View(MaintenanceKeys.runs, {"jobRuns"})
TenantSettings == View(SettingsKeys.tenant, {"settings"})
HolidaySites == View(SiteKeys.list, {"sites"})
HolidayList == View(CapacityKeys.holidays, {"holidays"})
SiteList == View(SiteKeys.list, {"sites"})
WeekProfileList == View(CapacityKeys.weekProfiles, {"weekProfiles"})

\* A set of records: screens that ask the same of the same entry are one view.
Views ==
  {AutocompleteSearch, GuardSetupStatus, RequirementSkills, Branding, ScopeGroups,
   ScopeProjects, LinkedPeople, UsersPage, AuditEntries, AuditSettings, OIDCStatus,
   SetupStatus, BaselineList, BaselineDiff, CheckStatus, Suggestions, Dashboard,
   DashboardProjects, Digest, ReportGroups, GanttProjectNames, GanttProjectOverview,
   GanttGroups, ResourceGantt, ProjectGantt, MyPlan, FormProjects, FormPackages,
   AssignmentList, PlanningOverview, ResourceSearch, Readiness, PackageDependencies,
   ProjectList, FolderList, TemplateList, TemplateDetail, TemplateOptions,
   PackageRequirements, PackageList, ProjectSchedule, CustomerList, CustomerOptions,
   AbsenceList, WindowList, FormGroups, FormSites, MatrixSkills, MatrixQualifications,
   TeamWeek, ProfileChoices, OwnBindings, GroupBindings, GroupList, ResourceList,
   ListSites, SkillCatalogue, TeamWeekGroups, JobRuns, TenantSettings, HolidaySites,
   HolidayList, SiteList, WeekProfileList}
=============================================================================
