------------------------------ MODULE PlanKeys ------------------------------
(* The keys of the browser's query cache (frontend/src/api/queryClient.ts).   *)
(* A key is an array read coarse to fine, and an invalidation names a prefix. *)
(* No invalidation of the program carries a parameter (an id, a filter, a     *)
(* page), so a key is kept to the part before its parameters: every instance  *)
(* of a key is treated alike by every write.                                  *)
EXTENDS Naturals, Sequences

AuditKeys == [all |-> <<"audit">>, entries |-> <<"audit", "entries">>,
              history |-> <<"audit", "history">>]

SettingsKeys == [all |-> <<"settings">>, tenant |-> <<"settings", "tenant">>]

SiteKeys == [all |-> <<"sites">>, list |-> <<"sites", "list">>]

CapacityKeys ==
  [all |-> <<"capacity">>,
   weekProfiles |-> <<"capacity", "week-profiles">>,
   holidays |-> <<"capacity", "holidays">>,
   absences |-> <<"capacity", "absences">>,
   profileBindings |-> <<"capacity", "profile-bindings">>,
   availabilityWindows |-> <<"capacity", "availability-windows">>]

ConflictKeys ==
  [all |-> <<"conflicts">>,
   checkStatus |-> <<"conflicts", "check-status">>,
   resourceSearch |-> <<"conflicts", "resource-search">>,
   suggestions |-> <<"conflicts", "suggestions">>,
   assignmentSuggestions |-> <<"conflicts", "assignment-suggestions">>,
   swapCandidates |-> <<"conflicts", "swap-candidates">>]

AssignmentKeys == [all |-> <<"assignments">>, list |-> <<"assignments", "list">>]

PlanningKeys == [all |-> <<"planning">>, overview |-> <<"planning", "overview">>,
                 readiness |-> <<"planning", "readiness">>]

ProjectKeys ==
  [all |-> <<"projects">>,
   list |-> <<"projects", "list">>,
   workPackages |-> <<"projects", "work-packages">>,
   folders |-> <<"projects", "folders">>,
   schedule |-> <<"projects", "schedule">>,
   dependencies |-> <<"projects", "dependencies">>,
   requirements |-> <<"projects", "requirements">>,
   template |-> <<"projects", "template">>]

TemplateKeys == [all |-> <<"templates">>, list |-> <<"templates", "list">>,
                 detail |-> <<"templates", "detail">>]

SkillKeys == [all |-> <<"skills">>, withAttributes |-> <<"skills", "with-attributes">>]

CustomerKeys == [all |-> <<"customers">>, list |-> <<"customers", "list">>]

ResourceKeys ==
  [all |-> <<"resources">>,
   groups |-> <<"resources", "groups">>,
   teamWeeks |-> <<"resources", "team-week">>,
   teamWeek |-> <<"resources", "team-week", "group">>,
   qualifications |-> <<"resources", "qualifications">>,
   personalTree |-> <<"resources", "personal-tree">>,
   list |-> <<"resources", "list">>]

DigestKeys == [all |-> <<"digest">>, today |-> <<"digest", "today">>]

MyPlanKeys == [all |-> <<"my-plan">>, current |-> <<"my-plan", "current">>]

AdminKeys == [all |-> <<"admin">>, users |-> <<"admin", "users">>]

BaselineKeys == [all |-> <<"baselines">>, list |-> <<"baselines", "list">>,
                 diffs |-> <<"baselines", "diff">>,
                 diff |-> <<"baselines", "diff", "baseline">>]

DashboardKeys == [all |-> <<"dashboard">>, summary |-> <<"dashboard", "summary">>,
                  projectOverview |-> <<"dashboard", "project-overview">>]

GanttKeys == [all |-> <<"gantt">>, department |-> <<"gantt", "department">>,
              infraGroup |-> <<"gantt", "infra-group">>,
              projects |-> <<"gantt", "projects">>]

AutocompleteKeys == [all |-> <<"autocomplete">>, search |-> <<"autocomplete", "search">>]

MaintenanceKeys == [all |-> <<"maintenance">>, runs |-> <<"maintenance", "runs">>]

AuthKeys == [all |-> <<"auth">>, oidcStatus |-> <<"auth", "oidc-status">>,
             setupStatus |-> <<"auth", "setup-status">>]

(* The library's match: a key is invalidated by each of its prefixes, the     *)
(* empty one (an invalidation without a key) included.                        *)
Invalidates(prefix, key) ==
  /\ Len(prefix) <= Len(key)
  /\ SubSeq(key, 1, Len(prefix)) = prefix
=============================================================================
