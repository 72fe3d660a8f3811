# Capado: a verification development

Capado is a resource planning tool.  Projects consist of work packages that may
depend on one another; people and machines are booked on them; calendars say how
much a resource can carry; and the program stores where bookings exceed that as
*conflicts*.  The backend is FastAPI with asynchronous SQLAlchemy over one
PostgreSQL database under READ COMMITTED, possibly in several processes, each of
which also runs a maintenance loop.

The frontend is React with TanStack Query: a tab that shares one
access token among all its requests, caches every answer, and edits what it shows.

The backend's rules live in transactions that read, decide and write in separate
statements, protected by advisory locks and row locks; the frontend's in callbacks
that run after answers, timers and renders, in an order nobody wrote down.  That is
what this directory models in TLA+, checks with TLC on small instances, and proves
with TLAPS for instances of every size.

Contents: [inventory](#inventory) · [modules](#modules-and-the-code-they-stand-for) ·
[runs](#runs) · [fairness](#fairness) · [proofs](#proofs) ·
[where the code disagrees](#where-the-code-disagrees-with-what-is-said-of-it) ·
[abstractions](#abstractions) · [not modelled](#not-modelled) · [plan](#plan)

## Inventory

Paths are under `src/backend/app/` unless they say otherwise.

| Component | State it keeps | Operations | Interacts with |
|---|---|---|---|
| Conflict reconciliation (`services/conflict_refresh.py`, `conflict_service.py`) | `conflicts`, `conflict_assignments`; one advisory lock per resource | refresh of some resources, full check | reads bookings and working time; runs after the commit of every planning write, inside the transaction of a package deletion, and in the scheduler |
| Assignments (`services/assignment_service.py`) | `assignments` | create, update, delete | foreign keys to packages; owes a refresh for the resource it left and the one it entered |
| Work packages and projects (`services/work_package_service.py`, `project_service.py`) | `work_packages`, `projects` | create, update, delete with cascade | deletes bookings, links and conflicts in one transaction; files projects in folders |
| Dependency graph (`services/work_package_dependency_service.py`, `dependencies.py`, `graph_locks.py`) | `work_package_dependencies`; graph advisory lock | create, change lag, delete | pins package rows; purged by package deletion |
| Maintenance scheduler (`services/scheduler.py`, `job_schedule.py`) | `scheduled_job_runs`; one advisory lock per job | polling cycle in each process, list of past runs | organization settings; conflict check; audit and baseline retention; excluded by a CSV restore |
| Project folders (`services/project_folder_service.py`, `folder_tree.py`) | `project_folders`; graph advisory lock | create, move, delete | takes projects out of a deleted folder |
| Resource groups (`services/resource_group_service.py`) | `resource_groups`; graph advisory lock | create, move, delete | decides what calendar a resource inherits; owes refreshes |
| Resources (`services/resource_service.py`) | personal and infrastructure resources | create, edit, change group, deactivate, erase | pins groups and sites; owes a refresh |
| Working time and calendars (`services/calendar_service.py`, `working_time_service.py`, `time_zone.py`) | profiles, bindings, holidays, site calendars; lock on the default profile | edit each, resolve the hours of a resource | read by every refresh; owes refreshes to everyone it reaches |
| Absences (`routers/absences.py`, `services/absence_service.py`) | `absences` | create, update, delete | refreshes its resource, and fails if that fails |
| Organization settings and mail (`services/settings_service.py`, `mail_config.py`) | one row | read, save | enables and times the scheduler; freeze date |
| Planning freeze (`services/planning_freeze.py`, `freeze_enforcement.py`) | none of its own | guard of planning writes | settings, role of the user |
| Baselines (`services/baseline_service.py`, `baseline_retention.py`) | snapshots of a plan | take, compare, prune | scheduler |
| Audit (`services/audit.py`, `audit_retention.py`) | append-only log | recorded on flush, pruned | every ORM write |
| Skills and requirements (`services/skill_service.py`, `qualification.py`, ...) | skills, certificates, requirements | edits, coverage of a period | package readiness |
| Dates of a plan (`services/lead_time.py`, `critical_path.py`, `project_schedule_service.py`) | none | pure calculations | dependency graph |
| Import and export (`services/import_export/`) | replaces whole tables | export, validate, restore | job locks, graph locks, table locks |
| Users and permissions (`services/permissions.py`, `routers/users.py`) | `users`, scopes | edit, deactivate | guards routes |
| Sign-in, tokens, OIDC (`services/auth_service.py`, `oidc_service.py`) | tokens, sessions | sign in, rotate, revoke | guards routes |
| Customers, templates, digest, suggestions, reports, Gantt, dashboard | single rows or none | single-row edits, read-only views | read the plan |
| Operations (`src/backend/alembic`, scripts, CI) | none | migrations, imports, releases | run once and alone |

The frontend's components, under `src/frontend/src/`:

| Component | State it keeps | Operations | Interacts with |
|---|---|---|---|
| Query cache (`api/queryClient.ts` and every `useQuery`/`useMutation`) | one entry per key: answer, flag, age; the requests under way | read, poll, invalidate, garbage-collect, one mutation of each screen | all tables of the backend; every screen |
| Session (`context/AuthContext.tsx`, `api/client.ts`) | user, access token, timer, shared refresh, chain of logouts, queue behind a 401 | bootstrap, login, refresh, logout, any API call | the refresh cookie; every request |
| Sign-in pages (`components/ProtectedRoute.tsx`, `features/auth`, `features/setup`) | route, cached setup status | guard, set up, sign in, callback | session, cache |
| Editors (32 dialogs, drawers and row fields under `features/`) | the record that is open, its draft, its mutation | open, edit, save, leave, the late answer | cache |
| Lists and folders (`ProjectsPanel`, resource and booking tables, `folderTree.ts`) | filters, open folder, ticked rows | filter, tick, narrow, delete a folder | cache |
| Booking form (`AssignmentForm`, `AutocompleteField`, `SuggestionList`) | values, search text, timers, preview | search, pick, switch kind, choose package, preview | previews of the API |
| Proposals (`ConflictSuggestions`, `UnmetRequirementsAlert`) | the proposal that is open, its preview | preview, apply | bookings that others change meanwhile |
| Settings (`features/settings/SettingsPage.tsx`) | fields seeded from an answer | type, save, clear the password, change the logo | the header of every screen |
| Skill matrix (`SkillMatrix.tsx`) | optimistic rows, snapshots for rollback | toggle, set a bound | cache |
| Charts (`features/gantt`) | perspective, group, open projects, counts | switch, open, retry; axis and bars | one query per list, chart and count |
| Problem cards (`features/planning`) | none of their own | bucket conflicts, follow a link, suggest | links from charts and panels |
| Dates (`utils/date.ts`) | none | pure calculations | every screen |

`PROJECT.json` gives each of them a status and the reason.

### What is hard here, and what makes each part correct

* **Derived data after the commit.** A planning write commits first and refreshes
  conflicts in transactions of their own.  A refresh may overlap other writes,
  overlap other refreshes, fail, or never happen because its process died.
  Correct means: stored conflicts are stale only while somebody owes a refresh,
  and they are repaired in the end.
* **Validate, then write, on a graph.** Dependencies, folders and groups must stay
  free of cycles although validation and insert are separate statements of
  concurrent transactions.  Correct means: no interleaving commits a cycle, and
  what was checked still holds at the write.
* **Deletion with a cascade.** What is deleted is selected in one statement and
  deleted in another.  Correct means: nothing else is deleted, nothing is left
  over, nothing is removed by the database behind the audit log's back.
* **Several processes, one schedule.** Correct means: a job succeeds once per
  period, never twice at once, never next to a restore, and is not forgotten.
* **Inheritance.** A write far up a tree changes the hours of resources it does not
  name.  Correct means: everyone it reaches is refreshed afterwards, whatever the
  refreshes read meanwhile; and deletions change nobody's hours.
* **Rules read before they are applied.**  A booking is loaded, the freeze is asked
  for, the merged row is validated, and the columns that changed are written; none of
  it under a lock.  Correct means: partial updates add up to a booking, and the frozen
  past stands, but for requests that another has overtaken.
* **The same days counted in several ways.**  The sweep goes by spans, the dashboard by
  days, the preview by clipped bookings, the critical path forward and backward.
  Correct means: they tell of the same days, around weekends, midnight and clock
  changes too.
* **Locks in several orders.** Advisory locks, `FOR UPDATE`, `FOR KEY SHARE` and the
  locks foreign keys take.  Correct means: every request ends, if need be because
  PostgreSQL's deadlock detector fails one of those that wait for each other.
* **Answers that are older than they look.** An answer computed before a write may
  land after the write's invalidation, an acknowledgement may be lost, and each
  screen lists by hand which keys its write makes out of date.  Correct means: where
  the list of a write reaches a view, an answer on display that lacks the
  acknowledged write is flagged and asked for again; and what no list reaches is
  polled.  The code keeps neither without exception: see
  [below](#where-the-code-disagrees-with-what-is-said-of-it).
* **One token for everybody.** Requests, a timer, a visibility listener and the
  bootstrap all refresh; logout and login cross them.  Correct means: one refresh at
  a time, nobody queues for one that is not coming, a logout revokes the cookie in
  force, a signed-in tab stays signed in.
* **Forms under late answers.** A save held back offline, a blur timer, a poll or a
  second press meets a form that shows something else by then.  Correct means: what
  is sent is what was shown when it was asked for.
* **Dates.** ISO weeks at the turn of a year, clocks that are put forward, bars with
  inclusive ends on exclusive columns.  Correct means: a day stays that day.

The `hazards` of `PROJECT.json` name each of these at the line where it bites.

## Modules and the code they stand for

| Module | Kind | Extends / uses |
|---|---|---|
| `ConflictReconciliation` | component | composes bookings, packages, capacity, refresh, full check |
| `ConflictReconciliationProofs` | proofs | extends it |
| `DependencyPlan` | abstract specification | |
| `DependencyGraph` | component | `Plan == INSTANCE DependencyPlan` |
| `PlanGraphsProofs` | proofs of plan, links and folders, refinement | extends `MCPlanGraphs`: each graph alone, and both side by side |
| `Scheduler`, `SchedulerProofs` | component, proofs | |
| `FolderFiling` | component | |
| `GroupCalendars`, `GroupCalendarsProofs` | component, proofs | composes groups, resources, calendars and refresh |
| `BookingEdits` | component | composes the writes to bookings with the freeze |
| `WorkingTime`, `ConflictSweep`, `PlanDates` | pure algorithms | `ConflictSweep` extends `WorkingTime` |
| `Ranks` | the order a `sort` brings elements into | used by `WorkingTime`, `TimeAxis` |
| `PlanRulesProofs` | proofs of edits, freeze, conflict calculations and dates | extends `MCPlanRules` and `FiniteFolds` |
| `FiniteFolds` | lemmas: finite sets, sums, extremes, order by rank, folds over sequences, recursion along a rank | |
| `PlanKeys`, `PlanViews`, `PlanWrites` | data of the cache: its keys, its queries with the tables they read, its mutations with the tables they write and the prefixes they invalidate | |
| `ReadYourWrites` | abstract specification of an entry of the cache | |
| `PlanCache` | component | `Promise == INSTANCE ReadYourWrites` |
| `PlanCoherence` | composes the cache with the program's views and writes | `PlanCache`, `PlanWrites` |
| `BrowserSession`, `SignInPages` | components | |
| `Editors`, `Lists`, `BookingForm`, `Proposals`, `SettingsForm`, `SkillMatrix`, `PlanCharts` | components, one per kind of screen | |
| `ScreensProofs` | proofs, refinement | extends `MCScreens` and `FiniteFolds`: cache, editors, pages, lists, charts and problem cards, and all side by side |
| `FormsProofs` | proofs | extends `MCForms`, which puts session and forms side by side |
| `CalendarDays`, `TimeAxis`, `FolderTree`, `ProblemCards` | pure algorithms | `TimeAxis` extends `CalendarDays` |
| `MC...` | instances for TLC | initial plans and trees, symmetry, samples |

`MCPlanGraphs` puts the two graphs of the plan into one instance, `MCPlanRules` the
edits of bookings and the calculations, `MCScreens` and `MCForms` the parts of the
frontend that share no state: a behaviour is of one part
(`part`, `graph`) while the others stand still, so each is checked in full and their
interleavings, which cannot matter, are not enumerated.

In the backend's modules a process has a `pc`; an action is one statement of a transaction
together with everything in its transaction that no other process can observe or
disturb; `Begin`, `Start` and `Request` open a request and count it against its
bound; commit and rollback both go through one operator that releases the locks.
Definitions whose comment says *Mutant* are wrong on purpose: each replaces one
modelled definition and is caught by the property `PROJECT.json` pairs it with.

**ConflictReconciliation.**  `booking` is the assignments table (a row, `Unborn`
or `Gone`), `packages` and `capacity` the tables it depends on, `conflicts` the
stored periods with their links, `lock` the per-resource advisory lock
(`lock_resource`), `packageLock` the `FOR UPDATE` of a package deletion, `rowLock` the
row of a booking that an `UPDATE` has locked.
`CreateAssignment`, `LoadAssignment`/`LockBooking`/`UpdateAssignment`,
`LoadAssignment`/`SelectLinkedConflicts`/`DeleteAssignment` are the three
operations of `AssignmentService`.  An update first locks its row (`LockBooking`), keeps
it while its foreign key waits for the package it enters, and writes only the columns that
differ from the row that was *loaded*, as SQLAlchemy does (`UpdateAssignment`).
`DeletePackages`, `LockPackage` are the deletion of a package or of a project with
its packages, `condemned` the ones it has yet to lock; `SelectBookings`, `CascadeLock`,
`CascadeCommit` are `_delete_work_packages`, whose `DELETE` waits for locked rows.
`BreakDeadlock` is PostgreSQL failing one of those that wait for each other in a
circle (`Stuck`).  `TakeLock`,
`ReadBookings`, `ReadCapacity`, `ReplacePeriods` are one resource of
`refresh_resources`; `Abandon` is the exception that ends it, `Crash` the process
that dies.  `strict` tells `refresh_resources` called by the absence routes from
`refresh_after_commit` called by everyone else.  `failed`, `overlooked` and
`misreported` are history variables.

**DependencyPlan and DependencyGraph.**  The plan adds a link when both ends exist
and it closes no cycle, at once.  The graph does it as the code does: graph lock,
`FOR KEY SHARE` on both ends in id order, read all edges, validate, insert; lag
changes outside the lock; package deletion with row locks in id order, selection of
the links, purge.  `WouldCreateCycle` is the reachability the breadth-first search
of `dependencies.py` computes, stated as closed sets so that it can be reasoned
about without recursion.

**Scheduler.**  `Wake`, `Look`, `TryLock`, `Recheck`, `StartJob`, `FinishJob`,
`FailJob` are the steps of `run_due_jobs`; `moment` is the `now`
taken once per cycle and `known` the settings last read.  `StartRestore`,
`RestoreLock`, `LockTables`, `CommitRestore`, `AbandonRestore` are the restore as
`lock_maintenance_for_migration` makes the scheduler see it.

**FolderFiling.**  `parent` and `filed` are the two foreign keys.  `CheckNew`,
`CheckMove` are `_validate_parent`; `SelectContents` and `DeleteFolder` the delete,
which lifts sub-folders and unfiles projects by id.  Projects are filed without a
lock, from a row loaded earlier.

**GroupCalendars.**  `parent`, `member`, `binding`, `profile`, `default` are what a
resource's hours are resolved from; `HoursOf` is `profile_for`: the resource's own
binding, else the nearest bound group above it, else the default.  `shown` is the
profile the stored conflicts were made with.  `CollectAffected` and `MoveGroup`
are the move and `_descendant_resources`; `CountReferences`/`DeleteGroup`,
`CountBindings`/`DeleteProfile` the guarded deletions; `LockRow` and `Pin` the row
locks they rely on.  A refresh reads in three steps, `StartRefresh` (bindings),
`ReadPlacement` (membership) and `ReadHierarchy` (tree), as
`WorkingTimeService.prepare` does.  `late` and `missed` are history variables.

**BookingEdits.**  `rows` is the table with the columns of both shapes, of which
`ConflictReconciliation` keeps only what conflicts depend on.  `AskCreate`, `AskUpdate`
and `AskDelete` are the routes up to the row they load, `EnforceFreeze` the guard with
the dates before and after (`TouchedDays`), `Validate` the service's checks of the
merged row (`Effective`), `Create`, `Update` and `Delete` the commits.  `Changed` are
the columns SQLAlchemy writes: those whose value differs from the row as loaded.
`SetFreeze` is a save of the settings.  `moved`, `overtaken` and `crossed` are history
variables.

**WorkingTime, ConflictSweep.**  The minutes of a person's day, the shifts of a machine,
the planning clock; and on them the sweep of `calculate_periods`, the overlaps and
window violations of machines, the utilization of days and weeks, and the bookings a
preview cuts to its windows.  Operators have the names of the functions.

**PlanDates.**  `lead_time.py`, the dates of `dependencies.py` and `critical_path.py`;
the two passes are recursive functions on the links, which `DependencyPlan` keeps free
of cycles.

**PlanCache, PlanViews, PlanWrites, PlanCoherence.**  `entry` is one entry of the
cache with what its answer misses, `fetch` the request under way, `change` the
browser's own write.  `Mount`, `Unmount`, `Age`, `Collect`, `Poll`, `ServerAnswers`,
`Land`, `FetchFails` are what TanStack Query does as `queryClient.ts` configures it;
`Send`, `Commit` and the three ends of a write (`Acknowledge`, `Refuse`,
`LoseAnswer`) are a `useMutation` with its `onSuccess` and `onSettled`.
`PlanViews` has every query of the program with the tables its route reads,
`PlanWrites` every mutation with the tables its route writes and the invalidation
list of its screen.  `missed` says *why* an answer misses a write: the screen is told
of it (`covered`), the list forgets it (`uncovered`), the acknowledgement was lost
(`unheard`), the acknowledgement met a request that the server had answered before the
write, for an entry without an answer or without a screen, which the invalidation
joins or leaves alone (`crossed`), somebody else made it (`foreign`).  `unheard` and
`crossed` are exemptions: the code leaves such answers unflagged, and the properties
say so.  Both are decided by the state in which the write's answer arrives and never
by what the invalidation does, so that an invalidation that joins a request it should
replace is still found (the mutant of `KeepsThePromise`).  The formulas of
`PlanCoherence` are about constants: what comments of `queryClient.ts` say of all
invalidation lists at once.

**BrowserSession.**  `tab` is what `AuthContext` holds and `seen` the token of the
last render, which is the one the interceptor reads; `refreshCall` the shared
promise; `logouts` the chain of logouts, `gen` the generation of a refresh; `calls`
the API requests with the `_retry` mark and the queue of `client.ts`; `server` the
live cookies, those that were rotated out, and expired tokens.  A refresh with a
rotated-out cookie either gets another one, within the grace window, or is taken for
reuse and revokes every cookie of the user (`ServerRefreshes`).

**SignInPages.**  `page` is the route; `Redirect` the guards of `ProtectedRoute`,
`LoginPage`, `SetupPage` and the callback; `check` the cached setup status.

**Editors.**  One small machine, parameterised by a record of how a screen is built:
when its mutation reads which record it saves and what is typed (`aims`, `takes`),
whether it can be left, whether a save can be pressed twice, what a success does to
the form.  `EditorOf` has the record of each of the screens, with its lines.

**Lists, FolderTree.**  Filters whose options come from the rows, the open folder,
ticks and the narrowing to ticked rows, under rows that are read, read again or
fail to be read (`reading`); the folders beneath a folder and the parents its form offers.

**BookingForm.**  `field` is the autocomplete with `blurs`, its 200 ms timers and what
they closed over; `SwitchKind`, `SelectProject`, `Suggest` reset what the code
resets; `preview` is shown for the values it was asked with.

**Proposals.**  `PressPreview` reads the booking and computes the patch of a
suggestion; `PressApply` sends it; `ServerApplies` merges it with the booking of that
moment; `ForeignChange` is another user; `ListRead` the poll underneath.

**SettingsForm, SkillMatrix.**  The form that an answer fills once per answer; the
optimistic cells with their snapshots, rollbacks and cancelled reads.

**PlanCharts, ProblemCards, TimeAxis, CalendarDays.**  The chart page with its
queries that fail one by one; which conflicts a link focuses, into which cards they
fall, what each card sums up; axis, columns and bars; the day arithmetic of `date.ts`.

## Runs

Twelve runs.  Distinct states are those of the complete state graph for passing
runs.

| Run | Instance | Checks | States |
|---|---|---|---|
| `recon_safety` | 2 handlers + full check, 2 resources, capacities 0..1 (at first resource 1 carries a booking, 2 none), 2 requests, 1 failure; 2 bookings side by side (one may still be unborn) in 2 packages, or 2 packages with a booking on each resource | `StaleOnlyIfOwed`, `DeadlocksNeedAMove`, `CascadeKnowsEveryBooking`, `ConflictsVanishForAReason` | 660 k |
| `recon_liveness` | a booking and one to come, 2 packages that may be deleted together, moves to the other side, 1 failure, fair | `EveryRequestEnds`, `StaleIsRepaired` | 76 k |
| `plan_graphs` | dependencies: 2 sessions, 3 packages, 2 lags, 3 requests, fair; folders: 2 sessions, 4 folders in 3 shapes, 1 project, 3 requests | `NoCycle`, `FoldersNoCycle`, `EveryPurgedLinkIsAudited`, `ChecksStayTrue`, `DeletionKeepsTheTree`, `ImplementsPlan`, `EveryRequestEnds` | 556 k |
| `sched_maintenance` | 2 processes, 2 jobs, 2 days of 2 polling intervals, 1 edit or restore, 1 fault, fair | `JobsExclusive`, `OncePerPeriod`, `QuietAfterRestore`, `DueJobsSucceed`, `RestoreEnds` | 243 k |
| `group_safety` | 2 sessions, 3 groups, 2 profiles, 1 resource, 3 requests, 1 failure | `NoCycle`, `ChecksStayTrue`, `StaleOnlyIfOwed`, `DeletionsMoveNobody` | 610 k |
| `plan_rules` | 2 sessions (one of an administrator), 2 bookings in 3 tables, 2 people, 1 machine, 2 days of 2 instants, 8 patches, 3 requests; samples of the calculations | `UncrossedEditsMakeSense`, `FrozenBookingsStand`, `ConflictsAreFound`, `DatesKeepTheirMeaning` | 763 k |
| `screens` | every query against one write of each kind; pages, 32 editors, lists, chart page; samples of the calculations | `ScreensTypeOK`, `KeepsThePromise`, `PolledViewCatchesUp`, `PagesComeToRest`, `EverybodyIsWhereTheyBelong`, `EditorsKeepTheirRecord`, `ScreensHideNothing`, `ChartsKeepTheDay` | 334 k |
| `forms` | session with 2 calls, 2 issues, 2 logouts, fair; booking form with 2 people, 1 machine, 2 projects; proposals; settings; skill matrix | `FormsTypeOK`, `QueueIsServed`, `LogoutFollowsTheRotation`, `SessionIsKeptAlive`, `EverythingEnds`, `ScreensSendWhatTheyShow` | 521 k |
| `recon_moves`, `recon_foreign`, `group_moves`, `screens_crossing` | as above, bounds in their `.cfg` | one property each, violated | see [below](#where-the-code-disagrees-with-what-is-said-of-it) |

What the properties say is written above each of them in the modules.  What the
runs show:

* `recon_safety`: the per-resource advisory lock makes the last refresh to commit
  also the last one to have read, so a stale conflict always has a debtor; a
  package deletion that holds the row has selected every booking that can ever be
  in the package; a conflict disappears only under its lock or with its booking.
  Deletions lock packages and then resources in id order, so that they and the
  refreshes never wait for each other in a circle.  An update that moves a booking to
  another package can close one: it holds the booking's row and waits for the package,
  whose deletion waits for the row (`project_service.py:250`,
  `assignment_service.py:502`).  `DeadlocksNeedAMove` says that every circle has such
  an update in it.
* `recon_liveness`: with PostgreSQL's detector, which fails one of a circle, a project
  deletion and a move between its packages both end; it is needed, for a waiter that
  started over instead might do so for ever (the mutant of `EveryRequestEnds`).  The
  full check repairs what failed refreshes and dead processes left, including
  resources that are no longer booked.
* `plan_graphs`: each committed dependency transaction is one step of the plan; the
  graph lock is enough for both graphs, row locks and pins for the foreign keys.
* `sched_maintenance`: rereading settings and last success under the lock is
  necessary (its two mutants drop one each) and sufficient.
* `group_safety`: the same of groups, and that a refresh which reads binding,
  membership and tree one after the other leaves nobody behind.
* `plan_rules`: partial patches with changes of type keep a booking a booking, and the
  guard sees the dates that will be written; the sweep finds the days that a count day
  by day finds, stored periods, dashboard and preview agree on them, machines are
  reported for the minutes outside their shifts; forward and backward pass agree, and
  float and shortfalls are what can be slipped and what is missing.
* `screens`: an answer that misses an acknowledged write of a list that reaches it is
  flagged, and on display asked for anew, with the two exemptions above (`unheard`,
  `crossed`); a view that is polled also gets what no list covers; the guard and the
  pages do not send a visitor in circles; no editor, in the forms that get their
  payload when Save is pressed, sends one record's draft to another.  Lists leave out a
  row only while a filter, a folder, a box or the selection says so, of the bookings
  while any filter is set; the chart page says that there are no projects or no groups
  only on an answer or beside an error it reports; cards and links account for every
  conflict.  What the other empty charts say is decided by the state of one query.
* `forms`: the shared refresh, the retry queue and the chain of logouts leave nobody
  waiting, also when the server takes a cookie for reused and ends the session; each
  screen sends what it shows, within the conditions its properties name.  Those conditions are the facts listed [below](#met-while-modelling-the-frontend).

### Bounds, and why they are enough to be worth running

Every hazard that is modelled needs two actors; three writes let one actor act
twice around the other.  Two resources are what lock order needs, and what makes
a refresh of several resources fail between them; two packages that are each booked on
both are what the locks of two cascades need, and a booking moved between two packages
that are deleted together what the circle of rows and packages needs.  Three packages make the
shortest cycle that validation of direct links would miss; four folders the
shortest move into a deeper subtree across a deletion.  Two profiles distinguish
right hours from wrong ones, and three groups give a chain and a place beside it.
Two days of two intervals contain a change of day inside a cycle and a daily job
due on both.  One failure is enough because a failure only forgets.

In `BookingEdits` the second booking is what an update may duplicate, the
administrator the one who is exempt, and three requests let one overtake another and
leave a third to meet what they left.  The samples of the calculations contain each
case the code distinguishes: a binding that ends in the middle of a booking, a half
holiday, absences that add up to more than the day, no profile; bookings that touch,
overlap, nest or leave a gap; shifts that overlap, meet, end at midnight or run past
it, next to a holiday and a clock that is put forward or back inside the booking; weeks
without work, with a weekend, and of two days apart; a chain, a fork, a join and a
triangle of links, with and without lag.

In the frontend one entry of the cache stands for all: entries share no state, and
a write meets each in its own way, which is why every query is tried with a write of
each kind.  `CacheChanges` leaves out a mutation only where another has the same
tables and the same list.  Two requests are what a queue needs (one leads, one
follows), two issues what a rotation needs, two logouts what a chain needs.  A cookie
brought back within the grace window would be a third issue, so no run sees it; reuse
and the revocation of all cookies are seen, and the theorems hold for any `MaxIssues`.  Two
openings, three drafts and two presses let a form be left and opened for another
record between a press and its answer.  Two people and a machine distinguish a
wrong resource from a resource of the wrong kind.  Two changes of others let a
field be changed and another, or the same one again.  `SampleDays` are the turns of
the years that begin on every day of the week, leap and not; `SampleCharts` bars at
the end of a year that are short, longer than a month and longer than a year.  Each mutant is
caught inside these bounds.  Beyond them stand the proofs, which have none:
`MaxRequests`, `MaxFailures`, `MaxEdits` and `MaxFaults` are arbitrary naturals there.

Handlers are interchangeable in `ConflictReconciliation`, which `recon_safety` uses
(`HandlerSymmetry`); no run with a liveness property uses symmetry.  Deadlock is
checked there and in `Scheduler`, where the full check or a worker can always start
again; the other models have a bounded number of requests and really come to a
stop, so their `.cfg` says `CHECK_DEADLOCK FALSE`.

## Fairness

* `ConflictReconciliation`: weak fairness for a process that has work
  (`Proceed`, which includes `BreakDeadlock`: PostgreSQL looks for circles among
  whoever has waited for a second); strong fairness for taking an advisory lock, because PostgreSQL
  queues the waiters of a lock and passes none over for ever; weak fairness for
  starting a full check, which is the scheduler's loop.  No fairness for requests,
  failures or crashes.
* `DependencyGraph`: weak fairness of a session that can go on; the number of
  requests is bounded, so waiting cannot be prolonged for ever by newcomers.
* `Scheduler`: weak fairness of each process's cycle; strong fairness of the
  restore's next lock, since a queued request is served before a later try; weak
  fairness of the restore once it has them.  None for the clock: time may stand
  still.
* `FolderFiling`, `GroupCalendars`, `BookingEdits`: safety only, no fairness.
* `PlanCache` (`CacheFairness`): weak fairness of the server's answer and of the poll
  timer, strong fairness of landing, because an invalidation may restart a request
  any number of times.  None for users, writes or failures.
* `SignInPages` (`PagesFairness`): redirects are effects of a render, the first load
  ends, and the status request ends.  None for the visitor.
* `BrowserSession` (`SessionFairness`): requests are answered or fail (axios rejects
  in the end), and the continuation of an answer runs.  None for users, expiry, the
  timer or renders.
* The other screens: safety only.

## Proofs

Eight modules hold theorems, about 20460 obligations, all proved by SMT, Zenon and LS4 with
nothing left out.  They hold for every value of the constants that satisfies the
`ASSUME`s of the component: rows, sessions and processes in any number, and any
bound on requests and failures.

**Assumptions.**  Model values are distinct (a lock nobody holds is no session, a
row that is gone is no row); resource and package ids are numbers, because locks are
taken in id order; initial trees, plans, capacities and links have the types and foreign keys of
their columns and no cycle; the scheduler's job list and the restore's lock list
consist of jobs, and the restore's contains all of them; people and machines are
different resources; attributes held at first are attributes, and an item's old value
is one of its values; the new record of a form is none of the stored ones, and the
view that a part which stands still looks at is one of the queries; bounds are naturals, and a session has at least one token to be
issued; a day and the normative day have minutes; a search for working days goes a
natural number of days, and no date is no day.  Each is evaluated by TLC in the runs of the module that states it.  `DependencyPlan` states its as `Sound` and its
theorems assume it; `DependencyGraph` assumes `Plan!Sound`.

| Theorem | Property |
|---|---|
| `ConflictReconciliationProofs!Typed`, `NobodysStaleResult`, `CascadesMissNothing`, `NoConflictIsLost` | `TypeOK`, `StaleOnlyIfOwed`, `CascadeKnowsEveryBooking`, `ConflictsVanishForAReason` |
| `PlanGraphsProofs!PlanHasNoCycle`, `PlanLinksAttached` | the plan has no cycle and no dangling link |
| `PlanGraphsProofs!Typed`, `NeverACycle`, `PurgeAudited`, `Refinement` | `TypeOK`, `NoCycle`, `EveryPurgedLinkIsAudited`, `ImplementsPlan` |
| `PlanGraphsProofs!FilingTyped`, `FoldersStayATree`, `ChecksHold`, `DeletionsLiftSubfolders` | `FilingTypeOK`, `FoldersNoCycle`, `ChecksStayTrue`, `DeletionKeepsTheTree` |
| `PlanGraphsProofs!DependenciesOfBoth`, `FoldersOfBoth` | all of these of the specification that `plan_graphs` runs |
| `SchedulerProofs!Typed`, `JobsAreExclusive`, `SucceedsOncePerPeriod`, `RestoredCopyIsQuiet` | `TypeOK`, `JobsExclusive`, `OncePerPeriod`, `QuietAfterRestore` |
| `GroupCalendarsProofs!Typed`, `GroupsStayATree`, `ChecksHold`, `NobodyForgotten`, `DeletionsAreSilent` | `TypeOK`, `NoCycle`, `ChecksStayTrue`, `StaleOnlyIfOwed`, `DeletionsMoveNobody` |
| `PlanRulesProofs!EditsMakeSense`, `FrozenStand`, `EditsAmongRules` | `UncrossedEditsMakeSense`, `FrozenBookingsStand` |
| `PlanRulesProofs!SweepFinds`, `PeriodsAreTold`, `DashboardShows`, `PreviewShows` | `SweepFindsTheDays`, `PeriodsTellTheDays`, `DashboardAgrees`, `PreviewShowsWhatIsStored`: the parts of `ConflictsAreFound` about people, for any input |
| `PlanRulesProofs!OverlapsAreExact`, `OverlapsShow`, `WindowsAreReported`, `WholeDaysFit` | `OverlapsAreShared`, `OverlapsAreShown`, `ReportsWhatIsLoaded`, `DayBookingFits` (where the clock shows some of the last shift): those about machines |
| `PlanRulesProofs!ForwardPassIsEarliest`, `BackwardPassIsLatest`, `FloatMaySlip`, `ShortfallsHelp`, `QuietIsOnTime` | `ForwardIsEarliest`, `BackwardIsLatest`, `FloatIsWhatMaySlip`, `ShortfallsAreLeast`, `QuietPlansAreOnTime`: the parts of `DatesKeepTheirMeaning`, for any plan |
| `PlanRulesProofs!ConflictsAmongRules`, `DatesAmongRules` | `ConflictsAreFound`, `DatesKeepTheirMeaning` |
| `FormsProofs!NobodyQueuesInVain`, `LogoutsWaitForTheRotation`, `SignedInTabsRefresh` | `QueueIsServed`, `LogoutFollowsTheRotation`, `SessionIsKeptAlive` |
| `FormsProofs!FormsTyped`, `FormsKeepTheirWord` | `FormsTypeOK`, `ScreensSendWhatTheyShow` |
| `ScreensProofs!CacheTypeCorrect`, `OwnWritesAreFlagged`, `ShownFlagsAreServed`, `CacheKeepsThePromise` | `CacheTypeOK`, `OwnWriteIsFlagged`, `ShownFlagIsServed`, `KeepsThePromise` |
| `ScreensProofs!ScreensTyped`, `EditorsKeepTheirWord`, `ScreensKeepThePromise` | `ScreensTypeOK`, `EditorsKeepTheirRecord`, `KeepsThePromise` |
| `ScreensProofs!CardsShow`, `LinksLead` | `CardsShowEveryProblem`, `LinksLeadToTheirProblems`, for any conflicts |
| `ScreensProofs!NothingIsHidden` | `ScreensHideNothing` |
| `ScreensProofs!AnchorsCount`, `WeeksBelong`, `MonthsGoOn`, `ClocksKeepTheirTime` | `AnchorsAreDays`, `WeeksAreOfTheirThursday`, `MonthsFollow`, `ClockTimesAreKept`: the dates of `ChartsKeepTheDay`, for any day and time |
| `ScreensProofs!ColumnsCover`, `BarsCover`, `GroupingKeeps` | `ColumnsCoverTheBars`, `BarsCoverTheirDays`, `GroupingKeepsTheBars`, for any finite set of bars |
| `ScreensProofs!OptionsAreWhatCanBe`, `FoldersAreFound` | `OffersWhatCanBe`, `FoldersCanBeFound`, for any finite tree of folders |
| `ScreensProofs!DaysAreKept` | `ChartsKeepTheDay` |

**Stale only if owed** (`ConflictReconciliation`).  The property is not inductive: a
refresh that stores a wrong result makes a resource stale without a debtor.  The
invariant adds `LockInv` (a refresh that has begun holds its resource's lock) and
`ReadInv` (what a refresh has read or calculated is current, or *somebody else* owes
the resource a refresh).  A write between the read and the commit of a refresh makes
its own author the somebody else, and the author cannot start before the lock is
free.  Every action is shown to be `Careful`: it changes a resource's plan only by
putting the resource in debt, and pays debts only by a correct result.

**Deletions know what they take** (`ConflictReconciliation`).  `PackageInv`: who holds a
package's row lock is about to delete it and has selected every booking in it, for a
booking keeps its package or joins one that nobody has locked (`Attached`).
`MarkedInv`: the conflict rows a booking's deletion has selected still link the
booking, because a row that is replaced has a new id and a row that is unmarked was
not selected (`MarksKept`).  Each action is then shown to empty a row only as its lock's
holder or by a deletion of a booking the row links (`VanishingStep`).

**No cycles.**  Reachability is stated with closed sets: *b is not reachable from a*
means that some closed set contains a and not b.  Such a set survives the removal of
links and is easily extended, which spares all induction on paths.  `Acyclic` says
that every nonempty set has an element without a successor in it.  One lemma per
module shows that an accepted link or parent keeps that (`AcceptedLinkAcyclic`,
`MovedAcyclic`), one that losing links does (`WithinAcyclic`).  In the transactional
models the invariant adds who holds which lock, and that what was validated is still
valid (`ValidatedInv`, `ChecksStayTrue`): only the holder of the graph lock adds
edges, and pinned or locked rows stay.

**The transactions implement the plan** (`DependencyGraph`).  The mapping is the
identity on packages and links.  Only `Insert`, `Delete`, `UpdateLag` and `Purge`
change them; the first maps to `AddLink` because its link is still valid under the
invariant, the others directly, and everything else stutters.  Freedom from cycles is
then inherited: `NeverACycle` is one temporal step from `Refinement` and the plan's
theorem.

**One success per period** (`Scheduler`).  The holder of a job's lock is the only
process that can move its last success, so what it found due under the lock
(`DueInv`) is due when it finishes; time does not run backwards between the moment
it took for now and the clock that is recorded.  `QuietInv` says that nobody is about
to start a job while a restore's settings stand, which holds because the settings are
reread under a lock the restore had to own.

**Nobody is forgotten** (`GroupCalendars`).  What a resource inherits depends on the
chain of groups above it and on nothing else in the tree (`ChainAgree`, `HoursAgree`).
A move changes the chains of who is beneath its group and of nobody else; the graph
lock keeps that set as the move collected it, but for late arrivals (`MoveInv`), and
those are `missed`.  A refresh reads bindings, membership and tree one after the
other; `ReadInv` says of each stage that what has been read so far is still what the
tables say, or somebody else owes the resource, or it is excused.  Deleted groups and
profiles are in nobody's chain, since the counts made under their row locks stay true
(`PinnedStay`, `UnusedStays`, `DispensableStays`).

**Two graphs side by side** (`MCPlanGraphs`).  The run looks at one specification in which
one of the graphs stands still.  Its behaviours are behaviours of the dependencies when
`graph` says so and of the folders otherwise (`DependenciesOfBoth`, `FoldersOfBoth`): each
keeps its inductive invariant under its own steps and, while it stands still, because
its variables do.

**Edits add up** (`BookingEdits`).  That a stored booking is sensible is preserved by an
update only if the row it writes over is the row it validated.  `FreshInv` says that
it is, unless the request is overtaken, and then the booking becomes `crossed`;
`CheckedInv` carries what `Validate` found to the commit.  The resource is looked up
only when the request names it or its type: otherwise both are those of the row that
was loaded, and that row was sensible (`UnnamedStays`).  For the freeze `OpenInv`
carries what `EnforceFreeze` found, unless the date was moved since, and
`RequestedDayIsFirstDay` says that the day it judges, which it takes from the request
before anything is merged, is the first day of the row that will be written: that
needs the assumption that a request sends the dates of one shape.  `EditsAmongRules` says
the same of the specification `plan_rules` runs.

**Conflicts are what a count day by day finds** (`ConflictSweep`, `WorkingTime`).  These are
theorems about inputs: any set of bookings that do not end before they begin, any
calendar whose entries are of their types (`CalendarTyped`), any clock.  *The sweep*: between two
neighbouring bounds of bookings the same bookings cover every day (`SpanHasOneCrowd`), and
each overbooked day lies in such a span (`DaysLieInSpans`), so judging spans is judging
days.  *The dashboard*: sums are folds in an order nobody knows, so they are first shown
to be independent of it (`SumsAgree`); then a day is red exactly if something is
booked beyond a supply that is there (`ExcessIsThere`).  *The stored periods*: the
days found are put in order by rank (`DaysInTime`) and folded from the left.  After
every prefix the groups so far are slices of the days (`GroupsOfDays`): the last one grows
by the next day if that day follows at once or has the same bookings
(`LongerGroup`), or else a new one begins (`NewGroup`).  What a period
says is read off its slice (`PeriodOfGroup`), and `LoadedIsEnough` says that loading the
calendar for the span of the bookings loses nothing the days in it depend on.
*Machines*: the same sweep over instants (`StretchHasOneCrowd`); dates may stand still at a
clock change but not go back (`DatesDoNotFallBack`).  *The preview*: merged windows lose
nothing, add nothing and leave gaps (`SpansMerge`), and bookings cut to one of them have the
same days in it (`CutIsTyped`) or the same holders (`CutKeepsHolders`).  *The windows of
machines*: where the clock also shows every midnight (`OrdinaryClock`), a day is what lies
between two of them (`DayStarts`).  The minutes of a booking are then the sum of those of
its days (`PartsAddUp`), on a day of ordinary length the clock shows the minutes passed
(`RegularDay`), and the overlaps with merged spans add up to the minutes covered
(`CoveredMinutesAre`), which are those of a shift under way (`BookableIsCovered`).
*Whole days*: readings that are shown once come in their order, and the minute before the
end of a booking is the last one shown before it (`MinuteBefore`).  `WholeDaysFit`
therefore asks that the clock show some minute of the day's last span
(`LastShiftIsShown`), as it does where it skips less time than the span takes
(`LongShiftsAreShown`).  It must ask for that: where the clock skips the whole of the last
of several spans, `day_booking_bounds` takes its end, which the clock shows, and the minute
before it is one that no shift covers.  `ConflictsAmongRules` shows that the samples of the run
meet the hypotheses of all these theorems, on a day of any length from eight minutes
except ten, when one of the sample clocks skips midnight.

**Dates keep their meaning** (`PlanDates`).  These are theorems about any finite plan
(`PlanLike`) and any working week, the empty one too.  Where a calculation goes along
the links, they form no cycle (`Acyclic`), which is what `NeverACycle` proves of the
links that are stored.  Packages then have a rank that every link raises
(`AcyclicIsRanked`): a definition by recursion on the links is a function that satisfies
its equation (`RecursionExists`), and what holds of a package whenever it holds of
those of lower rank holds of all (`RankInduction`).  `EarlyIs`,
`LateIs` and `FromIs` are these equations for the two passes and for the dates that
follow from one package's start.  *The days*: counting and adding working days are
inverse to each other up to days without work, and a search for them succeeds within
seven days for each (`Finds`, `FindsBefore`).  *A link*: a successor starts late enough
exactly if its predecessor finishes early enough (`LinkTurns`).  *The passes*: the
forward pass is an extreme over the predecessors (`ExtremesOver`), and a start meets the
deadline, with all that follows, exactly if it is no later than the latest start
(`MeetsIs`).  From that the backward pass and the float are questions about days alone
(`SlackTells`).  *Warnings*: the missing days are a count up to the day that is missed,
so one day less falls short of it.

A search that finds nothing within `MAX_LOOKAHEAD_DAYS` returns no date forward and its
first day backward, so the theorems say how far their searches go: seven times a
duration, a lag and a day more (`InReach`), a float and two days (`FloatsInReach`), a delay
(`LateWithinReach`).  The code's 3660 days are ten years of that.  `DatesAmongRules`
derives `DatesKeepTheirMeaning` for the plans of the run from the five theorems;
its bound of 2300 days is what the coarse estimate of their floats needs, and the
run finds the same with 28.

**A browser reads its own writes** (`PlanCache`).  For any set of queries and
mutations an entry implements `ReadYourWrites`: `Stage` maps an answer that misses a
covered write to *behind* or *flagged*, and `Pending` says that the write is committed
and unacknowledged.  An answer that misses only exempt writes (`unheard`, `crossed`) is
*excused*; the abstract entry says by itself when it may become so: if the write's own
answer was lost, or by a request (`crossing`) that the acknowledgement found running
while nothing was on display (`watched`).  That no flag is lifted by any other answer
which lacks the write needs to know of the requests under way:
`RunningRequestIsAccountedFor` says that one which misses a covered write belongs to a
write still pending.  An acknowledgement replaces the request under way where an answer
is on display, and what it finds otherwise is exempt (`CrossingFacts`, `InvalidateInv`).
With `OwnWriteIsFlagged` and `MissedOnlyIfFull` it is inductive, and each step of the
cache is then a step of the promise or a stutter (`StepImplementsPromise`).

**One session** (`BrowserSession`).  None of the three promises is inductive by itself.
Logouts are used in order, so that counting them gives the generation a refresh has to
compare itself with (`GenerationCounts`); a refresh under way knows no later one
(`KnowsItsLogouts`); a logout that overtook the refresh under way is still waiting
(`OnlyWaitersInterrupt`); and while no logout was the client's own or crossed a sign-in,
whoever has signed in has waited for all logouts and so for every refresh they
interrupted (`SignInsAwaitTheLast`).  The queue has one leader: the first 401 takes the
gate, and the landing or failing refresh gives it back in the step that empties the
queue (`QueueInv`).

**Screens send what they show.**  One invariant for each form, over what may be on its
way when something else happens.  `BookingForm`: a chosen resource is of the kind shown,
and a text that was not picked is either still under the keyboard or seen by a blur
timer that will unchoose it (`UnpickedIsUnchosen`).  `SettingsForm`: what nobody typed
is what the last answer said (`FormIsOfTheAnswer`).  `SkillMatrix`: while no change is
on its way the rows a read brings are those of the server (`RowsAreOfTheServer`); the
last change to end has asked for them.  `Proposals`: a preview stands for the stored
booking up to the fields others have changed since (`PreviewsStand`), there is one at a
time (`OnePreview`), and what was made, sent and lost of it adds up (`OutcomesAgree`).
In `FormsSpec` one part moves at a time, and the others keep their invariants because
they keep their variables (`FormsStep`).

**An editor keeps its record** (`Editors`).  The thirty-two editors differ in a table of
flags, and nothing of the induction looks at more of it than `Shape`: which combinations
of flags the table holds, read off editor by editor (`ShapeOf`).  The invariant says what
those flags buy.  Where Save is locked while a save is under way, only the last press is
(`OneUnderWay`).  A form that cannot be left stays until its own save has landed
(`PinnedUntilLanded`).  What a save sends was on the screen at its press, or later where
a save held back offline reads the screen again (`SavesAreOfTheScreen`).  A draft whose
save has succeeded is gone from the screen and in no later save, or its author has been
told of a failure (`DraftsAreUsedUp`), which is why one form makes one record.  The
bound on drafts is itself no invariant, since a success makes way for a new draft:
`DraftsAreBounded` counts those.

**Lists and charts hide nothing** (`Lists`, `PlanCharts`).  A table drops the ticks of
rows it no longer shows with every render, and a deleted folder gives way to the whole
tree for who deleted it: `TicksAreVisible` and `ScopeIsInTheTree` are inductive.  For
the charts the invariant adds that an answer which was never read has no rows, and
`FailureIsReported`: a first request for projects or groups that failed in the open
perspective is on the screen, because an error lasts as long as the perspective.  In `ScreensSpec` as in
`FormsSpec` one part moves at a time (`StepsOfParts`).  That links lead to their
problems (`LinksLead`) is a theorem about any set of conflicts, with three facts of the
tables as its hypothesis (`ConflictsAreOfTheirBookings`): the bookings of a conflict are
of its resource, ids are unique, and a booking has its project through its package.  The
cards (`CardsShow`) are one theorem for any finite set of conflicts with dates: the
fold that fills the buckets puts each conflict into the bucket of its resource,
whatever the order (`CardsAre`), so every problem the focus leaves is on exactly one card,
with its bookings and within its dates.  The samples of the run satisfy both hypotheses, and
`NothingIsHidden` combines them with lists and charts to `ScreensHideNothing`.

**Charts keep the day** (`CalendarDays`, `TimeAxis`, `FolderTree`).  Each part is a
theorem about any input, and `DaysAreKept` follows because a sample never changes.
*Days:* the first day of a year and that of the next differ by 365 or 366, and 400 years
have 146097 days, so that the guess `UTCFullYear` starts from is at most a year off; months fill
a year, and every number is spelled by exactly one date (`SpelledOnce`).  That spelled
dates are in the order of their anchors follows from the same bounds.  *Weeks:* the
Thursdays of a year so far are counted by a bijection with their numbers.  *Clock times:*
a clock with one change shows a time at no moment, at one or at two (`MomentsAre`), and the form
asks exactly in the last case; `ZoneLike` bounds offsets by the 20 hours the operators
look around in.  *Charts:* a column is at least a day long, so the columns reach past the
last bar after finitely many; positions are products by the same factor and compare
as days do.  *Rows:* the order by rank, for bars the sort tells apart (`RowsLike`).  *Folders:* what is
found in as many rounds as there are folders is all there is to find, since each
round that is not the last adds one (`RoundsReach`); and folders are a tree if no
nonempty set of them contains the parents of all its members.

**Induction over data.**  The library's induction theorems take an operator as a
parameter, which the provers cannot instantiate.  `FiniteFolds` has the same for
*sets*: to show a fact of every subset of a finite set, or of every prefix of a
sequence, one shows that the set of those that have it is all of them
(`SubsetInduction`, `SetInduction`, `PrefixInduction`), which rests on the least element
of a well-founded order.  From these follow that a fold exists and satisfies its
recursion (`FoldExists`, `AnyFoldExists`, `LeftFoldExists`), that it does not depend on
the order of its elements where the operation does not (`FoldsAgree`), and what a sum
is.  A sort is modelled by rank (`Ranks`), for which `RanksOrder` says that
every element has its place and places are in order; `SortSeq` of the library has a
definition the prover does not open.  Recursion along a rank is the same once more:
a function that satisfies the equation below an element is extended to it.  A closure
found in rounds is the least closed set, by cardinality (`RoundsReach`).

**Only model-checked.**  The liveness properties `StaleIsRepaired`, both
`EveryRequestEnds`, `DueJobsSucceed`, `RestoreEnds`, `PolledViewCatchesUp`,
`PagesComeToRest`, `EverybodyIsWhereTheyBelong` and `EverythingEnds`: TLAPS has
neither fairness nor `ENABLED`.  `DeadlocksNeedAMove` is an invariant that is not proved
yet.  Every other invariant and
action property of a passing run is a theorem.  The type invariants of the modules with a
theorem `Typed`, and `EditsTypeOK`, are part of the invariants proved and are not run
again.

## Where the code disagrees with what is said of it

Four runs end in a counterexample on purpose.  Each refutes a sentence of the
repository's documentation, of a docstring or of a comment; `PROJECT.json` quotes it.

| Run | What happens | Sentence |
|---|---|---|
| `recon_foreign` | A booking is moved to another package while its old package is being deleted; it was selected before and is deleted by id with it | `work_package_service.py:296`, "all associated assignments" |
| `recon_moves` | Two moves of one booking overlap; each refreshes the resource it loaded and the one it wrote, nobody the one in the middle | `docs/explanation/conflict-detection.md:131`, "check the affected resource after committing" |
| `group_moves` | A resource joins a sub-group of a group whose move has collected its resources; its own refresh sees the old tree, the move does not know it | `docs/explanation/conflict-detection.md:132`, "trigger reconciliation" |
| `screens_crossing` | The first load of the bookings is answered by the server, a booking is saved and acknowledged, and then that answer lands: the invalidation joined the load instead of replacing it, and the list without the booking passes for new | `AssignmentsPanel.tsx:170`, "keeping the old figures on screen while the write has landed is how somebody ends up acting on a number that is no longer true" |

Stale conflicts (`recon_moves`, `group_moves`) last until the next full check; a lost
booking stays lost; an answer that crossed a write stays until the next request for
the entry.

More such sentences are stated as formulas beside the models.  No run repeats their
counterexamples; naming one in the `.cfg` of its component shows it, and for the operators
of `ConflictSweep` and `PlanDates` adding one to the conjuncts of `MCPlanRules`.  Those
of `PlanCoherence` have no variables: an `ASSUME` in a module that
extends `PlanCoherence` evaluates them, with no `Queries` and no `Mutations` needed.

| Formula | Sentence | What happens |
|---|---|---|
| `ConflictReconciliation!SavedEditsAreReportedSaved` | `conflict-detection.md:152`, "the API still returns the successful result of the saved edit" | The absence routes commit and call `refresh_resources`, not `refresh_after_commit`: a failing check fails the saved edit |
| `FolderFiling!UnfilesOnlyDirectProjects` | `docs/explanation/architecture.md:94`, "Direct projects become unfiled" | A project is filed in another folder while its old folder is being deleted; it was selected before and is unfiled by id |
| `ConflictSweep!ReportsTheUnbookable` | `working_time_service.py:391`, "a holiday cancels a shift, and the small hours after midnight belong to the shift that began the evening before" | `conflict_service.py:433` loads the holidays from the first booked day on; a night shift that the holiday of the day before cancels still covers the small hours, and a booking in them is not reported |
| `ConflictSweep!OnLeaveIsOverAllocated` | `docs/explanation/capacity-model.md:104`, "Where availability is zero and demand is not, utilization is reported as over-allocated" | The ratio is set to 100, which is yellow, and no capacity warning is given; the stored conflict is right |
| `PlanDates!NegativeMeansUnreachable` | `critical_path.py:59`, "Negative means the deadline is already unreachable through this package" | A package one working day late whose earliest start is a day without work has float 0; that it is critical is right |
| `BrowserSession!RetryCarriesTheNewToken` | `api/client.ts:2`, "automatic 401 refresh-retry logic" | The retry runs before the render that has the new token, and the request interceptor overwrites its header with the old one |
| `BrowserSession!OnlyLoginSignsIn` | `AuthContext.tsx:187`, "Clear all auth state" | A login during the first load is undone by the bootstrap's failed refresh, which leaves the login's timer running: it signs the user in again without anybody's doing |
| `SignInPages!NeverShownOnAGuess` | `ProtectedRoute.tsx:34`, "should never be shown on a guess" | The cached setup status outlives the setup by up to thirty seconds |
| `PlanCoherence!PlanChangesReachTeamWeeks` | `queryClient.ts:205`, "every plan-changing mutation already invalidates `resources.all`" | Writes to packages do not, and the team week shows what is booked on them |
| `PlanCoherence!PlanChangesReachDiffs` | `queryClient.ts:266`, "invalidated by plan mutations" | Of the writes to bookings, packages and projects only the project's invalidate the diffs |
| `PlanCoherence!DashboardGoesWithDigest` | `queryClient.ts:280`, "both are invalidated by the same writes" | Most writes that invalidate the digest leave the dashboard out |
| `SettingsForm!UnreadSettingsAreKept` | `SettingsPage.tsx:88`, "saving re-reads the value server-side anyway" | A form that no answer has filled sends its defaults: a freeze is lifted, branding and retention are reset. A reload of `/settings` starts like that |
| `TimeAxis!BarsSitInTheirColumns` | `timeAxis.ts:39`, "the anchors bars are placed against" | On the month scale bars are placed by fractions of the whole span, columns are of one width; on the week scale columns begin on Mondays and bars are counted from the first day of all, so they are off by the days between |

Two of the backend have no formula.  `_replace_periods` (`conflict_service.py:556`)
replaces every row of a resource when any differs, where `conflict-detection.md:148`
says that unchanged conflicts retain their ids; the model keeps no ids of rows.
`run_due_jobs` (`scheduler.py:282`) takes `now` once per cycle, so a cycle that began
before midnight, or whose first job took that long, can start a daily job after
midnight and before the hour that `job_schedule.py:40` calls the one "after which the
job may run"; `OncePerPeriod` holds nevertheless.

### Met while modelling the rules

* Two partial updates that cross can leave a booking that ends before it starts, or one
  with the columns of both shapes (`crossed`).  A machine's booking that ends before it
  starts is never closed by `_infrastructure_overlaps`: from its start on it overlaps
  everything.
* The dashboard counts a machine with 100 percent for each booking that touches a day,
  also when they do not overlap in time; stored conflicts do not have those days.
* `day_booking_bounds` spans the gap between two shifts, so a booking of the whole day
  is reported for the gap; only tests call it.
* A preview may differ from what is stored on a first day whose day before is a holiday:
  its range begins elsewhere (see `ReportsTheUnbookable`).
* A request that changes the type and names dates of both shapes would be judged by the
  dates that are dropped afterwards; no screen sends that, and `RequestsAssumption`
  says so.

### Met while modelling the frontend

Weaknesses that the properties make room for, each in the condition its comment
names.  They are what a reader should know before relying on a property that
holds.

* **Session.**  A login waits only for the last logout; a late answer to a change of
  password can lift the obligation of the next user to change theirs.
* **Cache.**  Views that a write changes and its list does not name, so that they
  come right only by polling, by remounting after thirty seconds, or not at all:
  bookings do not reach my-plan, dashboard and the baseline diffs; packages those and
  the team week; capacity writes not planning, dashboard, Gantt and (absences)
  my-plan; week profiles not the schedule of a project; requirements and
  qualifications not the list of bookings; `saveResource` and `renameGroup` not the
  searches; `saveSettings` not the digest; `saveSite` not conflicts; nothing the audit
  log.  `queryClient.clear()` is never called, so a second user of a tab sees
  the first one's answers until they are asked for again.
  `PolledViewCatchesUp` is all that is checked of these, and only of polled views.  A
  request that crosses an acknowledged write (`crossed`) and a write whose answer was
  lost (`unheard`) leave an unflagged answer behind.
* **Editors.**  Leaving a dialog while its save is held offline sets the record to
  null in holidays, bookings, projects, packages and users: the edit is then sent as
  a creation.  Sites, week profiles, resources and templates keep the last record,
  but some read what is typed when the request leaves.  Packages and groups can be
  created twice.  Any success closes whichever form is open, except password,
  windows and lags: `AnswersEndTheirOwnForm` is asked only of editors whose form cannot
  be left or is kept open, so it does not speak of the booking dialog
  (`AssignmentsPanel.tsx:190`), where it would not hold.  Lags and names that are saved per keystroke or by Enter may
  overtake one another.  A second press on a confirmed deletion ends in a 404.
* **Booking form.**  A suggestion clicked within 200 ms of typing is undone by the
  blur timer; tabbing through the search field after picking one clears it; a
  suggestion or a switch of kind leaves the old name in the field, where
  `AutocompleteField.tsx:50` says "Sync input value when external value changes".
* **Proposals.**  A partial patch is merged with the booking of that moment, so after
  somebody else's change the result is not "the same immutable proposal that was
  previewed and will be saved" (`AssignmentChangeSummary.tsx:16`).  After a lost
  answer a second confirmation books an unmet requirement twice.  The readiness panel
  shows a loader on every poll and takes an open preview with it.
* **Settings.**  A logo change or another administrator's save fills the form anew and
  discards what was typed; `clearing` outlives the fields it belonged to, and a typed
  password is sent again when the new answer is identical.
* **Lists.**  Deleting the last user of page two leaves the page empty and the
  pagination hidden.  With type and id the audit history ignores offset and action,
  while the page buttons and the range move.  A folder deleted in another browser
  stays open without being shown.  The project filter of the bookings goes on filtering
  when its option went with the last booking of the project
  (`AssignmentsPanel.tsx:230`).  After a failed first load the bookings and the
  resources say that there are none, beside a notification that passes
  (`Lists!EmptyIsAnAnswer`, which no run checks); the projects keep an alert there, and
  the planning overview shows one instead of its sections.
* **Charts and problems.**  `GanttSection.tsx:106` and `ProjectsOverviewChart.tsx:74` say
  that counts are emptied on a failed load; the query keeps its data, so stale badges
  stay beside the text that they are unavailable.  An error of the page is cleared
  only by a switch of perspective.  The link "open in Gantt" of an overload has no
  effect in the project perspective.  The weekday pattern of a card takes its range
  from the first and last record of an answer that has no order.
* **Skill matrix.**  A second click on a cell whose row is not named yet asks the
  server to remove a temporary id.

## Abstractions

* In `ConflictReconciliation` a conflict is a slot of a resource whose bookings
  outnumber its capacity: what its properties tell apart is which bookings a stored
  period was made from.  Dates, percentages, minutes and windows are `ConflictSweep`'s.
* `ConflictSweep` keeps amounts in minutes where the code stores percentages of the
  normative day, a fixed multiple; percentages are whole numbers.  A machine's day has
  eight minutes in the instance, and a zone changes its offset once.
* `PlanDates` judges days by the default week profile, as its callers do, with a
  lookahead of 28 days; links across projects and cycles do not occur.
* `BookingEdits` leaves out the percentage, which is required of people and forbidden
  for machines like their dates, the package, permissions, and the refresh that follows
  (`ConflictReconciliation`).  A patch is one of a set; a request that fails may fail
  anywhere (`Refuse`).
* A refresh reads its working time in one step in `ConflictReconciliation` and in
  three in `GroupCalendars`, where the first of them takes the lock and reads
  default, profiles and bindings together.
* Row locks in `ConflictReconciliation` are those of updates and of package deletions.
  The deletion of one booking is one step with the locks on conflict rows it would
  hold while it waits for the booking; the rows of one `DELETE` are taken at once; a
  transaction that waits for another's uncommitted unique entry is not modelled.  A
  circle through such waits would be broken by the same detector, and
  `DeadlocksNeedAMove` does not speak of it.
* `CascadeCommit` calculates and stages the conflicts of all locked resources and
  commits in one step: it holds their locks from before.
* Where a transaction holds a lock that excludes all writers of what it reads,
  its reads are one step: the four counts of a group deletion, the two selections of
  a folder deletion.  `CreateGroup` and `MakeDefault` are one step each for the
  same reason.
* Requests that fail validation before they take a lock are not modelled; those
  that fail later are `Refuse` and `Abort`, which also stand for a lost connection.
* Time in `Scheduler` is counted in polling intervals on one clock that all
  processes share, and the interval of the conflict check is one of them.  A job
  takes as long as it likes.
* `GroupCalendars` has one resource type and one period of binding, refreshes the
  resources of a call in any order, and leaves out renames, sites, holidays, the
  minutes of a profile, deactivation and erasure.
* The query cache is one entry, one own write at a time, and foreign writes; keys are
  kept to the part before their parameters, because no invalidation of the program
  carries one.  Garbage collection is a step, the 30 seconds of `staleTime` another.
* In `BrowserSession` a token or cookie is the number of the answer that brought it;
  what the server checks of either is whether it is live, or was rotated out and is
  still within its grace window, which may be at any time.  A 401 is an expired token.
* `Editors`, `BookingForm` and `SettingsForm` group fields that are treated alike;
  React effects that run before the next event are part of the action.
* `CalendarDays` counts days and hours; a time zone is a change of offset at one hour.
* Row ids that are deleted are not used again.  `MaxRequests`, `MaxEdits`,
  `MaxFailures` and `MaxFaults` bound what is started and what goes wrong, `MaxVisits`,
  `MaxTurns`, `MaxDrafts`, `MaxPresses`, `MaxIssues`, `MaxLogouts`, `MaxForeign`,
  `MaxTries`, `MaxOthers`, `MaxSaves` and `MaxChanges` what a visitor does.

PostgreSQL itself is modelled from how the code uses it: statements see what is
committed when they start; advisory transaction locks and row locks are released by
commit and rollback; `FOR UPDATE` waits for `FOR KEY SHARE` and the reverse; a foreign
key takes `FOR KEY SHARE` on the row it refers to; an `UPDATE` locks its row before
its foreign keys look up theirs.  The deadlock detector is `BreakDeadlock` in
`ConflictReconciliation`, where a move between packages that are deleted together needs
it; the dependency graph of `plan_graphs` has none, and `EveryRequestEnds` shows there
that its operations do not need one.

## Not modelled

* **Sign-in on the server, tokens and OIDC**: left out for good, as are users and
  permissions but for what the browser's session and pages see of them.
* **Read-only views of the backend** (Gantt, reports, team week, suggestions): they
  change no state.  `PlanViews` has the tables each reads; what dashboard, overview and
  preview calculate is in `ConflictSweep` and `PlanDates`.
* **Mail and the digest**: output.  **Migrations, scripts and CI**: run alone.
* **Frontend**: the help articles, whose prose has no behaviour (their slugs differ by
  language, so switching it on an open article ends in "not found"); the dashboard
  page, which only draws; drawing, colours, sorting and wording everywhere; the
  ranking of suggestions; the date and time inputs of the booking form; preferences
  in `localStorage`, which each tab writes as a whole.
* **Compositions tried and dropped as too large for TLC**: the session under the
  cache.

The parts of the backend without a module yet are in the plan.

## Plan

In the order of what matters most; each step is a module with its instance, its
properties and, where it says so, its theorems.  Runs are kept few: a new passing run
takes the place of a violated one or joins another instance, as `plan_graphs`,
`plan_rules`, `screens` and `forms` do.

1. **Erasure and orphans.**  `resource_service.erase_personal_resource` deletes
   every planning row that refers to a person, who is referred to without a foreign
   key; bookings and absences can arrive meanwhile.  Hazard: rows that refer to
   nobody.  Joins the resources of `GroupCalendars` with the bookings of
   `ConflictReconciliation`.
2. **Derived conflicts as an abstract specification**: conflicts follow the plan,
   with lag, which `ConflictReconciliation` and the refresh of `GroupCalendars` both
   implement (`INSTANCE ... WITH`).
3. **Settings and users**: the singleton row that two first requests create, the last
   administrator; `is_due` and the customer of a project up its folders as algorithms.
4. **Baselines and audit**: snapshot and difference, retention next to a reader, the
   flush hooks.
5. **CSV restore**: order of locks, order of rows (`_parent_order`), replacement of
   tables next to planning writes.
6. **Sites and holidays** in `GroupCalendars`, and its lock order under fairness.

Theorems to come: the refinement of step 2; no orphan for the corrected form of step 1;
`DeadlocksNeedAMove`, from the order in which each transaction takes its locks.
