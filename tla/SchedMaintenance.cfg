SPECIFICATION FairSpec
CONSTANTS
  check = check
  audit = audit
  Workers = {v, w}
  Restorer = restorer
  Jobs = {check, audit}
  ConflictCheck = check
  JobOrder <- CheckFirst
  RestoreOrder <- CheckLast
  SlotsPerDay = 2
  LastDay = 1
  MaintenanceHours = {1}
  Free = free
  Never = never
  MaxEdits = 1
  MaxFaults = 1
INVARIANTS JobsExclusive
PROPERTIES OncePerPeriod QuietAfterRestore DueJobsSucceed RestoreEnds
