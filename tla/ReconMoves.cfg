SPECIFICATION Spec
CONSTANTS
  a1 = a1
  a2 = a2
  a3 = a3
  a4 = a4
  w1 = 1
  w2 = 2
  s1 = s1
  s2 = s2
  h1 = h1
  h2 = h2
  Checker = checker
  Unborn = unborn
  Gone = gone
  Free = free
  Nothing = nothing
  Resources = {1, 2, 3}
  Assignments = {a1, a2, a3}
  Packages = {1, 2}
  Deletions = {{1}, {2}, {1, 2}}
  Slots = {s1}
  Capacities = {1}
  InitialCapacities <- AnyCapacities
  Handlers = {h1, h2}
  InitialPlans <- SpreadPlan
  Wishes <- AnyRow
  MaxRequests = 2
  MaxFailures = 0
INVARIANT EditsCheckAffected
