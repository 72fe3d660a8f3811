SPECIFICATION Spec
CONSTANTS
  a1 = a1
  a2 = a2
  a3 = a3
  a4 = a4
  w1 = 1
  w2 = 2
  s1 = s1
  s2 = s2
  h1 = h1
  h2 = h2
  Checker = checker
  Unborn = unborn
  Gone = gone
  Free = free
  Nothing = nothing
  Resources = {1, 2}
  Assignments = {a1, a2, a3, a4}
  Packages = {1, 2}
  Deletions = {{1}, {2}, {1, 2}}
  Slots = {s1}
  Capacities = {0, 1}
  InitialCapacities <- OneCarries
  Handlers = {h1, h2}
  InitialPlans <- PairsAndCrosses
  Wishes <- AnyRow
  MaxRequests = 2
  MaxFailures = 1
SYMMETRY HandlerSymmetry
INVARIANTS StaleOnlyIfOwed DeadlocksNeedAMove CascadeKnowsEveryBooking
PROPERTY ConflictsVanishForAReason
