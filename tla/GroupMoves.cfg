SPECIFICATION Spec
CONSTANTS
  g1 = g1
  g2 = g2
  g3 = g3
  r1 = r1
  p1 = p1
  p2 = p2
  c1 = c1
  c2 = c2
  Groups = {g1, g2, g3}
  Resources = {r1}
  Profiles = {p1, p2}
  Clients = {c1, c2}
  Top = top
  NoProfile = noProfile
  Unbooked = unbooked
  Unborn = unborn
  Gone = gone
  Free = free
  Nothing = nothing
  InitialTrees <- Beside
  InitialMembers <- Outside
  InitialBindings <- BoundBeside
  MaxRequests = 2
  MaxFailures = 1
INVARIANT StaleIsBeingChecked
CHECK_DEADLOCK FALSE
