SPECIFICATION ScreensSpec
CONSTANTS
  Queries <- BookingViews
  Mutations <- BookingSave
  MaxVisits = 3
  Records = {r1, r2}
  MaxTurns = 2
  MaxDrafts = 3
  MaxPresses = 2
  Items = {i1, i2}
  Kinds = {k1, k2}
  Folders = {f1}
  ChartProjects = {p1}
  ChartGroups = {g1}
INVARIANT
  AcknowledgedWritesShow
CHECK_DEADLOCK FALSE
