SPECIFICATION ScreensSpec
CONSTANTS
  Queries <- Views
  Mutations <- CacheChanges
  MaxVisits = 3
  Records = {r1, r2}
  MaxTurns = 2
  MaxDrafts = 3
  MaxPresses = 2
  Items = {i1, i2}
  Kinds = {k1, k2}
  Folders = {f1}
  ChartProjects = {p1}
  ChartGroups = {g1}
INVARIANTS
  ScreensTypeOK
  ChartsKeepTheDay
  ScreensHideNothing
PROPERTIES
  KeepsThePromise
  PolledViewCatchesUp
  PagesComeToRest
  EverybodyIsWhereTheyBelong
  EditorsKeepTheirRecord
CHECK_DEADLOCK FALSE
