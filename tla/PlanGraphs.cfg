SPECIFICATION GraphsSpec
CONSTANTS
  c1 = c1
  c2 = c2
  Clients = {c1, c2}
  Packages = {1, 2, 3}
  Lags = {0, 1}
  InitialLinks <- OneLink
  Free = free
  NoLink = nolink
  MaxRequests = 3
  s1 = s1
  s2 = s2
  f1 = f1
  f2 = f2
  f3 = f3
  f4 = f4
  p1 = p1
  p2 = p2
  Folders = {f1, f2, f3, f4}
  Projects = {p1}
  Filers = {s1, s2}
  Top = top
  Unfiled = unfiled
  Unborn = unborn
  Gone = gone
  NoFiler = nobody
  Nothing = nothing
  InitialTrees <- Trees
  InitialFilings <- FiledOnce
  MaxFilings = 3
INVARIANTS NoCycle FoldersNoCycle EveryPurgedLinkIsAudited ChecksStayTrue
PROPERTIES ImplementsPlan EveryRequestEnds DeletionKeepsTheTree
CHECK_DEADLOCK FALSE
