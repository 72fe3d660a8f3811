SPECIFICATION FormsSpec
CONSTANTS
  Requests = {c1, c2}
  MaxIssues = 2
  MaxLogouts = 2
  People = {p1, p2}
  Machines = {m1}
  Projects = {a, b}
  Value = {0, 1}
  MaxForeign = 2
  MaxTries = 2
  MaxOthers = 1
  MaxSaves = 1
  Attributes = {a1, a2}
  HeldFirst = {a1}
  MaxChanges = 3
INVARIANTS
  FormsTypeOK
  QueueIsServed
  LogoutFollowsTheRotation
  SessionIsKeptAlive
PROPERTIES
  EverythingEnds
  ScreensSendWhatTheyShow
CHECK_DEADLOCK FALSE
