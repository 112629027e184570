SPECIFICATION MCSpec
CONSTANTS
  p1 = p1
  p2 = p2
  i1 = i1
  boot = boot
  c1 = c1
  Plugin = {p1, p2}
  Id = {i1}
  Loop = {boot}
  Call = {c1}
  Startup = {p1}
  Lazy <- MCLazy
  MaxAttempt = 7
  MaxAct = 3
  NoPlugin = NoPlugin
  NoId = NoId
INVARIANTS
  TypeOK
  StubNeverRuns
  CallsHaveWorker
  NoStuckActivating
PROPERTIES
  BootstrapEnds
\* Every task ends, or the user is asked nothing more.
CHECK_DEADLOCK FALSE
