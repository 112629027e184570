\* Two runs, three rounds, a checkpoint every second round; three steps,
\* three executions.
SPECIFICATION WorkSpec
CONSTANTS
  Runs = {1, 2}
  MaxIterations = 3
  MaxCost = 1
  RoundCost = 1
  CheckpointInterval = 2
  MaxErrors = 2
  MaxMarks = 2
  s1 = s1
  s2 = s2
  s3 = s3
  None = None
  Steps = {s1, s2, s3}
  Calls = {1, 2, 3}
INVARIANTS
  TypeOK
  BudgetBound
  RunningIsDriven
  CheckpointsAreHistory
  RunsOnce
  CompletedIsSettled
PROPERTIES
  RunsReturn
  WorkIsKept
