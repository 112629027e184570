\* The comment of ResumeGoal: it re-enters the loop.
SPECIFICATION WorkSpec
CONSTANTS
  Runs = {1, 2}
  MaxIterations = 3
  MaxCost = 1
  RoundCost = 1
  CheckpointInterval = 2
  MaxErrors = 2
  MaxMarks = 0
  s1 = s1
  s2 = s2
  s3 = s3
  None = None
  Steps = {s1, s2, s3}
  Calls = {1, 2, 3}
INVARIANT ResumedIsDriven
