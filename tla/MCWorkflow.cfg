SPECIFICATION FairSpec
CONSTANTS
  a = a
  b = b
  x = x
  y = y
  z = z
  main = main
  ai = ai
  Window = {main, ai}
  Workflow = {a, b}
  Step = {x, y, z}
  Forest <- MCForest
  Definitions <- MCDefinitions
  Holds <- EvaluateCondition
  MaxTurns = 16
  MaxChainDepth = 2
  MaxAct = 1
INVARIANTS
  TypeOK
  DependenciesFirst
  ConditionsMean
PROPERTIES
  CascadeEnds
\* When all runs have ended the user may do nothing more.
CHECK_DEADLOCK FALSE
