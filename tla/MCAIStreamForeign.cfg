\* The same instance; the windows are promised text of their own streams only.
SPECIFICATION Spec
CONSTANTS
  main = main
  companion = companion
  None = None
  Windows = {main, companion}
  Calls = {1, 2}
  MaxChunks = 1
  MaxLag = 1
INVARIANT OwnTextOnly
CHECK_DEADLOCK FALSE
