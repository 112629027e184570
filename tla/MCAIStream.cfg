\* Two windows, two sends, one chunk per stream, events at most one behind.
SPECIFICATION FairSpec
CONSTANTS
  main = main
  companion = companion
  None = None
  Windows = {main, companion}
  Calls = {1, 2}
  MaxChunks = 1
  MaxLag = 1
INVARIANTS
  TypeOK
  LiveIsStoppable
  QuietMeansSendable
PROPERTIES
  ImplementsSlot
  SendEventuallyEnabled
\* The system stops when the sends of the bound are used up.
CHECK_DEADLOCK FALSE
