\* One server of the instance is enough for an increment that is not exact.
SPECIFICATION Spec
CONSTANTS
  a = a
  b = b
  None = None
  Calls = {1, 2, 3}
  Texts = {a, b}
  Exact <- FromAscii
  MaxServers = 1
  MaxWire = 2
INVARIANTS
  SyncedIsKnown
CHECK_DEADLOCK FALSE
