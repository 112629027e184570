\* Three calls on two texts, two servers, a pipe of two messages.
SPECIFICATION FairSpec
CONSTANTS
  a = a
  b = b
  None = None
  Calls = {1, 2, 3}
  Texts = {a, b}
  Exact <- FromAscii
  MaxServers = 2
  MaxWire = 2
INVARIANTS
  TypeOK
  BufferKnown
  NoOrphan
PROPERTIES
  CallsReturn
\* The system stops when the calls and the servers of the bound are used up.
CHECK_DEADLOCK FALSE
