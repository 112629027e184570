\* One server, two connects, two other calls.
SPECIFICATION FairSpec
CONSTANTS
  n1 = n1
  c1 = c1
  c2 = c2
  t1 = t1
  t2 = t2
  None = None
  Name = {n1}
  Client = {c1, c2}
  Other = {t1, t2}
INVARIANTS
  TypeOK
  OwnAnswer
  NoStray
PROPERTY
  AllCallsReturn
\* The calls of the bound have returned.
CHECK_DEADLOCK FALSE
