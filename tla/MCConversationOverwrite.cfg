\* The documented promise: no silent overwrite.
SPECIFICATION Spec
CONSTANTS
  main = main
  ai = ai
  t1 = t1
  t2 = t2
  t3 = t3
  Window = {main, ai}
  Sidebar = {ai}
  Turn = {t1}
  Old = Old
  Rename = {}
  SoftSave = {f1}
  r1 = r1
  f1 = f1
  MaxShown = 3
  MaxAct = 2
  NoTurn = NoTurn
  NoWindow = NoWindow
PROPERTY NoSilentOverwrite
CHECK_DEADLOCK FALSE
