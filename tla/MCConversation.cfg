SPECIFICATION MCSpec
CONSTANTS
  main = main
  ai = ai
  t1 = t1
  t2 = t2
  t3 = t3
  Window = {main, ai}
  Sidebar = {ai}
  Turn = {t1, t2}
  Old = Old
  Rename = {r1}
  SoftSave = {f1}
  r1 = r1
  f1 = f1
  MaxShown = 2
  MaxAct = 3
  NoTurn = NoTurn
  NoWindow = NoWindow
SYMMETRY MCSymmetry
INVARIANT TypeOK
PROPERTY SavedTurnsStay
\* Every turn is saved and the user does nothing more.
CHECK_DEADLOCK FALSE
