SPECIFICATION Spec
CONSTANTS
  m1 = m1
  c1 = c1
  c2 = c2
  Sessions = {1, 2}
  Custom = {}
  Cwds = {c1, c2}
  Msgs = {m1}
  To <- MCTo
  Limits = {0, 1}
  MaxTime = 2
  MaxChanges = 4
  AllDirs = AllDirs
SYMMETRY Alike
INVARIANTS
  IInv
  CountsMissNothing
  ListedWhereItIs
  NewestAreKept
