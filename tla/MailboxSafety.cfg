SPECIFICATION Spec
CONSTANTS
  p1 = p1
  p2 = p2
  t1 = t1
  t2 = t2
  a1 = a1
  w1 = w1
  null = null
  Ids <- MCIds
  NoId = null
  Burst = 2
  MaxMs = 1
  MaxCrashes = 1
  Producers = {p1, p2}
  Takers = {t1, t2}
  Ackers = {a1}
  Waiters = {}
SYMMETRY Alike
INVARIANTS
  NoPartialBody
  ExclusiveClaim
  StrandedOnlyByCrash
  IInv
PROPERTIES
  OldestFirst
  KeepsPromise
