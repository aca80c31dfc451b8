SPECIFICATION Spec
CONSTANTS
  p1 = p1
  p2 = p2
  t1 = t1
  t2 = t2
  a1 = a1
  w1 = w1
  null = null
  Ids <- MCFewIds
  NoId = null
  Burst = 2
  MaxMs = 1
  MaxCrashes = 1
  Producers = {p1}
  Takers = {t1, t2}
  Ackers = {a1}
  Waiters = {}
PROPERTY AckNotFoundMeansAbsent
