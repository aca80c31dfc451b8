SPECIFICATION Spec
CONSTANTS
  s1 = s1
  s2 = s2
  c1 = c1
  c2 = c2
  p1 = p1
  p2 = p2
  l1 = l1
  Sessions = {s1, s2}
  Cwds = {c1}
  Registrars = {p1, p2}
  Lookers = {l1}
  Kills = TRUE
  NoCwd = NoCwd
  NoAddress = NoAddress
  NoSession = NoSession
SYMMETRY Alike
INVARIANTS
  IInv
  RegisteredIsIndexed
  ReceiverHasAddress
  LookupExact
