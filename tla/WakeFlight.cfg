SPECIFICATION Spec
CONSTANTS
  n1 = n1
  n2 = n2
  r1 = r1
  a1 = a1
  MaxIds = 2
  MaxNotices = 2
  MaxTime = 1
  MaxFaults = 2
  Notifiers = {n1, n2}
  Autos = {r1}
  Agents = {a1}
  Limit = 1
  Uncertain = 1
  Drain = 1
  Receipts = {"queued"}
  Faults = {"fails", "uncertain", "write", "unread", "crash"}
  Protocols = {TRUE}
  Native = {TRUE}
  Nobody = Nobody
  NoId = NoId
  NoNotice = NoNotice
  Legacy = Legacy
SYMMETRY Alike
INVARIANTS
  IInv
  NoLostWake
  QueuedHasHint
  NoOrphanedHint
PROPERTIES
  OneHintAtATime
