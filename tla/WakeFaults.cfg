SPECIFICATION Spec
CONSTANTS
  n1 = n1
  n2 = n2
  r1 = r1
  a1 = a1
  MaxIds = 2
  MaxNotices = 2
  MaxTime = 1
  MaxFaults = 1
  Notifiers = {n1}
  Autos = {}
  Agents = {a1}
  Limit = 1
  Uncertain = 1
  Drain = 1
  Receipts = {"queued", "written", "deferred"}
  Faults = {"fails", "uncertain", "write", "unread", "crash", "dies"}
  Protocols = {TRUE, FALSE}
  Native = {TRUE, FALSE}
  Nobody = Nobody
  NoId = NoId
  NoNotice = NoNotice
  Legacy = Legacy
INVARIANTS
  IInv
PROPERTIES
  ReceivedMeansDrained
  NotFoundMeansUnknown
