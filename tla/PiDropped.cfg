SPECIFICATION Spec
CHECK_DEADLOCK FALSE
CONSTANTS
  MaxIds = 2
  MaxRuntimes = 2
  MaxFaults = 0
  PerDrain = 1
  NoId = NoId
  NoRuntime = NoRuntime
INVARIANTS
  ClaimedIsInjected
