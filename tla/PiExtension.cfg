SPECIFICATION FairSpec
CHECK_DEADLOCK FALSE
CONSTANTS
  MaxIds = 3
  MaxRuntimes = 2
  MaxFaults = 1
  PerDrain = 2
  NoId = NoId
  NoRuntime = NoRuntime
INVARIANTS
  IInv
  StoppedIsQuiet
PROPERTIES
  ShownInOrder
  PendingIsTaken
  WatcherComesBack
