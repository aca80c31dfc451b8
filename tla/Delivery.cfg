SPECIFICATION FairSpec
CONSTANTS
  m1 = m1
  m2 = m2
  h1 = h1
  h2 = h2
  c1 = c1
  Msgs = {m1, m2}
  Hooks = {h1, h2}
  Clis = {c1}
  Commands = {"push", "receive", "take", "wait", "waitTake", "ack"}
  Agents = {"claude", "codex"}
  NoBlocks = {TRUE, FALSE}
  Max = 2
  Limit = 2
  MaxFaults = 1
  Nobody = Nobody
INVARIANTS
  IInv
  NothingSwallowed
  ShownOnce
  DrainsWhatItSaw
  AddressTrue
PROPERTIES
  TurnEnds
  NobodyStarved
