SPECIFICATION FairSpec
CONSTANTS
  c1 = c1
  c2 = c2
  c3 = c3
  f1 = f1
  f2 = f2
  Clients = {c1, c2, c3}
  Fds = {f1, f2}
  Free = Free
  Listen = Listen
  Empty = Empty
  Size = 4
  Cap = 2
  MaxMsgs <- Msgs
INVARIANTS
  NeverBlocks
PROPERTIES
  ImplementsEcho
  ServedAndReleased
CHECK_DEADLOCK FALSE
