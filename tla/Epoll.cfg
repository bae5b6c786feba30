SPECIFICATION EpollFairSpec
CONSTANTS
  c1 = c1
  c2 = c2
  c3 = c3
  f1 = f1
  f2 = f2
  Clients = {c1, c2, c3}
  Fds = {f1, f2}
  Free = Free
  Listen = Listen
  Cap = 2
  MaxMsgs <- Msgs
INVARIANTS
  BatchNeverBlocks
PROPERTIES
  EpollImplementsEcho
  EpollServes
CHECK_DEADLOCK FALSE
