SPECIFICATION FairSpec
CONSTANTS
  c1 = c1
  c2 = c2
  f1 = f1
  f2 = f2
  Free = Free
  Listen = Listen
  Clients = {c1, c2}
  Fds = {f1, f2}
  Kinds <- AnyKind
  Settings <- Both
  MaxReqs = 2
INVARIANTS
  NoLostEdge
  RepliesInOrder
  ServerSurvives
PROPERTIES
  CalmImplementsEcho
  EveryRequestAnswered
CHECK_DEADLOCK FALSE
