SPECIFICATION FairSpec
CONSTANTS
  c1 = c1
  c2 = c2
  Clients = {c1, c2}
  Listen = Listen
  Nobody = Nobody
  MaxKills = 2
INVARIANTS
  OneServes
  ChildrenReaped
  OwnConnection
PROPERTIES
  NobodyQueues
  NothingRemains
  ComesBack
CHECK_DEADLOCK FALSE
