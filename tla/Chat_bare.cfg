SPECIFICATION Spec
CONSTANTS
  h1 = h1
  h2 = h2
  p1 = p1
  p2 = p2
  Hosts = {h1, h2}
  Ports = {p1, p2}
  Endpoints <- Clients
  NoUser = NoUser
  Kinds <- AllKinds
  MaxLines = 2
  MaxRouted = 2
INVARIANT
  EndlessLoop
CHECK_DEADLOCK FALSE
