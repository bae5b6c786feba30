SPECIFICATION ServerSpec
CONSTANTS
  w1 = w1
  w2 = w2
  c1 = c1
  c2 = c2
  c3 = c3
  f1 = f1
  f2 = f2
  Workers = {w1, w2}
  Main = Main
  NoOne = NoOne
  NoTask = NoTask
  Free = Free
  Tasks <- MCTasks
  Clients = {c1, c2, c3}
  Patient = {}
  Fds = {f1, f2}
  LineLens <- UpToTwo
  MaxUnits = 2
SYMMETRY Symmetry
INVARIANTS
  FdOwned
  EchoInOrder
PROPERTY
  ImplementsEcho
CHECK_DEADLOCK FALSE
