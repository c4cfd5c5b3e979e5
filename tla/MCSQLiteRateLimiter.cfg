SPECIFICATION Spec
CONSTANTS
  PerMinute = 40
  Burst = 1
  TicksPerSecond = 1
  Workers = {w1, w2}
  Clients = {1, 2, 3}
  Costs = {1}
  MaxClients = 2
  MaxTime = 3
  NoWorker = NoWorker
  NoRow = NoRow
  NoPromise = NoPromise
SYMMETRY Symmetry
INVARIANTS
  NeverOverGranted
  RowsBounded
  RetryIsHonoured
