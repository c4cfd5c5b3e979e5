SPECIFICATION Spec
CONSTANTS
  PerMinute = 50
  Burst = 2
  TicksPerSecond = 2
  Clients = {c1, c2, c3}
  Costs = {1}
  MaxClients = 2
  MaxTime = 7
  NoAnswer = NoAnswer
  NoPromise = NoPromise
SYMMETRY Symmetry
INVARIANTS
  BucketsBounded
PROPERTIES
  NothingIdleIsKept
  RetryIsHonoured
  ImplementsIdeal
