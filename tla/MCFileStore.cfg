SPECIFICATION Spec
CONSTANTS
  Reviews = {1, 2}
  Scores = {1, 2}
  Times = {1}
  Moderators = {m1}
  Outcomes = {upheld}
  NoOne = NoOne
  NoItem = NoItem
  Workers = {w1, w2}
  Operators = {}
  Batches <- MCBatches
  Destinations = {}
  ClaimLimits = {1}
  NoWorker = NoWorker
  NoAnchor = NoAnchor
  MaxLog = 4
SYMMETRY Symmetry
INVARIANTS
  QueuedOnlyIfLogged
  AnchorDescribesAPrefix
PROPERTIES
  InterruptedLogIsNotExtended
  VerdictsAreKept
