SPECIFICATION Spec
CONSTANTS
  Reviews = {1, 2}
  Scores = {1, 2}
  Times = {1}
  Moderators = {m1}
  Outcomes = {upheld}
  NoOne = NoOne
  NoItem = NoItem
  Workers = {w1}
  Operators = {}
  Batches <- OneBatch
  Destinations = {}
  ClaimLimits = {1}
  NoWorker = NoWorker
  NoAnchor = NoAnchor
  MaxLog = 4
INVARIANTS
  InterruptedAppendIsReported
