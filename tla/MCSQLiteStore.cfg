SPECIFICATION Spec
CONSTANTS
  Reviews = {1, 2}
  Scores = {1, 2}
  Times = {1}
  Moderators = {m1, m2}
  Outcomes = {upheld}
  NoOne = NoOne
  NoItem = NoItem
  Workers = {w1, w2}
  Batches <- MCBatches
  ClaimLimits = {1}
  Pages <- MCPages
  NoWorker = NoWorker
  Anyone = Anyone
  MaxLog = 3
  Accidents = {}
SYMMETRY Symmetry
INVARIANTS
  TypeOK
  HeadMatchesLog
  LoggedAndQueuedTogether
  NoFalseAlarm
  PageAgreesWithCount
PROPERTIES
  ItemsOnlyMoveForward
  ClaimIsNotStolen
  ClaimTakesTheFront
  ImplementsLedger
