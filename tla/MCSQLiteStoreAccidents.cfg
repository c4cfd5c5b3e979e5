SPECIFICATION FairSpec
CONSTANTS
  Reviews = {1}
  Scores = {1}
  Times = {1}
  Moderators = {m1}
  Outcomes = {upheld}
  NoOne = NoOne
  NoItem = NoItem
  Workers = {w1, w2}
  Batches <- OneBatch
  ClaimLimits = {1}
  Pages <- SecondPage
  NoWorker = NoWorker
  Anyone = Anyone
  MaxLog = 2
  Accidents = {"row lost", "row edited"}
INVARIANTS
  DamageStaysVisible
PROPERTIES
  EveryCallEnds
