SPECIFICATION Spec
CONSTANTS
  t1 = t1
  t2 = t2
  t3 = t3
  b1 = b1
  b2 = b2
  a1 = a1
  a2 = a2
  d1 = d1
  NoDay = NoDay
  NoAge = NoAge
  NoLabel = NoLabel
  Nothing = Nothing
  Reviews <- MCReviews
  Texts <- MCTexts
  Alike <- MCAlike
  Bands <- MCBands
  ExactMaxBatch = 3
  MaxPartners = 1
  BucketWindow = 3
  Submissions <- MCSubmissions
  Policies <- MCPolicies
  MaxItems = 3
  TestAuthors = {a2}
  Thresholds <- MCThresholds
  Objectives = {"precision_at_recall", "f1", "youden"}
  RecallFloor <- MCRecallFloor
INVARIANTS
  MissedOnlyBesideFullOnes
  FirstValidRowDecides
  ThresholdRestsOnTraining
