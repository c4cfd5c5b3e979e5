SPECIFICATION Spec
CONSTANTS
  Runs = {timer, operator}
  Keep = 2
  Pieces = 2
  MaxVersion = 2
  Times = {1, 2, 3, 4}
  NoFile = NoFile
SYMMETRY Symmetry
INVARIANTS
  PublishedIsVerified
  NeverWithoutBackup
PROPERTIES
  RetentionBounded
