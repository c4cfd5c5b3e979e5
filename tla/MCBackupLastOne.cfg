SPECIFICATION Spec
CONSTANTS
  Runs = {timer, operator}
  Keep = 1
  Pieces = 2
  MaxVersion = 2
  Times = {1, 2}
  NoFile = NoFile
SYMMETRY Symmetry
INVARIANTS
  NeverWithoutBackup
