SPECIFICATION Spec
CONSTANTS
  Channel = {0, 1}
  Node = {7, 8}
  MaxUpdates = 3
  Runner = {r1, r2}
SYMMETRY RunnerSymmetry
INVARIANTS
  TypeOK
  NoneSkipped
  UpToDate
CHECK_DEADLOCK FALSE
