SPECIFICATION Spec
CONSTANTS
  Procs = {p1, p2}
  NStages = 2
  Inputs = {i, j}
  Outputs = {a, b}
  MaxAttempts = 2
SYMMETRY Symmetry
PROPERTY LiveHistoryStaysReadable
CHECK_DEADLOCK FALSE
