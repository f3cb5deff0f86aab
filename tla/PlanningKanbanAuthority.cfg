SPECIFICATION Spec
CONSTANTS
  Procs = {p1, p2, p3}
  NCards = 3
  Writers = {2}
  MaxFence = 3
  MaxUp = 2
SYMMETRY Symmetry
PROPERTY NonRunningNeedsCoordinator
CHECK_DEADLOCK FALSE
