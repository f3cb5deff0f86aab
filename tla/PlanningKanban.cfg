SPECIFICATION Spec
CONSTANTS
  Procs = {p1, p2, p3}
  NCards = 3
  Writers = {2}
  MaxFence = 3
  MaxUp = 2
SYMMETRY Symmetry
INVARIANTS
  TypeOK
  StateLockHeld
  WriterSerialised
  AncestorsGated
  WriterFreed
PROPERTIES
  HalfSaveFreezes
  LeaseEndsRightly
  ImplementsGates
CHECK_DEADLOCK FALSE
