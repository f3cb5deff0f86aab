CONSTANTS
  NumStages = 3
  MaxRecords = 5
  MaxSerial = 4
  States = {"completed", "cursor-opened", "reported"}
SPECIFICATION Spec
CONSTRAINT Bounded
INVARIANTS TypeOK Restorable FencingOrder RestartAgrees Inv
CHECK_DEADLOCK FALSE
