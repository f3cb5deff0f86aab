CONSTANTS
  NumStages = 2
  Decisions = {"retry", "block"}
  MaxStarts = 3
  Payloads = {"inline"}
  MaxRecords = 4
  MaxMinted = 4
  MaxEffort = 7
  h1 = h1
  h2 = h2
  Hosts = {h1, h2}
SPECIFICATION Spec
CONSTRAINT Bounded
INVARIANTS DecisionsBound
CHECK_DEADLOCK FALSE
