CONSTANTS
  NumStages = 2
  Decisions = {"retry", "block"}
  MaxStarts = 2
  Payloads = {"inline"}
  MaxRecords = 4
  MaxMinted = 4
  MaxEffort = 7
  h1 = h1
  Hosts = {h1}
SPECIFICATION Spec
CONSTRAINT Bounded
INVARIANTS TypeOK LiveFence LiveSerials PositionsJournalledOnce DecisionsBound
CHECK_DEADLOCK FALSE
