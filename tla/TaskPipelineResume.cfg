SPECIFICATION Spec
CONSTANTS
  Files = {f, g}
  NewFiles = {g}
  Absent = Absent
  Base = Base
  AgentContents = {x}
  HumanContents = {h}
  MaxCycles = 2
  MaxRounds = 1
  MaxStarts = 2
PROPERTY
  RunWorkCommitted
CHECK_DEADLOCK FALSE
