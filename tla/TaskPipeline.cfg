SPECIFICATION FairSpec
CONSTANTS
  Files = {f, g}
  NewFiles = {g}
  Absent = Absent
  Base = Base
  AgentContents = {x}
  HumanContents = {h}
  MaxCycles = 2
  MaxRounds = 1
  MaxStarts = 2
INVARIANT
  TypeOK
PROPERTIES
  CommitEarned
  HumanWorkSurvives
  ResumesRecordedWork
  DoneIsEarned
  RunEnds
CHECK_DEADLOCK FALSE
