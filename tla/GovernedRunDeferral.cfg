CONSTANTS
  NumStages = 13
  MaxFixerIterations = 1
  MaxCommands = 3
  MaxCrashes = 1
  MaxReports = 0
SPECIFICATION RunSpec
INVARIANTS DeferralWritten
CHECK_DEADLOCK FALSE
