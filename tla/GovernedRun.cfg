CONSTANTS
  NumStages = 13
  MaxFixerIterations = 1
  MaxCommands = 2
  MaxCrashes = 1
  MaxReports = 1
SPECIFICATION FairRunSpec
INVARIANTS RunTypeOK HandoffEarned PendingBindable FixerBudget RunInv
PROPERTIES Spec NoWorkWhileAsking CommandReturns
CHECK_DEADLOCK FALSE
