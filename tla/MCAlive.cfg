SPECIFICATION SuiteSpec
CONSTANTS
  Dispatchers = {"d", "e"}
  Slots = {"s", "t"}
  Installs <- Kinds
  MaxExecutions = 2
  MaxMessages = 3
  MaxFaults = 2
  Monitors = {"m1"}
  Reapers = {"r1"}
  Operators = {"o1"}
  MaxCrashes = 1
  Workers = {"s1"}
  MaxAttempt = 2
  RetryLimit = 2
  Size = 2
  Edges <- OneEdge
  Gated = {2}
  MaxGen = 2
  Sweepers = {"r1", "r2"}
  StallAfter = 2
  OverdueAfter = 1
  MaxClock = 3
  MaxGeneration = 2
  Alone = {"d"}
  FewFaults = 1
CHECK_DEADLOCK FALSE
INVARIANT FlagsTellTheTruth
PROPERTY EverythingEnds HandoffHolds OnlyOpenIsFlagged WatchdogsSee
