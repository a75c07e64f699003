SPECIFICATION SuiteSpec
CONSTANTS
  Callers = {"c", "d"}
  Rate = 1
  Capacity = 2
  Costs = {1, 2}
  Offset <- SameClocks
  MaxClock = 3
  Tasks = {"a", "b", "c"}
  Threads = 2
  MaxInflight = 2
  Recycle = 3
  Timeouts = {1, 2}
  Grace = 1
  MaxAttempts = 2
  Targets <- Deliveries
  Does <- AllDo
  Goal = 1
  MaxUsage = 1
  Budget = 1
  LedgerDoes <- FirstRecord
  LedgerUsage = 2
CHECK_DEADLOCK FALSE
INVARIANT WorkerStaysInStep ReportsAreExact RateHolds
PROPERTY NewestShows EverythingEnds
