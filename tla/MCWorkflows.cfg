SPECIFICATION SuiteSpec
CONSTANTS
  Monitors = {"m1"}
  Reapers = {"r1"}
  Members = {"a", "b"}
  MaxRuns = 2
  MaxFaults = 1
  Shared = FALSE
  Deciders = {"o1"}
  LastStep = 2
  Gates = {1}
  MaxTasks = 5
  MaxResumes = 2
CHECK_DEADLOCK FALSE
 
PROPERTY OutcomesStand EverythingEnds
