SPECIFICATION SuiteSpec
CONSTANTS
  Operators = {"ann", "bob"}
  MaxNumber = 3
  MaxGeneration = 2
  Monitors = {m1}
  Reapers = {r1}
  Deciders = {o1}
  LastStep = 2
  Gates = {1}
  MaxTasks = 4
  RaceStep = 1
  RaceTasks = 3
  MaxRuns = 2
  MaxResumes = 1
  MaxFaults = 1
  Size = 3
  Edges <- JoinEdges
  GatedNodes = {2}
  MaxGen = 2
  Callers = {c1, c2}
  MaxTask = 3
  KeyRequests = {"keyed", "retrydead", "deferred"}
  LabelRequests = {"correlated", "named", "member", "start"}
  Exceptions <- ExceptionNames
  Policies <- SomePolicies
  HintTexts = {0, 15, 200}
  Attempts = {"a1", "a2", "b1"}
  LedgerTasks = {"a", "b"}
  TaskOf <- TaskOfAttempt
  Processes = {"worker"}
  Rates = {1, 2}
  Counts = {0, 1}
  Costs = {3}
  MaxCalls = 2
SYMMETRY Symmetry
CHECK_DEADLOCK FALSE
INVARIANT ChainStaysConsistent GraphStaysConsistent CallersAgree DelayIsSound LedgerIsSound
PROPERTY ChainDecisionsStand DecisionsStand
