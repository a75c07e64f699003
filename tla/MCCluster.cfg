SPECIFICATION SuiteSpec
CONSTANTS
  Messages = {"m", "n"}
  Clusters = {"web", "q"}
  Own = "web"
  Draining = {"q"}
  Callers = {"c", "d"}
  Pushers = {"p", "r"}
  Home <- PusherHome
  MaxLeases = 2
  SendPushers = {"p"}
  SendRequests <- SendWork
  SendBulk = 2
  PollCallers = {"c"}
  PollRequests <- PollWork
  PollBulk = 1
  BatchTasks = {"member"}
  BatchWorkflows = {"batch"}
  BatchOwner <- MemberOwner
  BatchGraph = {"batch", "member"}
  Tasks = {"step", "node"}
  Workflows = {"chain"}
  Chains = {"chain"}
  Owner <- StepOwner
  InGraph = {"node"}
  MaxGeneration = 2
  MaxUpsets = 2
CHECK_DEADLOCK FALSE
INVARIANT EveryLaneIsDrained SweepIsSafe
PROPERTY LanesInOrder NothingPilesUp
