SPECIFICATION Spec
CONSTANTS
  Size = 2
  Edges <- Line
  Gated = {2}
  Monitors = {m1}
  Reapers = {r1}
  Operators = {o1}
  MaxGen = 2
  MaxRuns = 2
  MaxFaults = 1
CHECK_DEADLOCK FALSE
INVARIANT RunsInOrder OncePerGeneration GraphTellsTheTruth
PROPERTY KeepsContract
