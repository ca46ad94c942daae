SPECIFICATION Spec
CONSTANTS
  TaskIds = {1, 2, 3}
  ProjectIds = {11, 12, 13}
  Names = {"n", "m"}
  Callers = {c, d}
  Priorities = {0, 1}
  MaxInt = 1
  Limit = 1
  MaxCalls = 3
  MaxClock = 1
  FirstProjects <- MCFirstProjects
  FirstTasks <- MCFirstTasks
INVARIANTS SteadyRowsListed GoneForGood
PROPERTY EditsKeepStatus
SYMMETRY MCSymmetry
CHECK_DEADLOCK FALSE
