\* One run of two scenarios whose results together exceed what a run may keep.
SPECIFICATION LiveSpec
CHECK_DEADLOCK FALSE
INVARIANTS
  OneExecution
  FinalStateTruthful
  ReadsConsistent
PROPERTIES
  EveryRunSettles
CONSTANTS
  w1 = w1
  a = a
  small = small
  large = large
  Workspaces = {w1}
  TaskSets = {a}
  Configs = {small, large}
  Verdicts = {"succeeded", "failed", "cancelled"}
  ResultSize <- Sizes
  MaxRuns = 1
  MaxWorkspaces = 1
  MaxTaskSets = 1
  MaxActiveRuns = 1
  MaxRetainedRuns = 2
  MaxPins = 1
  MaxResultBytes = 6
  MaxRunBytes = 4
  MaxModelBytes = 3
  Null = Null
  MaxFailures = 2
  MaxRestarts = 1
  MayClose = TRUE
  MayForget = TRUE
