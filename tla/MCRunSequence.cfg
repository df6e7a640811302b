\* Two runs of one scenario after each other, the second of either intent;
\* jobs do not expire and the service does not restart.
SPECIFICATION Spec
CHECK_DEADLOCK FALSE
INVARIANTS
  CoordinatorTypeOK
  ActiveIsServed
PROPERTIES
  FinalIsFinal
  UsesWorkspace
CONSTANTS
  w1 = w1
  a = a
  small = small
  large = large
  Workspaces = {w1}
  TaskSets = {a}
  Configs = {small}
  Verdicts = {"succeeded", "failed", "cancelled"}
  ResultSize <- OneSize
  MaxRuns = 2
  MaxWorkspaces = 1
  MaxTaskSets = 1
  MaxActiveRuns = 1
  MaxRetainedRuns = 2
  MaxPins = 1
  MaxResultBytes = 6
  MaxRunBytes = 4
  MaxModelBytes = 3
  Null = Null
  MaxFailures = 2
  MaxRestarts = 0
  MayClose = FALSE
  MayForget = FALSE
