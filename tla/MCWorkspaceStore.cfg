\* Two workspaces with two task sets and runs of four keys; the memory holds
\* two results and half of a run, so that runs wait, evict and are refused.
SPECIFICATION WorkspaceSpec
SYMMETRY WorkspaceSymmetry
INVARIANTS
  WithinBudget
  ResultsKept
  ReservationSuffices
  ReferencesResolve
PROPERTIES
  EvictionSpares
CONSTANTS
  w1 = w1
  w2 = w2
  a = a
  b = b
  small = small
  large = large
  Workspaces = {w1, w2}
  TaskSets = {a, b}
  Configs = {small, large}
  Verdicts = {"succeeded", "failed"}
  ResultSize <- Sizes
  MaxRuns = 3
  MaxWorkspaces = 2
  MaxTaskSets = 2
  MaxActiveRuns = 2
  MaxRetainedRuns = 1
  MaxPins = 1
  MaxResultBytes = 6
  MaxRunBytes = 5
  MaxModelBytes = 3
  Null = Null
