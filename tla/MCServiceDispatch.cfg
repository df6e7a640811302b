\* Two one-model jobs, one slot, one worker thread, under fairness.
SPECIFICATION FairSpec
INVARIANTS
  TypeOK
  WorkConserving
  ScheduledOnce
PROPERTIES
  UsesStore
  EveryJobEnds
  CloseReturns
CONSTANTS
  j1 = j1
  j2 = j2
  j3 = j3
  c1 = c1
  c2 = c2
  closer = closer
  Jobs = {j1, j2}
  MaxModels = 1
  SubmissionIds = {}
  Fingerprints = {"a"}
  ResultSizes = {1}
  MaxActive = 1
  MaxQueued = 1
  MaxRetainedJobs = 8
  MaxRetainedBytes = 8
  MaxJobBytes = 8
  MaxModelBytes = 8
  MayExpire = {j1}
  None = None
  MaxWorkers = 1
  Clients = {c1}
  Closer = closer
