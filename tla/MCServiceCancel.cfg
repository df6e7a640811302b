\* One job of up to two models on two worker threads, cancelled by two
\* requests and by close at any point, and expiring as soon as it is over.
SPECIFICATION Spec
INVARIANTS
  CancelReachesProcesses
  StoppedClean
CONSTANTS
  j1 = j1
  j2 = j2
  j3 = j3
  c1 = c1
  c2 = c2
  closer = closer
  Jobs = {j1}
  MaxModels = 2
  SubmissionIds = {}
  Fingerprints = {"a"}
  ResultSizes = {1}
  MaxActive = 1
  MaxQueued = 1
  MaxRetainedJobs = 8
  MaxRetainedBytes = 8
  MaxJobBytes = 8
  MaxModelBytes = 8
  MayExpire = {j1}
  None = None
  MaxWorkers = 2
  Clients = {c1, c2}
  Closer = closer
