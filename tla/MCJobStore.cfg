\* Three jobs of up to two models.  Each byte limit is hit on its own: of the
\* sizes 1, 2, 3 a model may hold 2, a job may hold 3 and the store 4; two
\* jobs fill the retention, so a third needs one of them to expire.
SPECIFICATION StoreSpec
SYMMETRY JobSymmetry
CONSTANTS
  j1 = j1
  j2 = j2
  j3 = j3
  s1 = s1
  Jobs = {j1, j2, j3}
  MaxModels = 2
  SubmissionIds = {s1}
  Fingerprints = {"a", "b"}
  ResultSizes = {1, 2, 3}
  MaxActive = 1
  MaxQueued = 1
  MaxRetainedJobs = 2
  MaxRetainedBytes = 4
  MaxJobBytes = 3
  MaxModelBytes = 2
  MayExpire = {j1, j2, j3}
  None = None
INVARIANTS
  StatusSummarises
  BytesWithinLimits
PROPERTIES
  SubmissionsStick
  HonoursContract
