\* One task, three support requests, two developers.
SPECIFICATION Spec
CONSTANTS
  t1 = t1
  t2 = t2
  s1 = s1
  s2 = s2
  s3 = s3
  d1 = d1
  d2 = d2
  q1 = q1
  c1 = c1
  c2 = c2
  None = None
  Backlog <- OneTask
  Requests <- ThreeRequests
  Team <- OneTester
  Settings <- SupportSettings
  MaxBacklog = 10
  MaxFailures = 2
INVARIANT
  NeverRaises
