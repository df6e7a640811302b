\* Two tasks, three support requests, two developers, one tester, two tools.
SPECIFICATION FairSpec
CONSTANTS
  t1 = t1
  t2 = t2
  s1 = s1
  s2 = s2
  s3 = s3
  d1 = d1
  d2 = d2
  q1 = q1
  c1 = c1
  c2 = c2
  None = None
  Backlog <- TwoTasks
  Requests <- ThreeRequests
  Team <- OneTester
  Settings <- SupportSettings
  MaxBacklog = 10
  MaxFailures = 2
INVARIANTS
  WorkflowTypeOK
  InOnePlace
  PoolExclusive
PROPERTIES
  OneWorkUnlessOvertaken
  ReturnsUnlessOvertaken
  ImplementsFlow
  EveryRunEnds
