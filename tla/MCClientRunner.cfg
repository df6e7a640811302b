\* A runner that executes a batch and the gateway, with two local services.
SPECIFICATION LiveSpec
CHECK_DEADLOCK FALSE
INVARIANTS
  RunnerTypeOK
  OpenIsServed
  ResultsTruthful
PROPERTIES
  RunnersEnd
CONSTANTS
  r1 = r1
  Gateway = Gateway
  Null = Null
  Runners = {r1}
  MaxModels = 2
  MaxServices = 2
