\* Two tabs that edit the same workspace.
SPECIFICATION Spec
CHECK_DEADLOCK FALSE
PROPERTIES
  StaleEditsRefused
CONSTANTS
  t1 = t1
  t2 = t2
  a = a
  b = b
  p = p
  q = q
  Null = Null
  Tabs = {t1, t2}
  Explorers = {}
  TaskSets = {a, b}
  Definitions = {p, q}
  MaxRevision = 3
  MaxRuns = 1
  MaxPressed = 2
