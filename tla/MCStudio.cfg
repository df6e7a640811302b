\* One tab, three presses of buttons, which may overlap, and a flush beside them.
SPECIFICATION LiveSpec
CHECK_DEADLOCK FALSE
INVARIANTS
  StudioTypeOK
  ManualRunsPreviewed
  ChangesInOrder
PROPERTIES
  CommitsSettle
CONSTANTS
  t1 = t1
  t2 = t2
  a = a
  b = b
  p = p
  q = q
  Null = Null
  Tabs = {t1}
  Explorers = {t1}
  TaskSets = {a, b}
  Definitions = {p}
  MaxRevision = 3
  MaxRuns = 3
  MaxPressed = 3
