CONSTANTS
  None = None
  t1 = t1
  t2 = t2
  t3 = t3
  Device = {d1, d2}
  CommandId = {c0, c1, c2}
  TaskId = {t1, t2, t3}
  Generation = {g1}
  FocusTtl = 1
  UndoFor = 1
  FreshFor = 1
  MaxTasks = 3
  MaxTokens = 2
  MaxPending = 2
  MaxTime = 1
  MaxMishaps = 0
  MaxRestores = 0
  AdminOp = {}
  Failure = {}
  Op = {"Create", "Delete", "Complete", "Undo"}
  Title = {"x"}
  Tag = {}
  QueueBucket = {"next"}
  Seeds <- MCSeeds
  SeedTimer <- MCTimer
SPECIFICATION Spec
INVARIANTS
  Forecast
  FocusActsOnTheShownQueue
PROPERTIES
  KeepsLedger
CHECK_DEADLOCK FALSE
