CONSTANTS
  None = None
  t1 = t1
  t2 = t2
  t3 = t3
  Device = {d1, d2}
  CommandId = {c0, c1, c2}
  TaskId = {t1, t2, t3}
  Generation = {g1}
  FocusTtl = 2
  UndoFor = 2
  FreshFor = 1
  MaxTasks = 3
  MaxTokens = 2
  MaxPending = 1
  MaxTime = 0
  MaxMishaps = 1
  MaxRestores = 0
  AdminOp = {}
  Failure = {"before", "after", "lost", "crash"}
  Op = {"Delete"}
  Title = {"x"}
  Tag = {}
  QueueBucket = {"next"}
  Seeds <- MCSeeds
  SeedTimer <- MCTimer
SPECIFICATION LiveSpec
PROPERTIES
  IntentsSettle
  ChangesReachEveryDevice
  KeepsLedger
CHECK_DEADLOCK FALSE
