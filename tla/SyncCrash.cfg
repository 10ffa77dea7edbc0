CONSTANTS
  None = None
  t1 = t1
  t2 = t2
  t3 = t3
  Device = {d1}
  CommandId = {c0, c1, c2}
  TaskId = {t1, t2, t3}
  Generation = {g1, g2}
  FocusTtl = 2
  UndoFor = 2
  FreshFor = 1
  MaxTasks = 3
  MaxTokens = 2
  MaxPending = 2
  MaxTime = 0
  MaxMishaps = 3
  MaxRestores = 1
  AdminOp = {"raw", "copy", "revoke"}
  Failure = {"before", "after", "crash", "power", "panic", "lost", "late"}
  Op = {"Create", "Delete"}
  Title = {"x"}
  Tag = {}
  QueueBucket = {"next"}
  Seeds <- MCOneSeed
  SeedTimer <- MCTimer
SPECIFICATION Spec
INVARIANTS
  NoIntentLost
  NeverHaltedWithoutCause
  IntentsStayOnTheirBranch
CHECK_DEADLOCK FALSE
