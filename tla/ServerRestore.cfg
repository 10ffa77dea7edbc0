CONSTANTS
  None = None
  t1 = t1
  t2 = t2
  t3 = t3
  Device = {d1, d2}
  CommandId = {c1, c2}
  TaskId = {t1, t2, t3}
  Generation = {g1, g2, g3}
  FocusTtl = 2
  UndoFor = 2
  MaxTasks = 3
  MaxTokens = 2
  MaxTime = 0
  MaxRestores = 2
  MaxRejected = 1
  AdminOp = {"rotate", "revoke"}
  Op = {"Initialize", "Create"}
  Title = {"x"}
  Tag = {"w"}
  QueueBucket = {"next"}
  Seeds <- MCSeeds
  SeedTimer <- MCTimer
SPECIFICATION Spec
INVARIANTS
  HistoryIsAncestry
  ExactlyOneEffect
  RetryAnswered
PROPERTIES
  OutcomesFinal
CHECK_DEADLOCK FALSE
