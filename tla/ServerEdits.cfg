CONSTANTS
  None = None
  t1 = t1
  t2 = t2
  t3 = t3
  Device = {d1}
  CommandId = {c1, c2, c3, c4}
  TaskId = {t1, t2, t3}
  Generation = {g1}
  FocusTtl = 2
  UndoFor = 2
  MaxTasks = 3
  MaxTokens = 1
  MaxTime = 0
  MaxRestores = 0
  MaxRejected = 0
  AdminOp = {}
  Op = {"Initialize", "Create", "Rename", "SetTag", "MoveBefore", "Delete", "CreateNow", "Remove", "MoveToQueue", "Complete", "Undo"}
  Title = {"x", "y"}
  Tag = {"w"}
  QueueBucket = {"next", "later"}
  Seeds <- MCSeeds
  SeedTimer <- MCTimer
SPECIFICATION Spec
INVARIANTS
  TokensNeverReturn
  TokensBindContent
  OnlyUndoResurrects
CHECK_DEADLOCK FALSE
