CONSTANTS
  None = None
  t1 = t1
  t2 = t2
  t3 = t3
  Device = {d1}
  CommandId = {c1, c2, c3, c4}
  TaskId = {t1, t2, t3}
  Generation = {g1}
  FocusTtl = 2
  UndoFor = 2
  MaxTasks = 3
  MaxTokens = 1
  MaxTime = 2
  MaxRestores = 0
  MaxRejected = 1
  AdminOp = {}
  Op = {"Initialize", "Promote", "Complete", "Undo", "SetPaused"}
  Title = {"x"}
  Tag = {"w"}
  QueueBucket = {"next", "later"}
  Seeds <- MCSeeds
  SeedTimer <- MCTimer
SPECIFICATION Spec
INVARIANTS
  AnchorNotAhead
  DatasetValid
  FocusActsOnWhatWasSeen
  UndoIsExact
PROPERTIES
  TimerContinuous
CHECK_DEADLOCK FALSE
