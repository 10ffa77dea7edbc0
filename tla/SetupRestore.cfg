CONSTANTS
  None = None
  d1 = d1
  d2 = d2
  Device = {d1, d2}
  CommandId = {c1, c2, c3}
  TaskId = {t1, t2, t3, t4}
  Generation = {g1, g2}
  FocusTtl = 1
  UndoFor = 1
  MaxTasks = 3
  MaxTokens = 2
  MaxPending = 1
  MaxTime = 0
  MaxMishaps = 1
  MaxRestores = 1
  Failure = {"before", "after", "crash", "power", "lost", "late", "old"}
  Local <- MCLocal
  Found <- MCFound
  Choices <- MCShares
  Title = {"a", "b", "c", "x"}
  Added = "x"
  Tag = {}
  QueueBucket = {"next"}
SPECIFICATION Spec
INVARIANTS
  BoundOnce
  ArrivesOnce
CHECK_DEADLOCK FALSE
