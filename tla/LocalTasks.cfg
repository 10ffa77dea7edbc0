CONSTANTS
  None = None
  Bucket = {"now", "next", "later"}
  Title = {"x"}
  Tag = {}
  DefaultBucket = "next"
  FirstTime = 1
  OldFiles <- MCOldFiles
  MaxOld = 3
  MaxId = 3
  MaxTime = 2
  MaxRevision = 2
  MaxMishaps = 1
SPECIFICATION Spec
INVARIANT
  RequestsMeanLists
  OneTimerOneIdentity
PROPERTIES
  UndoRestores
  TimeKept
  IdentitiesNotReused
CHECK_DEADLOCK FALSE
