CONSTANTS
  None = None
  MaxHeld = 1
  MaxAsks = 1
  MaxChanges = 1
  MaxFaults = 1
  MaxQuits = 1
  MaxStarts = 1
SPECIFICATION LiveSpec
INVARIANT
  NeverOlder
PROPERTIES
  StaysStopped
  ShownInTheEnd
CHECK_DEADLOCK FALSE
