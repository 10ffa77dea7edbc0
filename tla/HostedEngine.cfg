CONSTANTS
  None = None
  Unreadable = Unreadable
  IntervalMin = 1
  IntervalMax = 2
  RetryTicks = 1
  DefaultSettings <- MCDefaults
  SettingValues <- MCValues
  Style <- MCStyles
  Fixed = "edges"
  Day = 3
  QuietFrom = 2
  QuietTo = 1
  MaxProblems = 1
  Jump <- MCJump
  MaxFaults = 2
SPECIFICATION LiveSpec
INVARIANTS
  OnlyWholeChanges
  OwnSettings
  OutageTold
  NoEarlyFlash
PROPERTIES
  FlashesGoOn
  SettingsReachTheFile
CHECK_DEADLOCK FALSE
