\* A refused redisplay is sent again after the next panel.
CONSTANTS
  none = none
  Screens <- MCScreens
  NoScreen = none
  Base = 4
  PendingCap = 2
  MaxRetries = 2
  MaxSends = 8
  MaxKeys = 4
  MaxNaks = 2
  Scenarios <- MCStale
SPECIFICATION Spec
INVARIANTS
  RecoversFromRefusal
CHECK_DEADLOCK FALSE
