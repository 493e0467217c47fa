\* A message patched into the menu, then SYSREQ twice: the panel is not restored.
CONSTANTS
  none = none
  Screens <- MCScreens
  NoScreen = none
  Base = 4
  PendingCap = 2
  MaxRetries = 2
  MaxSends = 8
  MaxKeys = 4
  MaxNaks = 2
  Scenarios <- MCPatched
SPECIFICATION Spec
INVARIANTS
  InSync
CHECK_DEADLOCK FALSE
