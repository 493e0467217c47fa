\* A screen refused after SYSREQ is sent again in the SSCP-LU session.
CONSTANTS
  none = none
  Screens <- MCScreens
  NoScreen = none
  Base = 4
  PendingCap = 2
  MaxRetries = 2
  MaxSends = 8
  MaxKeys = 4
  MaxNaks = 2
  Scenarios <- MCSuspendedRefusal
SPECIFICATION Spec
PROPERTIES
  SuspendedSilent
CHECK_DEADLOCK FALSE
