\* Interrupting, suspending and refusing sessions.
CONSTANTS
  none = none
  Screens <- MCScreens
  NoScreen = none
  Base = 4
  PendingCap = 2
  MaxRetries = 2
  MaxSends = 8
  MaxKeys = 4
  MaxNaks = 2
  Scenarios <- MCScenarios
SPECIFICATION Spec
INVARIANTS
  TypeOK
  InSync
  DataOnlyWhenBound
PROPERTIES
  SuspendedSilent
  InputReachesItsSession
  AckedNotResent
  KeyboardRestored
  HangupEnds
CHECK_DEADLOCK FALSE
