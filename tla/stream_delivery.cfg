\* The stream against any caller and any client.
CONSTANTS
  s1 = s1
  s2 = s2
  none = none
  Screens = {s1, s2}
  NoScreen = none
  Base = 2
  PendingCap = 2
  MaxRetries = 2
  MaxSends = 6
SPECIFICATION StreamSpec
CONSTRAINT ShortChannel
INVARIANTS
  StreamInv
  RetransmitsBounded
PROPERTIES
  NewestTracked
  DeliverySpec
CHECK_DEADLOCK FALSE
