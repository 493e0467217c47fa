\* Emulators, basic terminals, line-mode clients, and what they say unasked.
CONSTANTS
  Supported <- MCSupported
  Functions <- MCFunctions
  Clients <- MCClients
SPECIFICATION Spec
ACTION_CONSTRAINT ScanFirst
INVARIANTS
  TypeOK
  SessionAgreed
  OptionAgreed
  NvtJustified
PROPERTIES
  CapableServed
CHECK_DEADLOCK FALSE
