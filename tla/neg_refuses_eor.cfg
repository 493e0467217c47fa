\* A terminal that agrees to BINARY and refuses EOR.
CONSTANTS
  Supported <- MCSupported
  Functions <- MCFunctions
  Clients <- MCWithoutEor
SPECIFICATION Spec
PROPERTIES
  Served
CHECK_DEADLOCK FALSE
