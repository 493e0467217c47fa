\* A request and its answer in separate segments.
CONSTANTS
  Supported <- MCSupported
  Functions <- MCFunctions
  Clients <- MCEmulators
SPECIFICATION Spec
INVARIANTS
  AnsweredOnce
CHECK_DEADLOCK FALSE
