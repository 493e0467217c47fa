CONSTANTS
  Documents <- MCDocuments
  Variables <- MCVariables
  Width = 24
  Depth = 9
SPECIFICATION Spec
CHECK_DEADLOCK FALSE
INVARIANTS
  TypeOK
  TextShownOnce
  NothingOverlaps
  Pickable
