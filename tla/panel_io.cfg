SPECIFICATION Spec
CONSTANTS
  Panels <- MCPanels
  Terminals <- MCTerminals
  Width = 10
  Depth = 3
  Chunk = 6
  RunMin = 5
  Typed <- MCTyped
  Upper <- MCUpper
  Pointed <- MCPointed
  MaxInputs = 2
  MaxTurns = 2
INVARIANTS
  TypeOK
  Drawn
  ReadIsShown
  RefusedRows
PROPERTIES
  PatchKeeps
  EraseEmpties
CHECK_DEADLOCK FALSE
