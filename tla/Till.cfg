SPECIFICATION Spec
CONSTANTS
  milk1 = milk1
  milk2 = milk2
  bread = bread
  Pieces <- MCPieces
  Product <- MCProduct
  Snapshot <- MCSnapshot
  MaxAttempts = 3
  MaxLost = 1
  MaxReloads = 1
SYMMETRY Symmetry
CHECK_DEADLOCK FALSE
INVARIANT TillSound
