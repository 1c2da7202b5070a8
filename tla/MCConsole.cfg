CONSTANTS
  Cols = 2
  Rows = 2
  Deltas <- MCDeltas
  Width = 16
SPECIFICATION Spec
INVARIANTS
  TypeOK
  RestsOnScreen
PROPERTY
  ColoursAreKept
