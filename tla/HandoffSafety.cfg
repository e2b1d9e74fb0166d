SPECIFICATION Spec
CONSTANTS
  x = x
  y = y
  Nodes = {x, y}
  First = {x, y}
  Prompting = {x, y}
  MaxEpoch = 2
  MaxMoves = 2
  MaxCrashes = 1
  OpensFail = TRUE
SYMMETRY AnyNode
INVARIANTS DrainKeepsMount OneWriter
CHECK_DEADLOCK FALSE
