SPECIFICATION FairSpec
CONSTANTS
  x = x
  y = y
  Nodes = {x, y}
  Prompting = {}
  First = {x}
  MaxEpoch = 3
  MaxMoves = 2
  MaxCrashes = 0
  OpensFail = FALSE
PROPERTIES HandoffCompletes
CHECK_DEADLOCK FALSE
