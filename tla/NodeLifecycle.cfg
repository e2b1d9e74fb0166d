SPECIFICATION Spec
CONSTANTS
  p = p
  q = q
  Positions <- MCPositions
  Configs <- MCConfigs
INVARIANTS SettleAccounted  TransportOutlivesDrain DrainsWatched
PROPERTIES JoiningClears CloseReturns
CHECK_DEADLOCK FALSE
