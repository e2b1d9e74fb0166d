CONSTANTS
  a = a
  b = b
  Nodes = {a, b}
  Configs <- MCConfigs
SPECIFICATION ScanSpec
INVARIANTS AckedDurable LiveReadsSeeAcked CompleteWhilePlaced
PROPERTIES PutsServed LeaseSettles
