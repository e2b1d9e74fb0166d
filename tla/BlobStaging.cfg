SPECIFICATION Spec
CONSTANTS
  Blobs = {b1}
  MaxGen = 2
  MaxFaults = 2
INVARIANTS BoundBytesKept 
PROPERTIES Reclaimed
CHECK_DEADLOCK FALSE
