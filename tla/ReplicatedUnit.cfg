SPECIFICATION Spec
CONSTANTS
    Nodes = {1, 2, 3, 4}
    MaxTime = 5
    Grace = 1
    Locate <- MCLocate
    Configs <- MCConfigs
INVARIANTS AckedHeld GuardedAbsence AckedIsRead
PROPERTIES StampedAboveSeen
CHECK_DEADLOCK FALSE
