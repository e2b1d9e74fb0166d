SPECIFICATION Spec
CONSTANTS
    Nodes = {1, 2}
    Configs <- BisectOnly
INVARIANTS NoAckedWriteLost
CHECK_DEADLOCK FALSE
