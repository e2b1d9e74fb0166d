SPECIFICATION Spec
CONSTANTS
    Nodes = {1, 2}
    Configs <- MCConfigs
INVARIANTS AckedCovered BisectKeepsLast AdvancesTogether
PROPERTIES ReshardCompletes
CHECK_DEADLOCK FALSE
