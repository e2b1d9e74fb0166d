CONSTANTS
    Clients = {"a", "b"}
    Nodes = {1, 2, 3}
    Configs <- MCConfigs
SPECIFICATION Spec
INVARIANTS   AckedDurable ResultsTrue
PROPERTIES TransactReturns
CHECK_DEADLOCK FALSE
