SPECIFICATION Spec
CONSTANTS
    n1 = n1  n2 = n2  v1 = v1  v2 = v2  p1 = p1  p2 = p2  NoName = NoName
    Types = {"Deny", "ReadOnly", "Other"}
    Names = {n1, n2}
    Values = {v1, v2}
    Prepared <- MCPrepared
    Removable = {v2}
    Registries <- MCRegistries
    MinCapacity = 4
    MaxOps = 1
    Faults = FALSE
INVARIANTS SuccessMeansLoaded
CHECK_DEADLOCK FALSE
