SPECIFICATION FairSpec
CONSTANTS
    n1 = n1  n2 = n2  v1 = v1  v2 = v2  p1 = p1  p2 = p2  NoName = NoName
    Types = {"Deny", "ReadOnly", "Other"}
    Names = {n1, n2}
    Values = {v1, v2}
    Prepared <- MCPrepared
    Removable = {v2}
    Registries <- MCRegistries
    MinCapacity = 4
    MaxOps = 3
    Faults = TRUE
INVARIANTS TypeOK LoadedWasThere StandingIsLoaded LoadedOnce LoadIsExact
PROPERTIES LoadEnds
CHECK_DEADLOCK FALSE
