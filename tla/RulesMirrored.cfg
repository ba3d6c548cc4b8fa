SPECIFICATION SearchSpec
CONSTANTS
    a1 = a1  a2 = a2  f1 = f1  k1 = k1  k2 = k2
    n1 = n1  n2 = n2  n3 = n3  v1 = v1  v2 = v2  v3 = v3  p1 = p1  p2 = p2
    NoKey = NoKey  NoName = NoName  NoPath = NoPath
    Admins = {a1, a2}
    Filters = {f1}
    Keys = {k1, k2}
    Folders = {"Deny", "ReadOnly"}
    Names = {n1, n2, n3}
    Values = {v1, v2, v3}
    Prepared <- MCPrepared
    Procs = {n1}
    Files = {p1}
    NameMatches <- MCSameName
    PathMatches <- MCSamePath
    Territory <- MCOwnNames
    MinCapacity = 4
    MaxOps = 5
    Overwrites = FALSE
    Faults = FALSE
INVARIANTS UpdateIsCurrent NoLostRule NoGhostRule UniqueEntries StandingRuleApplies VerdictHasRule
CHECK_DEADLOCK FALSE
