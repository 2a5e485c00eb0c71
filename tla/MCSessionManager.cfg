CONSTANTS
    k1 = k1
    k2 = k2
    k3 = k3
    c1 = c1
    c2 = c2
    Keys <- MCKeys
    Callers <- MCCallers
    Sessions <- MCSessions
    NoSession = 0
    Idle = Idle
    Limits = {0, 1, 2}
    TTLs = {1}
    MaxClock = 2
SPECIFICATION Spec
SYMMETRY Symmetry
INVARIANTS TypeOK StampsLagGrants
PROPERTIES InsertWithinLimit EvictsLeastRecent KeepsLiveSessions
