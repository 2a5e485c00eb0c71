CONSTANTS
    r1 = r1
    r2 = r2
    r3 = r3
    k1 = k1
    k2 = k2
    Requests <- MCRequests
    Keys <- MCKeys
    Plans <- MCPlans
    NoKey = NoKey
    Sessions <- MCSessions
    NoSession = 0
    Idle = Idle
    Limits = {0, 1}
    TTLs = {1}
    MaxClock = 0
    Limit = 2
    NoId = NoId
SPECIFICATION Spec
INVARIANTS LookupsAgree FaithfulReplay
PROPERTIES RememberedIsReplayed
CHECK_DEADLOCK FALSE
