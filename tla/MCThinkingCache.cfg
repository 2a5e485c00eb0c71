CONSTANTS
    h1 = h1
    h2 = h2
    i1 = i1
    i2 = i2
    i3 = i3
    t1 = t1
    b1 = b1
    b2 = b2
    Handlers <- MCHandlers
    Ids <- MCIds
    Texts <- MCTexts
    Blocks <- MCBlocks
    NoPayload = NoPayload
    NoKey = NoKey
    Limit = 2
SPECIFICATION CacheSpec
SYMMETRY Symmetry
INVARIANTS CacheDropsWhenFull ReplaysLatest
