CONSTANTS
    Protocols = {"anthropic", "chat"}
    ChanCap = 1
    MaxMessages = 5
SPECIFICATION Spec
INVARIANTS NothingLost FinalIsWhole
PROPERTIES HandlerReturnsInTheEnd ReleasedOrStuck
CHECK_DEADLOCK FALSE
