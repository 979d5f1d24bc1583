SPECIFICATION Spec
CONSTANTS
    Updates = {"upload1", "upload2", "upload3", "delete", "reel"}
    Rows = {"user", "clip"}
    NoRow = "none"
    RowOf <- MCRowOf
    Sessions <- MCSessions
    PoolSize = 2
INVARIANT IInv
INVARIANT NoHoldAndWait
INVARIANT RowsAreExclusive
INVARIANT SomeoneCanGoOn
PROPERTY PoolDrains
PROPERTY EveryUpdateEnds
