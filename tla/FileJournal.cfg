\* Two requests that meet on a path.  Operations end, and then nothing is left to do.
SPECIFICATION WatchedSpec
CHECK_DEADLOCK FALSE
CONSTANTS
    a = a
    b = b
    c = c
    o1 = o1
    o2 = o2
    NoEntry = NoEntry
    None = None
    Paths = {a, b, c}
    Ops = {o1, o2}
    Files = {1, 2, 3, 4, 5}
    Initial <- Trees
    Text <- Texts
    Scenarios <- Met
INVARIANT TypeOK
INVARIANT Owned
PROPERTY SourceSafe
PROPERTY RefinesTransfer
