\* A request of a child executed twice, with every way to resolve its approval.
\* When every call is over nothing is left to do.
SPECIFICATION FairSpec
CHECK_DEADLOCK FALSE
CONSTANTS
    root = root
    kid = kid
    r1 = r1
    r2 = r2
    k1 = k1
    k2 = k2
    g1 = g1
    g2 = g2
    Children = {kid}
    Root = root
    ParentOf <- OneChild
    Calls = {k1, k2}
    TaskOf <- ByName
    IdOf <- OneIdPerTask
    Ids = {k1, k2}
    Reads = {k1, k2}
    Grants = {g1}
    Budget = 1
    Share = 1
    Steered = {root}
    Late = TRUE
    Crashes = TRUE
INVARIANT TypeOK
INVARIANT SingleUse
PROPERTY DecidedOnce
PROPERTY CallsEnd
