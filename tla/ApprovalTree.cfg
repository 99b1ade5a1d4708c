\* Reads of the root and of its child draw on one grant and on what the child inherits.
\* When every call is over nothing is left to do.
SPECIFICATION Spec
CHECK_DEADLOCK FALSE
CONSTANTS
    root = root
    kid = kid
    r1 = r1
    r2 = r2
    k1 = k1
    k2 = k2
    g1 = g1
    g2 = g2
    Children = {kid}
    Root = root
    ParentOf <- OneChild
    Calls = {r1, r2, k1, k2}
    TaskOf <- ByName
    IdOf <- OwnId
    Ids = {r1, r2, k1, k2}
    Reads = {r1, r2, k1, k2}
    Grants = {g1, g2}
    Budget = 2
    Share = 2
    Steered = {}
    Late = FALSE
    Crashes = FALSE
SYMMETRY PermuteAll
INVARIANT TreeBudget
INVARIANT RevocationCascades
