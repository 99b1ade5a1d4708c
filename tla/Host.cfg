\* One part of the host in every behaviour.  What it is asked for is bounded: in the end
\* nothing is left to do.
SPECIFICATION Spec
CHECK_DEADLOCK FALSE
CONSTANTS
    p1 = p1
    p2 = p2
    i1 = i1
    i2 = i2
    Paths = {p1, p2}
    Nested = {p2}
    Rebuilders = {tool, loop}
    Loop = loop
    MaxChanges = 2
    Invocations = {i1, i2}
    KindsOf <- ToolKinds
    MaxTurn = 2
    MaxCrashes = 1
INVARIANT TypesHold
PROPERTY IndexSafe
PROPERTY TurnsSafe
PROPERTY HostProgresses
