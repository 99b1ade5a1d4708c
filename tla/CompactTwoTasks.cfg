SPECIFICATION PairSpec
CONSTANTS
    None = None
    Tasks = {t1, t2}
    Convs = {p1, c1, c2, c3}
    Provisional = {p1}
    Jobs = {j1, j2}
    Requests = {r1}
    Handoffs = {h1}
    MaxRev = 3
    McpFirst = TRUE
    MaxReports = 1
    MaxLag = 0
SYMMETRY Symmetry
ACTION_CONSTRAINT PairSteps
\* Finite budgets and conversations: when they are used up the system stops.
CHECK_DEADLOCK FALSE
INVARIANTS SingleOwner BindingHeld RetiredStaysRetired
PROPERTIES MovedByCompletion RefinesBinding
