SPECIFICATION Spec
CONSTANTS
    None = None
    Tasks = {t1}
    Convs = {c1, c2}
    Provisional = {}
    Jobs = {j1}
    Requests = {r1, r2}
    Handoffs = {h1, h2}
    MaxRev = 3
    McpFirst = TRUE
    MaxReports = 1
    MaxLag = 1
ACTION_CONSTRAINT LagSteps
SYMMETRY Symmetry
CHECK_DEADLOCK FALSE
INVARIANTS TypeOK
PROPERTIES Paused CheckpointsSound ContinueNotOvertaking
