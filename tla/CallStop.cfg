SPECIFICATION Spec
CONSTANTS
    c1 = c1
    c2 = c2
    c3 = c3
    Calls <- OneCall
    Routes <- AnyRoute
    Web = TRUE
    ApproveNew = TRUE
    MaxCompacts = 0
    MaxSends = 0
PROPERTY StopHolds
CHECK_DEADLOCK FALSE
