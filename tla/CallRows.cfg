SPECIFICATION Spec
CONSTANTS
    c1 = c1
    c2 = c2
    c3 = c3
    Calls <- TwoCalls
    Routes <- AnyRoute
    Web = TRUE
    ApproveNew = TRUE
    MaxCompacts = 1
    MaxSends = 1
SYMMETRY Symmetry
INVARIANT TypeOK
INVARIANT BarrierDrained
INVARIANT OnLiveConversation
PROPERTY GenerationKept
CHECK_DEADLOCK FALSE
