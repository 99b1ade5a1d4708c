\* Two calls of a new conversation in a task that does not exist yet: the deadline
\* races the user's answer and the other call.  When every call is over nothing
\* is left to do.
SPECIFICATION FairSpec
CHECK_DEADLOCK FALSE
CONSTANTS
    c1 = c1
    c2 = c2
    c3 = c3
    Calls <- TwoCalls
    Routes <- AnyRoute
    Web = FALSE
    ApproveNew = TRUE
    MaxCompacts = 0
    MaxSends = 1
INVARIANT OnlyGrantedRuns
PROPERTY CallsEnd
