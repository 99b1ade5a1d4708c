\* Two delegations of the user's task compete for one slot: the watchdog and a
\* registration sweep, a browser retries, workers claim and end, the host
\* restarts.  All delegations can be over, and then nothing is left to do.
SPECIFICATION LimitSpec
CHECK_DEADLOCK FALSE
CONSTANTS
    c = c
    d = d
    root = root
    Runs = {c, d}
    Root = root
    ParentOf <- Siblings
    Limit = 1
    MaxTries = 1
    MaxBoots = 1
    Browser = TRUE
    Stoppable = {}
SYMMETRY Permute
INVARIANT RunTypeOK
INVARIANT Capacity
