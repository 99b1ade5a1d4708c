\* A child that is dispatched up to three times, claimed, stopped and restarted
\* twice: it ends once and has one worker.  When it is over nothing is left to do.
SPECIFICATION RunFairSpec
CHECK_DEADLOCK FALSE
CONSTANTS
    c = c
    root = root
    Runs = {c}
    Root = root
    ParentOf <- OneChild
    Limit = 1
    MaxTries = 3
    MaxBoots = 2
    Browser = TRUE
    Stoppable = {root, c}
PROPERTY TerminalStays
PROPERTY OneWorker
PROPERTY LeaseRespected
PROPERTY RunsEnd
