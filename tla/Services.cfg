\* One service of the host in every behaviour.  What they are asked for is bounded:
\* in the end nothing is left to do.
SPECIFICATION Spec
CHECK_DEADLOCK FALSE
CONSTANTS
    w1 = w1
    w2 = w2
    o1 = o1
    o2 = o2
    p1 = p1
    p2 = p2
    u1 = u1
    u2 = u2
    k1 = k1
    k2 = k2
    Blobs = {b1, b2}
    Turns = {o1}
    Calls = {c1, c2}
    OwnerLimit = 1
    MaxFaults = 2
    Torn = Torn
    NoFile = NoFile
    TaskOf <- SameTask
    Clients = {w1, w2}
    Scenarios <- EditScenarios
    Others <- OtherTexts
    MaxTries = 2
    NoVersion = NoVersion
    Callers = {u1, u2}
    Keys = {k1, k2}
    Demands <- TwoCommands
    MAX_RECORDS = 1
    MaxExecutions = 3
    MaxFailures = 1
    MaxRestarts = 1
    Processes = {r1, r2}
    Options <- RunOptions
    MaxTotal = 2
    MaxOutput = 3
    MaxReboots = 1
    e1 = e1
    e2 = e2
    TrackedFiles = {p1, p2}
    Capacity = 1
    Begun <- FilesBegun
    MaxSteps = 2
    Evidence = {e1, e2}
    OfChild = {e2}
    Inputs <- Completions
    MAX_ITEMS = 3
    Blank = Blank
    MaxTrees = 1
    Answerers = {a1, a2}
    Messages = {m1, m2}
    Desk = {d1}
    MaxTurns = 1
    Platforms = {"windows", "macos"}
    Releases <- Published
    Running <- ThisVersion
    Beside <- Installations
    MaxChecks = 2
    Requests = {q1}
    MaxSessions = 1
    MaxRetired = 1
    MaxReplay = 3
    MaxEvents = 2
    MaxChunk = 2
    Bounds <- SmallBounds
    Entries = {1, 2, 3}
    Initially = {1, 2, 3}
    Hidden = {2}
    Plans <- ListPlans
    MAX_ACTIVE_LIST_STATES = 1
    MaxPages = 3
    MaxChanges = 1
    MaxWarned = 1
    Trees <- SomeTrees
    Searches <- Searching
    MaxSearchPages = 9
    Reads <- TextReadings
    Rewritten <- OneText
    MaxWrites = 1
    MaxReads = 3
    MaxAttempts = 2
    MaxTabs = 2
    MaxDispatches = 2
    MaxTabFaults = 1
    AnswerParts <- TwoAnswers
    MaxUpsets = 1
    g1 = g1
    g2 = g2
    h1 = h1
    h2 = h2
    GitPaths = {g1, g2}
    Committers = {h1, h2}
    GitStarts <- Repositories
    GitPlans <- Committing
INVARIANT TypesHold
INVARIANT ContentsSafe
INVARIANT ServicesSafe
INVARIANT MessagesSafe
PROPERTY PassedIsFresh
