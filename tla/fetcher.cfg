SPECIFICATION FairSpec
CONSTANTS
    c1 = c1
    c2 = c2
    Calls <- MCCalls
    Requests <- MCRequests
    Workers <- MCWorkers
    HintWorkers <- MCHintWorkers
    HintsOf <- MCHintsOf
    Origins = {"o"}
    RobotsFiles <- MCRobotsFiles
    Answer <- MCAnswer
    Me = "me"
    Anyone = "*"
    Shortened <- MCShortened
    MaxRedirects = 1
    MaxRetries = 1
    MaxHints = 1
    ObeyRobots = TRUE
CHECK_DEADLOCK FALSE
INVARIANTS Bounded TriedWell RobotsKept
PROPERTY AllEnd
