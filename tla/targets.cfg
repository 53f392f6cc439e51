SPECIFICATION FairSpec
CONSTANTS
    None = None
    Targets = {p1, p2}
    Initial = p1
    SessionIds = {1, 2, 3}
    Handlers = {h1, h2}
CHECK_DEADLOCK FALSE
INVARIANTS SessionServed DestroyedOnce
PROPERTY ClosedIsReported
