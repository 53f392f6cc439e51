\* Two navigations at once.
CONSTANTS
    Requests = {n1, n2}
    MaxHooks = 1
    None = None
SPECIFICATION FairSpec
CHECK_DEADLOCK FALSE
INVARIANT ReturnMatchesEvents
PROPERTY ImplementsLifecycle
