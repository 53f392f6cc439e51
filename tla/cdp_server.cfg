SPECIFICATION FairSpec
CONSTANTS
    None = None
    c1 = c1
    c2 = c2
    s1 = s1
    Conns = {c1, c2}
    Sids = {s1}
    Lost = {c1}
    MaxReqs = 3
    Calls <- MCCalls
CHECK_DEADLOCK FALSE
INVARIANTS AnsweredByOwn Stories NavigatedNotStale
PROPERTY RequestsEnd
