SPECIFICATION FairSpec
CONSTANTS
    MaxTimers = 2
    Delays = {0, 1}
    MaxLag = 1
    MaxTests = 2
    Documents <- MCDocuments
CHECK_DEADLOCK FALSE
INVARIANT CountsEarned
PROPERTIES ClearedStayQuiet FileGoesOn
