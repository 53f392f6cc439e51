\* One navigation, two commands at once, a hook or the interceptor.
CONSTANTS
    Requests = {r1}
    Commands = {c1, c2}
    PatternSets <- MCPatternSets
    MaxHooks = 1
    None = None
SPECIFICATION JointFairSpec
CHECK_DEADLOCK FALSE
INVARIANTS SendNeverBlocks WaiterHasAnswerer NoLeftovers AskedInPlace DecisionStands
PROPERTIES PageIsKept DisabledGoesOn CloseFreesTheDomain
