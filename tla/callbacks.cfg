SPECIFICATION CallbacksSpec
SYMMETRY Symmetry
CONSTANTS
    None = None
    d = d
    x = x
    f = f
    g = g
    m1 = m1
    m2 = m2
    Nodes = {d, x}
    Root = d
    Listeners = {f, g}
    EventObjects = {e1, e2}
    Observers = {m1, m2}
    Options <- MCOptions
    InitialLists <- MCLists
    InitialRegistry <- MCRegistry
    MaxListed = 3
    MaxDepth = 2
    MaxFlushes = 2
    MaxCalls = 4
CHECK_DEADLOCK FALSE
INVARIANTS LoopsRight StopAndCurrent RecordsArrive
