SPECIFICATION Spec
CONSTANTS
    None = None
    c1 = c1
    c2 = c2
    c3 = c3
    d1 = d1
    d2 = d2
    b = b
    t = t
    e = e
    x = x
    Cmds = {c1, c2, c3}
    Nodes <- MCNodes
    Elements <- MCElements
    Docs = {d1, d2}
    DocOf <- MCDocOf
    FirstKids <- MCFirstKids
    Objects = {t}
    Ops <- MCOps
    Shows <- MCShows
    Depths <- MCDepths
    Given <- MCGiven
    MaxId = 4
    MaxObject = 2
CONSTRAINT AtMostTwo
CHECK_DEADLOCK FALSE
INVARIANTS NamesStand AnswersWhole 
