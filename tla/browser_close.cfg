SPECIFICATION FairSpec
CONSTANTS
    None = None
    Threads = {t1, t2}
    Contexts = {c0, c1}
    Default = c0
    Pages = {p1, p2}
    MaxPages = 0
PROPERTIES
    CloseClosesEveryPage
    CallsReturn
