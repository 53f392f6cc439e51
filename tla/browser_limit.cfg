SPECIFICATION Spec
CONSTANTS
    None = None
    Threads = {t1, t2, t3}
    Contexts = {c0, c1, c2}
    Default = c0
    Pages = {p1, p2, p3}
    MaxPages = 2
SYMMETRY Symmetry
INVARIANTS CountExact NoStrandedPage
PROPERTY ImplementsPagePool
