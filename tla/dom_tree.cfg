\* A document, two elements, a fragment and two Text nodes.
SPECIFICATION Spec
SYMMETRY Symmetry
CONSTANTS
    Documents = {d}
    Elements = {a, b}
    Fragments = {f}
    Texts = {t, u}
    None = None
INVARIANTS LinksAgree RecordsTellAll
PROPERTY ImplementsNodeTree
