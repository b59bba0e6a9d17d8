SPECIFICATION Spec
CONSTANTS
    Names = {a, b}
    None = None
    MaxDepth = 3
    InlineNames = 1
SYMMETRY Symmetric
CHECK_DEADLOCK FALSE
INVARIANTS
    SetsOfObjects
PROPERTY ImplementsFlatLeaves
