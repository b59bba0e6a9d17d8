SPECIFICATION Spec
CONSTANTS
    Names = {a, b}
    None = None
    MaxDepths <- MCMaxDepths
    MaxCarved = 5
CONSTRAINT Bounded
CHECK_DEADLOCK FALSE
INVARIANTS
    Stacked
PROPERTY ImplementsUniqueNames
