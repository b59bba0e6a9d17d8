SPECIFICATION Spec
CONSTANTS
    Strings = {"a", "b"}
    Inputs <- MCInputs
    MaxLookups = 2
    MaxValue = 9
    MaxEdited = 7
    MaxNesting = 3
CHECK_DEADLOCK FALSE
INVARIANTS
    TypeOK
    LookupsFollowTree
    IteratesTree
    AcceptsLenient
