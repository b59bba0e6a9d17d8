SPECIFICATION Spec
CONSTANTS
    WordBits = 2
    InlineWords = 1
    MaxRead = 9
    MaxNesting = 4
    MaxDepths <- MCMaxDepths
CONSTRAINT Bounded
CHECK_DEADLOCK FALSE
INVARIANTS
    TypeOK
    SpillFollowsDepth
    StackSound
    VerdictsExact
PROPERTY ImplementsPushdown
