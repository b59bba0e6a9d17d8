SPECIFICATION Spec
CONSTANTS
    Names = {"a", "b"}
    MaxDepths <- MCMaxDepths
    MaxRead = 8
CONSTRAINT Bounded
CHECK_DEADLOCK FALSE
INVARIANT DecodesDocument
