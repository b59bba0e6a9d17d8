SPECIFICATION Spec
CONSTANTS
    MaxWritten = 11
    MaxNesting = 5
    Lengths = {0, 1, 2}
CONSTRAINT Bounded
INVARIANTS
    WritesValues
