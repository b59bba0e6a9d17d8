SPECIFICATION Spec
CONSTANTS
    WordSize = 3
    MaxPieces = 4
    MaxBytes = 4
CHECK_DEADLOCK FALSE
INVARIANTS
    WordsExact
    ScannersAgree
    EscapesRoundTrip
    NamesOrdered
