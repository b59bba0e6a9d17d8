SPECIFICATION Spec
CONSTANTS
    Room = 6
    LongestDocument = 12
    DocLengths <- MCDocLengths
CHECK_DEADLOCK FALSE
INVARIANTS
    TypeOK
    MarksNameChunks
    OneChunk
    AllocationFollowsDecoding
PROPERTY NeverRewritten
