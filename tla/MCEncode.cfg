SPECIFICATION FairSpec
CONSTANTS
    Pointers = {1, 2, 3, 4, 5, 6, 7}
    Hash <- MCHash
    HashRange = 8
    Keys = {1, 2, 3, 4}
    NotUTF8 = {1, 4}
    Names <- MCNames
    Reads <- MCReads
    Memories <- MCMemories
    Roots <- MCRoots
    MaxDepth = 5
    InlineOpenValues = 1
    BucketsPerFrame = 1
    BucketsGrowth = 2
CHECK_DEADLOCK FALSE
INVARIANTS
    OpenSound
    WritesTree
PROPERTIES
    Done
    CallsBuilder
