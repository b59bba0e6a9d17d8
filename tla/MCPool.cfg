SPECIFICATION Spec
CONSTANTS
    Goroutines = {g1, g2}
    Builders = {b1, b2}
    Batches = {w1, w2}
    None = None
    BufferSize <- MCBufferSize
    MaxRetain <- MCMaxRetain
    LongestText = 3
    Rooms = {3}
    MostRecords = 1
SYMMETRY Symmetric
INVARIANTS
    TypeOK
    Exclusive
    RetainsLittle
PROPERTY ImplementsPrivateWriters
