SPECIFICATION Spec
CONSTANTS
    a = a
    b = b
    c = c
    d = d
    e = e
    f = f
    g = g
    Names <- MCNames
    Hash <- MCHash
    InlineNames = 3
    KeptSpillNames = 5
INVARIANTS
    TypeOK
    TableSound
    ProbeEnds
    KeptMapSmall
PROPERTY ImplementsMembership
