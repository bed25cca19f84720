\* Four instances on six points, two of them selected.
CONSTANTS
    a = a
    b = b
    c = c
    d = d
    Members <- Four
    RingSize = 6
    Hashings <- AllHashings
    Key = 2
    Num = 2
SPECIFICATION RingSpec
SYMMETRY Symmetric
INVARIANTS
    ResultIsNearest
    WalkEndsInARound
    SubsetStable
