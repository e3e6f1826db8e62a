SPECIFICATION Spec
CONSTANTS
    Nodes = {n1, n2, n3, n4, n5}
    NULL = NULL
    Data = {1, 2, 3}
SYMMETRY MCSymmetry
INVARIANTS TypeOK LinksInverse WalksAgree
PROPERTY IsDeque
