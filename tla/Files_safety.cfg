SPECIFICATION Spec
SYMMETRY MCSymmetry
CONSTANTS
    Nodes = {n1, n2, n3, n4}
    Streams = {f1, f2, f3}
    Names = {1, 2, 3, 4}
    NULL = NULL
    Stderr = 1
    Stdin = 2
    Stdout = 3
CHECK_DEADLOCK FALSE
INVARIANTS TypeOK StaysTree StreamsHeld LookupsExact
PROPERTY IsStreamTable
