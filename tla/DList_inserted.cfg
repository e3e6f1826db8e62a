SPECIFICATION SpecSorted
CONSTANTS
    Nodes = {n1, n2, n3, n4, n5}
    NULL = NULL
    Data = {1, 2, 3}
INVARIANT InsertedIsFound
CHECK_DEADLOCK FALSE
