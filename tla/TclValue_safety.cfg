SPECIFICATION Spec
CONSTANTS
    Handles = {h1, h2, h3, h4}
    Cells = {c1, c2, c3, c4}
    FREE = FREE
    Scalars = {"STR", "INT", "OBJ", "FUN"}
    MaxList = 2
SYMMETRY MCSymmetry
INVARIANTS TypeOK RefExact Ownership NoLeak
PROPERTY ListCoercionPrivate
CHECK_DEADLOCK FALSE
