SPECIFICATION Spec
CONSTANTS
    Cells = {c1, c2, c3}
    Names = {x}
    NIL = NIL
    Numbers = {"0"}
    MaxDepth = 3
    MaxLost = 1
SYMMETRY MCSymmetry
INVARIANTS TypeOK RefExact
PROPERTIES SuspendedUntouched FreedOnlyUnderVariable
