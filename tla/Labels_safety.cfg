SPECIFICATION Spec
CONSTANTS
    Objects = {o1, o2}
    Names = {x, y}
    NIL = NIL
    MaxDepth = 3
SYMMETRY MCSymmetry
INVARIANTS TypeOK NamespacesMatch JumpsStayInProc StaleOnlyIfCrossed
