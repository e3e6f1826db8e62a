SPECIFICATION FairSpec
CONSTANTS
    Handles = {h1, h2, h3, h4}
    Cells = {c1, c2, c3}
    FREE = FREE
    Scalars = {"STR"}
    MaxList = 1
PROPERTY CascadeEnds
CHECK_DEADLOCK FALSE
