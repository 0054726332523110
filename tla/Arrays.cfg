\* Four cells and three keys: the fewest with which a removal leaves a wrong
\* Parent and the array is not empty.  At most two strings and arrays; an
\* element may be loaded while three cells are in use, and an integer
\* computed while two are.
SPECIFICATION Spec
CONSTANTS
    Cells = {c1, c2, c3, c4}
    None = None
    LocalsCount = 1
    StackSize = 3
    Keys = {1, 2, 3}
    RcMod = 9
    MaxObjects = 2
    MaxLoading = 3
    MaxComputing = 2
    MaxLost = 0
SYMMETRY Symmetry
VIEW Readable
INVARIANTS
    CountsAreExact
    OnlyTanglesBreak
PROPERTIES
    ElementCellsStay
CHECK_DEADLOCK FALSE
