\* As many nodes as keys, iterated over while the Parent fields are right.  Five
\* keys: the fewest with which the entry that replaces a removed one comes
\* from further below and leaves a child.
CONSTANTS
    Nodes = {n1, n2, n3, n4, n5}
    Keys = {1, 2, 3, 4, 5}
    Values = {v, w}
    NULL = NULL
    CountMod = 3
    IterateAnyway = FALSE
SPECIFICATION Spec
SYMMETRY ValueSymmetry
VIEW Readable
INVARIANTS
    NodesAreInTree
    CountDrifts
PROPERTIES
    IsDictionary
    HasTableShape
    IteratesInOrder
