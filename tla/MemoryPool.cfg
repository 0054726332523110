\* Two pages of two cells: the list empties, a page fills, the pool grows.
SPECIFICATION Spec
CONSTANTS
    PerPage = 2
    MaxPages = 2
    NULL = NULL
    Garbage = Garbage
INVARIANTS
    ReuseThreadsFreeCells
    CarvedAccounted
    PagesFillInOrder
PROPERTIES
    GrowsOnlyWhenFull
    IsHeap
