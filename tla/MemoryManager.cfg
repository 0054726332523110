\* Three and one unit to a block (size 3 rounded up to 4), and a large size;
\* one batch of three blocks, so that lists have a middle.
CONSTANTS
    Alignment1 = 1
    Count1 = 2
    Alignment2 = 2
    Count2 = 4
    HeadSize = 2
    BlockAlloc = 3
    MaxBatches = 1
    Sizes = {1, 3, 9}
    Larges = {x, y}
    NULL = NULL
    BlockHead = BlockHead
SPECIFICATION Spec
SYMMETRY Symmetry
VIEW Readable
INVARIANTS
    FreeUnitsThreaded
    BlocksAreListed
    AssertionsHold
    VerifyTellsLive
    CellsFit
PROPERTIES
    IsHeap
