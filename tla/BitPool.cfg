SPECIFICATION Spec
CONSTANTS
    W = 2
    UseOffset = TRUE
    PerPage = 3
    MaxPages = 4
INVARIANTS
    SearchLosesNone
    BitsTellLive
PROPERTIES
    IsHeap
