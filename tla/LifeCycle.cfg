SPECIFICATION Spec
CONSTANTS
    Linked = TRUE
    Word = 8
    ValueSize = 24
    NodeSize = 40
    HostSizes = {23, 50}
    Hosts = {h1, h2}
    VM = vm
    Tables = {vm, table}
    MaxPools = 5
INVARIANTS
    HoldersServed
    OrderlyProgramsShare
CHECK_DEADLOCK FALSE
