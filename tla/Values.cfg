\* Scripts that keep both rules, in a context the host runs again.
SPECIFICATION VMSpec
CONSTANTS
    Functions <- MCFunctions
    LocalsCount <- MCLocalsCount
    BytecodeSize <- MCBytecodeSize
    StackSize = 5
    CanExpand = FALSE
    Reuse = TRUE
    ArgumentsInRange = TRUE
    Plain = Plain
    Consts = {"s"}
    Cells = {a, b}
    None = None
    ScriptHold = 1
    RcMod = 16
    MaxLost = 1
    Bits = 4
    Modulus = 16
    CleanLocals = TRUE
    ApiOnIntegers = TRUE
SYMMETRY CellSymmetry
VIEW Readable
INVARIANTS
    CountsAreExact
    NoDanglingReference
    StopReleasesAll
\* A context that is not run again stays where it ended.
CHECK_DEADLOCK FALSE
