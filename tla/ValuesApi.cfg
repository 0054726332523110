\* Scripts that pass strings to API functions and pop them afterwards.
SPECIFICATION VMSpec
CONSTANTS
    Functions <- MCFunctions
    LocalsCount <- MCLocalsCount
    BytecodeSize <- MCBytecodeSize
    StackSize = 5
    CanExpand = FALSE
    Reuse = FALSE
    ArgumentsInRange = TRUE
    Plain = Plain
    Consts = {"s"}
    Cells = {a, b}
    None = None
    ScriptHold = 1
    RcMod = 16
    MaxLost = 1
    Bits = 4
    Modulus = 16
    CleanLocals = TRUE
    ApiOnIntegers = FALSE
INVARIANTS
    NoDanglingReference
\* A context that is not run again stays where it ended.
CHECK_DEADLOCK FALSE
