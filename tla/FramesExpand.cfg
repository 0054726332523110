\* The default build: an expandable stack; a context that is run once.
SPECIFICATION Spec
CONSTANTS
    Functions <- MCFunctions
    LocalsCount <- MCLocalsCount
    BytecodeSize <- MCBytecodeSize
    StackSize = 3
    CanExpand = TRUE
    Reuse = FALSE
    ArgumentsInRange = TRUE
    Plain = Plain
INVARIANTS
    StackExpands
\* A context that is not run again stays where it ended.
CHECK_DEADLOCK FALSE
