\* The default build, and a host that runs its context again.
SPECIFICATION Spec
VIEW Readable
CONSTANTS
    Functions <- MCFunctions
    LocalsCount <- MCLocalsCount
    BytecodeSize <- MCBytecodeSize
    StackSize = 7
    CanExpand = TRUE
    Reuse = TRUE
    ArgumentsInRange = FALSE
    Plain = Plain
INVARIANTS
    FramesOnStack
PROPERTIES
    ReturnRestoresCaller
\* A context that is not run again stays where it ended.
CHECK_DEADLOCK FALSE
