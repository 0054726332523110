\* A stack of fixed size and a context that is run once.
SPECIFICATION Spec
CONSTANTS
    Functions <- MCFunctions
    LocalsCount <- MCLocalsCount
    BytecodeSize <- MCBytecodeSize
    StackSize = 7
    CanExpand = FALSE
    Reuse = FALSE
    ArgumentsInRange = TRUE
    Plain = Plain
INVARIANTS
    TypeOK
    RegistersDescribeFrame
    FramesOnStack
    OperandsArePlain
    NeverWild
PROPERTIES
    ReturnRestoresCaller
    ReturnsAreBalanced
\* A context that is not run again stays where it ended.
CHECK_DEADLOCK FALSE
