\* Programs of up to three statements in up to two functions.
SPECIFICATION Spec
CONSTANTS
    Expansion = 2
    Byte = 8
    Width = 2
    Names = {"f", "g"}
    Labels = {"a", "b"}
    OpByte <- MCOpByte
    Hash <- MCHash
    None = None
    Inputs <- MCInputs
    Strings = {"g"}
    Constants = {5}
    Comments <- MCComments
    MaxItems = 3
    MaxFunctions = 2
INVARIANTS
    CodeRunsAsWritten
    LoadDropsLast
    TablesBalance
PROPERTIES
    ClosedCommentIsLeft
\* The tool ends.
CHECK_DEADLOCK FALSE
