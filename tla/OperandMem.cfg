SPECIFICATION Spec
CONSTANTS
    ByteHalf = 2
    DwordHalf = 4
    QwordHalf = 16
    Regs <- MCRegs
    StackRegs <- MCStackRegs
    SegRegs <- MCSegRegs
    WordRegs <- MCWordRegs
    PrefixSizes <- MCPrefixSizes
    Values <- MCValues
    Cips <- MCCips
    MaxPieces = 4
\* The call ends.
CHECK_DEADLOCK FALSE
INVARIANTS
    TypeOK
    IInv
    DenotesText
