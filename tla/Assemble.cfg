SPECIFICATION Spec
CONSTANTS
    DwordHalf = 4
    QwordHalf = 16
    MaxLength = 2
    MaxOperands = 2
    MaxTokens = 3
    Cips <- MCCips
    Addresses <- MCAddresses
\* A text with too many operands may stop the process.
CHECK_DEADLOCK FALSE
INVARIANTS
    TypeOK
    IInv
    RipExact
    FirstWidthWins
    RefusedOnlyIfHopeless
PROPERTIES
    ImplementsAssembleCall
