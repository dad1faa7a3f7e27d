SPECIFICATION Spec
CONSTANTS
    ByteBits = 2
    WordBits = 3
    DwordBits = 4
    QwordBits = 7
    Rows <- MCRows
    Values <- MCValues
\* The call ends.
CHECK_DEADLOCK FALSE
INVARIANTS
    TypeOK
    IInv
PROPERTIES
    AmbiguityExact
    TooLargeExact
    NarrowestForm
    MemoryWidthOfAForm
    ValueKept
    ByteSignKept
    NotWiderThanRegister
