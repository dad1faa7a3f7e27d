SPECIFICATION Spec
CONSTANTS
    Chars <- MCChars
    Files <- MCFiles
    MaxLength = 2
    CipModulus = 4
    FirstCip = 3
    BaseCip = 1
\* The program ends.
CHECK_DEADLOCK FALSE
INVARIANTS
    TypeOK
    LinesInOrder
    AddressesChain
PROPERTIES
    EndsExactlyOnCrLf
