SPECIFICATION Spec
CONSTANTS
    WordModulus = 16
    DwordModulus = 64
    QwordModulus = 512
    Texts <- MCTexts
    Answers = {3, 200}
\* The call ends.
CHECK_DEADLOCK FALSE
INVARIANTS
    TypeOK
    NothingLost
    SseOrString
    StringAddressSize
    JumpKeepsCondition
    NumberMeans
    SelectorMeans
