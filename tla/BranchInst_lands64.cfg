SPECIFICATION Spec
CONSTANTS
    ByteHalf = 8
    WordHalf = 16
    DwordHalf = 32
    QwordHalf = 128
    DwordsPerQword = 4
    Cips <- MCCips
    Values <- MCValues
INVARIANTS
    LandsOnTarget64
CHECK_DEADLOCK FALSE
