SPECIFICATION FairSpec
CONSTANTS
    Threads = {t1, t2, t3}
    NoThread = NoThread
    NoInst = NoInst
    NumClasses = 2
    NumInsts = 3
    ClassOf <- MCClassOf
    MaxForms = 2
    Dll = TRUE
INVARIANTS
    TypeOK
    ScanIsComplete
    NeverBreaks
    IInv
PROPERTIES
    FrozenOncePublished
    CallsReturn
    ImplementsOnceTable
