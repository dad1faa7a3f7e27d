SPECIFICATION Spec
CONSTANTS
    Threads = {t1, t2}
    NoThread = NoThread
    NoInst = NoInst
    NumClasses = 2
    NumInsts = 3
    ClassOf <- MCClassOf
    MaxForms = 2
    Dll = FALSE
PROPERTY
    FrozenOncePublished
CHECK_DEADLOCK FALSE
