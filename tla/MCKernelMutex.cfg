SPECIFICATION FairSpec
CONSTANTS
    Tasks = {t1, t2}
    CPUs = {cpu0, cpu1}
    Mutexes = {m1, m2}
    NoTask = NoTask
    NoOwner = NoOwner
    NoMutex = NoMutex
    Capacity = 1
    RecursionLimit = 2
    MaxGeneration = 2
    MaxCallerPins = 1
INVARIANTS
    TypeOK
    RevocableExactly
    OwnerAlive
    UnrecordedOwnerRuns
    PinsBalanced
    NoStrandedWaiter
PROPERTY
    LockCallsReturn
