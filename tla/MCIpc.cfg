SPECIFICATION FairSpec
CONSTANTS
    Procs = {a, b, c}
    Creators = {a}
    Grants = {{"SEND"}}
    Kernel = Kernel
    NoProc = NoProc
    NumSlots = 1
    MaxGeneration = 2
    QueueDepth = 1
    MaxRecords = 2
    MaxLocal = 1
    MaxExits = 1
CHECK_DEADLOCK FALSE
INVARIANTS
    TypeOK
    CapabilityExact
    NoOrphanedWaiter
    NoLostWakeup
PROPERTIES
    CallsReturn
