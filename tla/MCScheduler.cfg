SPECIFICATION Spec
CONSTANTS
    Tasks = {t1, t2, t3}
    CPUs = {bsp, ap}
    BSP = bsp
    Queues = {q}
    SleepQ = SleepQ
    NoTask = NoTask
    NoCPU = NoCPU
    NoQueue = NoQueue
    Forever = Forever
    MaxWait = 1
    Masks = {{bsp}, {bsp, ap}}
    Reserve = 1
SYMMETRY TaskSymmetry
INVARIANTS
    TypeOK
    SingleOwner
    DispatchedComplete
    StackInUse
    BlockedIffLinked
    ExitWaitersLive
    TerminationOwned
    ReaperExclusive
PROPERTIES
    ReserveKept
    DoomedStaysDoomed
