SPECIFICATION FairSpec
CONSTANTS
    Tasks = {t1, t2, t3}
    CPUs = {bsp}
    BSP = bsp
    Queues = {q}
    SleepQ = SleepQ
    NoTask = NoTask
    NoCPU = NoCPU
    NoQueue = NoQueue
    Forever = Forever
    MaxWait = 2
    Masks = {{bsp}}
    Reserve = 2
INVARIANTS
    NoOversleep
PROPERTIES
    TimedWaitsEnd
