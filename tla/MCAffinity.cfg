SPECIFICATION MonitorSpec
CONSTANTS
    Tasks = {t1, t2, t3}
    CPUs = {bsp, ap}
    BSP = bsp
    Queues = {q}
    SleepQ = SleepQ
    NoTask = NoTask
    NoCPU = NoCPU
    NoQueue = NoQueue
    Forever = Forever
    MaxWait = 1
    Masks = {{bsp}, {ap}}
    Reserve = 1
INVARIANT FencedOffOtherCpus
