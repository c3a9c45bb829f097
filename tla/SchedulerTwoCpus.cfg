CONSTANTS
    c1 = c1
    c2 = c2
    CPUS <- MCCpus
    NPROC = 2
    MaxPid = 4
    AgeThreshold = 0
    CycleCap = 1
    ProcSize = 1
    Names <- MCNames
    AllowList <- MCAllowList
    CallBudget = 1
    PidArgs <- MCPidArgs
    QueueArgs <- MCQueueArgs
    PrioArgs <- MCPrioArgs
    RatioArgs <- MCRatioArgs
SPECIFICATION Spec
SYMMETRY CpuSymmetry
INVARIANT SchedTypeOK
INVARIANT OneCpuPerProcess
INVARIANT UnsetOnlyInFork
