CONSTANTS
    c1 = c1
    c2 = c2
    CPUS <- MCOneCpu
    NPROC = 2
    MaxPid = 3
    AgeThreshold = 0
    CycleCap = 0
    ProcSize = 1
    Names <- MCNames
    AllowList <- MCAllowList
    CallBudget = 1
    PidArgs <- MCPidArgsInit
    QueueArgs <- MCQueueArgs
    PrioArgs <- MCPrioArgs
    RatioArgs <- MCRatioArgs
SPECIFICATION FairSpec
PROPERTY StarvationFree
