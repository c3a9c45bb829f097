CONSTANTS
    c1 = c1
    c2 = c2
    CPUS <- MCCpus
    NPROC <- MCNproc
    MaxPid <- MCMaxPid
    KillTargets <- MCKillTargets
SYMMETRY CpuSymmetry
SPECIFICATION Spec
INVARIANT RunningOnOneCpu
CHECK_DEADLOCK FALSE
