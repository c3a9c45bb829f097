CONSTANTS
    c1 = c1
    c2 = c2
    CPUS <- MCCpus
    NPROC <- MCNproc
    MaxPid <- MCMaxPid
    KillTargets <- NoKill
SYMMETRY CpuSymmetry
SPECIFICATION Spec
INVARIANT AtMostOneInCS
CHECK_DEADLOCK FALSE
