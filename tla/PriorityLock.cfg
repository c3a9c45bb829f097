CONSTANTS
    c1 = c1
    c2 = c2
    CPUS <- MCCpus
    NPROC <- MCNproc
    MaxPid <- MCMaxPid
    KillTargets <- NoKill
SYMMETRY CpuSymmetry
SPECIFICATION TestSpec
INVARIANT LockTypeOK
INVARIANT MutualExclusion
INVARIANT QueueOrdered
INVARIANT QueuedAreBlocked
INVARIANT WokenIsOwner
INVARIANT LockHeldByLive
PROPERTY RefinesAbsLock
