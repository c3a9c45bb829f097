CONSTANTS
    NPROC = 3
    MaxPid = 5
    Boot <- MCBoot
    MaxTicks = 4
SPECIFICATION Spec
INVARIANT LifetimeExact
