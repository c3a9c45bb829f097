CONSTANTS
    NPROC = 3
    MAX_SHARED_PAGES = 2
    NFRAMES = 2
    MaxSz = 2
    Ids <- MCIds
SPECIFICATION Spec
INVARIANT NoUseAfterFree
CHECK_DEADLOCK FALSE
