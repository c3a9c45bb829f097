CONSTANTS
    INPUT_BUF = 16
    CMD_BUF_SIZE = 3
    UINT <- MCUint
    Chars <- MCChars
    ReadSizes <- MCReadSizes
    MaxKeys = 5
SPECIFICATION Spec
INVARIANT ConsoleTypeOK
PROPERTY RefinesLineDiscipline
CHECK_DEADLOCK FALSE
