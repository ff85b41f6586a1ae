CONSTANTS
    Byte <- MCByte
    RAW_BUF_CAP = 6
    TIMEOUT = 1
    INTERNET = TRUE
    CHECKSUM_LEN = 1
    CsumNew = 0
    CsumUpdate <- MCUpdate
    CsumFinalize <- MCFinalize
    CsumSentinels <- MCSentinels
    MaxPending = 1
    MaxDrops = 1
VIEW MCView
SPECIFICATION MCSpec
INVARIANT
    DataEndOK
CHECK_DEADLOCK FALSE
