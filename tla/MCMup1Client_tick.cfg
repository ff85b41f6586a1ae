CONSTANTS
    Byte <- MCByte
    RAW_BUF_CAP = 24
    TIMEOUT = 1
    INTERNET = TRUE
    CHECKSUM_LEN = 2
    CsumNew = 0
    CsumUpdate <- MCUpdate
    CsumFinalize <- MCFinalize
    CsumSentinels = {}
    READ_BUF = 20
    Traffic <- MCTraffic
    SplitTrailer = FALSE
    MayStall = {TRUE}
    MaxWrites <- MCMaxWrites
SPECIFICATION ClientSpec
PROPERTY
    NoEarlyRecovery
