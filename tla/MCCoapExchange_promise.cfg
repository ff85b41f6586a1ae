CONSTANTS
    N = 2
    ReqLen <- PutThenGet
    RespLen <- ShortThenLong
    SZX = 1
    MAX_RETRANSMIT = 1
    MSG_ID_MOD = 16
    MaxBatch = 1
    Unit <- MCUnit
    Replies <- NoReplies
    NoBlock = NoBlock
    NoError = "none"
    DeviceSzx = {0, 2}
    CanReset = TRUE
    Lossy = TRUE
SPECIFICATION FairExchangeSpec
INVARIANTS
    TypeOK
    UploadContiguous
    UploadInRange
PROPERTIES
    Promise
    RequestReturns
CHECK_DEADLOCK FALSE
