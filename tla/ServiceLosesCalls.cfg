SPECIFICATION FairSpec
CONSTANTS
    k1 = k1
    vmCommon = vmCommon
    Types = {vmCommon}
    Calls = {k1}
    TypeOf <- AllCommon
    Ctxs = {c1, c2, c3}
    NoCtx = NoCtx
    NoCall = NoCall
    PoolSize = 17
    CanCancel = FALSE
    MaxLost = 1
    MaxHung = 0
PROPERTY HandledRequestIsAnswered
CHECK_DEADLOCK FALSE
