SPECIFICATION Spec
CONSTANTS
    k1 = k1
    vmCommon = vmCommon
    Types = {vmCommon}
    Calls = {k1}
    TypeOf <- AllCommon
    Ctxs = {c1, c2}
    NoCtx = NoCtx
    NoCall = NoCall
    PoolSize = 17
    CanCancel = TRUE
    MaxLost = 0
    MaxHung = 0
INVARIANT EventsAreOk
CHECK_DEADLOCK FALSE
