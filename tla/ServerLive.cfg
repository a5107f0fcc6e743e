SPECIFICATION ServerFairSpec
CONSTANTS
    k1 = k1
    k2 = k2
    test = test
    vmCommon = vmCommon
    Types = {vmCommon}
    Calls = {k1, k2}
    TypeOf <- AllCommon
    Ctxs = {c1, c2, c3}
    NoCtx = NoCtx
    NoCall = NoCall
    Workers = {w1, w2}
    NoThread = NoThread
    PoolSize = 2
    CanCancel = FALSE
    MaxLost = 0
    MaxHung = 1
PROPERTIES
    ImplementsFairPool
    OthersAreServed
\* The clients of a lost call and of a call that hangs may wait for ever.
CHECK_DEADLOCK FALSE
