SPECIFICATION ServerSpec
CONSTANTS
    k1 = k1
    k2 = k2
    test = test
    vmCommon = vmCommon
    Types = {test, vmCommon}
    Calls = {k1, k2}
    TypeOf <- AllCommon
    Ctxs = {c1, c2, c3, c4, c5}
    NoCtx = NoCtx
    NoCall = NoCall
    Workers = {w1, w2}
    NoThread = NoThread
    PoolSize = 2
    CanCancel = TRUE
    MaxLost = 1
    MaxHung = 1
SYMMETRY ServerSymmetry
INVARIANTS
    ServerTypeOK
    ServerInv
    NoUseAfterFree
    ContextInOnePlace
    OneListenerPerType
    StatusTellsTheEvent
    ThreadsHoldTheirContexts
PROPERTIES
    ImplementsService
    ImplementsCallService
    UsesTaskPool
\* GPR_ASSERT(ok) stops the process when a client has gone.
CHECK_DEADLOCK FALSE
