SPECIFICATION FairSpec
CONSTANTS
    Workers = {w1, w2}
    Machines = {m1}
    Unknown = Unknown
    Offered <- Most
    Nobody = Nobody
    Vm = Vm
    Abandoned = Abandoned
INVARIANTS
    IInv
    AnsweredAfterProgress
    TrueMeansAsked
    FalseMeansUntouched
PROPERTIES
    CallsEnd
    ImplementsSessionLock
\* The server may be gone and the machine at rest.
CHECK_DEADLOCK FALSE
