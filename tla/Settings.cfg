SPECIFICATION Spec
CONSTANTS
    Calls = {c1, c2}
    Offered <- Everything
    Before = Before
    Nobody = Nobody
    Vm = Vm
    Abandoned = Abandoned
SYMMETRY CallSymmetry
INVARIANTS
    IInv
    TrueMeansSaved
    AllOrNothing
    LockLeftByFailure
PROPERTY ImplementsSessionLock
\* The server may be gone and the machine at rest.
CHECK_DEADLOCK FALSE
