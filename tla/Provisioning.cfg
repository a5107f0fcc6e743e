SPECIFICATION Spec
CONSTANTS
    n1 = n1
    n2 = n2
    iso = iso
    disk = disk
    Workers = {w1, w2}
    Names = {n1, n2}
    Isos = {iso}
    Disks = {disk}
    Requests <- Several
    StopsIn = {"PoweredOff"}
    Nobody = Nobody
    Vm = Vm
    Abandoned = Abandoned
INVARIANTS
    IInv
    NothingLeftOver
    AttachedExist
PROPERTIES
    TrueMeansMade
    ImplementsRegistry
    ImplementsSessionLock
CONSTRAINT FollowedOn
SYMMETRY WorkerSymmetry
\* importVM and a null controller end the server process.
CHECK_DEADLOCK FALSE
