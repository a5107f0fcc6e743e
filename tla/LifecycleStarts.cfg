SPECIFICATION Spec
CONSTANTS
    Workers = {w1, w2}
    Machines = {m1}
    Unknown = Unknown
    Offered <- Power
    Nobody = Nobody
    Vm = Vm
    Abandoned = Abandoned
INVARIANT StartsOnlyAtRest
CHECK_DEADLOCK FALSE
