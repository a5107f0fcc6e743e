SPECIFICATION Spec
CONSTANTS
    Workers = {w1}
    Machines = {m1}
    Unknown = Unknown
    Offered <- Snapshots
    Nobody = Nobody
    Vm = Vm
    Abandoned = Abandoned
INVARIANT RestoresAfterSleeping
CHECK_DEADLOCK FALSE
