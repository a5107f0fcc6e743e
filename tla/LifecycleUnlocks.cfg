SPECIFICATION SnapshotlessSpec
CONSTANTS
    Workers = {w1}
    Machines = {m1}
    Unknown = Unknown
    Offered <- Restores
    Nobody = Nobody
    Vm = Vm
    Abandoned = Abandoned
INVARIANT AlwaysUnlocked
CHECK_DEADLOCK FALSE
