SPECIFICATION Spec
CONSTANTS
    Workers = {w1}
    Machines = {m1}
    Unknown = Unknown
    Offered <- Everything
    Nobody = Nobody
    Vm = Vm
    Abandoned = Abandoned
INVARIANT ConsoleIsThere
CHECK_DEADLOCK FALSE
