SPECIFICATION Spec
CONSTANTS
    Callers = {c1}
    MaxCalls = 1
    PoolSize = 3
    TableRows = 2
    Faults = {"query"}
INVARIANT ListComplete
