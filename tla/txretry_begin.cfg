SPECIFICATION Spec
CONSTANTS
    Callers = {c1, c2}
    MaxCalls = 1
    PoolSize = 4
    TableRows = 1
    Faults = {"query", "deadline"}
PROPERTY BeginErrorReturned
