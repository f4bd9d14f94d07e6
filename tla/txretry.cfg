SPECIFICATION FairSpec
CONSTANTS
    Callers = {c1, c2}
    MaxCalls = 2
    PoolSize = 5
    TableRows = 1
    Faults <- AllFaults
INVARIANTS TypeOK ExactlyOnce PoolAccounted ListCovers PoolServes
PROPERTIES HandlerBounded ImplementsStatements EveryCallEnds ShutdownEnds
