SPECIFICATION Spec
CONSTANTS
    Callers = {c1, c2}
    Users = {u1, u2}
    Names <- TwoSpellings
    Cleaned <- CleansToA
    Versions <- OneOrTwo
    v1 = v1
    v2 = v2
    v3 = v3
    Provisioned = {u1, u2}
    NoFile = NoFile
    Empty = Empty
    Torn = Torn
    Faults <- AllFaults
    Careful = {u1}
SYMMETRY Symmetry
INVARIANTS TypeOK DownloadAuthentic AckedDurable
PROPERTY ImplementsStore
