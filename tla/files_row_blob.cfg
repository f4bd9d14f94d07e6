SPECIFICATION Spec
CONSTANTS
    Callers = {c1, c2}
    Users = {u1}
    Names <- OneSpelling
    Cleaned <- CleansToA
    Versions <- OneOrTwo
    v1 = v1
    v2 = v2
    v3 = v3
    Provisioned = {u1}
    NoFile = NoFile
    Empty = Empty
    Torn = Torn
    Faults = {}
    Careful = {}
INVARIANTS RowHasBlob
