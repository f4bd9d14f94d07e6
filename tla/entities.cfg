SPECIFICATION Spec
CONSTANTS
    Callers = {c1, c2}
    Users = {u}
    Names = {a, Unnamed}
    Types = {t1, t2}
    Data = {x, y}
    Ids = {i1, i2, i3}
    Unnamed = Unnamed
    NoRow = NoRow
    NoData = NoData
    Faults <- AllFaults
    CarefulTypes = {t1}
    Careful <- CarefulPairs
SYMMETRY Symmetry
INVARIANTS TypeOK DuplicatesBounded UniqueNames
PROPERTY ImplementsMap
