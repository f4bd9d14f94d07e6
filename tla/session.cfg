SPECIFICATION FairSpec
CONSTANTS
    Cmds = {c1, c2}
    Kinds <- MCKinds
    Names = {n}
    NoItem = NoItem
\* The user may end the program, and nothing happens after that.
CHECK_DEADLOCK FALSE
INVARIANTS
    TypeOK
    LoadingBacked
    ShownIsServers
PROPERTIES
    LoadingEnds
