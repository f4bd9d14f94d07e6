SPECIFICATION FairSpec
CONSTANTS
    Cmds = {c1}
    Names = {a, b}
    Versions = {v1, v2}
    None = None
    Torn = Torn
    Damaged = Damaged
    Disturbed = Disturbed
    Faults <- AllFaults
    Others <- AllOthers
INVARIANTS TypeOK SyncConverges SyncPreserves SyncStopsClean CommandDone ShownIsTrue
PROPERTIES CommandBounded CommandsEnd
