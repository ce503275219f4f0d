CONSTANTS
    a1 = a1  a2 = a2
    Agents = {a1}
    MaxEvents = 3
    MaxFaults = 1
    SaveMayFail = FALSE
    None = None
    DbRev = DbRev
SPECIFICATION FairSpec
INVARIANTS TypeOK ReducerMatchesLog NoEventSkipped
PROPERTY Converges
CHECK_DEADLOCK FALSE
