SPECIFICATION FairSpec
CONSTANTS
    Users = {u1}
    Watchers = {w1}
    Agents = {a1}
    PageSize = 1
    ConflictPage = 1
    MaxVersion = 4
    MaxFaults = 1
    None = None
INVARIANTS TypeOK NoLostWakeup
PROPERTIES MessageOpensSession
