SPECIFICATION FairSpec
CONSTANTS
    Users = {u1}
    Watchers = {w1}
    Agents = {a1}
    PageSize = 3
    ConflictPage = 3
    MaxVersion = 4
    MaxFaults = 0
    None = None
INVARIANTS CursorCoversShown
