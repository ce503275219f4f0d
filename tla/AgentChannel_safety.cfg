CONSTANTS
    a1 = a1  m1 = m1  s1 = s1  s2 = s2  w1 = w1  w2 = w2  c1 = c1  c2 = c2
    Agents = {a1}
    Machines = {m1}
    MachineOf <- MCMachineOf
    Sessions = {s1, s2}
    MachineSessions = {w1, w2}
    Commands = {c1}
    DbMayFail = TRUE
    None = None
SPECIFICATION ChannelSpec
SYMMETRY MCSymmetry
INVARIANTS ChannelTypeOK RegisteredIsLive NoLeakedSession LiveCommandHasNoTimer GraceTracksTimers BoundAtMostOnce ReplyAwaited ReapsOnlyAbandoned NoSharedTurn
PROPERTY ArmedAtMostOnce
CHECK_DEADLOCK FALSE
