CONSTANTS
    a1 = a1  m1 = m1  s1 = s1  s2 = s2  w1 = w1  w2 = w2  c1 = c1  c2 = c2
    Agents = {a1}
    Machines = {m1}
    MachineOf <- MCMachineOf
    Sessions = {s1}
    MachineSessions = {}
    Commands = {c1, c2}
    DbMayFail = FALSE
    None = None
SPECIFICATION ChannelFairSpec
CHECK_DEADLOCK FALSE
PROPERTIES CreatedReported TurnReported DisconnectResolves
