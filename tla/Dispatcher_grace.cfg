CONSTANTS
    a1 = a1  a2 = a2  m1 = m1  s1 = s1  s2 = s2  s3 = s3  w1 = w1  w2 = w2  c1 = c1  c2 = c2
    Agents = {a1}
    Machines = {m1}
    MachineOf <- MCMachineOf
    Sessions = {s1, s2}
    MachineSessions = {}
    Commands = {c1}
    DbMayFail = TRUE
    None = None
SPECIFICATION Spec
CHECK_DEADLOCK FALSE
PROPERTY GraceSparesFinished
