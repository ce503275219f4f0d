CONSTANTS
    p1 = p1  p2 = p2  p3 = p3  c1 = c1  c2 = c2  k1 = k1  k2 = k2
    Principals = {p1, p2, p3}
    Requester = p3
    AgentOwner = p2
    ProhibitRequester = FALSE
    ProhibitOwnerSole = TRUE
    RequiredApprovals = 2
    Callers = {c1, c2}
    Checks = {k1}
    None = None
SPECIFICATION FairSpec
PROPERTY ImplementsLifecycle
