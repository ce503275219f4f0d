SPECIFICATION FairSpec
CONSTANTS
    Callers = {c1}
    Retries = 2
    MaxFaults = 0
    None = None

PROPERTIES RetriedUntilMissed
