SPECIFICATION FairSpec
CONSTANTS
    Callers = {c1, c2}
    Retries = 2
    MaxFaults = 1
    None = None
INVARIANTS TypeOK TimerOnlyWhileDue
PROPERTIES FireNoticed
