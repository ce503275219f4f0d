CONSTANTS
    w1 = w1  w2 = w2  s1 = s1
    Writers = {w1, w2}
    Subscribers = {s1}
    Targets = {"WORKING", "COMPLETED"}
    Buffer = 1
    ReplayLimit = 2
    MaxVersion = 3
    MaxEvents = 1
    None = None
SYMMETRY WriterSymmetry
SPECIFICATION Spec
INVARIANTS TypeOK LogGapless
PROPERTIES NoLostUpdate DoneSpared StreamOrdered
