SPECIFICATION FairSpec
CONSTANTS
    c1 = c1
    c2 = c2
    w1 = w1
    w2 = w2
    NoWorker = NoWorker
    Clients = {c1, c2}
    Workers = {w1, w2}
    MaxRestarts = 1
INVARIANTS
    RecordHeld
    NoOrphan
PROPERTY StopReturns
