SPECIFICATION FairSpec
CONSTANTS
    a1 = a1
    a2 = a2
    Life <- MCLife
    Actors = {a1, a2}
    LastStart = 1
    Horizon = 3
INVARIANT RecoversWhatItClears
PROPERTY ServiceReturns
