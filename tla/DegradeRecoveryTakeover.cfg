SPECIFICATION Spec
CONSTANTS
    a1 = a1
    a2 = a2
    Life <- MCLife
    Actors = {a1, a2}
    LastStart = 2
    Horizon = 4
PROPERTY ResumeOnlyAfterApproval
