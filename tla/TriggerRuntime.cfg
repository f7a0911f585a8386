SPECIFICATION Spec
CONSTANTS
    cron = cron  hook = hook  manual = manual  NoSlot = NoSlot
    w1 = w1  w2 = w2  e1 = e1  e2 = e2  e3 = e3
    Chains = {cron, manual}
    Workers = {w1, w2}
    Slots = {e1, e2, e3}
    Kind <- MCKind
    Period = 1
INVARIANTS RerunOnlyAfterInterrupt ChainGoesOn
SYMMETRY MCSymmetry
