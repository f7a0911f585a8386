SPECIFICATION Spec
CONSTANTS
    p1 = p1  t1 = t1  t2 = t2  a1 = a1  s1 = s1  NoCall = NoCall
    Calls = {p1, t1}
    Accounts = {a1}
    Sessions = {s1}
    AccountOf <- MCAccountOf
    SessionOf <- MCSessionOf
    KindOf <- MCKindOf
    Estimate <- MCEstimate
    MaxEstimate = 3
    Costs = {1, 4}
    TotalBudget = 7
    WindowBudget = 6
    ParallelLimit = 1
    Shadow = FALSE
    Faults = FALSE
    LastWindow = 0
INVARIANT ReserveRestored
