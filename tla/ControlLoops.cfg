SPECIFICATION MCSpec
CONSTANTS
    mcp = mcp  srv = srv  NoServer = NoServer
    w1 = w1  w2 = w2  e1 = e1  e2 = e2  e3 = e3  f1 = f1  f2 = f2
    Tasks = 3
    Workers = {w1, w2}
    Tools = {mcp}
    Servers = {srv}
    ServerOf <- MCServerOf
    Threshold <- MCThreshold
    Cooldown <- MCCooldown
    MaxCooldown = 2
    Execs = {e1, e2, e3}
    ExecId <- MCExecId
    Plan <- MCPlan
    Need <- MCNeed
    Limit <- MCLimit
    Callers = {f1, f2}
    MaxSignals = 2
    BatchSize = 1
    MaxRetries = 1
    MaxAttempt = 3
    RateLimit = 1
INVARIANTS
    ControlTypesOK
    TrippedAtThreshold
    KernelAccountsHeld RecordReplays
    NoSignalLost ReturnsInOrder
PROPERTIES
    OrderingEnds CoolingEnds FailuresTrip CallsReturn
