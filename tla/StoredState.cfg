SPECIFICATION MCSpec
CONSTANTS
    c1 = c1  c2 = c2  o1 = o1  o2 = o2  p1 = p1  p2 = p2  a1 = a1  a2 = a2
    r1 = r1  r2 = r2  u1 = u1  u2 = u2  w1 = w1  w2 = w2
    MaxReports = 3
    Clients = {c1, c2}
    MaxMessages = 2
    MaxBinds = 1
    MaxFaults = 1
    Operators = {o1, o2}
    MaxManifests = 2
    MaxJobs = 3
    MaxCrashes = 1
    Peers = {p1, p2}
    Subjects = {"s"}
    Second = 2
    TokenTtl = 2
    MaxTime = 2
    MaxTokens = 2
    MaxBuffered = 1
    MaxRestarts = 1
    Agents = {a1, a2}
    MaxDocs = 2
    MaxPicks = 2
    Reviewers = {r1, r2}
    MaxReviews = 2
    MaxDecisions = 2
    MaxMillis = 2
    Updaters = {u1, u2}
    FlowNodes = {"n1", "n2"}
    MaxUpdates = 3
    Writers = {w1, w2}
    MaxAppends = 4
    MaxClock = 2
    FirstSeq = 8
    Stores = {"s1", "s2"}
    MaxCalls = 2
    MaxReboots = 1
INVARIANTS
    StoredTypesOK RowsFollowState
    DriverInStep AuditTrailReplays
    AloneAppendRepairs SettledStateStays
    OnlyAdmitted
    OneStartPerToken
    JobsAreKept
    DecisionStands
    ChainVerifies
    MirrorHolds
PROPERTIES
    LoneUpdateIsLocal WormLedger WrittenOnce
CHECK_DEADLOCK FALSE
