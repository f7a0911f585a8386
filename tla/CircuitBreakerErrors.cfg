SPECIFICATION BreakerSpec
CONSTANTS
    mcp = mcp  shell = shell  srv = srv  NoServer = NoServer
    w1 = w1  w2 = w2
    Workers = {w1}
    Tools = {shell}
    Servers = {}
    ServerOf <- MCServerOf
    Threshold <- MCThreshold
    Cooldown <- MCCooldown
    MaxCooldown = 2
INVARIANT RepeatedFailuresOpen
