SPECIFICATION FairSpec
CONSTANTS
    i1 = i1
    i2 = i2
    lo = lo
    NoIp = NoIp
    Ip <- MCIp
    Exempt <- MCExempt
    Persistent <- MCPersistent
    MaxTracked = 2
    Window = 1
    MaxAttempts = 2
    FailureThreshold = 1
    FailfastWindow = 1
    BaseCooldown = 1
    MaxCooldown = 2
    MaxFailures = 2
INVARIANTS
    WindowBound
PROPERTIES
    LockoutHolds
    RejectedGetsIn
