SPECIFICATION VideoSpec
CONSTANTS
    Ceiling = 3
    Seed = 2
    MinFps = 2
    Fps = 4
    SeedFps = 1
    KP = 1
    KI = 0
    FKP = 1
    FKI = 1
    Windup = 3
    MaxFailures = 1
    MinQoe = 2
    MinRender = 2
    Established = 3
    EstablishedQoe = 3
    EstablishedWall = 2
    MinReports = 1
    Enough = 3
    MaxAttempts = 2
    MaxDrops = 1
    MaxTakeovers = 2
    FullStrips = 1
    MaxStrips = 2
    PendingLimit = 1
    FlushFrames = 1
    MaxPerSecond = 1
    MaxEvents = 5
PROPERTIES
    OverloadLowersBitrate
CHECK_DEADLOCK FALSE
