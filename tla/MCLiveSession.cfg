SPECIFICATION SessionSpec
CONSTANTS
    Sizes = {s1, s2, s3}
    NoSize = NoSize
    MaxLayouts = 2
    MaxSessions = 2
    Addr = {a1}
    NoAddr = none
    MaxConns = 2
    MaxInc = 2
    DeadTicks = 1
    GcTicks = 2
    CooldownTicks = 1
    SeqSpace = 8
    Isn <- ClientIsn
    Window <- SmallWindow
    Payloads <- FewPayloads
    ClientPayloads = 2
    ServerPayloads = 1
    MaxFaults = 1
INVARIANTS
    TypeOK
PROPERTIES
    ResizesAreSound
    RequestsAreServed
    SilenceIsNoticed
    EverythingArrives
CHECK_DEADLOCK FALSE
