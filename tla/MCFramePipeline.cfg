SPECIFICATION FairSpec
CONSTANTS
    MaxInFlight = 1
    MaxLag = 1
    MaxEncoders = 2
    MaxSurfaces = 2
    MaxConns = 2
    MaxRemaps = 1
    MaxFaults = 1
INVARIANTS
    Ledger
    KeyframesHold
PROPERTIES
    KeyframeGoesOut
