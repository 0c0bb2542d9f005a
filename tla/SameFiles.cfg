SPECIFICATION Spec
CONSTANTS
    MaxStreams = 2
    MaxOpened = 4
    MaxResizes = 1
    Retries = 1
    MaxCopies = 1
    MaxRemote = 1
    MaxConns = 2
    MaxAsks = 1
    Sessions = {1, 2}
    MaxHotkeys = 1
    Drives = {d}
    Defer = 1
    MaxSurfaces = 2
    MaxStarts = 2
    Channels = {1, 2}
    Transfers = {"c", "b", "i"}
    Endpoint <- SomeEndpoints
INVARIANTS SameFiles
CHECK_DEADLOCK FALSE
