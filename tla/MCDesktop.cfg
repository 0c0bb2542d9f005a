SPECIFICATION Spec
CONSTANTS
    Keys = {"letter", "tab"}
    Hotkeys = {"tab"}
    Remappable = {"letter"}
    Translatable = {"letter"}
    MaxSessions = 2
    Apps = {a, b, c}
    MaxMoves = 1
    MaxPolls = 1
    Desktop = 4
    Widths = {3, 6}
    Scale = 3
    Cap = 2
    Wheel = {1, 4, 14}
    Half = 16
    MaxTurns = 3
    Files = {f}
    Reads = {r1, r2, r3}
    Chunks = 2
    Parallel = 1
    MaxLists = 2
    Requests = {1, 2}
    FilePaths <- SomeFiles
    DirPaths <- SomeDirs
    Present <- SomePresent
    MaxOpen = 1
    MaxHandles = 2
    MaxIds = 5
    MaxChanges = 1
INVARIANTS
    WheelKeepsUp
    NoHandleLost
PROPERTIES
    KeysBalance
    SwitchesLand
    ReadsAreCurrent
    WholeOrGone
CHECK_DEADLOCK FALSE
