\* Double loads, of which the memory wheel refuses one half or the other.
SPECIFICATION ThreadSpec
CONSTANTS
    Parts = {"passes"}
    MaxPc = 1
    Disps = {}
    TrapAddress = 1
    Windows = 2
    FileWindows = 4
    Group = 2
    Value = {0, 1}
    SavesPc = 4
    SavesNpc = 5
    MaxFrames = 3
    Named = {0, 1, 2, 4, 6}
    Fresh = {0}
    Timers = {0, 1}
    Half = 4
    Renewed = TRUE
    MaxLoad = 2
    Program <- DoubleLoads
    Handler <- LeavingHandler
    FetchStalls = FALSE
    MemStalls = TRUE
    StallDoubles = TRUE
PROPERTIES DoubleIsWhole
