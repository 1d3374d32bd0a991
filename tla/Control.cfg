\* Traps inside traps, in code of five words; word timers of four bits; stalled
\* instructions; deadlines of two timers that trap; register windows; and every opcode.
SPECIFICATION FairSpec
CONSTANTS
    Parts = {"control", "timers", "passes", "traps", "windows", "signals"}
    MaxPc = 4
    Disps <- NearDisps
    TrapAddress = 2
    Windows = 3
    FileWindows = 4
    Group = 2
    Value = {0, 1}
    SavesPc = 4
    SavesNpc = 5
    MaxFrames = 3
    Named = {0, 1, 2, 4, 6}
    Fresh = {0}
    Timers = {0, 1}
    Half = 4
    Renewed = TRUE
    MaxLoad = 2
    Program <- StalledProgram
    Handler <- LeavingHandler
    FetchStalls = TRUE
    MemStalls = TRUE
    StallDoubles = FALSE
INVARIANTS BetweenPasses SignalsMean
PROPERTIES ImplementsSparc ImplementsTimers ImplementsStack StallsAreSafe PllIsFed
    TrapsAreExact MissIsAnswered
