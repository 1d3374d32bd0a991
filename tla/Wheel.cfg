\* Six threads whose counters wrap at a power of two, which leaves the remainder of
\* 2^32 by six, and a debugger that goes on after the end; two threads with windows of the wheel next to each other.
SPECIFICATION CycleSpec
CONSTANTS
    N = 6
    Wrap = 16
    Period = 5
    Calls = {1, 7}
    Steps = {1, 2}
    Again = TRUE
    Nobody = Nobody
    NumThreads = 6
    Latency = 14
    Throughput = 4
    BurstWords = 4
    Active = {0, 1}
    Programs <- TwoPrograms
    NoInst = NoInst
INVARIANTS InStep ShownIsLeaving BoundedWait
PROPERTIES CallsAreKept TimeTriggered DmaCompletes
