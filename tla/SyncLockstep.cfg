\* Three threads whose masks overlap, no visit lost: the code of the programs
\* is in the scratchpads and no deadline is missed.
SPECIFICATION FairSpec
CONSTANTS
    NumThreads = 3
    Masks = {{0, 1}, {1, 2}, {0, 1, 2}}
    FetchStalls = FALSE
    Traps = FALSE
    MaxSyncs = 2
PROPERTIES BarrierSafe BarrierOpens
