\* Visits lost to fetch stalls, and deadline traps whose handlers return to the
\* SYNC or leave it for good.
SPECIFICATION Spec
CONSTANTS
    NumThreads = 2
    Masks = {{0, 1}, {0}, {1}}
    FetchStalls = TRUE
    Traps = TRUE
    MaxSyncs = 2
INVARIANTS OneRowPerMask TableNeverFull
CHECK_DEADLOCK FALSE
