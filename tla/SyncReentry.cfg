\* Two threads, one of them slowed down by fetch stalls.
SPECIFICATION Spec
CONSTANTS
    NumThreads = 2
    Masks = {{0, 1}, {0}, {1}}
    FetchStalls = TRUE
    Traps = FALSE
    MaxSyncs = 2
PROPERTIES RowFreedWhenAllPassed
