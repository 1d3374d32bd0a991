\* A scratchpad of two words before a memory of four, the first of which has no
\* address; three programs; and the files of up to four commands of the
\* demonstrations with a read or write that fails.
SPECIFICATION StorageSpec
CONSTANTS
    Parts = {"scratchpad", "loading", "damaged", "signing", "sealing", "agreement"}
    MaxAddr = 3
    HalfSize = 1
    BurstWords = 2
    Values = {v1, v2}
    A = A
    B = B
    C = C
    D = D
    E = E
    T1 = T1
    T2 = T2
    Absent = Absent
    Stdout = Stdout
    NoFile = NoFile
SYMMETRY Alike
INVARIANTS ScratchpadSound ProgramsLoaded DemosWhole
PROPERTIES TransferArrives
CHECK_DEADLOCK FALSE
