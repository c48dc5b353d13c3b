\* The redirected saves of rnx_mitm alone.
SPECIFICATION SavesSpec
CONSTANTS
    FsSessions = {"c1"}
    GamePrograms = {"A"}
    StorageIds = {"r1"}
    TotalThreads = 1
    MaxEntries = 3
    ValueStorageSize = 8
    WorkPage = 3
    PayloadSize = 6
    IramSize = 15
    PayloadStart = 6
INVARIANT OldSaveFound
CHECK_DEADLOCK FALSE
