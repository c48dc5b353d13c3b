\* Machines of the sysmodules that run on their own; see MCServers.
SPECIFICATION ServersSpec
CONSTANTS
    ApplicationSize = 9
    SystemShare = 3
    ByteValues = 2
    NumRegisters = 2
    MemorySize = 10
    HeapBase = 4
    MaximumProgramOpcodeCount = 14
    Programs = {"p", "q"}
    MaxCheatCount = 3
    MaxOpcodes = 2
    MaxCachedSize = 8
    DirectoryEntrySize = 3
    FileEntrySize = 4
    NameAlign = 2
    FileAlign = 4
    HashEntrySize = 2
    HeaderSize = 3
    FilePartitionOffset = 8
    LaunchedPrograms = {"A", "B"}
    PinLimit = 2
    ArgumentLimit = 1
    MaxLaunches = 4
    SizeMax = 4
    EmptyInterruptId = 9
    Page = 4
    ArgumentsOverhead = 3
    AslrSize = 100
    SystemResourceSizeMax = 4
    SectorSize = 3
    BctSize = 6
    BctPubkStart = 2
    BctPubkEnd = 4
    BctEndOffset = 18
    EksStart = 21
    EksEnd = 27
    FsSessions = {"c1", "c2", "c3"}
    GamePrograms = {"A", "B"}
    StorageIds = {"r1", "r2", "r3", "r4"}
    TotalThreads = 2
    MaxEntries = 3
    ValueStorageSize = 8
    WorkPage = 3
    PayloadSize = 6
    IramSize = 15
    PayloadStart = 6
    MaxStackTraceDepth = 2
    MaxShutdownWait = 1
    IntervalUnit = 2
    IntervalLimit = 4
    MaxElapsed = 2
    ThreadCountMax = 3
    ModuleCountMax = 2
    StackDump = 2
    Pids = {"app", "applet"}
    NoPid = "none"
    Sessions = {"s1", "s3"}
    Access <- RoAccess
    SessionType <- RoSessionType
    NroRegions = {"big", "copy"}
    NrrRegions = {"own", "foreign"}
    Image <- RoImage
    Listing <- RoListing
    Modules = {"m1", "m2"}
    EaseNroRestriction = FALSE
    MaxSessions = 2
    MaxNroInfos = 2
    MaxNrrInfos = 1
INVARIANTS
    LimitsKept
    CheatsKept
    LaunchesKept CreatedAsDeclared
    RnxMitmServes StoragesShared
    CrashesReported FatalHandled
    RoMappingsKept
PROPERTY ModulesAuthorised
CHECK_DEADLOCK FALSE
