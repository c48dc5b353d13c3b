\* Machines of exosphere and of boot that run on their own; see MCFirmware.
SPECIFICATION FirmwareSpec
CONSTANTS
    MaxOps = 5
    Exponents = {e1, e2}
    WithModulus = {e2}
    Firmware1000 = TRUE
    OutSizes = {"right", "other", "too_large"}
    CacheSize = 13
    MaxRequest = 3
    NumCores = 3
    TicketLimit = 128
    MaxRequests = 5
    Firmware400 = TRUE
    BatteryVersions = {0}
    HardwareTypes = {"Hoag"}
    Temperatures = {3, 16, 59, 60}
    Voltages = {3319, 4049}
    Charges = {2, 99}
    MaxFailures = 1
    MaxPowerLosses = 1
    MaxDriverSessions = 5
    FifoDepth = 1
    RegisterIds = {"asked", "other"}
    MaxRetries = 2
    MaxTries = 3
    MaxCalls = 2
    ImageOffsets = {2, 9, 23, 24, 31, 78, 82, 84, 86}
    MaxSplCalls = 3
    MaxSplSleeps = 1
    SmcCores = {0, 1, 3}
    HashBytes = 4
    RsaBytes = 24
INVARIANTS
    SeExclusive ResultReady VerifiedFits
    RingKept
    NoPanic EntryPointTaken
    BatteryHandled BootServes SecureBoots MonitorServes
PROPERTIES
    OpAnswered CoresComeUp
CHECK_DEADLOCK FALSE
