\* Two applications, two cheats of which the program fits one, one address.
SPECIFICATION FairSpec
CONSTANTS
    MaxApps = 2
    Cheats = {0, 1}
    Master = 0
    VmCapacity = 1
    Addresses = {1}
    MaxFrozenAddressCount = 1
INVARIANTS AppliesOwnCheats NoOrphanWait AbortsOnlyAfterDeath
PROPERTY ApplicationRuns
CHECK_DEADLOCK FALSE
