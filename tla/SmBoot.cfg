\* The boot, with the file system service behind a mitm: rnx_mitm, started by the
\* kernel, waits for it before it installs its own; clients may die.
SPECIFICATION FairSpec
CONSTANTS
    fs = fs
    mitm = mitm
    app = app
    game = game
    fsp = fsp
    set = set
    NoPid = NoPid
    Pids = {fs, mitm, app, game}
    InitialPids = {fs, mitm}
    Services = {fsp}
    InitDeferred = {fsp}
    MitmDisallowed = {fs}
    Acid <- BootAccess
    Aci <- BootAccess
    ProcessCountMax = 4
    ServiceCountMax = 1
    FutureMitmCountMax = 1
    MaxSessions = 2
    Mortal = {game}
    Quitters = {}
INVARIANTS MitmRequesterRegistered NoLostAck
PROPERTY GetAnswered
CHECK_DEADLOCK FALSE
