\* sm: one service, two processes that may host its mitm, clients that die.
SPECIFICATION Spec
CONSTANTS
    fs = fs
    mitm = mitm
    app = app
    game = game
    fsp = fsp
    set = set
    NoPid = NoPid
    Pids = {fs, mitm, app, game}
    InitialPids = {fs}
    Services = {set}
    InitDeferred = {}
    MitmDisallowed = {fs}
    Acid <- HostAccess
    Aci <- HostAccess
    ProcessCountMax = 3
    ServiceCountMax = 1
    FutureMitmCountMax = 1
    MaxSessions = 2
    Mortal = {mitm, game}
    Quitters = {mitm}
INVARIANTS PairedAcks FutureMitmDischarged
CHECK_DEADLOCK FALSE
