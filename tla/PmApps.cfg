\* Two applications, hooks, launches that fail; from 5.0.0, where exits are
\* reported from a second list.
SPECIFICATION FairSpec
CONSTANTS
    MaxPid = 2
    MaxLaunches = 2
    LaunchArgs <- Applications
    HookPrograms = {"game"}
    HookApplication = TRUE
    Transitions <- NoDebugger
    MaxProcessCount = 2
    Version5 = TRUE
INVARIANTS NothingLeaks OneApplication OneLaunchPerCall NoLostEvent
PROPERTIES ImplementsRegistry ExitReported LaunchReturns
CHECK_DEADLOCK FALSE
