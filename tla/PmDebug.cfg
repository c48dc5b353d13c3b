\* Watched processes, before 5.0.0: a debugger attaches, breaks, detaches;
\* terminated processes stay listed until CleanupProcess.
SPECIFICATION Spec
CONSTANTS
    MaxPid = 2
    MaxLaunches = 2
    LaunchArgs <- Watched
    HookPrograms = {"game"}
    HookApplication = FALSE
    Transitions <- WithDebugger
    MaxProcessCount = 1
    Version5 = FALSE
INVARIANTS NoStaleProcessInfo NoMissedChange
CHECK_DEADLOCK FALSE
