------------------------- MODULE PmProcessManager -------------------------
(***************************************************************************)
(* The process manager, pm (pm/source/impl/pm_process_manager.cpp and      *)
(* pm_process_info.hpp), on firmware 2.0.0 and later.                      *)
(*                                                                         *)
(* Two threads of pm and the kernel interleave here.                       *)
(*  - The IPC thread serves one request at a time.  A LaunchProgram blocks *)
(*    it until the other thread has launched the program.                  *)
(*  - The process tracking thread waits for the start event of a launch    *)
(*    and for the processes of g_process_list: the kernel signals a        *)
(*    process whenever its state changes.                                  *)
(* A mutex guards each list; a handler that holds it for all it does is    *)
(* one step, unless the kernel may act in between.                         *)
(*                                                                         *)
(* The client that waits for g_process_event (ns, on a console) reads      *)
(* process events, one request each, until there is none left.             *)
(***************************************************************************)
EXTENDS Naturals, FiniteSets, Sequences

CONSTANTS
    MaxPid,          \* bound: processes the kernel creates in a behaviour
    MaxLaunches,     \* bound: calls of LaunchProgram in a behaviour
    LaunchArgs,      \* the launches that may be asked for
    HookPrograms,    \* the programs debuggers hook
    HookApplication, \* do they hook the next application?
    Transitions,     \* the state changes processes and debuggers cause
    MaxProcessCount, \* entries of g_process_info_allocator
    Version5         \* is the firmware 5.0.0 or later?

Pids == 1..MaxPid

KernelStates == {"Created", "CreatedAttached", "Running", "Crashed", "RunningAttached",
                 "Terminating", "Terminated", "DebugBreak"}

Flags == {"SignalOnExit", "ExceptionOccurred", "ExceptionWaitingAttach", "SignalOnDebugEvent",
          "SuspendedStateChanged", "Suspended", "Application", "SignalOnStart",
          "StartedStateChanged"}

HasStarted(state) == state \notin {"Created", "CreatedAttached"}

(* The program to launch, whether it is an application, the flags its      *)
(* process gets (those of the request, those that need it masked with      *)
(* allow_debug) and whether the request says StartSuspended.               *)
ASSUME PmAssumption ==
    /\ MaxPid \in Nat
    /\ MaxLaunches \in Nat
    /\ \A args \in LaunchArgs :
        /\ args.flags \subseteq {"SignalOnExit", "SignalOnStart", "SignalOnDebugEvent", "Application"}
        /\ args.suspended \in BOOLEAN
    /\ HookApplication \in BOOLEAN
    /\ Transitions \subseteq KernelStates \X KernelStates
    /\ MaxProcessCount \in Nat
    /\ Version5 \in BOOLEAN

(* Only svcStartProcess starts a process, and what has terminated stays so.*)
ASSUME KernelAssumption ==
    \A change \in Transitions :
        /\ HasStarted(change[1]) <=> HasStarted(change[2])
        /\ change[1] # "Terminated"

VARIABLES
    process_list,      \* g_process_list, in its order
    dead_process_list, \* g_dead_process_list
    info,              \* the ProcessInfo of each process: state, flags, handle
    launched,          \* what each process was launched with
    kernel_state,      \* its state in the kernel, "none" before, "gone" if never started
    kernel_signal,     \* is it signalled?
    held,              \* processes whose handle another process holds
    fs_registered, sm_registered, pinned,  \* what fs, sm and loader hold for pm
    process_event,     \* g_process_event
    program_id_hook,   \* g_program_id_hook, or "none"
    application_hook,  \* g_application_hook
    hook_events,       \* which of the two hook events are signalled
    start_event, finish_event,  \* g_process_launch_start_event, ..._finish_event
    launch_args,       \* g_process_launch_args
    launches,          \* how often LaunchProgram was called
    track,             \* where the tracking thread is, and for which process
    ipc,               \* where the IPC thread is
    client,            \* is the client of the events waiting or reading?
    exit_reports,      \* how often the exit of each process was reported
    aborted            \* pm aborted

lists      == <<process_list, dead_process_list, info>>
kernelVars == <<launched, kernel_state, kernel_signal, held>>
peers      == <<fs_registered, sm_registered, pinned>>
hooks      == <<program_id_hook, application_hook, hook_events>>
handshake  == <<start_event, finish_event, launch_args, launches>>
reading    == <<client, exit_reports>>
vars == <<lists, kernelVars, peers, process_event, hooks, handshake, track, ipc, reading, aborted>>

---------------------------------------------------------------------------
InList(list, p) == \E i \in DOMAIN list : list[i] = p

(* The node of p is unlinked.                                              *)
Remove(list, p) ==
    LET i == CHOOSE i \in DOMAIN list : list[i] = p
    IN  [j \in 1..(Len(list) - 1) |-> list[IF j < i THEN j ELSE j + 1]]

NoInfo == [state |-> "none", flags |-> {}, handle |-> FALSE]

Has(p, flag) == flag \in info[p].flags

NextPid == Cardinality({p \in Pids : kernel_state[p] # "none"}) + 1

Idle == [at |-> "idle"]

NoLaunch == [program |-> "none", flags |-> {}, suspended |-> FALSE]

Tracks(place, p) == track = [at |-> place, process |-> p]

(* The lock of g_process_list: OnProcessSignaled runs with it held.        *)
ListLocked == track.at \in {"reset", "signaled"}

HasApplicationProcess == \E i \in DOMAIN process_list : Has(process_list[i], "Application")

(* A process uses the resources of its group until the kernel destroys it: *)
(* until it has terminated and nobody holds a handle of it.                *)
UsesApplicationResources(p) ==
    /\ kernel_state[p] \notin {"none", "gone"}
    /\ "Application" \in launched[p].flags
    /\ kernel_state[p] = "Terminated" => info[p].handle \/ p \in held

IsApplication(args) == "Application" \in args.flags

(* Mutant: the launch does not wait.                                       *)
NeverWaitForResource(args) == TRUE

ResourceAvailable(args) ==
    IsApplication(args) => \A p \in Pids : ~UsesApplicationResources(p)

(* Mutant: the program stays pinned.                                       *)
ForgetButPin(p) == /\ fs_registered' = fs_registered \ {p}
                   /\ sm_registered' = sm_registered \ {p}
                   /\ pinned' = pinned

(* ProcessInfo::Cleanup, for an info that still has its handle: fs, sm and *)
(* loader forget the process, the handle is closed.                        *)
Forget(p) == /\ fs_registered' = fs_registered \ {p}
             /\ sm_registered' = sm_registered \ {p}
             /\ pinned' = pinned \ {p}

---------------------------------------------------------------------------
(* The kernel and the processes.                                           *)

SetKernelState(p, s) ==
    /\ kernel_state' = [kernel_state EXCEPT ![p] = s]
    /\ kernel_signal' = [kernel_signal EXCEPT ![p] = TRUE]

(* A process or a debugger changes the state of p.                         *)
KernelStep(p) ==
    \E s \in KernelStates :
        /\ <<kernel_state[p], s>> \in Transitions
        /\ SetKernelState(p, s)
        /\ UNCHANGED <<lists, launched, held, peers, process_event, hooks, handshake,
                       track, ipc, reading, aborted>>

StartedState(s) == IF s = "Created" THEN "Running" ELSE "RunningAttached"

(* Whoever got a handle of p from pm closes it.                            *)
CloseHandle(p) ==
    /\ p \in held
    /\ held' = held \ {p}
    /\ UNCHANGED <<lists, launched, kernel_state, kernel_signal, peers, process_event, hooks,
                   handshake, track, ipc, reading, aborted>>

---------------------------------------------------------------------------
(* Launching: the IPC thread asks, the tracking thread launches.           *)

Serving == ipc = "idle" /\ ~aborted

LaunchProgram(args) ==
    /\ Serving
    /\ launches < MaxLaunches
    /\ launches' = launches + 1
    /\ launch_args' = args
    /\ start_event' = TRUE
    /\ ipc' = "launching"
    /\ UNCHANGED <<lists, kernelVars, peers, process_event, hooks, finish_event, track,
                   reading, aborted>>

ReturnFromLaunch ==
    /\ ipc = "launching"
    /\ finish_event
    /\ finish_event' = FALSE
    /\ ipc' = "idle"
    /\ UNCHANGED <<lists, kernelVars, peers, process_event, hooks, start_event, launch_args,
                   launches, track, reading, aborted>>

(* Mutant: the caller is not woken up.                                     *)
FinishLaunchQuietly == UNCHANGED finish_event /\ track' = Idle

FinishLaunch == finish_event' = TRUE /\ track' = Idle

(* Mutant: TryWait does not clear the event.                               *)
LeaveStartEvent == start_event /\ start_event' = start_event

TryWaitStartEvent == start_event /\ start_event' = FALSE

(* LaunchProcess up to the wait for resources: the program information,    *)
(* the check for another application, the pin.  Loader may refuse.         *)
BeginLaunch ==
    /\ track = Idle /\ ~aborted
    /\ TryWaitStartEvent
    /\ \/ FinishLaunch /\ UNCHANGED pinned
       \/ /\ IsApplication(launch_args) => ~HasApplicationProcess
          /\ NextPid \in Pids
          /\ pinned' = pinned \cup {NextPid}
          /\ track' = [at |-> "wait_resource", process |-> NextPid]
          /\ UNCHANGED finish_event
    /\ UNCHANGED <<lists, kernelVars, fs_registered, sm_registered, process_event, hooks,
                   launch_args, launches, ipc, reading, aborted>>

(* Mutant: ldr::pm::CreateProcess fails and the pin guard is missing.      *)
KeepPin(p) == pinned' = pinned

UnpinProgram(p) == pinned' = pinned \ {p}

CreateFails(p) ==
    /\ Tracks("wait_resource", p) /\ ~aborted
    /\ ResourceAvailable(launch_args)
    /\ UnpinProgram(p)
    /\ FinishLaunch
    /\ UNCHANGED <<lists, kernelVars, fs_registered, sm_registered, process_event, hooks,
                   start_event, launch_args, launches, ipc, reading, aborted>>

AllocatedInfos == {p \in Pids : info[p] # NoInfo}

(* The process is created; pm aborts if it has no ProcessInfo for it.      *)
(* Registration with fs or sm may fail: the guard undoes everything.       *)
CreateProcess(p) ==
    /\ Tracks("wait_resource", p) /\ ~aborted
    /\ ResourceAvailable(launch_args)
    /\ launched' = [launched EXCEPT ![p] = launch_args]
    /\ \/ /\ Cardinality(AllocatedInfos) >= MaxProcessCount
          /\ aborted' = TRUE
          /\ kernel_state' = [kernel_state EXCEPT ![p] = "Created"]
          /\ UNCHANGED <<process_list, info, fs_registered, sm_registered, pinned, track,
                         finish_event>>
       \/ /\ Cardinality(AllocatedInfos) < MaxProcessCount
          /\ kernel_state' = [kernel_state EXCEPT ![p] = "gone"]
          /\ Forget(p)
          /\ FinishLaunch
          /\ UNCHANGED <<process_list, info, aborted>>
       \/ /\ Cardinality(AllocatedInfos) < MaxProcessCount
          /\ kernel_state' = [kernel_state EXCEPT ![p] = "Created"]
          /\ process_list' = Append(process_list, p)
          /\ info' = [info EXCEPT ![p] = [state |-> "Created", flags |-> {}, handle |-> TRUE]]
          /\ fs_registered' = fs_registered \cup {p}
          /\ sm_registered' = sm_registered \cup {p}
          /\ track' = [at |-> "registered", process |-> p]
          /\ UNCHANGED <<pinned, finish_event, aborted>>
    /\ UNCHANGED <<dead_process_list, kernel_signal, held, process_event, hooks, start_event,
                   launch_args, launches, ipc, reading>>

Hooked == launch_args.program = program_id_hook

HookedAsApplication == ~Hooked /\ IsApplication(launch_args) /\ application_hook

(* The rest of LaunchProcess: the flags, then a hook that catches the      *)
(* process before it starts, or its start.  If it cannot be started the    *)
(* guard cleans up.                                                        *)
EndLaunch(p) ==
    /\ Tracks("registered", p)
    /\ program_id_hook' = IF Hooked THEN "none" ELSE program_id_hook
    /\ application_hook' = (application_hook /\ ~HookedAsApplication)
    /\ hook_events' = hook_events \cup (IF Hooked THEN {"process"} ELSE {})
                                  \cup (IF HookedAsApplication THEN {"application"} ELSE {})
    /\ FinishLaunch
    /\ \/ /\ Hooked \/ HookedAsApplication \/ launch_args.suspended
          /\ info' = [info EXCEPT ![p].flags = launch_args.flags]
          /\ UNCHANGED <<process_list, kernel_state, kernel_signal, peers>>
       \/ /\ ~Hooked /\ ~HookedAsApplication /\ ~launch_args.suspended
          /\ SetKernelState(p, StartedState(kernel_state[p]))
          /\ info' = [info EXCEPT ![p].flags = launch_args.flags, ![p].state = "Running"]
          /\ UNCHANGED <<process_list, peers>>
       \/ /\ ~Hooked /\ ~HookedAsApplication /\ ~launch_args.suspended
          /\ Forget(p)
          /\ kernel_state' = [kernel_state EXCEPT ![p] = "gone"]
          /\ kernel_signal' = [kernel_signal EXCEPT ![p] = FALSE]
          /\ process_list' = Remove(process_list, p)
          /\ info' = [info EXCEPT ![p] = NoInfo]
    /\ UNCHANGED <<dead_process_list, launched, held, process_event, start_event, launch_args,
                   launches, ipc, reading, aborted>>

---------------------------------------------------------------------------
(* The tracking thread: a process was signalled.                           *)

(* os::WaitAny returns the holder of a signalled process.                  *)
Wake(p) ==
    /\ track = Idle /\ ~aborted
    /\ InList(process_list, p)
    /\ info[p].handle
    /\ kernel_signal[p]
    /\ track' = [at |-> "woken", process |-> p]
    /\ UNCHANGED <<lists, kernelVars, peers, process_event, hooks, handshake, ipc, reading,
                   aborted>>

(* OnProcessSignaled takes the lock and resets the signal, which the       *)
(* kernel refuses for a terminated process.                                *)
ResetSignal(p) ==
    /\ Tracks("woken", p)
    /\ track' = [at |-> "reset", process |-> p]
    /\ kernel_signal' = [kernel_signal EXCEPT ![p] = kernel_state[p] = "Terminated"]
    /\ UNCHANGED <<lists, launched, kernel_state, held, peers, process_event, hooks, handshake,
                   ipc, reading, aborted>>

(* It takes the process's state over.                                      *)
ReadState(p) ==
    /\ Tracks("reset", p)
    /\ track' = [at |-> "signaled", process |-> p]
    /\ LET recovered == info[p].state = "Crashed" /\ kernel_state[p] # "Crashed"
       IN  info' = [info EXCEPT ![p].state = kernel_state[p],
                                ![p].flags = IF recovered THEN @ \ {"ExceptionWaitingAttach"}
                                             ELSE @]
    /\ UNCHANGED <<process_list, dead_process_list, kernelVars, peers, process_event, hooks,
                   handshake, ipc, reading, aborted>>

(* The flags of a process that is in state new.                            *)
UpdatedFlags(flags, new) ==
    LET debug == "SignalOnDebugEvent" \in flags
    IN  CASE new \in {"Running", "RunningAttached"} /\ debug ->
                 (flags \ {"Suspended"}) \cup {"SuspendedStateChanged"}
          [] new = "Running" /\ ~debug /\ "SignalOnStart" \in flags ->
                 (flags \ {"SignalOnStart"}) \cup {"StartedStateChanged"}
          [] new = "Crashed" -> flags \cup {"ExceptionOccurred", "ExceptionWaitingAttach"}
          [] new = "DebugBreak" /\ debug ->
                 flags \cup {"Suspended", "SuspendedStateChanged"}
          [] OTHER -> flags

(* Mutant: exits and exceptions signal nothing.                            *)
SignalsDebugEvent(flags, new) ==
    new \in {"Running", "RunningAttached", "DebugBreak"} /\ "SignalOnDebugEvent" \in flags

(* Is g_process_event signalled for it?                                    *)
SignalsEvent(flags, new) ==
    \/ new \in {"Running", "RunningAttached", "DebugBreak"} /\ "SignalOnDebugEvent" \in flags
    \/ new = "Running" /\ "SignalOnStart" \in flags
    \/ new = "Crashed"
    \/ new = "Terminated" /\ "SignalOnExit" \in flags

SignalEvent == process_event' = TRUE

(* Mutant: added in front.                                                 *)
AddToDeadListFront(p) == dead_process_list' = <<p>> \o dead_process_list

AddToDeadList(p) == dead_process_list' = Append(dead_process_list, p)

(* A process that terminated: its resources are freed.  An exit that is to *)
(* be reported keeps the info, on the dead list or, before 5.0.0, where it *)
(* is.                                                                     *)
OnTerminated(p) ==
    /\ Forget(p)
    /\ IF Has(p, "SignalOnExit")
       THEN /\ info' = [info EXCEPT ![p].handle = FALSE]
            /\ IF Version5
               THEN /\ process_list' = Remove(process_list, p)
                    /\ AddToDeadList(p)
               ELSE UNCHANGED <<process_list, dead_process_list>>
       ELSE /\ info' = [info EXCEPT ![p] = NoInfo]
            /\ process_list' = Remove(process_list, p)
            /\ UNCHANGED dead_process_list

(* It acts on the state it read.                                           *)
ActOnState(p, new) ==
    /\ Tracks("signaled", p)
    /\ track' = Idle
    /\ IF SignalsEvent(info[p].flags, new) THEN SignalEvent ELSE UNCHANGED process_event
    /\ IF new = "Terminated"
       THEN OnTerminated(p)
       ELSE /\ info' = [info EXCEPT ![p].flags = UpdatedFlags(@, new)]
            /\ UNCHANGED <<process_list, dead_process_list, peers>>
    /\ UNCHANGED <<hooks, handshake, ipc, reading, aborted>>

(* Mutant: the signal is reset after the state was read.                   *)
OnProcessSignaledResettingLast(p) ==
    /\ ActOnState(p, info[p].state)
    /\ kernel_signal' = [kernel_signal EXCEPT ![p] = FALSE]
    /\ UNCHANGED <<launched, kernel_state, held>>

OnProcessSignaled(p) == ActOnState(p, info[p].state) /\ UNCHANGED kernelVars

---------------------------------------------------------------------------
(* The IPC thread: requests about a process of g_process_list.             *)

(* A request that finds p in the list, which nobody else has locked.       *)
Finds(p) == Serving /\ ~ListLocked /\ InList(process_list, p)

StartProcess(p) ==
    /\ Finds(p)
    /\ ~HasStarted(info[p].state)
    /\ kernel_state[p] \in {"Created", "CreatedAttached"}   \* svcStartProcess succeeds
    /\ SetKernelState(p, StartedState(kernel_state[p]))
    /\ info' = [info EXCEPT ![p].state = "Running"]
    /\ UNCHANGED <<process_list, dead_process_list, launched, held, peers, process_event, hooks,
                   handshake, track, ipc, reading, aborted>>

(* TerminateProcess; TerminateProgram for the first process of a program.  *)
TerminateProcess(p) ==
    /\ Finds(p)
    /\ info[p].handle
    /\ kernel_state[p] \notin {"Created", "CreatedAttached", "Terminating", "Terminated"}
    /\ SetKernelState(p, "Terminating")
    /\ UNCHANGED <<lists, launched, held, peers, process_event, hooks, handshake, track, ipc,
                   reading, aborted>>

(* AtmosphereGetProcessInfo gives a handle of p to the caller.             *)
AtmosphereGetProcessInfo(p) ==
    /\ Finds(p)
    /\ info[p].handle
    /\ held' = held \cup {p}
    /\ UNCHANGED <<lists, launched, kernel_state, kernel_signal, peers, process_event, hooks,
                   handshake, track, ipc, reading, aborted>>

(* Mutant: the process need not have terminated.                           *)
MayCleanupAny(p) == Finds(p)

MayCleanup(p) == Finds(p) /\ info[p].state = "Terminated"

(* CleanupProcessInfo; the destructor cleans up what still has a handle.   *)
CleanupProcess(p) ==
    /\ MayCleanup(p)
    /\ process_list' = Remove(process_list, p)
    /\ info' = [info EXCEPT ![p] = NoInfo]
    /\ IF info[p].handle THEN Forget(p) ELSE UNCHANGED peers
    /\ UNCHANGED <<dead_process_list, kernelVars, process_event, hooks, handshake, track, ipc,
                   reading, aborted>>

ClearExceptionOccurred(p) ==
    /\ Finds(p)
    /\ info' = [info EXCEPT ![p].flags = @ \ {"ExceptionOccurred"}]
    /\ UNCHANGED <<process_list, dead_process_list, kernelVars, peers, process_event, hooks,
                   handshake, track, ipc, reading, aborted>>

---------------------------------------------------------------------------
(* The events of processes.                                                *)

StartedToReport(p) == HasStarted(info[p].state) /\ Has(p, "StartedStateChanged")

ExitToReport(p) == ~Version5 /\ Has(p, "SignalOnExit") /\ info[p].state = "Terminated"

FlagToReport(p) ==
    StartedToReport(p) \/ Has(p, "SuspendedStateChanged") \/ Has(p, "ExceptionOccurred")

Reportable(p) == FlagToReport(p) \/ ExitToReport(p)

(* The flag GetProcessEventInfo clears for p, in the order it looks.       *)
ClearedFlag(p) ==
    IF StartedToReport(p) THEN "StartedStateChanged"
    ELSE IF Has(p, "SuspendedStateChanged") THEN "SuspendedStateChanged"
    ELSE "ExceptionOccurred"

IsFirstReportable(p) ==
    \E i \in DOMAIN process_list :
        /\ process_list[i] = p
        /\ Reportable(p)
        /\ \A j \in 1..(i - 1) : ~Reportable(process_list[j])

ReportExit(p) == exit_reports' = [exit_reports EXCEPT ![p] = IF @ < 2 THEN @ + 1 ELSE @]

ClientWakes ==
    /\ client = "waiting"
    /\ process_event
    /\ process_event' = FALSE
    /\ client' = "reading"
    /\ UNCHANGED <<lists, kernelVars, peers, hooks, handshake, track, ipc, exit_reports, aborted>>

(* GetProcessEventInfo, with the lock of g_process_list: the first event   *)
(* of the first process that has one.                                      *)
GetProcessEventInfo ==
    /\ Serving /\ ~ListLocked
    /\ client = "reading"
    /\ \/ \E p \in Pids :
            /\ IsFirstReportable(p)
            /\ IF FlagToReport(p)
               THEN /\ info' = [info EXCEPT ![p].flags = @ \ {ClearedFlag(p)}]
                    /\ UNCHANGED exit_reports
               ELSE ReportExit(p) /\ UNCHANGED info
            /\ UNCHANGED <<ipc, client>>
       \/ /\ ~\E p \in Pids : IsFirstReportable(p)
          /\ IF Version5 THEN ipc' = "event_info" /\ UNCHANGED client
                         ELSE client' = "waiting" /\ UNCHANGED ipc
          /\ UNCHANGED <<info, exit_reports>>
    /\ UNCHANGED <<process_list, dead_process_list, kernelVars, peers, process_event, hooks,
                   handshake, track, aborted>>

(* Mutant: finding nothing clears the event.                               *)
ClearIfNothing == process_event' = (process_event /\ dead_process_list # <<>>)

(* Reading does not clear g_process_event: the wait for it did.            *)
KeepEvent == UNCHANGED process_event

CleanupFirstDead ==
    /\ dead_process_list' = Tail(dead_process_list)
    /\ info' = [info EXCEPT ![Head(dead_process_list)] = NoInfo]

(* It has found nothing and released that lock.  Now, with the lock of     *)
(* g_dead_process_list: the exit of its first process, or no event.        *)
GetDeadProcessEventInfo ==
    /\ ipc = "event_info"
    /\ ipc' = "idle"
    /\ IF dead_process_list = <<>>
       THEN /\ client' = "waiting"
            /\ UNCHANGED <<dead_process_list, info, exit_reports>>
       ELSE /\ ReportExit(Head(dead_process_list))
            /\ CleanupFirstDead
            /\ UNCHANGED client
    /\ KeepEvent
    /\ UNCHANGED <<process_list, kernelVars, peers, hooks, handshake, track, aborted>>

---------------------------------------------------------------------------
(* The hooks a debugger sets to catch the next process of a program, or    *)
(* the next application, before it starts.                                 *)

HookToCreateProcess(program) ==
    /\ Serving
    /\ program_id_hook = "none"
    /\ program_id_hook' = program
    /\ UNCHANGED <<lists, kernelVars, peers, process_event, application_hook, hook_events,
                   handshake, track, ipc, reading, aborted>>

HookToCreateApplicationProcess ==
    /\ Serving
    /\ HookApplication
    /\ ~application_hook
    /\ application_hook' = TRUE
    /\ UNCHANGED <<lists, kernelVars, peers, process_event, program_id_hook, hook_events,
                   handshake, track, ipc, reading, aborted>>

ClearHook ==
    /\ Serving
    /\ program_id_hook' \in {program_id_hook, "none"}
    /\ application_hook' \in {application_hook, FALSE}
    /\ UNCHANGED <<lists, kernelVars, peers, process_event, hook_events, handshake, track, ipc,
                   reading, aborted>>

(* A debugger waits for a hook event, which clears it.                     *)
TakeHookEvent ==
    \E hook \in hook_events :
        /\ hook_events' = hook_events \ {hook}
        /\ UNCHANGED <<lists, kernelVars, peers, process_event, program_id_hook,
                       application_hook, handshake, track, ipc, reading, aborted>>

---------------------------------------------------------------------------
Init ==
    /\ process_list = <<>> /\ dead_process_list = <<>>
    /\ info = [p \in Pids |-> NoInfo]
    /\ launched = [p \in Pids |-> NoLaunch]
    /\ kernel_state = [p \in Pids |-> "none"]
    /\ kernel_signal = [p \in Pids |-> FALSE]
    /\ held = {}
    /\ fs_registered = {} /\ sm_registered = {} /\ pinned = {}
    /\ process_event = FALSE
    /\ program_id_hook = "none" /\ application_hook = FALSE /\ hook_events = {}
    /\ start_event = FALSE /\ finish_event = FALSE
    /\ launch_args = NoLaunch
    /\ launches = 0
    /\ track = Idle /\ ipc = "idle" /\ client = "waiting"
    /\ exit_reports = [p \in Pids |-> 0]
    /\ aborted = FALSE

(* A step of the tracking thread.                                          *)
TrackingThread ==
    \/ BeginLaunch
    \/ \E p \in Pids : \/ CreateFails(p) \/ CreateProcess(p) \/ EndLaunch(p)
                       \/ Wake(p) \/ ResetSignal(p) \/ ReadState(p) \/ OnProcessSignaled(p)

(* What the IPC thread does to serve the client of the events.             *)
EventService == ClientWakes \/ GetProcessEventInfo \/ GetDeadProcessEventInfo

Next ==
    \/ \E args \in LaunchArgs : LaunchProgram(args)
    \/ \E program \in HookPrograms : HookToCreateProcess(program)
    \/ ReturnFromLaunch
    \/ TrackingThread
    \/ EventService
    \/ HookToCreateApplicationProcess \/ ClearHook \/ TakeHookEvent
    \/ \E p \in Pids : \/ KernelStep(p) \/ CloseHandle(p) \/ StartProcess(p)
                       \/ TerminateProcess(p) \/ AtmosphereGetProcessInfo(p)
                       \/ CleanupProcess(p) \/ ClearExceptionOccurred(p)

Spec == Init /\ [][Next]_vars

(* Both threads run; a process that is being terminated terminates; those  *)
(* who got a handle close it.                                              *)
FairSpec ==
    /\ Spec
    /\ WF_vars(TrackingThread)
    /\ WF_vars(ReturnFromLaunch)
    /\ WF_vars(EventService)
    /\ \A p \in Pids :
        /\ WF_vars(kernel_state[p] = "Terminating" /\ KernelStep(p))
        /\ WF_vars(CloseHandle(p))

---------------------------------------------------------------------------
(* Properties.                                                             *)

Listed == {p \in Pids : InList(process_list, p)}

Dead == {p \in Pids : InList(dead_process_list, p)}

(* The variables have their types; a process is on one list, once (each    *)
(* ProcessInfo has a single list_node).                                    *)
TypeOK ==
    /\ process_list \in Seq(Pids) /\ dead_process_list \in Seq(Pids)
    /\ Len(process_list) = Cardinality(Listed)
    /\ Len(dead_process_list) = Cardinality(Dead)
    /\ Listed \cap Dead = {}
    /\ info \in [Pids -> [state : KernelStates \cup {"none"}, flags : SUBSET Flags,
                          handle : BOOLEAN]]
    /\ launched \in [Pids -> LaunchArgs \cup {NoLaunch}]
    /\ kernel_state \in [Pids -> KernelStates \cup {"none", "gone"}]
    /\ kernel_signal \in [Pids -> BOOLEAN]
    /\ held \subseteq Pids
    /\ fs_registered \subseteq Pids /\ sm_registered \subseteq Pids /\ pinned \subseteq Pids
    /\ hook_events \subseteq {"process", "application"}
    /\ process_event \in BOOLEAN /\ application_hook \in BOOLEAN /\ aborted \in BOOLEAN
    /\ start_event \in BOOLEAN /\ finish_event \in BOOLEAN
    /\ launch_args \in LaunchArgs \cup {NoLaunch}
    /\ launches \in 0..MaxLaunches
    /\ exit_reports \in [Pids -> 0..2]

(* What fs, sm and loader hold on behalf of pm is exactly what belongs to  *)
(* the processes pm holds a handle of (and the program being created):     *)
(* every failure of LaunchProcess and every way a process ends gives back  *)
(* what was registered (the two scope guards, ProcessInfo::Cleanup).       *)
NothingLeaks ==
    LET owners == {p \in Listed : info[p].handle}
    IN  /\ TypeOK
        /\ ~aborted =>
            /\ fs_registered = owners
            /\ sm_registered = owners
            /\ pinned = owners \cup (IF track.at = "wait_resource" THEN {track.process} ELSE {})

(* WaitAny gives the tracking thread a ProcessInfo; it takes the lock of   *)
(* the list afterwards.  Nobody has freed the info meanwhile.              *)
NoStaleProcessInfo ==
    track.at \in {"woken", "reset", "signaled", "registered"} =>
        track.process \in Listed /\ info[track.process].handle

(* At most one application exists: two processes never use the resources   *)
(* of the application group at once, whatever hooks, failures, exits and   *)
(* reports happen in between (HasApplicationProcess, WaitResourceAvailable).*)
OneApplication ==
    \A p, q \in Pids : UsesApplicationResources(p) /\ UsesApplicationResources(q) => p = q

(* What clients see of pm, from 5.0.0 on: the abstract registry.  A        *)
(* process is live once its launch has succeeded and until the tracking    *)
(* thread has seen that it terminated.                                     *)
Live(p) == p \in Listed /\ info[p].handle /\ ~Tracks("registered", p)

RegistryStatus ==
    [p \in Pids |->
        IF Live(p) THEN "live"
        ELSE IF p \in Dead THEN "exited"
        ELSE IF kernel_state[p] = "Terminated" THEN "gone"
        ELSE "none"]

LiveApplications == {p \in Pids : Live(p) /\ Has(p, "Application")}

RegistryApplication ==
    IF LiveApplications = {} THEN 0 ELSE CHOOSE p \in LiveApplications : TRUE

Registry == INSTANCE PmProcessRegistry WITH
    NoApplication <- 0, status <- RegistryStatus,
    application <- RegistryApplication, exits <- dead_process_list

(* pm implements it: LaunchProcess, OnProcessSignaled and                  *)
(* GetProcessEventInfo are its Launch, Exit and Report.                    *)
ImplementsRegistry == Registry!Spec

(* While a client waits for g_process_event there is nothing left to       *)
(* report, or the event is signalled (or the tracking thread, holding the  *)
(* list, is about to): no wakeup is lost, although GetProcessEventInfo     *)
(* looks at the two lists under two locks.                                 *)
NoLostEvent ==
    client = "waiting" /\ (dead_process_list # <<>> \/ \E p \in Listed : Reportable(p))
        => process_event \/ ListLocked

(* pm's picture of a process differs from the kernel's only while the      *)
(* process is signalled or being looked at: no state change is missed,     *)
(* which is why the signal is reset before the state is read.  (A started  *)
(* process is Running for pm also when a debugger is attached.)            *)
NoMissedChange ==
    \A p \in Listed :
        \/ info[p].state = kernel_state[p]
        \/ kernel_signal[p]
        \/ track.at = "reset" /\ track.process = p

(* The IPC thread only runs when the tracking thread is not in the middle  *)
(* of a launch, and no launch is left over for it: each LaunchProgram      *)
(* creates at most one process and returns the result of that one.         *)
OneLaunchPerCall ==
    /\ ipc # "launching" => /\ ~start_event /\ ~finish_event
                           /\ track.at \notin {"wait_resource", "registered"}
    /\ Cardinality({p \in Pids : kernel_state[p] # "none"}) <= launches

(* From 5.0.0 on every exit that was asked for is reported.                *)
ExitReported ==
    Version5 => \A p \in Pids :
        kernel_state[p] = "Terminated" /\ "SignalOnExit" \in launched[p].flags
            ~> exit_reports[p] > 0 \/ aborted

(* Every LaunchProgram returns: the tracking thread ends every launch,     *)
(* with a process or without, once a terminated application is gone.       *)
LaunchReturns == ipc = "launching" ~> ipc = "idle" \/ aborted
===========================================================================
