---------------------------- MODULE CheatManager ----------------------------
(***************************************************************************)
(* The cheat manager of dmnt (dmnt/source/cheat/impl/dmnt_cheat_api.cpp):  *)
(* it attaches to the running application as a debugger and applies cheats *)
(* to it.  Four kinds of threads share one lock:                           *)
(*   - the detect thread has pm stop the next application before its first *)
(*     instruction, attaches to it and starts it;                          *)
(*   - the debug events thread waits, without the lock, on the handle of   *)
(*     the attached process and continues it after every debug event;      *)
(*   - the virtual machine's thread applies cheats twelve times a second;  *)
(*   - the threads of the service change cheats and may force an attach.   *)
(* Whoever finds the attached process gone closes it.                      *)
(*                                                                         *)
(* The holder of the lock is the variable task, and its critical section   *)
(* is cut at its calls of pm and the kernel: the application may die, and  *)
(* the debug events thread may move, between any two of them.  The file of *)
(* cheat toggles, the event for clients of the service and the contents of *)
(* memory are left out.                                                    *)
(***************************************************************************)
EXTENDS Naturals, FiniteSets

CONSTANTS
    MaxApps,      \* bound: applications launched, one after the other
    Cheats,       \* cheat ids
    Master,       \* the cheat that cannot be disabled (id 0)
    VmCapacity,   \* enabled cheats whose opcodes fit the machine's program
    Addresses,    \* addresses that can be frozen
    MaxFrozenAddressCount

Apps == 1..MaxApps

ASSUME CheatAssumption ==
    /\ MaxApps \in Nat
    /\ Master \in Cheats
    /\ IsFiniteSet(Cheats) /\ IsFiniteSet(Addresses)
    /\ VmCapacity \in Nat /\ MaxFrozenAddressCount \in Nat

VARIABLES
    app_state,    \* [Apps -> AppStates]
    application_hook,   \* pm's: the next application is not started but announced
    hook_event,
    handle,       \* cheat_process_debug_handle: the process it debugs, 0 if invalid
    process_id,   \* cheat_process_metadata.process_id
    events,       \* debug events of that process wait to be continued
    cheat_entries,      \* [Cheats -> {NoCheat} \cup Entry]
    needs_reload_vm,
    vm_program,   \* the cheats in cheat_vm.program, with the process they are of
    frozen,       \* frozen_addresses_map: [Addresses -> the process read, 0 if not frozen]
    task,         \* the holder of cheat_lock and where it is
    detect,       \* the detect thread
    debug,        \* the debug events thread, and what it thinks the handle is
    debug_events_event,
    cancelled,    \* the kernel's flag: that thread's next wait is cancelled
    aborted,
    early_death   \* ghost: an application died before it was started, or in a launch's attach

appVars    == <<app_state, application_hook, hook_event, early_death>>
attachment == <<handle, process_id, events>>
cheatVars  == <<cheat_entries, needs_reload_vm, vm_program, frozen>>
debugVars  == <<debug, debug_events_event, cancelled>>
vars == <<appVars, attachment, cheatVars, debugVars, task, detect, aborted>>

NoCheat == [of |-> 0, enabled |-> FALSE]
NoTask  == [who |-> "nobody", at |-> "unlocked"]

(* Who may hold the lock: the detect thread, a service thread that forces  *)
(* an attach or does something else, the virtual machine's thread, and the *)
(* debug events thread after a wait that succeeded or failed.              *)
Holders == {"launch", "force", "service", "vm", "signaled", "failed"}

(* An application that has exited stays on pm's list for a while.          *)
AppStates == {"none", "created", "running", "exited", "removed"}

Alive(p)    == p \in Apps /\ app_state[p] \in {"created", "running"}
IsListed(p) == p \in Apps /\ app_state[p] \in {"created", "running", "exited"}
IsAttaching == task.who \in {"launch", "force"}

(* What a holder of the lock does next, and its giving up the lock.        *)
At(place)   == ~aborted /\ task.at = place
Goto(place) == task' = [task EXCEPT !.at = place] /\ UNCHANGED <<detect, aborted>>

Unlock ==
    /\ task' = NoTask
    /\ detect' = IF task.who = "launch" THEN "hook" ELSE detect
    /\ UNCHANGED aborted

Abort == aborted' = TRUE /\ UNCHANGED <<appVars, attachment, cheatVars, debugVars, task, detect>>

---------------------------------------------------------------------------
(* The application and pm.  After an abort of dmnt the console stops.      *)

(* pm launches an application when there is none: with the hook it is      *)
(* announced instead of started.                                           *)
LaunchApplication(p) ==
    /\ ~aborted
    /\ app_state[p] = "none" /\ \A q \in 1..(p - 1) : app_state[q] = "removed"
    /\ app_state' = [app_state EXCEPT ![p] = IF application_hook THEN "created" ELSE "running"]
    /\ application_hook' = FALSE
    /\ hook_event' = (hook_event \/ application_hook)
    /\ UNCHANGED <<early_death, attachment, cheatVars, debugVars, task, detect, aborted>>

Die(p) ==
    /\ ~aborted /\ Alive(p)
    /\ app_state' = [app_state EXCEPT ![p] = "exited"]
    /\ events' = (events \/ handle = p)
    /\ early_death' = (early_death \/ app_state[p] = "created" \/ task.who = "launch")
    /\ UNCHANGED <<application_hook, hook_event, handle, process_id, cheatVars, debugVars,
                   task, detect, aborted>>

(* pm's tracking thread, or ns, takes it off the list.                     *)
RemoveFromList(p) ==
    /\ ~aborted /\ app_state[p] = "exited"
    /\ app_state' = [app_state EXCEPT ![p] = "removed"]
    /\ UNCHANGED <<application_hook, hook_event, early_death, attachment, cheatVars, debugVars,
                   task, detect, aborted>>

(* The kernel stops an attached process at a debug event.                  *)
DebugEvent ==
    /\ ~aborted
    /\ handle # 0 /\ app_state[handle] = "running" /\ ~events
    /\ events' = TRUE
    /\ UNCHANGED <<appVars, handle, process_id, cheatVars, debugVars, task, detect, aborted>>

---------------------------------------------------------------------------
HasActiveCheatProcess == handle # 0 /\ IsListed(process_id)

(* Every critical section begins with HasActiveCheatProcess, which closes  *)
(* a process that is gone.                                                 *)
Lock(who) ==
    /\ ~aborted /\ task = NoTask
    /\ task' = [who |-> who, at |-> CASE HasActiveCheatProcess -> "active"
                                      [] ~HasActiveCheatProcess /\ handle # 0 -> "cancel"
                                      [] OTHER -> "inactive"]
    /\ UNCHANGED <<appVars, attachment, cheatVars, debugVars, detect, aborted>>

(* Mutant: nobody wakes the debug events thread.                           *)
LeaveWaiting == UNCHANGED debugVars

(* CloseActiveCheatProcess, first the waiting thread ...                   *)
CancelThreadSynchronization ==
    /\ IF debug.at = "waiting"
       THEN debug' = [debug EXCEPT !.at = "failed"] /\ UNCHANGED cancelled
       ELSE cancelled' = TRUE /\ UNCHANGED debug
    /\ UNCHANGED debug_events_event

KnockOut ==
    /\ At("cancel")
    /\ CancelThreadSynchronization
    /\ Goto("close")
    /\ UNCHANGED <<appVars, attachment, cheatVars>>

(* Mutant: frozen addresses are kept.                                      *)
ResetCheatEntriesOnly ==
    /\ cheat_entries' = [c \in Cheats |-> NoCheat]
    /\ needs_reload_vm' = TRUE
    /\ UNCHANGED <<vm_program, frozen>>

(* ... then the handle, at which the kernel lets the process run on, and   *)
(* everything that was of this process.                                    *)
ResetCheats ==
    /\ cheat_entries' = [c \in Cheats |-> NoCheat]
    /\ needs_reload_vm' = TRUE
    /\ frozen' = [a \in Addresses |-> 0]
    /\ UNCHANGED vm_program

CloseActiveCheatProcess ==
    /\ At("close")
    /\ handle' = 0 /\ process_id' = 0 /\ events' = FALSE
    /\ debug' = [debug EXCEPT !.handle = IF @ = "current" THEN "closed" ELSE @]
    /\ ResetCheats
    /\ Goto("inactive")
    /\ UNCHANGED <<appVars, debug_events_event, cancelled>>

---------------------------------------------------------------------------
(* AttachToApplicationProcess.                                             *)

(* Mutant: a launch finds itself done as well.                             *)
IsDone == TRUE

IsDoneWhenForced == task.who = "force"

(* A forced attach finds itself done; a launch closes the old process,     *)
(* which may be its own if an attach was forced first.                     *)
FindAttached ==
    /\ At("active") /\ IsAttaching
    /\ IF IsDoneWhenForced THEN Unlock ELSE Goto("cancel")
    /\ UNCHANGED <<appVars, attachment, cheatVars, debugVars>>

(* The early returns: with the guard, which starts a launched application. *)
GiveUp ==
    /\ IF task.who = "launch"
       THEN Goto("guard") /\ UNCHANGED process_id
       ELSE Unlock /\ process_id' = 0
    /\ UNCHANGED <<appVars, handle, events, debugVars>>

(* R_ABORT_UNLESS_IF_NEW_PROCESS: what an error does to a launch.          *)
FailAttach ==
    \/ task.who = "launch" /\ Abort
    \/ task.who = "force" /\ GiveUp /\ UNCHANGED cheatVars

GetApplicationProcessId ==
    /\ At("inactive") /\ IsAttaching
    /\ \/ \E p \in Apps :
            /\ IsListed(p)
            /\ process_id' = p
            /\ Goto("get_info")
            /\ UNCHANGED <<appVars, handle, events, cheatVars, debugVars>>
       \/ /\ \A p \in Apps : ~IsListed(p)
          /\ \/ task.who = "launch" /\ Abort
             \/ task.who = "force" /\ Unlock /\ UNCHANGED <<appVars, attachment, cheatVars, debugVars>>

(* AtmosphereGetProcessInfo, and the module information of the loader; the *)
(* application may have cheats disabled or too many modules.               *)
GetProcessInfo ==
    /\ At("get_info")
    /\ \/ ~IsListed(process_id) /\ FailAttach
       \/ IsListed(process_id) /\ GiveUp /\ UNCHANGED cheatVars
       \/ /\ IsListed(process_id)
          /\ Goto("load")
          /\ UNCHANGED <<appVars, attachment, cheatVars, debugVars>>

(* LoadCheats and LoadCheatToggles: what was parsed before an error stays, *)
(* but is enabled only afterwards.                                         *)
Loads(parsed, enabled) ==
    /\ cheat_entries' = [c \in Cheats |-> IF c \in parsed
                                          THEN [of |-> process_id, enabled |-> c \in enabled]
                                          ELSE NoCheat]
    /\ needs_reload_vm' = TRUE
    /\ UNCHANGED <<vm_program, frozen>>

LoadCheats ==
    /\ At("load")
    /\ \E parsed \in SUBSET Cheats : \E enabled \in SUBSET parsed, succeeds \in BOOLEAN :
        /\ (Master \in parsed => Master \in enabled) \/ (~succeeds /\ enabled = {})
        /\ Loads(parsed, enabled)
        /\ IF succeeds \/ task.who = "force"
           THEN Goto("attach") /\ UNCHANGED <<appVars, attachment, debugVars>>
           ELSE GiveUp

(* svcDebugActiveProcess stops a running process at once.  A forced attach *)
(* may find another debugger there.                                        *)
DebugActiveProcess ==
    /\ At("attach")
    /\ \/ /\ Alive(process_id)
          /\ handle' = process_id /\ events' = TRUE
          /\ IF task.who = "launch"
             THEN Goto("start") /\ UNCHANGED debug_events_event
             ELSE Unlock /\ debug_events_event' = TRUE
          /\ UNCHANGED <<appVars, process_id, cheatVars, debug, cancelled>>
       \/ (task.who = "force" \/ ~Alive(process_id)) /\ FailAttach

(* Mutant: the guard is not cancelled.                                     *)
KeepGuard == Goto("guard")

CancelGuard == Unlock

(* pm::dmnt::StartProcess, with or without a debugger: a process starts    *)
(* once.  An attached one stops at its first thread.                       *)
StartsProcess ==
    /\ app_state' = [app_state EXCEPT ![process_id] = "running"]
    /\ events' = (events \/ handle = process_id)
    /\ UNCHANGED <<application_hook, hook_event, early_death>>

StartProcess ==
    /\ At("start")
    /\ IF app_state[process_id] = "created"
       THEN /\ StartsProcess
            /\ debug_events_event' = TRUE
            /\ CancelGuard
            /\ UNCHANGED <<handle, process_id, cheatVars, debug, cancelled>>
       ELSE Abort

(* Mutant: the guard does not start the process.                           *)
GuardForgets ==
    /\ process_id' = 0
    /\ UNCHANGED <<appVars, events>>

GuardStarts == StartsProcess /\ process_id' = 0

Guard ==
    /\ At("guard")
    /\ IF app_state[process_id] = "created"
       THEN /\ GuardStarts
            /\ Unlock
            /\ UNCHANGED <<handle, cheatVars, debugVars>>
       ELSE Abort

---------------------------------------------------------------------------
(* The other critical sections.                                            *)

(* Nothing is attached: the request is refused, the cheats are not run,    *)
(* and the debug events thread goes back to its event after a failed wait. *)
Inactive ==
    /\ At("inactive") /\ ~IsAttaching
    /\ Unlock
    /\ debug' = CASE task.who = "signaled" -> [debug EXCEPT !.at = "read"]
                  [] task.who = "failed"   -> [debug EXCEPT !.at = "event"]
                  [] OTHER                 -> debug
    /\ UNCHANGED <<appVars, attachment, cheatVars, debug_events_event, cancelled>>

Enabled == {<<c, cheat_entries[c].of>> : c \in {d \in Cheats : cheat_entries[d].enabled}}

(* Mutant: one cheat too many.                                             *)
FitsOffByOne == Cardinality(Enabled) < VmCapacity + 2

Fits == Cardinality(Enabled) <= VmCapacity

(* The virtual machine reloads its program if it must; one that does not   *)
(* fit is not run.                                                         *)
ApplyCheats ==
    /\ At("active") /\ task.who = "vm"
    /\ IF needs_reload_vm
       THEN /\ vm_program' = (IF Fits THEN Enabled ELSE {})
            /\ needs_reload_vm' = ~Fits
       ELSE UNCHANGED <<vm_program, needs_reload_vm>>
    /\ Unlock
    /\ UNCHANGED <<appVars, attachment, cheat_entries, frozen, debugVars>>

(* The debug events are read and the process continued on the core of its  *)
(* new thread, by another thread that this one waits for with the lock.    *)
(* The kernel may refuse it for a process that is dead.                    *)
ContinueCheatProcess ==
    /\ At("active") /\ task.who = "signaled"
    /\ \/ /\ events' = FALSE
          /\ debug' = [debug EXCEPT !.at = "read"]
          /\ Unlock
          /\ UNCHANGED <<appVars, handle, process_id, cheatVars, debug_events_event, cancelled>>
       \/ ~Alive(handle) /\ Abort

StayAttached ==
    /\ At("active") /\ task.who = "failed"
    /\ debug' = [debug EXCEPT !.at = "read"]
    /\ Unlock
    /\ UNCHANGED <<appVars, attachment, cheatVars, debug_events_event, cancelled>>

(* Mutant: the machine keeps its program.                                  *)
ToggleWithoutReload(c) ==
    /\ cheat_entries[c] # NoCheat /\ c # Master
    /\ cheat_entries' = [cheat_entries EXCEPT ![c].enabled = ~@]
    /\ UNCHANGED <<needs_reload_vm, frozen>>

ToggleCheat(c) ==
    /\ cheat_entries[c] # NoCheat /\ c # Master
    /\ cheat_entries' = [cheat_entries EXCEPT ![c].enabled = ~@]
    /\ needs_reload_vm' = TRUE
    /\ UNCHANGED frozen

AddCheat(c) ==
    /\ cheat_entries[c] = NoCheat /\ c # Master
    /\ \E enabled \in BOOLEAN :
        cheat_entries' = [cheat_entries EXCEPT ![c] = [of |-> process_id, enabled |-> enabled]]
    /\ needs_reload_vm' = TRUE
    /\ UNCHANGED frozen

RemoveCheat(c) ==
    /\ cheat_entries' = [cheat_entries EXCEPT ![c] = NoCheat]
    /\ needs_reload_vm' = TRUE
    /\ UNCHANGED frozen

EnableFrozenAddress(a) ==
    /\ Cardinality({b \in Addresses : frozen[b] # 0}) < MaxFrozenAddressCount
    /\ frozen[a] = 0
    /\ Alive(handle)                    \* else its memory cannot be read
    /\ frozen' = [frozen EXCEPT ![a] = handle]
    /\ UNCHANGED <<cheat_entries, needs_reload_vm>>

DisableFrozenAddress(a) ==
    /\ frozen[a] # 0
    /\ frozen' = [frozen EXCEPT ![a] = 0]
    /\ UNCHANGED <<cheat_entries, needs_reload_vm>>

(* A request of the service, or one that is refused or only reads.         *)
Serve ==
    /\ At("active") /\ task.who = "service"
    /\ \/ \E c \in Cheats : ToggleCheat(c) \/ AddCheat(c) \/ RemoveCheat(c)
       \/ \E a \in Addresses : EnableFrozenAddress(a) \/ DisableFrozenAddress(a)
       \/ UNCHANGED <<cheat_entries, needs_reload_vm, frozen>>
    /\ Unlock
    /\ UNCHANGED <<appVars, attachment, vm_program, debugVars>>

---------------------------------------------------------------------------
(* The threads outside of the lock.                                        *)

HookToCreateApplicationProcess ==
    /\ ~aborted /\ detect = "hook"
    /\ IF application_hook             \* pm: ResultDebugHookInUse
       THEN Abort
       ELSE /\ application_hook' = TRUE
            /\ detect' = "wait"
            /\ UNCHANGED <<app_state, hook_event, early_death, attachment, cheatVars, debugVars,
                           task, aborted>>

WaitHook ==
    /\ ~aborted /\ detect = "wait" /\ hook_event
    /\ hook_event' = FALSE
    /\ detect' = "attach"
    /\ UNCHANGED <<app_state, application_hook, early_death, attachment, cheatVars, debugVars, task, aborted>>

WaitDebugEventsEvent ==
    /\ ~aborted /\ debug.at = "event" /\ debug_events_event
    /\ debug_events_event' = FALSE
    /\ debug' = [debug EXCEPT !.at = "read"]
    /\ UNCHANGED <<appVars, attachment, cheatVars, cancelled, task, detect, aborted>>

(* The handle is read without the lock, and then waited on.                *)
GetCheatProcessHandle ==
    /\ ~aborted /\ debug.at = "read"
    /\ debug' = [at |-> "call", handle |-> IF handle # 0 THEN "current" ELSE "invalid"]
    /\ UNCHANGED <<appVars, attachment, cheatVars, debug_events_event, cancelled, task, detect, aborted>>

(* svcWaitSynchronizationSingle, when it is called and while it waits: a   *)
(* debug object is signaled while it has events, the process's exit among  *)
(* them.  Closing a handle does not end the wait on its object.            *)
Signaled == debug.handle = "current" /\ events

WaitSynchronization ==
    /\ ~aborted /\ debug.at = "call"
    /\ \/ debug.handle # "current" /\ debug' = [debug EXCEPT !.at = "failed"] /\ UNCHANGED cancelled
       \/ Signaled /\ debug' = [debug EXCEPT !.at = "signaled"] /\ UNCHANGED cancelled
       \/ /\ debug.handle = "current" /\ ~events
          /\ debug' = [debug EXCEPT !.at = IF cancelled THEN "failed" ELSE "waiting"]
          /\ cancelled' = FALSE
    /\ UNCHANGED <<appVars, attachment, cheatVars, debug_events_event, task, detect, aborted>>

WakeUp ==
    /\ ~aborted /\ debug.at = "waiting" /\ Signaled
    /\ debug' = [debug EXCEPT !.at = "signaled"]
    /\ UNCHANGED <<appVars, attachment, cheatVars, debug_events_event, cancelled, task, detect, aborted>>

---------------------------------------------------------------------------
Init ==
    /\ app_state = [p \in Apps |-> "none"]
    /\ application_hook = FALSE /\ hook_event = FALSE
    /\ handle = 0 /\ process_id = 0 /\ events = FALSE
    /\ cheat_entries = [c \in Cheats |-> NoCheat]
    /\ needs_reload_vm = FALSE /\ vm_program = {}
    /\ frozen = [a \in Addresses |-> 0]
    /\ task = NoTask
    /\ detect = "hook"
    /\ debug = [at |-> "event", handle |-> "invalid"]
    /\ debug_events_event = FALSE /\ cancelled = FALSE
    /\ aborted = FALSE /\ early_death = FALSE

(* The detect and the debug events thread only take the lock for this.     *)
LockForLaunch == detect = "attach" /\ Lock("launch")
LockForEvents == debug.at \in {"signaled", "failed"} /\ Lock(debug.at)

CriticalSection ==
    \/ KnockOut \/ CloseActiveCheatProcess
    \/ FindAttached \/ GetApplicationProcessId \/ GetProcessInfo
    \/ LoadCheats \/ DebugActiveProcess \/ StartProcess \/ Guard
    \/ Inactive \/ ApplyCheats \/ ContinueCheatProcess \/ StayAttached \/ Serve

DebugEventsThread == WaitDebugEventsEvent \/ GetCheatProcessHandle \/ WaitSynchronization \/ WakeUp

Next ==
    \/ \E p \in Apps : LaunchApplication(p) \/ Die(p) \/ RemoveFromList(p)
    \/ DebugEvent
    \/ LockForLaunch \/ LockForEvents \/ \E who \in {"force", "service", "vm"} : Lock(who)
    \/ CriticalSection
    \/ HookToCreateApplicationProcess \/ WaitHook
    \/ DebugEventsThread

Spec == Init /\ [][Next]_vars

(* Every thread runs.  Those that wait for the lock get it although others *)
(* take it again and again: the kernel hands it to a waiting thread.       *)
FairSpec ==
    /\ Spec
    /\ WF_vars(CriticalSection) /\ WF_vars(DebugEventsThread)
    /\ WF_vars(HookToCreateApplicationProcess) /\ WF_vars(WaitHook)
    /\ SF_vars(LockForLaunch) /\ SF_vars(LockForEvents)

---------------------------------------------------------------------------
(* Properties.                                                             *)

Entry == [of : Apps, enabled : BOOLEAN]

Places == {"active", "inactive", "cancel", "close", "get_info", "load", "attach", "start", "guard"}

(* The members of CheatProcessManager, pm's hook and the threads keep      *)
(* their types, and the machine's program has at most its capacity.        *)
TypeOK ==
    /\ app_state \in [Apps -> AppStates]
    /\ application_hook \in BOOLEAN /\ hook_event \in BOOLEAN
    /\ handle \in 0..MaxApps /\ process_id \in 0..MaxApps /\ events \in BOOLEAN
    /\ cheat_entries \in [Cheats -> {NoCheat} \cup Entry]
    /\ needs_reload_vm \in BOOLEAN
    /\ vm_program \subseteq Cheats \X Apps /\ Cardinality(vm_program) <= VmCapacity
    /\ frozen \in [Addresses -> 0..MaxApps]
    /\ task \in {NoTask} \cup [who : Holders, at : Places]
    /\ detect \in {"hook", "wait", "attach"}
    /\ debug \in [at : {"event", "read", "call", "waiting", "signaled", "failed"},
                  handle : {"invalid", "current", "closed"}]
    /\ debug_events_event \in BOOLEAN /\ cancelled \in BOOLEAN
    /\ aborted \in BOOLEAN /\ early_death \in BOOLEAN

(* What is applied to the attached process is its own: its cheats, the     *)
(* values frozen in its memory, and a program of the virtual machine that  *)
(* is the enabled cheats as they are now, unless it will be reloaded       *)
(* before it is run (CloseActiveCheatProcess, SetNeedsReloadVm).           *)
AppliesOwnCheats ==
    /\ handle # 0 => \A c \in Cheats : cheat_entries[c] # NoCheat => cheat_entries[c].of = handle
    /\ \A a \in Addresses : frozen[a] # 0 => frozen[a] = handle
    /\ ~needs_reload_vm => vm_program = Enabled

(* The debug events thread never waits on the object of a handle that was  *)
(* closed under it, where no event would ever wake it: it reads the handle *)
(* without the lock, and CloseActiveCheatProcess cancels its wait first.   *)
NoOrphanWait == debug.at = "waiting" => debug.handle = "current"

(* dmnt aborts only over an application that died before it was started,   *)
(* while the detect thread attached to it, or before it was continued:     *)
(* none is started twice, whatever attach was forced before, and the hook  *)
(* is free when dmnt wants it (the R_ABORT_UNLESS of the cheat manager).   *)
AbortsOnlyAfterDeath == aborted => early_death \/ (task.who = "signaled" /\ ~Alive(handle))

(* An application that pm handed to dmnt instead of starting it, or that   *)
(* stopped at a debug event, runs again, unless it dies first (there is    *)
(* one application at a time).                                             *)
Stopped(p) == app_state[p] = "created" \/ (app_state[p] = "running" /\ handle = p /\ events)

ApplicationRuns == (\E p \in Apps : Stopped(p)) ~> (\A p \in Apps : ~Stopped(p)) \/ aborted
=============================================================================
