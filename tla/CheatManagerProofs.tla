------------------------- MODULE CheatManagerProofs -------------------------
(***************************************************************************)
(* For any number of applications, cheats and addresses: cheats are        *)
(* applied to the process they are of, the debug events thread never waits *)
(* on a closed handle, and dmnt aborts only over a death.  Inv carries the *)
(* first two, HookInv, of pm's hook and the detect thread, the last.       *)
(***************************************************************************)
EXTENDS CheatManager, FiniteSetTheorems, TLAPS

(* What the place of the lock's holder says of the attachment: closed      *)
(* before it attaches to another process, and of which process the cheats  *)
(* are that it has loaded.                                                 *)
Attached ==
    /\ handle # 0 => process_id = handle
    /\ task.at \in {"active", "cancel", "close", "start"} => handle # 0
    /\ task.at \in {"inactive", "get_info", "load", "attach", "guard"} => handle = 0
    /\ task.at \in {"get_info", "load", "attach", "start", "guard"} =>
           process_id \in Apps /\ task.who \in {"launch", "force"}
    /\ task.at \in {"start", "guard"} => task.who = "launch"
    /\ task.at = "attach" =>
           \A c \in Cheats : cheat_entries[c] # NoCheat => cheat_entries[c].of = process_id

(* Before the handle is closed the debug events thread has been woken up,  *)
(* or its next wait will be cancelled.                                     *)
KnockedOut ==
    task.at = "close" => debug.at # "waiting" /\ (cancelled \/ debug.at = "failed")

(* Without an early death an announced application is there, not started,  *)
(* until the detect thread has started it, and is the only one.            *)
OneListed ==
    \A p \in Apps : app_state[p] # "none" => \A q \in 1..(p - 1) : app_state[q] = "removed"

Announced ==
    /\ application_hook => detect = "wait" /\ ~hook_event
    /\ hook_event => detect = "wait"
    /\ task.who = "launch" => detect = "attach"
    /\ hook_event \/ detect = "attach" =>
           early_death \/ \E p \in Apps : app_state[p] = "created"
    /\ task.who = "launch" /\ task.at \in {"get_info", "load", "attach", "start", "guard"} =>
           early_death \/ app_state[process_id] = "created"

Inv == TypeOK /\ Attached /\ KnockedOut /\ AppliesOwnCheats /\ NoOrphanWait
HookInv == OneListed /\ Announced /\ AbortsOnlyAfterDeath

(* The constructor starts the threads with nothing attached.               *)
LEMMA InitInv == ASSUME CheatAssumption, Init PROVE Inv /\ HookInv
<1>1. TypeOK
  <2>1. Cardinality({}) = 0
    BY FS_EmptySet
  <2>2. vm_program \subseteq Cheats \X Apps /\ Cardinality(vm_program) <= VmCapacity
    BY <2>1 DEF CheatAssumption, Init
  <2>3. app_state \in [Apps -> AppStates] /\ frozen \in [Addresses -> 0..MaxApps]
        /\ handle \in 0..MaxApps /\ process_id \in 0..MaxApps
    BY DEF CheatAssumption, Init, AppStates
  <2> QED
    BY <2>2, <2>3 DEF Init, TypeOK
<1>2. Attached /\ KnockedOut /\ NoOrphanWait
  BY DEF Init, Attached, KnockedOut, NoOrphanWait, NoTask
<1>3. AppliesOwnCheats
  BY DEF Init, AppliesOwnCheats, Enabled, NoCheat
<1>4. HookInv
  BY DEF Init, HookInv, OneListed, Announced, AbortsOnlyAfterDeath, NoTask
<1> QED
  BY <1>1, <1>2, <1>3, <1>4 DEF Inv

(* What the virtual machine would load consists of cheats of applications. *)
LEMMA EnabledType == ASSUME TypeOK PROVE Enabled \subseteq Cheats \X Apps
  BY DEF TypeOK, Enabled, Entry, NoCheat

(* The application, pm and the kernel leave the cheats alone.              *)
LEMMA EnvironmentKeepsInv ==
  ASSUME CheatAssumption, Inv, NEW p \in Apps,
         LaunchApplication(p) \/ Die(p) \/ RemoveFromList(p) \/ DebugEvent
  PROVE  Inv'
<1> USE DEF LaunchApplication, Die, RemoveFromList, DebugEvent, appVars, attachment, cheatVars, debugVars
<1>1. UNCHANGED <<cheatVars, debugVars, handle, process_id, task, detect, aborted>>
  OBVIOUS
<1>2. app_state' \in [Apps -> AppStates]
      /\ application_hook' \in BOOLEAN /\ hook_event' \in BOOLEAN
      /\ events' \in BOOLEAN /\ early_death' \in BOOLEAN
  BY DEF Inv, TypeOK, AppStates
<1>3. TypeOK'
  BY <1>1, <1>2 DEF Inv, TypeOK
<1>4. Attached' /\ KnockedOut' /\ NoOrphanWait'
  BY <1>1 DEF Inv, Attached, KnockedOut, NoOrphanWait
<1>5. AppliesOwnCheats'
  BY <1>1 DEF Inv, AppliesOwnCheats, Enabled
<1> QED
  BY <1>3, <1>4, <1>5 DEF Inv

(* Taking the lock: the place says whether a process is attached.          *)
LEMMA LockKeepsInv ==
  ASSUME CheatAssumption, Inv, NEW who \in Holders, Lock(who)
  PROVE  Inv'
<1> USE DEF Lock, appVars, attachment, cheatVars, debugVars
<1>1. /\ UNCHANGED <<appVars, attachment, cheatVars, debugVars, detect, aborted>>
      /\ task'.at \in {"active", "cancel", "inactive"}
      /\ task'.at \in {"active", "cancel"} => handle # 0
      /\ task'.at = "inactive" => handle = 0
  BY DEF HasActiveCheatProcess
<1>2. TypeOK'
  <2>1. task' \in [who : Holders, at : Places]
    BY DEF HasActiveCheatProcess, Places
  <2> QED
    BY <1>1, <2>1 DEF Inv, TypeOK
<1>3. Attached' /\ KnockedOut' /\ NoOrphanWait'
  BY <1>1 DEF Inv, Attached, KnockedOut, NoOrphanWait
<1>4. AppliesOwnCheats'
  BY <1>1 DEF Inv, AppliesOwnCheats, Enabled
<1> QED
  BY <1>2, <1>3, <1>4 DEF Inv

(* The detect and the debug events thread, outside of the lock: a thread   *)
(* that is knocked out before it waits does not wait.                      *)
LEMMA ThreadsKeepInv ==
  ASSUME CheatAssumption, Inv, HookToCreateApplicationProcess \/ WaitHook \/ DebugEventsThread
  PROVE  Inv'
<1> USE DEF HookToCreateApplicationProcess, WaitHook, Abort,
            DebugEventsThread, WaitDebugEventsEvent, GetCheatProcessHandle, WaitSynchronization, WakeUp,
            appVars, attachment, cheatVars, debugVars
<1>1. UNCHANGED <<app_state, attachment, cheatVars, task, early_death>>
  OBVIOUS
<1>2. /\ application_hook' \in BOOLEAN /\ hook_event' \in BOOLEAN /\ aborted' \in BOOLEAN
      /\ detect' \in {"hook", "wait", "attach"}
      /\ debug_events_event' \in BOOLEAN /\ cancelled' \in BOOLEAN
  BY DEF Inv, TypeOK
<1>3. debug' \in [at : {"event", "read", "call", "waiting", "signaled", "failed"},
                  handle : {"invalid", "current", "closed"}]
  BY DEF Inv, TypeOK
<1>4. TypeOK'
  BY <1>1, <1>2, <1>3 DEF Inv, TypeOK
<1>5. KnockedOut' /\ NoOrphanWait'
  BY DEF Inv, TypeOK, KnockedOut, NoOrphanWait
<1>6. Attached'
  BY <1>1 DEF Inv, Attached
<1>7. AppliesOwnCheats'
  BY <1>1 DEF Inv, AppliesOwnCheats, Enabled
<1> QED
  BY <1>4, <1>5, <1>6, <1>7 DEF Inv

(* What the holder of the lock does with it.                               *)
LEMMA UnlockType ==
  ASSUME TypeOK, Unlock
  PROVE  task' = NoTask /\ task'.at = "unlocked" /\ detect' \in {"hook", "wait", "attach"}
         /\ aborted' = aborted
  BY DEF TypeOK, Unlock, NoTask

LEMMA GotoType ==
  ASSUME TypeOK, task.at \in Places, NEW place \in Places, Goto(place)
  PROVE  /\ task' \in [who : Holders, at : Places]
         /\ task'.at = place /\ task'.who = task.who
         /\ UNCHANGED <<detect, aborted>>
  BY DEF TypeOK, Goto, NoTask, Places

LEMMA AbortKeepsInv == ASSUME Inv, Abort PROVE Inv'
<1> USE DEF Abort, appVars, attachment, cheatVars, debugVars
<1>1. TypeOK'
  BY DEF Inv, TypeOK
<1>2. Attached' /\ KnockedOut' /\ NoOrphanWait' /\ AppliesOwnCheats'
  BY DEF Inv, Attached, KnockedOut, NoOrphanWait, AppliesOwnCheats, Enabled
<1> QED
  BY <1>1, <1>2 DEF Inv

(* CloseActiveCheatProcess wakes up the debug events thread and then drops *)
(* everything that was of the process.                                     *)
LEMMA CloseKeepsInv ==
  ASSUME CheatAssumption, Inv, KnockOut \/ CloseActiveCheatProcess
  PROVE  Inv'
<1> USE DEF appVars, attachment, cheatVars, debugVars
<1>1. CASE KnockOut
  <2> USE <1>1 DEF KnockOut, At
  <2>1. task' \in [who : Holders, at : Places] /\ task'.at = "close" /\ UNCHANGED <<detect, aborted>>
    BY GotoType DEF Inv, Places
  <2>2. TypeOK'
    BY <2>1 DEF Inv, TypeOK, CancelThreadSynchronization
  <2>3. KnockedOut' /\ NoOrphanWait'
    BY <2>1 DEF Inv, TypeOK, KnockedOut, NoOrphanWait, CancelThreadSynchronization
  <2>4. Attached' /\ AppliesOwnCheats'
    BY <2>1 DEF Inv, Attached, AppliesOwnCheats, Enabled
  <2> QED
    BY <2>2, <2>3, <2>4 DEF Inv
<1>2. CASE CloseActiveCheatProcess
  <2> USE <1>2 DEF CloseActiveCheatProcess, At, ResetCheats
  <2>1. task' \in [who : Holders, at : Places] /\ task'.at = "inactive" /\ UNCHANGED <<detect, aborted>>
    BY GotoType DEF Inv, Places
  <2>2. debug' \in [at : {"event", "read", "call", "waiting", "signaled", "failed"},
                    handle : {"invalid", "current", "closed"}]
    BY DEF Inv, TypeOK
  <2>3. /\ handle' \in 0..MaxApps /\ process_id' \in 0..MaxApps
        /\ frozen' \in [Addresses -> 0..MaxApps]
        /\ cheat_entries' \in [Cheats -> {NoCheat} \cup Entry]
    BY DEF CheatAssumption
  <2>4. TypeOK'
    BY <2>1, <2>2, <2>3 DEF Inv, TypeOK
  <2>5. KnockedOut' /\ NoOrphanWait'
    BY <2>1 DEF Inv, TypeOK, KnockedOut, NoOrphanWait
  <2>6. Attached' /\ AppliesOwnCheats'
    BY <2>1 DEF Inv, Attached, AppliesOwnCheats
  <2> QED
    BY <2>4, <2>5, <2>6 DEF Inv
<1> QED
  BY <1>1, <1>2

(* Giving up an attach closes nothing, since nothing is attached.          *)
LEMMA GiveUpKeeps ==
  ASSUME CheatAssumption, TypeOK, Attached, KnockedOut, NoOrphanWait,
         task.at \in {"get_info", "load", "attach"}, GiveUp,
         cheat_entries' \in [Cheats -> {NoCheat} \cup Entry], UNCHANGED <<vm_program, frozen>>,
         needs_reload_vm' \in BOOLEAN
  PROVE  TypeOK' /\ Attached' /\ KnockedOut' /\ NoOrphanWait' /\ handle' = 0
<1> USE DEF GiveUp, appVars, attachment, debugVars
<1>1. CASE task.who = "launch"
  <2>1. task' \in [who : Holders, at : Places] /\ task'.at = "guard" /\ task'.who = "launch"
        /\ UNCHANGED <<detect, aborted>>
    BY <1>1, GotoType DEF Places
  <2>2. TypeOK'
    BY <1>1, <2>1 DEF TypeOK
  <2> QED
    BY <1>1, <2>1, <2>2 DEF Attached, KnockedOut, NoOrphanWait
<1>2. CASE task.who # "launch"
  <2>1. TypeOK'
    BY <1>2, UnlockType DEF TypeOK, CheatAssumption
  <2> QED
    BY <1>2, <2>1, UnlockType DEF Attached, KnockedOut, NoOrphanWait
<1> QED
  BY <1>1, <1>2

(* AttachToApplicationProcess: nothing is attached until the kernel has    *)
(* made dmnt the debugger of the process whose cheats have been loaded.    *)
LEMMA FindKeepsInv ==
  ASSUME CheatAssumption, Inv, FindAttached \/ GetApplicationProcessId
  PROVE  Inv'
<1> USE DEF appVars, attachment, cheatVars, debugVars
<1>1. CASE FindAttached
  <2> USE <1>1 DEF FindAttached, At
  <2>1. /\ task' \in {NoTask} \cup [who : Holders, at : Places] /\ task'.at \in {"unlocked", "cancel"}
        /\ detect' \in {"hook", "wait", "attach"} /\ UNCHANGED aborted
    BY GotoType, UnlockType DEF Inv, TypeOK, Places
  <2>2. TypeOK'
    BY <2>1 DEF Inv, TypeOK
  <2>3. KnockedOut' /\ NoOrphanWait' /\ Attached' /\ AppliesOwnCheats'
    BY <2>1 DEF Inv, KnockedOut, NoOrphanWait, Attached, AppliesOwnCheats, Enabled
  <2> QED
    BY <2>2, <2>3 DEF Inv
<1>2. ASSUME At("inactive"), IsAttaching, NEW p \in Apps, process_id' = p, Goto("get_info"),
             UNCHANGED <<appVars, handle, events, cheatVars, debugVars>>
      PROVE  Inv'
  <2> USE <1>2 DEF At
  <2>1. task' \in [who : Holders, at : Places] /\ task'.at = "get_info" /\ task'.who = task.who
        /\ UNCHANGED <<detect, aborted>>
    BY GotoType DEF Inv, Places
  <2>2. process_id' \in 0..MaxApps
    BY DEF Apps, CheatAssumption
  <2>3. TypeOK'
    BY <2>1, <2>2 DEF Inv, TypeOK
  <2>4. KnockedOut' /\ NoOrphanWait' /\ Attached' /\ AppliesOwnCheats'
    BY <2>1 DEF Inv, KnockedOut, NoOrphanWait, Attached, AppliesOwnCheats, Enabled, IsAttaching
  <2> QED
    BY <2>3, <2>4 DEF Inv
<1>3. ASSUME At("inactive"), Unlock, UNCHANGED <<appVars, attachment, cheatVars, debugVars>>
      PROVE  Inv'
  <2>1. TypeOK'
    BY <1>3, UnlockType DEF Inv, TypeOK
  <2>2. KnockedOut' /\ NoOrphanWait' /\ Attached' /\ AppliesOwnCheats'
    BY <1>3, UnlockType DEF Inv, KnockedOut, NoOrphanWait, Attached, AppliesOwnCheats, Enabled
  <2> QED
    BY <2>1, <2>2 DEF Inv
<1> QED
  BY <1>1, <1>2, <1>3, AbortKeepsInv DEF GetApplicationProcessId

LEMMA FailAttachKeepsInv ==
  ASSUME CheatAssumption, Inv, task.at \in {"get_info", "load", "attach"},
         FailAttach \/ (GiveUp /\ UNCHANGED cheatVars)
  PROVE  Inv'
<1>1. CASE Abort
  BY <1>1, AbortKeepsInv
<1>2. CASE GiveUp /\ UNCHANGED cheatVars
  <2>1. UNCHANGED <<cheat_entries, needs_reload_vm, vm_program, frozen>>
    BY <1>2 DEF cheatVars
  <2>2. TypeOK' /\ Attached' /\ KnockedOut' /\ NoOrphanWait' /\ handle' = 0
    BY <1>2, <2>1, GiveUpKeeps DEF Inv, TypeOK
  <2>3. handle = 0
    BY DEF Inv, Attached
  <2>4. AppliesOwnCheats'
    BY <2>1, <2>2, <2>3 DEF Inv, AppliesOwnCheats, Enabled
  <2> QED
    BY <2>2, <2>4 DEF Inv
<1> QED
  BY <1>1, <1>2 DEF FailAttach

LEMMA LoadKeepsInv ==
  ASSUME CheatAssumption, Inv, GetProcessInfo \/ LoadCheats
  PROVE  Inv'
<1> USE DEF appVars, attachment, cheatVars, debugVars
<1>1. CASE GetProcessInfo
  <2> USE <1>1 DEF At
  <2>1. CASE Goto("load") /\ UNCHANGED <<appVars, attachment, cheatVars, debugVars>>
    <3>1. task' \in [who : Holders, at : Places] /\ task'.at = "load" /\ task'.who = task.who
          /\ UNCHANGED <<detect, aborted>>
      BY <2>1, GotoType DEF GetProcessInfo, Inv, Places
    <3>2. TypeOK'
      BY <2>1, <3>1 DEF Inv, TypeOK
    <3>3. KnockedOut' /\ NoOrphanWait' /\ Attached' /\ AppliesOwnCheats'
      BY <2>1, <3>1 DEF GetProcessInfo, Inv, KnockedOut, NoOrphanWait, Attached, AppliesOwnCheats, Enabled
    <3> QED
      BY <3>2, <3>3 DEF Inv
  <2> QED
    BY <2>1, FailAttachKeepsInv DEF GetProcessInfo
<1>2. ASSUME At("load"), NEW parsed \in SUBSET Cheats, NEW enabled \in SUBSET parsed,
             Loads(parsed, enabled),
             \/ Goto("attach") /\ UNCHANGED <<appVars, attachment, debugVars>>
             \/ GiveUp
      PROVE  Inv'
  <2>1. task.at = "load" /\ handle = 0 /\ process_id \in Apps
    BY <1>2 DEF At, Inv, Attached
  <2>2. /\ cheat_entries' \in [Cheats -> {NoCheat} \cup Entry]
        /\ \A c \in Cheats : cheat_entries'[c] # NoCheat => cheat_entries'[c].of = process_id
    BY <1>2, <2>1 DEF Loads, Entry
  <2>3. needs_reload_vm' = TRUE /\ UNCHANGED <<vm_program, frozen>>
    BY <1>2 DEF Loads
  <2>4. CASE Goto("attach") /\ UNCHANGED <<appVars, attachment, debugVars>>
    <3>1. task' \in [who : Holders, at : Places] /\ task'.at = "attach" /\ task'.who = task.who
          /\ UNCHANGED <<detect, aborted>>
      BY <2>1, <2>4, GotoType DEF Inv, Places
    <3>2. TypeOK'
      BY <2>2, <2>3, <2>4, <3>1 DEF Inv, TypeOK
    <3>3. KnockedOut' /\ NoOrphanWait' /\ Attached' /\ AppliesOwnCheats'
      BY <2>1, <2>2, <2>3, <2>4, <3>1 DEF Inv, KnockedOut, NoOrphanWait, Attached, AppliesOwnCheats
    <3> QED
      BY <3>2, <3>3 DEF Inv
  <2>5. CASE GiveUp
    <3>1. TypeOK' /\ Attached' /\ KnockedOut' /\ NoOrphanWait' /\ handle' = 0
      BY <2>1, <2>2, <2>3, <2>5, GiveUpKeeps DEF Inv
    <3>2. AppliesOwnCheats'
      BY <2>1, <2>3, <3>1 DEF Inv, AppliesOwnCheats
    <3> QED
      BY <3>1, <3>2 DEF Inv
  <2> QED
    BY <1>2, <2>4, <2>5
<1> QED
  BY <1>1, <1>2 DEF LoadCheats

(* svcDebugActiveProcess, and starting the process with or without it.     *)
LEMMA AttachKeepsInv ==
  ASSUME CheatAssumption, Inv, DebugActiveProcess \/ StartProcess \/ Guard
  PROVE  Inv'
<1> USE DEF appVars, attachment, cheatVars, debugVars, At
<1>1. CASE DebugActiveProcess
  <2>1. CASE FailAttach
    BY <1>1, <2>1, FailAttachKeepsInv DEF DebugActiveProcess
  <2>2. ASSUME handle' = process_id, events' = TRUE,
               IF task.who = "launch"
               THEN Goto("start") /\ UNCHANGED debug_events_event
               ELSE Unlock /\ debug_events_event' = TRUE,
               UNCHANGED <<appVars, process_id, cheatVars, debug, cancelled>>
        PROVE  Inv'
    <3>1. task.at = "attach" /\ handle = 0 /\ process_id \in Apps
      BY <1>1 DEF DebugActiveProcess, Inv, Attached
    <3>2. /\ task' \in {NoTask} \cup [who : Holders, at : Places]
          /\ task'.at \in {"unlocked", "start"} /\ (task'.at = "start" => task'.who = "launch")
          /\ detect' \in {"hook", "wait", "attach"} /\ UNCHANGED aborted
          /\ debug_events_event' \in BOOLEAN
      BY <2>2, <3>1, GotoType, UnlockType DEF Inv, TypeOK, Places
    <3>3. TypeOK'
      BY <2>2, <3>2 DEF Inv, TypeOK
    <3>4. KnockedOut' /\ NoOrphanWait'
      BY <2>2, <3>2 DEF Inv, KnockedOut, NoOrphanWait
    <3>5. Attached'
      BY <2>2, <3>1, <3>2, CheatAssumption DEF Inv, Attached, Apps
    <3>6. AppliesOwnCheats'
      BY <2>2, <3>1 DEF Inv, TypeOK, Attached, AppliesOwnCheats, Enabled
    <3> QED
      BY <3>3, <3>4, <3>5, <3>6 DEF Inv
  <2> QED
    BY <1>1, <2>1, <2>2 DEF DebugActiveProcess
<1>2. ASSUME task.at \in {"start", "guard"}, app_state[process_id] = "created", StartsProcess, Unlock,
             UNCHANGED <<handle, cheatVars, debug, cancelled>>,
             debug_events_event' \in BOOLEAN, process_id' \in {0, process_id},
             task.at = "start" => process_id' = process_id
      PROVE  Inv'
  <2>1. app_state' \in [Apps -> AppStates] /\ events' \in BOOLEAN
        /\ UNCHANGED <<application_hook, hook_event, early_death>>
    BY <1>2 DEF StartsProcess, Inv, TypeOK, AppStates
  <2>2. process_id' \in 0..MaxApps
    BY <1>2 DEF Inv, TypeOK, CheatAssumption
  <2>3. TypeOK'
    BY <1>2, <2>1, <2>2, UnlockType DEF Inv, TypeOK
  <2>4. KnockedOut' /\ NoOrphanWait' /\ Attached'
    BY <1>2, UnlockType DEF Inv, KnockedOut, NoOrphanWait, Attached
  <2>5. AppliesOwnCheats'
    BY <1>2 DEF Inv, AppliesOwnCheats, Enabled
  <2> QED
    BY <2>3, <2>4, <2>5 DEF Inv
<1>3. CASE StartProcess
  BY <1>2, <1>3, AbortKeepsInv DEF StartProcess, CancelGuard
<1>4. CASE Guard
  BY <1>2, <1>4, AbortKeepsInv DEF Guard, GuardStarts, Inv, TypeOK
<1> QED
  BY <1>1, <1>3, <1>4

(* The debug events thread goes on after its wait, in or out of luck.      *)
LEMMA EventsKeepInv ==
  ASSUME CheatAssumption, Inv, Inactive \/ ContinueCheatProcess \/ StayAttached
  PROVE  Inv'
<1>a. CASE Abort
  BY <1>a, AbortKeepsInv
<1>b. SUFFICES ASSUME ~Abort PROVE Inv'
  BY <1>a
<1> USE <1>b DEF Inactive, ContinueCheatProcess, StayAttached, appVars, attachment, cheatVars, debugVars
<1>1. /\ task' = NoTask /\ task'.at = "unlocked"
      /\ detect' \in {"hook", "wait", "attach"} /\ UNCHANGED aborted
  BY UnlockType DEF Inv
<1>2. /\ debug' \in [at : {"event", "read", "call", "waiting", "signaled", "failed"},
                     handle : {"invalid", "current", "closed"}]
      /\ debug'.at = "waiting" => debug' = debug
  BY DEF Inv, TypeOK
<1>3. TypeOK'
  BY <1>1, <1>2 DEF Inv, TypeOK
<1>4. KnockedOut' /\ NoOrphanWait' /\ Attached' /\ AppliesOwnCheats'
  BY <1>1, <1>2 DEF Inv, KnockedOut, NoOrphanWait, Attached, AppliesOwnCheats, Enabled
<1> QED
  BY <1>3, <1>4 DEF Inv

(* The virtual machine takes the enabled cheats if they fit.               *)
LEMMA ApplyKeepsInv == ASSUME CheatAssumption, Inv, ApplyCheats PROVE Inv'
<1> USE DEF ApplyCheats, appVars, attachment, debugVars
<1>1. /\ task' = NoTask /\ task'.at = "unlocked"
      /\ detect' \in {"hook", "wait", "attach"} /\ UNCHANGED aborted
  BY UnlockType DEF Inv
<1>2. vm_program' \subseteq Cheats \X Apps /\ needs_reload_vm' \in BOOLEAN
  BY EnabledType DEF Inv, TypeOK
<1>3. Cardinality(vm_program') <= VmCapacity
  <2>1. Cardinality({}) = 0
    BY FS_EmptySet
  <2> QED
    BY <2>1 DEF Inv, TypeOK, Fits, CheatAssumption
<1>4. TypeOK'
  BY <1>1, <1>2, <1>3 DEF Inv, TypeOK
<1>5. KnockedOut' /\ NoOrphanWait' /\ Attached'
  BY <1>1 DEF Inv, KnockedOut, NoOrphanWait, Attached
<1>6. AppliesOwnCheats'
  BY DEF Inv, AppliesOwnCheats, Enabled
<1> QED
  BY <1>4, <1>5, <1>6 DEF Inv

(* What a request changes is of the attached process, and reloaded.        *)
LEMMA ServeKeepsInv == ASSUME CheatAssumption, Inv, Serve PROVE Inv'
<1> USE DEF Serve, appVars, attachment, debugVars
<1>1. /\ task' = NoTask /\ task'.at = "unlocked"
      /\ detect' \in {"hook", "wait", "attach"} /\ UNCHANGED aborted
  BY UnlockType DEF Inv
<1>2. handle # 0 /\ process_id = handle /\ handle \in Apps
  BY DEF At, Inv, TypeOK, Attached, Apps
<1>3. ASSUME NEW c \in Cheats, ToggleCheat(c) \/ AddCheat(c) \/ RemoveCheat(c)
      PROVE  /\ cheat_entries' \in [Cheats -> {NoCheat} \cup Entry]
             /\ \A d \in Cheats : cheat_entries'[d] # NoCheat => cheat_entries'[d].of = handle
             /\ needs_reload_vm' = TRUE /\ UNCHANGED frozen
  <2>1. CASE ToggleCheat(c)
    BY <1>2, <2>1 DEF ToggleCheat, Inv, TypeOK, AppliesOwnCheats, NoCheat, Entry
  <2>2. CASE AddCheat(c)
    <3>1. PICK enabled \in BOOLEAN :
            cheat_entries' = [cheat_entries EXCEPT ![c] = [of |-> handle, enabled |-> enabled]]
      BY <1>2, <2>2 DEF AddCheat
    <3>2. [of |-> handle, enabled |-> enabled] \in Entry
      BY <1>2 DEF Entry
    <3>3. cheat_entries' \in [Cheats -> {NoCheat} \cup Entry]
      BY <3>1, <3>2 DEF Inv, TypeOK
    <3>4. \A d \in Cheats : cheat_entries'[d] # NoCheat => cheat_entries'[d].of = handle
      BY <1>2, <3>1 DEF Inv, TypeOK, AppliesOwnCheats
    <3> QED
      BY <2>2, <3>3, <3>4 DEF AddCheat
  <2>3. CASE RemoveCheat(c)
    BY <1>2, <2>3 DEF RemoveCheat, Inv, TypeOK, AppliesOwnCheats, NoCheat, Entry
  <2> QED
    BY <1>3, <2>1, <2>2, <2>3
<1>4. ASSUME NEW a \in Addresses, EnableFrozenAddress(a) \/ DisableFrozenAddress(a)
      PROVE  /\ frozen' \in [Addresses -> 0..MaxApps]
             /\ \A b \in Addresses : frozen'[b] # 0 => frozen'[b] = handle
             /\ UNCHANGED <<cheat_entries, needs_reload_vm>>
  BY <1>4 DEF EnableFrozenAddress, DisableFrozenAddress, Inv, TypeOK, AppliesOwnCheats, CheatAssumption
<1>5. /\ cheat_entries' \in [Cheats -> {NoCheat} \cup Entry] /\ needs_reload_vm' \in BOOLEAN
      /\ frozen' \in [Addresses -> 0..MaxApps]
  BY <1>3, <1>4 DEF Inv, TypeOK
<1>6. TypeOK'
  BY <1>1, <1>5 DEF Inv, TypeOK
<1>7. KnockedOut' /\ NoOrphanWait' /\ Attached'
  BY <1>1 DEF Inv, KnockedOut, NoOrphanWait, Attached
<1>8. AppliesOwnCheats'
  <2>1. CASE \E c \in Cheats : ToggleCheat(c) \/ AddCheat(c) \/ RemoveCheat(c)
    BY <1>3, <2>1 DEF Inv, AppliesOwnCheats
  <2>2. CASE \E a \in Addresses : EnableFrozenAddress(a) \/ DisableFrozenAddress(a)
    BY <1>4, <2>2 DEF Inv, AppliesOwnCheats, Enabled
  <2>3. CASE UNCHANGED <<cheat_entries, needs_reload_vm, frozen>>
    BY <2>3 DEF Inv, AppliesOwnCheats, Enabled
  <2> QED
    BY <2>1, <2>2, <2>3
<1> QED
  BY <1>6, <1>7, <1>8 DEF Inv

LEMMA InvAlways == ASSUME CheatAssumption PROVE Spec => []Inv
<1>1. Init => Inv
  BY InitInv
<1>2. Inv /\ [Next]_vars => Inv'
  <2> SUFFICES ASSUME Inv, [Next]_vars PROVE Inv'
    OBVIOUS
  <2>1. CASE \E p \in Apps : LaunchApplication(p) \/ Die(p) \/ RemoveFromList(p)
    BY <2>1, EnvironmentKeepsInv
  <2>2. CASE DebugEvent
    <3>1. handle \in Apps
      BY <2>2 DEF DebugEvent, Inv, TypeOK, Apps, CheatAssumption
    <3> QED
      BY <2>2, <3>1, EnvironmentKeepsInv
  <2>3. CASE LockForLaunch \/ LockForEvents \/ \E who \in {"force", "service", "vm"} : Lock(who)
    BY <2>3, LockKeepsInv DEF LockForLaunch, LockForEvents, Holders
  <2>4. CASE CriticalSection
    BY <2>4, CloseKeepsInv, FindKeepsInv, LoadKeepsInv, AttachKeepsInv,
       EventsKeepInv, ApplyKeepsInv, ServeKeepsInv DEF CriticalSection
  <2>5. CASE HookToCreateApplicationProcess \/ WaitHook \/ DebugEventsThread
    BY <2>5, ThreadsKeepInv
  <2>6. CASE UNCHANGED vars
    <3> USE <2>6 DEF vars, appVars, attachment, cheatVars, debugVars
    <3>1. TypeOK'
      BY DEF Inv, TypeOK
    <3>2. Attached' /\ KnockedOut' /\ NoOrphanWait' /\ AppliesOwnCheats'
      BY DEF Inv, Attached, KnockedOut, NoOrphanWait, AppliesOwnCheats, Enabled
    <3> QED
      BY <3>1, <3>2 DEF Inv
  <2> QED
    BY <2>1, <2>2, <2>3, <2>4, <2>5, <2>6 DEF Next
<1> QED
  BY <1>1, <1>2, PTL DEF Spec

---------------------------------------------------------------------------
(* The launched application is found, since it is the only one on the list.*)
LEMMA OnlyOneListed ==
  ASSUME CheatAssumption, OneListed, NEW p \in Apps, NEW q \in Apps,
         app_state[p] \in {"created", "running", "exited"},
         app_state[q] \in {"created", "running", "exited"}
  PROVE  p = q
<1>1. p < q \/ q < p \/ p = q
  BY DEF Apps, CheatAssumption
<1>2. CASE p < q
  BY <1>2 DEF OneListed, Apps, CheatAssumption
<1>3. CASE q < p
  BY <1>3 DEF OneListed, Apps, CheatAssumption
<1> QED
  BY <1>1, <1>2, <1>3

LEMMA EnvironmentKeepsHook ==
  ASSUME CheatAssumption, Inv, HookInv, NEW p \in Apps,
         LaunchApplication(p) \/ Die(p) \/ RemoveFromList(p) \/ DebugEvent
  PROVE  HookInv'
<1> USE DEF LaunchApplication, Die, RemoveFromList, DebugEvent, Alive, appVars, attachment, cheatVars, debugVars
<1>1. app_state \in [Apps -> AppStates]
  BY DEF Inv, TypeOK
<1>2. OneListed'
  BY <1>1 DEF HookInv, OneListed, Apps, CheatAssumption
<1>3. (application_hook => detect = "wait" /\ ~hook_event)' /\ (hook_event => detect = "wait")'
      /\ (task.who = "launch" => detect = "attach")'
  <2>1. UNCHANGED <<task, detect>>
    OBVIOUS
  <2>2. (application_hook' = FALSE /\ (hook_event' => hook_event \/ application_hook))
        \/ UNCHANGED <<application_hook, hook_event>>
    BY DEF Inv, TypeOK
  <2> QED
    BY <2>1, <2>2 DEF HookInv, Announced
<1>4. (hook_event \/ detect = "attach" => early_death \/ \E q \in Apps : app_state[q] = "created")'
  BY <1>1 DEF HookInv, Announced
<1>5. (task.who = "launch" /\ task.at \in {"get_info", "load", "attach", "start", "guard"} =>
           early_death \/ app_state[process_id] = "created")'
  BY <1>1 DEF HookInv, Announced, Inv, Attached
<1>6. AbortsOnlyAfterDeath'
  BY DEF HookInv, AbortsOnlyAfterDeath
<1> QED
  BY <1>2, <1>3, <1>4, <1>5, <1>6 DEF HookInv, Announced

(* The holder of the lock gives it up, goes on or aborts.                  *)
LEMMA UnlockKeepsHook == ASSUME HookInv, ~aborted, Unlock, UNCHANGED appVars PROVE HookInv'
  BY DEF HookInv, OneListed, Announced, AbortsOnlyAfterDeath, Unlock, NoTask, appVars

LEMMA GotoKeepsHook ==
  ASSUME TypeOK, HookInv, ~aborted, task.at \in Places, NEW place \in Places, Goto(place), UNCHANGED appVars,
         \/ place \in {"cancel", "close", "inactive"}
         \/ task.at \in {"get_info", "load", "attach", "start", "guard"} /\ UNCHANGED process_id
  PROVE  HookInv'
<1>1. task'.at = place /\ task'.who = task.who /\ UNCHANGED <<detect, aborted>>
  BY GotoType
<1> QED
  BY <1>1 DEF HookInv, OneListed, Announced, AbortsOnlyAfterDeath, appVars

LEMMA AbortKeepsHook ==
  ASSUME HookInv, early_death \/ (task.who = "signaled" /\ ~Alive(handle)), Abort PROVE HookInv'
  BY DEF HookInv, OneListed, Announced, AbortsOnlyAfterDeath, Alive, Abort, appVars, attachment

LEMMA GiveUpKeepsHook ==
  ASSUME TypeOK, HookInv, ~aborted, task.at \in {"get_info", "load", "attach"}, GiveUp PROVE HookInv'
<1>1. CASE task.who = "launch"
  BY <1>1, GotoKeepsHook DEF GiveUp, Places
<1>2. CASE task.who # "launch"
  BY <1>2, UnlockKeepsHook DEF GiveUp
<1> QED
  BY <1>1, <1>2

(* What the threads do outside of the lock, and how they take it.          *)
LEMMA ThreadsKeepHook ==
  ASSUME Inv, HookInv,
         \/ LockForLaunch \/ LockForEvents \/ \E who \in {"force", "service", "vm"} : Lock(who)
         \/ HookToCreateApplicationProcess \/ WaitHook \/ DebugEventsThread
  PROVE  HookInv'
<1> USE DEF HookInv, OneListed, Announced, AbortsOnlyAfterDeath, appVars, attachment
<1>1. CASE LockForLaunch
  BY <1>1 DEF LockForLaunch, Lock
<1>2. ASSUME NEW who, who # "launch", Lock(who) PROVE HookInv'
  BY <1>2 DEF Lock
<1>3. CASE LockForEvents
  BY <1>2, <1>3 DEF LockForEvents
<1>4. CASE HookToCreateApplicationProcess
  BY <1>4 DEF HookToCreateApplicationProcess, Abort
<1>5. CASE WaitHook
  BY <1>5 DEF WaitHook
<1>6. CASE DebugEventsThread
  BY <1>6 DEF DebugEventsThread, WaitDebugEventsEvent, GetCheatProcessHandle, WaitSynchronization, WakeUp
<1> QED
  BY <1>1, <1>2, <1>3, <1>4, <1>5, <1>6

(* A launch aborts only if the announced application is gone or started.   *)
LEMMA SectionKeepsHook ==
  ASSUME CheatAssumption, Inv, HookInv, CriticalSection
  PROVE  HookInv'
<1>1. CASE KnockOut \/ CloseActiveCheatProcess
  BY <1>1, GotoKeepsHook DEF KnockOut, CloseActiveCheatProcess, At, Places, Inv
<1>2. CASE FindAttached
  BY <1>2, GotoKeepsHook, UnlockKeepsHook DEF FindAttached, At, Places, Inv
<1>3. CASE GetApplicationProcessId
  <2>1. ASSUME NEW p \in Apps, IsListed(p), process_id' = p, Goto("get_info"), UNCHANGED appVars,
               At("inactive"), IsAttaching
        PROVE  HookInv'
    <3>1. task'.at = "get_info" /\ task'.who = task.who /\ UNCHANGED <<detect, aborted>> /\ ~aborted
      BY <2>1, GotoType DEF At, Places, Inv
    <3>2. task.who = "launch" => early_death \/ app_state[p] = "created"
      BY <2>1, OnlyOneListed DEF HookInv, Announced, IsListed
    <3> QED
      BY <2>1, <3>1, <3>2 DEF HookInv, OneListed, Announced, AbortsOnlyAfterDeath, appVars
  <2>2. ASSUME At("inactive"), IsAttaching, \A p \in Apps : ~IsListed(p), task.who = "launch"
        PROVE  early_death
    BY <2>2 DEF HookInv, Announced, IsListed
  <2> QED
    BY <1>3, <2>1, <2>2, AbortKeepsHook, UnlockKeepsHook DEF GetApplicationProcessId, At
<1>4. ASSUME ~aborted, task.at \in {"get_info", "load", "attach"}, ~Alive(process_id), FailAttach
      PROVE  HookInv'
  <2>1. task.who = "launch" => early_death
    BY <1>4 DEF HookInv, Announced, Inv, Attached, Alive
  <2> QED
    BY <1>4, <2>1, AbortKeepsHook, GiveUpKeepsHook DEF FailAttach, Inv
<1>5. CASE GetProcessInfo
  BY <1>4, <1>5, GotoKeepsHook, GiveUpKeepsHook
     DEF GetProcessInfo, At, Places, Inv, IsListed, Alive, attachment
<1>6. CASE LoadCheats
  BY <1>6, GotoKeepsHook, GiveUpKeepsHook DEF LoadCheats, At, Places, Inv, attachment
<1>7. CASE DebugActiveProcess
  <2>1. CASE task.who = "force" /\ FailAttach
    BY <1>7, <2>1, GiveUpKeepsHook DEF FailAttach, DebugActiveProcess, At, Inv
  <2> QED
    BY <1>7, <1>4, <2>1, GotoKeepsHook, UnlockKeepsHook DEF DebugActiveProcess, At, Places, Inv
<1>8. ASSUME ~aborted, task.at \in {"start", "guard"}, StartsProcess, Unlock, app_state[process_id] = "created"
      PROVE  HookInv'
  <2>1. task.who = "launch" /\ process_id \in Apps /\ app_state \in [Apps -> AppStates]
    BY <1>8 DEF Inv, Attached, TypeOK
  <2>2. /\ task' = NoTask /\ task'.who = "nobody" /\ detect' = "hook"
        /\ UNCHANGED <<aborted, application_hook, hook_event, early_death>>
        /\ app_state' = [app_state EXCEPT ![process_id] = "running"]
    BY <1>8, <2>1 DEF Unlock, NoTask, StartsProcess
  <2>3. OneListed'
    BY <1>8, <2>1, <2>2 DEF HookInv, OneListed, Apps, CheatAssumption
  <2>4. Announced' /\ AbortsOnlyAfterDeath'
    BY <2>1, <2>2 DEF HookInv, Announced, AbortsOnlyAfterDeath
  <2> QED
    BY <2>3, <2>4 DEF HookInv
<1>9. ASSUME task.at \in {"start", "guard"}, Abort, app_state[process_id] # "created"
      PROVE  HookInv'
  BY <1>9, AbortKeepsHook DEF HookInv, Announced, Inv, Attached
<1>10. CASE StartProcess \/ Guard
  BY <1>8, <1>9, <1>10 DEF StartProcess, Guard, CancelGuard, GuardStarts, At
<1>11. CASE Inactive \/ ApplyCheats \/ ContinueCheatProcess \/ StayAttached \/ Serve
  BY <1>11, UnlockKeepsHook, AbortKeepsHook DEF At, Inactive, ApplyCheats, ContinueCheatProcess, StayAttached, Serve
<1> QED
  BY <1>1, <1>2, <1>3, <1>5, <1>6, <1>7, <1>10, <1>11 DEF CriticalSection

LEMMA HookAlways == ASSUME CheatAssumption PROVE Spec => [](Inv /\ HookInv)
<1>1. Init => HookInv
  BY InitInv
<1>2. Inv /\ HookInv /\ [Next]_vars => HookInv'
  <2> SUFFICES ASSUME Inv, HookInv, [Next]_vars PROVE HookInv'
    OBVIOUS
  <2>1. CASE \E p \in Apps : LaunchApplication(p) \/ Die(p) \/ RemoveFromList(p)
    BY <2>1, EnvironmentKeepsHook
  <2>2. CASE DebugEvent
    <3>1. handle \in Apps
      BY <2>2 DEF DebugEvent, Inv, TypeOK, Apps, CheatAssumption
    <3> QED
      BY <2>2, <3>1, EnvironmentKeepsHook
  <2>3. CASE \/ LockForLaunch \/ LockForEvents \/ \E who \in {"force", "service", "vm"} : Lock(who)
             \/ HookToCreateApplicationProcess \/ WaitHook \/ DebugEventsThread
    BY <2>3, ThreadsKeepHook
  <2>4. CASE CriticalSection
    BY <2>4, SectionKeepsHook
  <2>5. CASE UNCHANGED vars
    BY <2>5 DEF vars, appVars, attachment, HookInv, OneListed, Announced, AbortsOnlyAfterDeath, Alive
  <2> QED
    BY <2>1, <2>2, <2>3, <2>4, <2>5 DEF Next
<1> QED
  BY <1>1, <1>2, InvAlways, PTL DEF Spec

(* For any capacity the machine's program fits, and everything keeps its   *)
(* type (CheatVirtualMachine::LoadProgram).                                *)
THEOREM CheatTypesCorrect == Spec => []TypeOK
<1>1. Inv => TypeOK
  BY DEF Inv
<1> QED
  BY <1>1, CheatAssumption, InvAlways, PTL

(* No cheat, frozen address or program outlives the process it was made    *)
(* for (CloseActiveCheatProcess).                                          *)
THEOREM CheatsAreOwn == Spec => []AppliesOwnCheats
<1>1. Inv => AppliesOwnCheats
  BY DEF Inv
<1> QED
  BY <1>1, CheatAssumption, InvAlways, PTL

(* Whoever closes the handle has knocked the debug events thread out of    *)
(* its wait (CancelThreadSynchronization).                                 *)
THEOREM WaitsAreNotOrphaned == Spec => []NoOrphanWait
<1>1. Inv => NoOrphanWait
  BY DEF Inv
<1> QED
  BY <1>1, CheatAssumption, InvAlways, PTL

(* However many applications are launched, and whatever attach is forced   *)
(* meanwhile, R_ABORT_UNLESS_IF_NEW_PROCESS only meets a dead one.         *)
THEOREM AbortsNeedADeath == Spec => []AbortsOnlyAfterDeath
<1>1. HookInv => AbortsOnlyAfterDeath
  BY DEF HookInv
<1> QED
  BY <1>1, CheatAssumption, HookAlways, PTL
=============================================================================
