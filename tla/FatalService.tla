---------------------------- MODULE FatalService ----------------------------
(***************************************************************************)
(* fatal: a program throws an error, the first one counts.  The service    *)
(* thread collects what it can learn of the thrower and starts eight       *)
(* tasks, threads that share the context and two events: one writes the    *)
(* report, one watches the battery, one shows the screen, one waits for a  *)
(* button, and four quiet the console.                                     *)
(***************************************************************************)
EXTENDS Integers, Sequences, SequencesExt, FiniteSets

CONSTANTS
    MaxStackTraceDepth,     \* 0x20
    MaxShutdownWait,        \* 30 seconds
    IntervalUnit,           \* what a setting is multiplied by: 1'000'000 from milliseconds
    IntervalLimit,          \* 2^31: an interval is an s32
    MaxElapsed              \* bound: seconds the button task looks at

ASSUME DepthIsNatural == MaxStackTraceDepth \in Nat

VARIABLES
    setup,                  \* settings, fixed for a behaviour
    repair,                 \* what CheckRepairStatus found: unchecked, none or an error
    has_thrown, throw_context, fatal_events, fatal_tasks, screen, report, quiet,
    console,                \* on, shutdown, rebooted, or fatal itself aborted
    elapsed,                \* seconds since the button task began to look
    waited,                 \* seconds since the power task tried to shut down
    first_throw,            \* history: the throw that was accepted
    battery_good            \* history: a query found no need to shut down

fatalVars == <<setup, repair, has_thrown, throw_context, fatal_events, fatal_tasks, screen, report,
               quiet, console, elapsed, waited, first_throw, battery_good>>

(***************************************************************************)
(* The settings.  An auto reboot interval of 0 means none.                 *)
(***************************************************************************)
Setups == [transition_to_fatal : BOOLEAN, auto_reboot_interval : {0, 1, 3}]

NoThrow == [command |-> 1, result |-> "none", pid |-> "none", policy |-> "none", trace |-> 0,
            debug |-> "not debugged"]
NoContext == [result |-> "success", program |-> "none", is_creport |-> FALSE,
              generate_error_report |-> FALSE, trace |-> 0, name |-> FALSE, caller |-> FALSE]

TaskNames == {"report", "power", "screen", "sound", "backlight", "clock", "button", "transition"}
FirstPlace == [t \in TaskNames |-> IF t = "power" THEN "first query"
                                   ELSE IF t = "button" THEN "wait for report" ELSE "start"]

(***************************************************************************)
(* What fatal learns of the thrower.  A thread is what the kernel says of  *)
(* it: whether its attach event was seen and all of it can be read, its    *)
(* state, whether it stands at svcSendSyncRequest, the command and result  *)
(* of the request in its TLS, and how deep its frames go.                  *)
(***************************************************************************)
SentBuffers(command) == IF command = 2 THEN 1 ELSE 0

(* Command 2 falls through to the default and is never recognised.         *)
KnownCommand(t) == t.command \in {0, 1} /\ SentBuffers(t.command) = 0

IsThreadFatalCaller(result, t) ==
    /\ t.readable /\ t.state \in {"Waiting", "Running"} /\ t.at_svc
    /\ KnownCommand(t) /\ t.result = result

Callers(result, threads) == {i \in DOMAIN threads : IsThreadFatalCaller(result, threads[i])}

FramesRead(t) == IF t.frames < MaxStackTraceDepth THEN t.frames ELSE MaxStackTraceDepth

(* How far the debugging of the thrower gets: not at all (firmware before  *)
(* 2.0.0, fatal itself, a process that is debugged or brings no event of   *)
(* its own), to a 32-bit process, to threads that are not listed, past a   *)
(* thrower that cannot be read, to one whose registers then cannot, or to  *)
(* the end.  The dumps of stack and TLS are left out.                      *)
Debugs == {"not debugged", "32-bit", "no threads", "unreadable", "no registers", "64-bit"}

Thread(command, result, frames, at_svc, readable) ==
    [state |-> "Waiting", at_svc |-> at_svc, command |-> command, result |-> result,
     frames |-> frames, readable |-> readable]

(* The thread that throws is listed behind one that is busy, with the same *)
(* request left in its TLS, and one whose request has another result.      *)
ThreadsOf(call) ==
    <<Thread(0, call.result, 0, FALSE, TRUE), Thread(0, "other", 0, TRUE, TRUE),
      Thread(call.command, call.result, MaxStackTraceDepth + 1, TRUE, call.debug # "unreadable")>>

CollectDebugInformation(ctx, threads, debug) ==
    LET callers == Callers(ctx.result, threads)
        first   == CHOOSE i \in callers : \A j \in callers : i <= j
        named   == [ctx EXCEPT !.name = TRUE]
    IN  CASE debug = "not debugged" -> ctx
          [] debug \in {"32-bit", "no threads", "no registers"} -> named
          [] debug \in {"unreadable", "64-bit"} ->
                IF callers = {} THEN named
                ELSE [named EXCEPT !.caller = TRUE, !.trace = FramesRead(threads[first])]

(***************************************************************************)
(* ThrowFatalWithCpuContext.                                               *)
(***************************************************************************)
(* The size of the trace is made the larger of the two.                    *)
CappedTrace(size) == IF size > MaxStackTraceDepth THEN size ELSE MaxStackTraceDepth

ContextThrown(call) ==
    LET given == [NoContext EXCEPT
                    !.result = call.result,
                    !.trace = CappedTrace(call.trace),
                    !.program = IF call.pid = "unknown" THEN "none" ELSE call.pid,
                    !.is_creport = call.pid = "creport"]
        learnt == IF given.is_creport THEN [given EXCEPT !.program = "crashed"]
                  ELSE CollectDebugInformation(given, ThreadsOf(call), call.debug)
    IN  [learnt EXCEPT
            !.generate_error_report = call.policy = "ErrorReportAndErrorScreen",
            !.result = IF learnt.result = "success" THEN "SystemModuleAborted" ELSE learnt.result]

RunTasks == fatal_tasks' = FirstPlace

(* Mutant: a later throw replaces the context that the tasks use.          *)
ThrowFatalAgain(call) ==
    /\ call.policy # "ErrorReport"
    /\ has_thrown' = TRUE
    /\ first_throw' = IF has_thrown THEN first_throw ELSE call
    /\ throw_context' = ContextThrown(call)
    /\ fatal_events' = [fatal_events EXCEPT !.fatal = TRUE]
    /\ IF has_thrown THEN UNCHANGED fatal_tasks ELSE RunTasks
    /\ UNCHANGED <<setup, screen, report, quiet, elapsed, waited, battery_good, console>>

(* A throw for a report only succeeds and does nothing.                    *)
ThrowFatal(call) ==
    /\ call.policy # "ErrorReport" /\ ~has_thrown
    /\ has_thrown' = TRUE
    /\ first_throw' = call
    /\ throw_context' = ContextThrown(call)
    /\ IF call.policy \in {"ErrorReportAndErrorScreen", "ErrorScreen"}
       THEN /\ fatal_events' = [fatal_events EXCEPT !.fatal = TRUE]
            /\ IF setup.transition_to_fatal THEN RunTasks ELSE UNCHANGED fatal_tasks
            /\ UNCHANGED console
       ELSE console' = "aborted" /\ UNCHANGED <<fatal_events, fatal_tasks>>
    /\ UNCHANGED <<setup, screen, report, quiet, elapsed, waited, battery_good>>

(***************************************************************************)
(* CheckRepairStatus, before fatal serves anybody: the console is in       *)
(* repair and VOL+ is not held for a second (from 3.0.0), or needs the     *)
(* time reviser (from 5.0.0); as the code has it, with its cartridge, not  *)
(* without.  The second throw is refused if there was a first.             *)
(***************************************************************************)
IsInRepairWithoutVolHeld(r) == r.version >= 3 /\ r.flag /\ ~r.vol_up_held
IsInRepairWithoutTimeReviserCartridge(r) == r.version >= 5 /\ r.reviser /\ r.cartridge

RepairError(r) ==
    CASE IsInRepairWithoutVolHeld(r) -> "InRepairWithoutVolHeld"
      [] ~IsInRepairWithoutVolHeld(r) /\ IsInRepairWithoutTimeReviserCartridge(r) ->
            "InRepairWithoutTimeReviserCartridge"
      [] OTHER -> "none"

RepairStates == [version : {2, 3, 5}, flag : BOOLEAN, vol_up_held : BOOLEAN,
                 reviser : BOOLEAN, cartridge : BOOLEAN]

SelfCall(result) == [NoThrow EXCEPT !.result = result, !.pid = "fatal", !.policy = "ErrorScreen"]

CheckRepairStatus ==
    /\ repair = "unchecked"
    /\ repair' \in {RepairError(r) : r \in RepairStates}
    /\ IF repair' = "none"
       THEN UNCHANGED <<setup, has_thrown, throw_context, fatal_events, fatal_tasks, screen, report,
                        quiet, console, elapsed, waited, first_throw, battery_good>>
       ELSE ThrowFatal(SelfCall(repair'))

(***************************************************************************)
(* Requests of programs.                                                   *)
(***************************************************************************)
(* Only command 2, which creport uses, brings a context; commands 1 and 2  *)
(* choose the policy.  creport is not debugged.                            *)
CallsOf(command) ==
    LET traces   == IF command = 2 THEN {MaxStackTraceDepth + 1} ELSE {0}
        callers  == IF command = 2 THEN {"program", "creport"} ELSE {"program"}
        policies == IF command = 0 THEN {"ErrorReportAndErrorScreen"}
                    ELSE {"ErrorReport", "ErrorScreen", "unknown"}
    IN  {call \in [command : {command}, result : {"success", "error"}, pid : callers,
                   policy : policies, trace : traces, debug : Debugs] :
            call.pid = "creport" => call.debug = "not debugged"}

Request ==
    /\ repair # "unchecked" /\ UNCHANGED repair
    /\ \E command \in 0..2 : \E call \in CallsOf(command) : ThrowFatal(call)

(***************************************************************************)
(* The tasks.                                                              *)
(***************************************************************************)
Go(task, from, to) ==
    /\ fatal_tasks # <<>> /\ fatal_tasks[task] = from
    /\ fatal_tasks' = [fatal_tasks EXCEPT ![task] = to]
    /\ UNCHANGED <<setup, has_thrown, throw_context, repair, first_throw>>

(* A crash reported by creport has its report; a card may refuse the file. *)
WriteReport ==
    /\ Go("report", "start", "done")
    /\ IF throw_context.is_creport THEN UNCHANGED report
       ELSE report' \in {report, [result |-> throw_context.result, program |-> throw_context.program]}
    /\ fatal_events' = [fatal_events EXCEPT !.erpt = TRUE]
    /\ UNCHANGED <<screen, quiet, console, elapsed, waited, battery_good>>

BatteryStates == {"Normal", "NeedsSleep", "NeedsShutdown", "unreadable"}
Bad(state) == state \in {"NeedsShutdown", "unreadable"}

PowerUnchanged == UNCHANGED <<screen, report, quiet, elapsed>>

(* The first query decides whether the screen may be shown.                *)
FirstQuery(state) ==
    /\ IF Bad(state)
       THEN Go("power", "first query", "wait for report") /\ UNCHANGED <<fatal_events, battery_good>>
       ELSE /\ Go("power", "first query", "loop")
            /\ fatal_events' = [fatal_events EXCEPT !.battery = TRUE]
            /\ battery_good' = TRUE
    /\ UNCHANGED <<console, waited>> /\ PowerUnchanged

(* The wait for the report ends with the event or after a second.          *)
PowerWaited ==
    /\ Go("power", "wait for report", "last try") /\ waited' = 0
    /\ UNCHANGED <<fatal_events, console, battery_good>> /\ PowerUnchanged

LoopQuery(state) ==
    /\ IF state = "Normal" THEN Go("power", "loop", "loop") ELSE Go("power", "loop", "try")
    /\ waited' = 0
    /\ UNCHANGED <<fatal_events, console, battery_good>> /\ PowerUnchanged

(* One round of TryShutdown: the battery recovers, is empty, or keeps it   *)
(* waiting.  The task ends when the first query led here, whatever comes   *)
(* of it, and when the console shuts down.                                 *)
TryShutdown(state) ==
    /\ \E place \in {"try", "last try"} :
          LET timed_out == waited > MaxShutdownWait
              shutdown  == timed_out \/ Bad(state)
          IN  \/ /\ shutdown
                 /\ Go("power", place, "done")
                 /\ console' = "shutdown" /\ UNCHANGED <<waited, battery_good>>
              \/ /\ ~shutdown /\ state = "Normal"
                 /\ Go("power", place, IF place = "try" THEN "loop" ELSE "done")
                 /\ battery_good' = TRUE /\ UNCHANGED <<waited, console>>
              \/ /\ ~shutdown /\ state = "NeedsSleep"
                 /\ Go("power", place, place)
                 /\ waited' = waited + 1 /\ UNCHANGED <<console, battery_good>>
    /\ UNCHANGED fatal_events /\ PowerUnchanged

(* A display that cannot be set up aborts fatal; without a buffer to draw  *)
(* to nothing is shown.                                                    *)
PrepareScreen == {"ready", "no buffer", "aborted"}

(* The screen waits for the battery's event.                               *)
ShowFatal ==
    /\ fatal_events.battery
    /\ Go("screen", "start", "done")
    /\ \E prepared \in PrepareScreen :
          /\ screen' = IF prepared = "ready"
                       THEN [result |-> throw_context.result, program |-> throw_context.program]
                       ELSE screen
          /\ console' = IF prepared = "aborted" THEN "aborted" ELSE console
    /\ UNCHANGED <<fatal_events, report, quiet, elapsed, waited, battery_good>>

(* A setting in milliseconds becomes nanoseconds, is kept in an s32, and   *)
(* is compared with seconds.                                               *)
ToInterval(x) == ((x * IntervalUnit + IntervalLimit) % (2 * IntervalLimit)) - IntervalLimit

IsRebootTiming ==
    setup.auto_reboot_interval # 0 /\ elapsed >= ToInterval(setup.auto_reboot_interval)

ButtonWaited ==
    /\ Go("button", "wait for report", "watch")
    /\ UNCHANGED <<fatal_events, screen, report, quiet, console, elapsed, waited, battery_good>>

(* A look every 100 ms: it is time, or one of the buttons is held.         *)
WatchButtons(pressed) ==
    /\ IsRebootTiming \/ pressed
    /\ Go("button", "watch", "done")
    /\ console' = "rebooted"
    /\ UNCHANGED <<fatal_events, screen, report, quiet, elapsed, waited, battery_good>>

SecondPasses ==
    /\ elapsed < MaxElapsed /\ ~IsRebootTiming
    /\ Go("button", "watch", "watch")
    /\ elapsed' = elapsed + 1
    /\ UNCHANGED <<fatal_events, screen, report, quiet, console, waited, battery_good>>

(* Sound, backlight, clocks and spsm: four threads that share nothing with *)
(* the others, in one step.  The codec has two ways to be silenced, which  *)
(* open here both or neither; the clocks stop at the first module that     *)
(* refuses.                                                                *)
QuietTasks == {"sound", "backlight", "clock", "transition"}
StopSound == {{}, {"codec", "pad"}}
AdjustClock == {ToSet(SubSeq(<<"CpuBus", "GPU", "EMC">>, 1, n)) : n \in {0, 3}}

QuietDown ==
    /\ fatal_tasks # <<>> /\ quiet = {}
    /\ \E silenced \in StopSound, clocked \in AdjustClock :
          quiet' = {"backlight", "error state"} \cup silenced \cup clocked
    /\ fatal_tasks' = [t \in TaskNames |-> IF t \in QuietTasks THEN "done" ELSE fatal_tasks[t]]
    /\ UNCHANGED <<setup, repair, has_thrown, throw_context, fatal_events, screen, report, console,
                   elapsed, waited, first_throw, battery_good>>

FatalInit ==
    /\ setup \in Setups /\ repair = "unchecked"
    /\ has_thrown = FALSE /\ throw_context = NoContext /\ first_throw = NoThrow
    /\ fatal_events = [erpt |-> FALSE, battery |-> FALSE, fatal |-> FALSE]
    /\ fatal_tasks = <<>> /\ screen = <<>> /\ report = <<>> /\ quiet = {}
    /\ console = "on" /\ elapsed = 0 /\ waited = 0
    /\ battery_good = FALSE

FatalNext ==
    /\ console = "on"
    /\ \/ CheckRepairStatus
       \/ Request
       \/ WriteReport
       \/ \E s \in BatteryStates : FirstQuery(s) \/ LoopQuery(s) \/ TryShutdown(s)
       \/ PowerWaited
       \/ ShowFatal
       \/ ButtonWaited
       \/ \E pressed \in BOOLEAN : WatchButtons(pressed)
       \/ SecondPasses
       \/ QuietDown

FatalSpec == FatalInit /\ [][FatalNext]_fatalVars

(***************************************************************************)
(* What has to hold.                                                       *)
(***************************************************************************)
(* Screen and report are both of the first throw, and an error that a      *)
(* program throws as a success is shown as one.                            *)
FirstThrowReported ==
    \A shown \in {screen, report} \ {<<>>} :
        /\ shown.result # "success"
        /\ first_throw.result # "success" => shown.result = first_throw.result
        /\ first_throw.policy \in {"ErrorReportAndErrorScreen", "ErrorScreen"}

(* Without a good battery nothing is shown.                                *)
ShownOnGoodBattery == screen # <<>> => battery_good

(* The screen is not kept waiting by a power task that has ended, unless   *)
(* the battery recovered just after a bad first query.                     *)
ScreenNotForgotten ==
    fatal_tasks # <<>> /\ fatal_tasks["power"] = "done" =>
        fatal_events.battery \/ console # "on" \/ battery_good

(* The thread that threw is found exactly when it could be: its process is *)
(* 64-bit, all of it was read, and its request is one without a context.   *)
(* The trace is then that thread's up to the limit, whatever other threads *)
(* have in their TLS.                                                      *)
CallerFound ==
    /\ throw_context.caller <=>
          first_throw.debug = "64-bit" /\ first_throw.command < 2 /\ ~throw_context.is_creport
    /\ throw_context.caller => throw_context.name /\ throw_context.trace = MaxStackTraceDepth

FatalHandled == FirstThrowReported /\ ShownOnGoodBattery /\ ScreenNotForgotten /\ CallerFound
=============================================================================
