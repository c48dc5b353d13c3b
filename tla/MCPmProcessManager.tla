------------------------ MODULE MCPmProcessManager ------------------------
(***************************************************************************)
(* Instances of PmProcessManager for TLC.                                  *)
(***************************************************************************)
EXTENDS PmProcessManager

(* A process runs, may crash, and terminates.                              *)
NoDebugger ==
    {<<"Running", "Crashed">>, <<"Running", "Terminating">>, <<"Crashed", "Terminating">>,
     <<"Terminating", "Terminated">>}

(* A debugger may attach at any time, break, continue and detach.          *)
WithDebugger ==
    NoDebugger \cup
    {<<"Created", "CreatedAttached">>, <<"CreatedAttached", "Created">>,
     <<"Running", "DebugBreak">>, <<"Crashed", "DebugBreak">>,
     <<"DebugBreak", "RunningAttached">>, <<"RunningAttached", "DebugBreak">>,
     <<"DebugBreak", "Running">>, <<"RunningAttached", "Running">>,
     <<"DebugBreak", "Terminating">>, <<"RunningAttached", "Terminating">>}

Launch(program, flags, suspended) ==
    [program |-> program, flags |-> flags, suspended |-> suspended]

(* Two applications: the exit of one is reported from the dead list, the   *)
(* start of the other (and its exceptions) from the living one.            *)
Applications ==
    {Launch("game", {"Application", "SignalOnExit"}, FALSE),
     Launch("album", {"Application", "SignalOnStart"}, TRUE)}

(* One process a debugger watches, with every kind of event.               *)
Watched ==
    {Launch("game", {"Application", "SignalOnExit", "SignalOnStart", "SignalOnDebugEvent"}, TRUE),
     Launch("sysmodule", {"SignalOnExit", "SignalOnStart"}, FALSE)}
===========================================================================
