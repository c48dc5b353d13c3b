------------------------ MODULE PmProcessRegistry -------------------------
(***************************************************************************)
(* What pm promises its clients on firmware 5.0.0 and later, without its   *)
(* threads, events and locks: a process is launched once, at most one live *)
(* process is the application, and the exits that are to be reported are   *)
(* reported once each, in the order in which pm learnt of them.            *)
(***************************************************************************)
EXTENDS Naturals, Sequences

CONSTANTS Pids, NoApplication

VARIABLES
    status,      \* of each process: "none", "live", "exited" or "gone"
    application, \* the live application, or NoApplication
    exits        \* the processes whose exit is still to be reported

vars == <<status, application, exits>>

Init ==
    /\ status = [p \in Pids |-> "none"]
    /\ application = NoApplication
    /\ exits = <<>>

Launch(p) ==
    /\ status[p] = "none"
    /\ status' = [status EXCEPT ![p] = "live"]
    /\ \/ UNCHANGED application
       \/ application = NoApplication /\ application' = p
    /\ UNCHANGED exits

Exit(p) ==
    /\ status[p] = "live"
    /\ application' = IF application = p THEN NoApplication ELSE application
    /\ \/ /\ status' = [status EXCEPT ![p] = "gone"]
          /\ UNCHANGED exits
       \/ /\ status' = [status EXCEPT ![p] = "exited"]
          /\ exits' = Append(exits, p)

Report ==
    /\ exits # <<>>
    /\ status' = [status EXCEPT ![Head(exits)] = "gone"]
    /\ exits' = Tail(exits)
    /\ UNCHANGED application

Next == Report \/ \E p \in Pids : Launch(p) \/ Exit(p)

Spec == Init /\ [][Next]_vars
===========================================================================
