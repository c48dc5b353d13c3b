------------------------ MODULE MCSmServiceManager ------------------------
(***************************************************************************)
(* Instances of SmServiceManager for TLC.  fs is the file system process,  *)
(* which owns the deferred service fsp; mitm is rnx_mitm; both are         *)
(* initial processes.  app and game are launched by pm.                    *)
(***************************************************************************)
EXTENDS SmServiceManager

CONSTANTS fs, mitm, app, game, fsp, set

(* fs hosts both services, mitm may host and use everything, the others    *)
(* are clients.                                                            *)
BootAccess ==
    [p \in Pids |-> CASE p = fs   -> {<<fsp, TRUE>>, <<set, TRUE>>, <<set, FALSE>>} \cap (Services \X BOOLEAN)
                      [] p = mitm -> Services \X BOOLEAN
                      [] OTHER    -> Services \X {FALSE}]

(* app may be a host as well: two processes contend for the same mitm.     *)
HostAccess ==
    [p \in Pids |-> IF p = game THEN Services \X {FALSE} ELSE Services \X BOOLEAN]
===========================================================================
