------------------------- MODULE SmServiceManager -------------------------
(***************************************************************************)
(* The service manager, sm (sm/source/impl/sm_service_manager.cpp): the    *)
(* table of client processes pm registers, the table of named services,    *)
(* and the extension by which one process (a mitm host, rnx_mitm) puts     *)
(* itself between a service and its clients.                               *)
(*                                                                         *)
(* sm has one thread: every request is one atomic step.  A request whose   *)
(* conditions do not hold yet is answered by nothing: the IPC library      *)
(* keeps it (sf::ResultRequestDeferredByUser) and the same handler runs    *)
(* again later.  The caller is blocked meanwhile.                          *)
(*                                                                         *)
(* Around sm the module has what its handlers meet: clients that die at    *)
(* any moment, pm that unregisters them afterwards, kernel ports with a    *)
(* session limit, and a host that first accepts a connection from its      *)
(* mitm port and then asks sm, in a second request, whose it was.          *)
(***************************************************************************)
EXTENDS Naturals, FiniteSets, Sequences

CONSTANTS
    Pids,               \* the processes that talk to sm
    InitialPids,        \* those started by the kernel (KIPs)
    Services,           \* service names (all valid for ValidateServiceName)
    InitDeferred,       \* services deferred until pm ends the initial defers
    MitmDisallowed,     \* processes whose program IsMitmDisallowed
    Acid, Aci,          \* [Pids -> SUBSET (Services \X {TRUE = host, FALSE = client})]
    ProcessCountMax,    \* slots of g_process_list
    ServiceCountMax,    \* slots of g_service_list
    FutureMitmCountMax, \* slots of g_future_mitm_list
    MaxSessions,        \* session limit of every port
    Mortal,             \* processes that may die
    Quitters,           \* processes that may unregister a service or a mitm
    NoPid               \* os::InvalidProcessId

ASSUME SmAssumption ==
    /\ InitialPids \subseteq Pids
    /\ InitDeferred \subseteq Services
    /\ Mortal \subseteq Pids
    /\ Quitters \subseteq Pids
    /\ NoPid \notin Pids
    /\ Acid \in [Pids -> SUBSET (Services \X BOOLEAN)]
    /\ Aci  \in [Pids -> SUBSET (Services \X BOOLEAN)]
    /\ ProcessCountMax \in Nat
    /\ ServiceCountMax \in Nat
    /\ FutureMitmCountMax \in Nat
    /\ MaxSessions \in Nat

VARIABLES
    process_list,         \* g_process_list: the pid in each slot
    service_list,         \* g_service_list, by name
    future_mitm_list,     \* g_future_mitm_list
    ended_initial_defers, \* g_ended_initial_defers
    aborted,              \* why sm aborted, or "no"
    request,              \* the request of each process the library keeps deferred
    alive,                \* the processes that run
    open_sessions,        \* sessions open to each service's port
    booted,               \* initial processes that got the deferred services
    mitm_queue,           \* connections waiting at the mitm port of each host
    accepted              \* the connection each host accepted and must acknowledge

smVars  == <<process_list, service_list, future_mitm_list, ended_initial_defers, aborted>>
hostVars == <<mitm_queue, accepted>>
sessionVars == <<open_sessions, booted>>
vars == <<smVars, request, alive, sessionVars, hostVars>>

---------------------------------------------------------------------------
(* Types.                                                                  *)

ProcessSlots == 1..ProcessCountMax

MaybePid == Pids \cup {NoPid}

ServiceInfo == [owner_process_id : MaybePid,
                mitm_process_id  : MaybePid,
                mitm_waiting_ack : BOOLEAN,
                mitm_waiting_ack_process_id : MaybePid,
                mitm_fwd_sess_h  : BOOLEAN]      \* is the forward handle held?

(* ServiceInfo::Free: what an unused slot of the table holds.              *)
FreeService == [owner_process_id |-> NoPid,
                mitm_process_id  |-> NoPid,
                mitm_waiting_ack |-> FALSE,
                mitm_waiting_ack_process_id |-> NoPid,
                mitm_fwd_sess_h  |-> FALSE]

Ops == {"get", "wait", "wait_mitm", "install"}

Request == [op : Ops, service : Services]

NoRequest == [op |-> "none"]

AbortCauses == {"no", "mitm_connect", "no_process_info"}

---------------------------------------------------------------------------
(* Lookups.                                                                *)

HasProcessInfo(p) == \E i \in ProcessSlots : process_list[i] = p

FirstSlot(p) == CHOOSE i \in ProcessSlots :
                    /\ process_list[i] = p
                    /\ \A j \in 1..(i - 1) : process_list[j] # p

HasServiceInfo(s) == service_list[s].owner_process_id # NoPid

HasMitm(s) == service_list[s].mitm_process_id # NoPid

FreeServiceExists == Cardinality({s \in Services : HasServiceInfo(s)}) < ServiceCountMax

(* The check every privileged handler begins with: initial processes are   *)
(* trusted, others need a process entry and an access control entry.       *)
MayUse(p, s, is_host) ==
    \/ p \in InitialPids
    \/ HasProcessInfo(p) /\ <<s, is_host>> \in Aci[p]

IsKnown(p) == p \in InitialPids \/ HasProcessInfo(p)

(* Mutant: the deferral never happens.                                     *)
NeverDeferForInit(s) == FALSE

ShouldDeferForInit(s) == ~ended_initial_defers /\ s \in InitDeferred

(* Mutant: one session more than the port has.                             *)
CanConnectOffByOne(s) ==
    /\ service_list[s].owner_process_id \in alive
    /\ open_sessions[s] <= MaxSessions

(* svcConnectToPort on the port of s: fails when its server is gone or     *)
(* when all its sessions are in use.                                       *)
CanConnect(s) ==
    /\ service_list[s].owner_process_id \in alive
    /\ open_sessions[s] < MaxSessions

---------------------------------------------------------------------------
(* How a handler ends.                                                     *)

Running == aborted = "no"

(* p is not blocked in another request.  A deferred request is retried by  *)
(* calling its handler again.                                              *)
CanCall(p, r) == Running /\ p \in alive /\ request[p] \in {NoRequest, r}

Idle(p) == CanCall(p, NoRequest)

Answer(p) == request' = [request EXCEPT ![p] = NoRequest]

Defer(p, r) == /\ request' = [request EXCEPT ![p] = r]
               /\ UNCHANGED <<smVars, alive, sessionVars, hostVars>>

Refuse(p) == Answer(p) /\ UNCHANGED <<smVars, alive, sessionVars, hostVars>>

Abort(cause) ==
    /\ aborted' = cause
    /\ UNCHANGED <<process_list, service_list, future_mitm_list, ended_initial_defers,
                   request, alive, sessionVars, hostVars>>

---------------------------------------------------------------------------
(* Process management (sm:m, called by pm).                                *)

(* pm registers a process it has created.  acid is the restriction, aci    *)
(* what the program asks for.                                              *)
RegisterProcess(p) ==
    /\ Running
    /\ p \in alive
    /\ ~HasProcessInfo(p)           \* pm registers each process once
    /\ p \notin InitialPids => ended_initial_defers  \* pm launches nothing before
    /\ HasProcessInfo(NoPid)        \* else ResultOutOfProcesses
    /\ Aci[p] # {} /\ Aci[p] \subseteq Acid[p]       \* else ResultNotAllowed
    /\ process_list' = [process_list EXCEPT ![FirstSlot(NoPid)] = p]
    /\ UNCHANGED <<service_list, future_mitm_list, ended_initial_defers, aborted,
                   request, alive, sessionVars, hostVars>>

(* pm unregisters a process once the kernel reports it terminated.         *)
UnregisterProcess(p) ==
    /\ Running
    /\ p \notin alive
    /\ HasProcessInfo(p)
    /\ process_list' = [process_list EXCEPT ![FirstSlot(p)] = NoPid]
    /\ UNCHANGED <<service_list, future_mitm_list, ended_initial_defers, aborted,
                   request, alive, sessionVars, hostVars>>

(* pm ends the initial defers once every initial process is registered.    *)
EndInitialDefers ==
    /\ Running
    /\ \A p \in InitialPids \cap alive : HasProcessInfo(p)
    /\ ended_initial_defers' = TRUE
    /\ UNCHANGED <<process_list, service_list, future_mitm_list, aborted,
                   request, alive, sessionVars, hostVars>>

---------------------------------------------------------------------------
(* Service management (sm:).                                               *)

RegisterService(p, s) ==
    /\ Idle(p)
    /\ MayUse(p, s, TRUE)
    /\ ~HasServiceInfo(s)
    /\ FreeServiceExists
    /\ service_list' = [service_list EXCEPT ![s].owner_process_id = p]
    /\ open_sessions' = [open_sessions EXCEPT ![s] = 0]
    /\ UNCHANGED <<process_list, future_mitm_list, ended_initial_defers, aborted,
                   request, alive, booted, hostVars>>

UnregisterService(p, s) ==
    /\ Idle(p)
    /\ p \in Quitters
    /\ IsKnown(p)
    /\ service_list[s].owner_process_id = p
    /\ service_list' = [service_list EXCEPT ![s] = FreeService]
    /\ UNCHANGED <<process_list, future_mitm_list, ended_initial_defers, aborted,
                   request, alive, sessionVars, hostVars>>

(* AtmosphereWaitService: answered once the service exists.                *)
WaitService(p, s) ==
    LET r == [op |-> "wait", service |-> s]
    IN  /\ CanCall(p, r)
        /\ IF HasServiceInfo(s) THEN Refuse(p) ELSE Defer(p, r)

(* A session to the port of s.  An initial process that gets the file      *)
(* system service has ended its initialisation.                            *)
OpenSession(p, s) ==
    /\ open_sessions' = [open_sessions EXCEPT ![s] = @ + 1]
    /\ booted' = IF s \in InitDeferred THEN booted \cup (InitialPids \cap {p}) ELSE booted

(* A plain session: the client talks to the owner of the service.          *)
ConnectDirect(p, s) ==
    /\ OpenSession(p, s)
    /\ Answer(p)
    /\ UNCHANGED <<smVars, alive, hostVars>>

(* GetMitmServiceHandleImpl: sm asks the host whether it wants this        *)
(* client.  If it does, sm opens a session to the service, which it keeps  *)
(* for the host, and a session to the host, which it gives to the client.  *)
(* Any failure aborts sm.                                                  *)
GetMitmServiceHandle(p, s) ==
    LET host == service_list[s].mitm_process_id
    IN  \/ /\ host \notin alive \/ ~CanConnect(s)
           /\ Abort("mitm_connect")
        \/ /\ host \in alive /\ CanConnect(s)          \* should_mitm = false
           /\ ConnectDirect(p, s)
        \/ /\ host \in alive /\ CanConnect(s)          \* should_mitm = true
           /\ OpenSession(p, s)
           /\ mitm_queue' = [mitm_queue EXCEPT ![host][s] = Append(@, p)]
           /\ service_list' = [service_list EXCEPT ![s] = [@ EXCEPT
                    !.mitm_fwd_sess_h = TRUE,
                    !.mitm_waiting_ack_process_id = p,
                    !.mitm_waiting_ack = TRUE]]
           /\ Answer(p)
           /\ UNCHANGED <<process_list, future_mitm_list, ended_initial_defers, aborted,
                          alive, accepted>>

(* GetServiceHandleImpl: which of the two kinds of session p gets.         *)
IsMitmd(p, s) == HasMitm(s) /\ service_list[s].mitm_process_id # p

GetServiceHandleImpl(p, s) ==
    \/ /\ IsMitmd(p, s) /\ ~HasProcessInfo(p)
       /\ Abort("no_process_info")
    \/ /\ IsMitmd(p, s) /\ HasProcessInfo(p) /\ p \notin MitmDisallowed
       /\ GetMitmServiceHandle(p, s)
    \/ /\ IsMitmd(p, s) => HasProcessInfo(p) /\ p \in MitmDisallowed
       /\ IF CanConnect(s) THEN ConnectDirect(p, s) ELSE Refuse(p)

(* Mutant: no deferral while an acknowledgement is awaited.                *)
MustDeferGetIgnoringAck(s) ==
    ~HasServiceInfo(s) \/ ShouldDeferForInit(s) \/ s \in future_mitm_list

(* Mutant: the mitm is tested for, not its pending acknowledgement.        *)
MustDeferGetBehindMitm(s) ==
    ~HasServiceInfo(s) \/ ShouldDeferForInit(s) \/ s \in future_mitm_list \/ HasMitm(s)

MustDeferGet(s) ==
    \/ ~HasServiceInfo(s)
    \/ ShouldDeferForInit(s)
    \/ s \in future_mitm_list
    \/ service_list[s].mitm_waiting_ack

GetServiceHandle(p, s) ==
    LET r == [op |-> "get", service |-> s]
    IN  /\ CanCall(p, r)
        /\ MayUse(p, s, FALSE)
        /\ IF MustDeferGet(s) THEN Defer(p, r) ELSE GetServiceHandleImpl(p, s)

---------------------------------------------------------------------------
(* The mitm extension (sm:).                                               *)

WaitMitm(p, s) ==
    LET r == [op |-> "wait_mitm", service |-> s]
    IN  /\ CanCall(p, r)
        /\ IF HasMitm(s) THEN Refuse(p) ELSE Defer(p, r)

(* rnx_mitm, an initial process, opens the file system service before it   *)
(* does anything else.                                                     *)
IsInitialized(h) == h \in InitialPids => h \in booted

(* Mutant: the declaration stays.                                          *)
KeepFutureMitmDeclaration(s) == future_mitm_list' = future_mitm_list

ClearFutureMitmDeclaration(s) == future_mitm_list' = future_mitm_list \ {s}

(* A host that installs itself anew has dropped the port it had before.    *)
InstallMitm(h, s) ==
    LET r == [op |-> "install", service |-> s]
    IN  /\ CanCall(h, r)
        /\ MayUse(h, s, TRUE)
        /\ IsInitialized(h)
        /\ accepted[h][s] = NoPid
        /\ \/ /\ ~HasServiceInfo(s)
              /\ Defer(h, r)
           \/ /\ HasServiceInfo(s) /\ HasMitm(s)
              /\ Refuse(h)
           \/ /\ HasServiceInfo(s) /\ ~HasMitm(s)
              /\ service_list' = [service_list EXCEPT ![s].mitm_process_id = h]
              /\ ClearFutureMitmDeclaration(s)
              /\ mitm_queue' = [mitm_queue EXCEPT ![h][s] = <<>>]
              /\ Answer(h)
              /\ UNCHANGED <<process_list, ended_initial_defers, aborted, alive,
                             sessionVars, accepted>>

(* ServiceInfo::FreeMitm: the acknowledgement members stay as they are.    *)
UninstallMitm(h, s) ==
    /\ Idle(h)
    /\ h \in Quitters
    /\ IsKnown(h)
    /\ HasServiceInfo(s)
    /\ service_list[s].mitm_process_id = h
    /\ service_list' = [service_list EXCEPT ![s].mitm_process_id = NoPid]
    /\ UNCHANGED <<process_list, future_mitm_list, ended_initial_defers, aborted,
                   request, alive, sessionVars, hostVars>>

DeclareFutureMitm(h, s) ==
    /\ Idle(h)
    /\ IsInitialized(h)
    /\ MayUse(h, s, TRUE)
    /\ ~HasMitm(s)
    /\ s \notin future_mitm_list
    /\ Cardinality(future_mitm_list) < FutureMitmCountMax
    /\ future_mitm_list' = future_mitm_list \cup {s}
    /\ UNCHANGED <<process_list, service_list, ended_initial_defers, aborted,
                   request, alive, sessionVars, hostVars>>

(* Mutant: mitm_waiting_ack stays set.                                     *)
ServiceInfoAcknowledgeKeepingWait(s) ==
    service_list' = [service_list EXCEPT ![s] = [@ EXCEPT
                        !.mitm_fwd_sess_h = FALSE,
                        !.mitm_waiting_ack_process_id = NoPid]]

ServiceInfoAcknowledge(s) ==
    service_list' = [service_list EXCEPT ![s] = [@ EXCEPT
                        !.mitm_fwd_sess_h = FALSE,
                        !.mitm_waiting_ack = FALSE,
                        !.mitm_waiting_ack_process_id = NoPid]]

(* The host asks whose connection it accepted.  sm hands over the forward  *)
(* session and the process information of the client, which it looks up    *)
(* now, not when the client connected.  The thread that serves the port    *)
(* asks, on a session of its own: a deferred request of another thread of  *)
(* h does not hold it back.                                                *)
AcknowledgeMitmSession(h, s) ==
    LET info == service_list[s]
    IN  /\ Running
        /\ h \in alive
        /\ accepted[h][s] # NoPid
        /\ \/ /\ ~IsKnown(h) \/ info.mitm_process_id # h \/ ~info.mitm_waiting_ack
              /\ accepted' = [accepted EXCEPT ![h][s] = NoPid]
              /\ UNCHANGED <<smVars, request, alive, sessionVars, mitm_queue>>
           \/ /\ IsKnown(h) /\ info.mitm_process_id = h /\ info.mitm_waiting_ack
              /\ ~HasProcessInfo(info.mitm_waiting_ack_process_id)
              /\ Abort("no_process_info")
           \/ /\ IsKnown(h) /\ info.mitm_process_id = h /\ info.mitm_waiting_ack
              /\ HasProcessInfo(info.mitm_waiting_ack_process_id)
              /\ ServiceInfoAcknowledge(s)
              /\ accepted' = [accepted EXCEPT ![h][s] = NoPid]
              /\ UNCHANGED <<process_list, future_mitm_list, ended_initial_defers, aborted,
                             request, alive, sessionVars, mitm_queue>>

---------------------------------------------------------------------------
(* The processes around sm.                                                *)

(* A host takes the next connection from its port; it acknowledges it      *)
(* before it accepts another.                                              *)
AcceptMitmSession(h, s) ==
    /\ h \in alive
    /\ accepted[h][s] = NoPid
    /\ mitm_queue[h][s] # <<>>
    /\ accepted' = [accepted EXCEPT ![h][s] = Head(mitm_queue[h][s])]
    /\ mitm_queue' = [mitm_queue EXCEPT ![h][s] = Tail(@)]
    /\ UNCHANGED <<smVars, request, alive, sessionVars>>

(* A session to s ends.  The forward session sm still holds stays open.    *)
CloseSession(s) ==
    /\ open_sessions[s] > IF service_list[s].mitm_fwd_sess_h THEN 1 ELSE 0
    /\ open_sessions' = [open_sessions EXCEPT ![s] = @ - 1]
    /\ UNCHANGED <<smVars, request, alive, booted, hostVars>>

(* A process dies: its requests and what it had accepted go with it; the   *)
(* connections it made stay in the queues of their ports.                  *)
Die(p) ==
    /\ p \in Mortal \cap alive
    /\ alive' = alive \ {p}
    /\ request' = [request EXCEPT ![p] = NoRequest]
    /\ accepted' = [accepted EXCEPT ![p] = [s \in Services |-> NoPid]]
    /\ mitm_queue' = [mitm_queue EXCEPT ![p] = [s \in Services |-> <<>>]]
    /\ UNCHANGED <<smVars, sessionVars>>

---------------------------------------------------------------------------
Init ==
    /\ process_list = [i \in ProcessSlots |-> NoPid]
    /\ service_list = [s \in Services |-> FreeService]
    /\ future_mitm_list = {}
    /\ ended_initial_defers = FALSE
    /\ aborted = "no"
    /\ request = [p \in Pids |-> NoRequest]
    /\ alive = Pids
    /\ open_sessions = [s \in Services |-> 0]
    /\ booted = {}
    /\ mitm_queue = [h \in Pids |-> [s \in Services |-> <<>>]]
    /\ accepted = [h \in Pids |-> [s \in Services |-> NoPid]]

Next ==
    \/ EndInitialDefers
    \/ \E p \in Pids : RegisterProcess(p) \/ UnregisterProcess(p) \/ Die(p)
    \/ \E s \in Services : CloseSession(s)
    \/ \E p \in Pids, s \in Services :
        \/ RegisterService(p, s) \/ UnregisterService(p, s)
        \/ WaitService(p, s) \/ GetServiceHandle(p, s)
        \/ WaitMitm(p, s) \/ InstallMitm(p, s) \/ UninstallMitm(p, s)
        \/ DeclareFutureMitm(p, s) \/ AcknowledgeMitmSession(p, s)
        \/ AcceptMitmSession(p, s)

Spec == Init /\ [][Next]_vars

(* sm serves the requests it receives and tries the deferred ones again    *)
(* after every request it has served; a host serves its ports.             *)
GetAnswers(p, s) ==
    /\ ~MustDeferGet(s)
    /\ GetServiceHandle(p, s)

FairSpec ==
    /\ Spec
    /\ \A p \in Pids, s \in Services :
        /\ SF_vars(request[p] = [op |-> "get", service |-> s] /\ GetAnswers(p, s))
        /\ WF_vars(AcceptMitmSession(p, s))
        /\ WF_vars(AcknowledgeMitmSession(p, s))

---------------------------------------------------------------------------
(* Properties.                                                             *)

(* Every table keeps its shape, no port has more sessions than             *)
(* svcCreatePort allowed, and a mitm is only ever on a registered service. *)
TypeOK ==
    /\ process_list \in [ProcessSlots -> MaybePid]
    /\ service_list \in [Services -> ServiceInfo]
    /\ \A s \in Services : HasMitm(s) => HasServiceInfo(s)
    /\ future_mitm_list \subseteq Services
    /\ ended_initial_defers \in BOOLEAN
    /\ aborted \in AbortCauses
    /\ request \in [Pids -> Request \cup {NoRequest}]
    /\ alive \subseteq Pids
    /\ open_sessions \in [Services -> 0..MaxSessions]
    /\ booted \subseteq InitialPids
    /\ mitm_queue \in [Pids -> [Services -> Seq(Pids)]]
    /\ accepted \in [Pids -> [Services -> MaybePid]]

(* The connection a host is about to acknowledge is the one sm awaits the  *)
(* acknowledgement of: the host gets the process information and the       *)
(* forward session of the client it talks to, never of another             *)
(* (GetServiceHandle defers while mitm_waiting_ack).                       *)
Paired(h, s) ==
    LET info == service_list[s]
    IN  info.mitm_process_id = h =>
        /\ accepted[h][s] # NoPid =>
            /\ info.mitm_waiting_ack
            /\ info.mitm_waiting_ack_process_id = accepted[h][s]
            /\ mitm_queue[h][s] = <<>>
        /\ mitm_queue[h][s] # <<>> =>
            /\ info.mitm_waiting_ack
            /\ mitm_queue[h][s] = <<info.mitm_waiting_ack_process_id>>

PairedAcks == \A h \in Pids, s \in Services : Paired(h, s)

(* The converse, as long as no host uninstalls its mitm: what sm awaits    *)
(* the acknowledgement of is at the host, so that the requests deferred    *)
(* behind it are not deferred for ever.                                    *)
NoLostAck ==
    \A s \in Services :
        LET info == service_list[s]
            c    == info.mitm_waiting_ack_process_id
        IN  info.mitm_waiting_ack /\ info.mitm_process_id \in alive =>
            /\ c # NoPid
            /\ \/ accepted[info.mitm_process_id][s] = c
               \/ mitm_queue[info.mitm_process_id][s] = <<c>>

(* A future mitm declaration does not outlive the installation of a mitm   *)
(* (InstallMitm clears it): otherwise every client of the service would    *)
(* stay deferred.                                                          *)
FutureMitmDischarged == \A s \in future_mitm_list : ~HasMitm(s)

(* Without a death, whoever requests a mitm session has a process entry    *)
(* (GetMitmProcessInfo): the initial processes, which sm trusts without    *)
(* one, must have been registered before the first mitm is installed,      *)
(* which is what the initial deferral of fsp-srv achieves.                 *)
MitmRequesterRegistered == aborted = "no_process_info" => alive # Pids

(* Once a service stays registered, with no declaration and no deferral of *)
(* its own pending, no client stays deferred on it (unless sm aborts).     *)
GetAnswered ==
    \A p \in Pids, s \in Services :
        (<>[](HasServiceInfo(s) /\ ~ShouldDeferForInit(s) /\ s \notin future_mitm_list))
            => []<>(request[p] # [op |-> "get", service |-> s] \/ ~Running)
===========================================================================
