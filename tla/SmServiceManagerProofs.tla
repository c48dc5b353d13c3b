---------------------- MODULE SmServiceManagerProofs ----------------------
(***************************************************************************)
(* What holds of the service manager for any number of processes and       *)
(* services, any table sizes and any session limit: the type invariant,    *)
(* the pairing of connections and acknowledgements, the discharge of       *)
(* future mitm declarations, the registration of whoever asks for a mitm   *)
(* session, and that no awaited acknowledgement is lost.                   *)
(***************************************************************************)
EXTENDS SmServiceManager, TLAPS, FiniteSetTheorems

USE DEF MaybePid, ProcessSlots

(* How most handlers end: only the request of the caller changes.          *)
LEMMA AnswerType ==
    ASSUME TypeOK, NEW p \in Pids, Answer(p)
    PROVE  request' \in [Pids -> Request \cup {NoRequest}]
BY DEF TypeOK, Answer

LEMMA ChangesRequestType ==
    ASSUME TypeOK, request' \in [Pids -> Request \cup {NoRequest}],
           UNCHANGED <<smVars, alive, sessionVars, hostVars>>
    PROVE  TypeOK'
BY DEF TypeOK, smVars, sessionVars, hostVars, HasMitm, HasServiceInfo

LEMMA AbortType ==
    ASSUME TypeOK, NEW cause \in AbortCauses, Abort(cause)
    PROVE  TypeOK'
BY DEF TypeOK, Abort, sessionVars, hostVars, HasMitm, HasServiceInfo

LEMMA DeferType ==
    ASSUME TypeOK, NEW p \in Pids, NEW r \in Request, Defer(p, r)
    PROVE  TypeOK'
<1>1. request' \in [Pids -> Request \cup {NoRequest}]
  BY DEF TypeOK, Defer
<1> QED BY <1>1, ChangesRequestType DEF Defer

LEMMA RefuseType ==
    ASSUME TypeOK, NEW p \in Pids, Refuse(p)
    PROVE  TypeOK'
<1>1. request' \in [Pids -> Request \cup {NoRequest}]
  BY AnswerType DEF Refuse
<1> QED BY <1>1, ChangesRequestType DEF Refuse

(* A session is only opened on a port that has one left.                   *)
LEMMA OpenSessionType ==
    ASSUME SmAssumption, TypeOK, NEW p \in Pids, NEW s \in Services,
           CanConnect(s), OpenSession(p, s)
    PROVE  /\ open_sessions' \in [Services -> 0..MaxSessions]
           /\ booted' \subseteq InitialPids
<1>1. open_sessions[s] + 1 \in 0..MaxSessions
  BY SMT DEF SmAssumption, TypeOK, CanConnect
<1>2. open_sessions' \in [Services -> 0..MaxSessions]
  BY <1>1 DEF TypeOK, OpenSession
<1>3. booted' \subseteq InitialPids
  BY DEF TypeOK, OpenSession
<1> QED BY <1>2, <1>3

LEMMA ConnectDirectType ==
    ASSUME SmAssumption, TypeOK, NEW p \in Pids, NEW s \in Services,
           CanConnect(s), ConnectDirect(p, s)
    PROVE  TypeOK'
<1>1. /\ open_sessions' \in [Services -> 0..MaxSessions]
      /\ booted' \subseteq InitialPids
  BY OpenSessionType DEF ConnectDirect
<1>2. request' \in [Pids -> Request \cup {NoRequest}]
  BY AnswerType DEF ConnectDirect
<1> QED BY <1>1, <1>2 DEF TypeOK, ConnectDirect, smVars, hostVars, HasMitm, HasServiceInfo

LEMMA GetMitmServiceHandleType ==
    ASSUME SmAssumption, TypeOK, NEW p \in Pids, NEW s \in Services, HasMitm(s),
           GetMitmServiceHandle(p, s)
    PROVE  TypeOK'
<1> DEFINE host == service_list[s].mitm_process_id
<1>1. CASE Abort("mitm_connect")
  BY <1>1, AbortType DEF AbortCauses
<1>2. CASE CanConnect(s) /\ ConnectDirect(p, s)
  BY <1>2, ConnectDirectType
<1>3. CASE /\ CanConnect(s)
           /\ OpenSession(p, s)
           /\ mitm_queue' = [mitm_queue EXCEPT ![host][s] = Append(@, p)]
           /\ service_list' = [service_list EXCEPT ![s] = [@ EXCEPT
                    !.mitm_fwd_sess_h = TRUE,
                    !.mitm_waiting_ack_process_id = p,
                    !.mitm_waiting_ack = TRUE]]
           /\ Answer(p)
           /\ UNCHANGED <<process_list, future_mitm_list, ended_initial_defers, aborted,
                          alive, accepted>>
  <2>1. /\ open_sessions' \in [Services -> 0..MaxSessions]
        /\ booted' \subseteq InitialPids
    BY <1>3, OpenSessionType
  <2>2. request' \in [Pids -> Request \cup {NoRequest}]
    BY <1>3, AnswerType
  <2>3. host \in Pids
    BY DEF HasMitm, TypeOK, ServiceInfo
  <2>4. mitm_queue' \in [Pids -> [Services -> Seq(Pids)]]
    <3>1. Append(mitm_queue[host][s], p) \in Seq(Pids)
      BY <2>3 DEF TypeOK
    <3>2. mitm_queue[host] \in [Services -> Seq(Pids)]
      BY <2>3 DEF TypeOK
    <3>3. [mitm_queue[host] EXCEPT ![s] = Append(mitm_queue[host][s], p)]
             \in [Services -> Seq(Pids)]
      BY <3>1, <3>2
    <3> QED BY <3>3, <1>3 DEF TypeOK
  <2>5. /\ service_list' \in [Services -> ServiceInfo]
        /\ \A t \in Services :
             /\ service_list'[t].mitm_process_id = service_list[t].mitm_process_id
             /\ service_list'[t].owner_process_id = service_list[t].owner_process_id
    <3> DEFINE new == [service_list[s] EXCEPT
                          !.mitm_fwd_sess_h = TRUE,
                          !.mitm_waiting_ack_process_id = p,
                          !.mitm_waiting_ack = TRUE]
    <3>1. service_list[s] \in ServiceInfo
      BY DEF TypeOK
    <3>2. /\ new \in ServiceInfo
          /\ new.mitm_process_id = service_list[s].mitm_process_id
          /\ new.owner_process_id = service_list[s].owner_process_id
      BY <3>1 DEF ServiceInfo
    <3>3. service_list' = [service_list EXCEPT ![s] = new]
      BY <1>3
    <3> QED BY <3>2, <3>3 DEF TypeOK
  <2> QED BY <1>3, <2>1, <2>2, <2>4, <2>5 DEF TypeOK, HasMitm, HasServiceInfo
<1> QED BY <1>1, <1>2, <1>3 DEF GetMitmServiceHandle

LEMMA GetServiceHandleType ==
    ASSUME SmAssumption, TypeOK, NEW p \in Pids, NEW s \in Services,
           GetServiceHandle(p, s)
    PROVE  TypeOK'
<1> DEFINE r == [op |-> "get", service |-> s]
<1>1. CASE Defer(p, r)
  BY <1>1, DeferType DEF Request, Ops
<1>2. CASE GetServiceHandleImpl(p, s)
  <2>1. CASE Abort("no_process_info")
    BY <2>1, AbortType DEF AbortCauses
  <2>2. CASE IsMitmd(p, s) /\ GetMitmServiceHandle(p, s)
    BY <2>2, GetMitmServiceHandleType DEF IsMitmd
  <2>3. CASE IF CanConnect(s) THEN ConnectDirect(p, s) ELSE Refuse(p)
    BY <2>3, ConnectDirectType, RefuseType
  <2> QED BY <1>2, <2>1, <2>2, <2>3 DEF GetServiceHandleImpl
<1> QED BY <1>1, <1>2 DEF GetServiceHandle

LEMMA InitType == ASSUME SmAssumption, Init PROVE TypeOK
<1>1. FreeService \in ServiceInfo /\ FreeService.mitm_process_id = NoPid
  BY DEF FreeService, ServiceInfo
<1>2. /\ service_list \in [Services -> ServiceInfo]
      /\ \A s \in Services : HasMitm(s) => HasServiceInfo(s)
  BY <1>1 DEF Init, HasMitm
<1>3. /\ open_sessions \in [Services -> 0..MaxSessions]
      /\ mitm_queue \in [Pids -> [Services -> Seq(Pids)]]
      /\ accepted \in [Pids -> [Services -> MaybePid]]
  BY DEF SmAssumption, Init
<1> QED BY <1>2, <1>3 DEF SmAssumption, Init, TypeOK, AbortCauses

(* The changes of one service record, each from a record of the table.     *)
LEMMA RecordChangeType ==
    ASSUME TypeOK, NEW s \in Services, NEW new \in ServiceInfo,
           new.mitm_process_id # NoPid => new.owner_process_id # NoPid,
           service_list' = [service_list EXCEPT ![s] = new]
    PROVE  /\ service_list' \in [Services -> ServiceInfo]
           /\ (\A t \in Services : HasMitm(t) => HasServiceInfo(t))'
BY DEF TypeOK, HasMitm, HasServiceInfo

LEMMA RegistrationType ==
    ASSUME SmAssumption, TypeOK, NEW p \in Pids, NEW s \in Services,
           RegisterService(p, s) \/ UnregisterService(p, s)
    PROVE  TypeOK'
<1>0. service_list[s] \in ServiceInfo
  BY DEF TypeOK
<1>1. CASE RegisterService(p, s)
  <2> DEFINE new == [service_list[s] EXCEPT !.owner_process_id = p]
  <2>1. new \in ServiceInfo /\ new.owner_process_id # NoPid
    BY <1>0 DEF ServiceInfo, SmAssumption
  <2>2. service_list' = [service_list EXCEPT ![s] = new]
    BY <1>1 DEF RegisterService
  <2>3. open_sessions' \in [Services -> 0..MaxSessions]
    BY <1>1 DEF RegisterService, TypeOK, SmAssumption
  <2> HIDE DEF new
  <2> QED BY <1>1, <2>1, <2>2, <2>3, RecordChangeType DEF RegisterService, TypeOK, hostVars
<1>2. CASE UnregisterService(p, s)
  <2>1. FreeService \in ServiceInfo /\ FreeService.mitm_process_id = NoPid
    BY DEF FreeService, ServiceInfo
  <2>2. service_list' = [service_list EXCEPT ![s] = FreeService]
    BY <1>2 DEF UnregisterService
  <2> QED BY <1>2, <2>1, <2>2, RecordChangeType
          DEF UnregisterService, TypeOK, sessionVars, hostVars
<1> QED BY <1>1, <1>2

LEMMA MitmType ==
    ASSUME SmAssumption, TypeOK, NEW h \in Pids, NEW s \in Services,
           \/ InstallMitm(h, s) \/ UninstallMitm(h, s)
           \/ DeclareFutureMitm(h, s) \/ AcknowledgeMitmSession(h, s)
    PROVE  TypeOK'
<1>0. service_list[s] \in ServiceInfo
  BY DEF TypeOK
<1>1. CASE InstallMitm(h, s)
  <2> DEFINE r == [op |-> "install", service |-> s]
  <2>1. CASE Defer(h, r)
    BY <2>1, DeferType DEF Request, Ops
  <2>2. CASE Refuse(h)
    BY <2>2, RefuseType
  <2>3. CASE /\ HasServiceInfo(s)
             /\ service_list' = [service_list EXCEPT ![s].mitm_process_id = h]
             /\ ClearFutureMitmDeclaration(s)
             /\ mitm_queue' = [mitm_queue EXCEPT ![h][s] = <<>>]
             /\ Answer(h)
             /\ UNCHANGED <<process_list, ended_initial_defers, aborted, alive,
                            sessionVars, accepted>>
    <3> DEFINE new == [service_list[s] EXCEPT !.mitm_process_id = h]
    <3>1. new \in ServiceInfo /\ new.owner_process_id # NoPid
      BY <1>0, <2>3 DEF ServiceInfo, HasServiceInfo
    <3>2. service_list' = [service_list EXCEPT ![s] = new]
      BY <2>3
    <3>3. mitm_queue' \in [Pids -> [Services -> Seq(Pids)]]
      BY <2>3 DEF TypeOK
    <3>4. request' \in [Pids -> Request \cup {NoRequest}]
      BY <2>3, AnswerType
    <3> HIDE DEF new
    <3> QED BY <2>3, <3>1, <3>2, <3>3, <3>4, RecordChangeType
            DEF ClearFutureMitmDeclaration, TypeOK, sessionVars
  <2> QED BY <1>1, <2>1, <2>2, <2>3 DEF InstallMitm
<1>2. CASE UninstallMitm(h, s)
  <2> DEFINE new == [service_list[s] EXCEPT !.mitm_process_id = NoPid]
  <2>1. new \in ServiceInfo /\ new.mitm_process_id = NoPid
    BY <1>0 DEF ServiceInfo
  <2>2. service_list' = [service_list EXCEPT ![s] = new]
    BY <1>2 DEF UninstallMitm
  <2> HIDE DEF new
  <2> QED BY <1>2, <2>1, <2>2, RecordChangeType
          DEF UninstallMitm, TypeOK, sessionVars, hostVars
<1>3. CASE DeclareFutureMitm(h, s)
  BY <1>3 DEF DeclareFutureMitm, TypeOK, sessionVars, hostVars, HasMitm, HasServiceInfo
<1>4. CASE AcknowledgeMitmSession(h, s)
  <2>0. [accepted EXCEPT ![h][s] = NoPid] \in [Pids -> [Services -> MaybePid]]
    BY DEF TypeOK
  <2>1. CASE Abort("no_process_info")
    BY <2>1, AbortType DEF AbortCauses
  <2>2. CASE /\ accepted' = [accepted EXCEPT ![h][s] = NoPid]
             /\ UNCHANGED <<smVars, request, alive, sessionVars, mitm_queue>>
    BY <2>0, <2>2 DEF TypeOK, smVars, sessionVars, HasMitm, HasServiceInfo
  <2>3. CASE /\ ServiceInfoAcknowledge(s)
             /\ accepted' = [accepted EXCEPT ![h][s] = NoPid]
             /\ UNCHANGED <<process_list, future_mitm_list, ended_initial_defers, aborted,
                            request, alive, sessionVars, mitm_queue>>
    <3> DEFINE new == [service_list[s] EXCEPT !.mitm_fwd_sess_h = FALSE,
                                              !.mitm_waiting_ack = FALSE,
                                              !.mitm_waiting_ack_process_id = NoPid]
    <3>1. new \in ServiceInfo
      BY <1>0 DEF ServiceInfo
    <3>2. /\ new.mitm_process_id = service_list[s].mitm_process_id
          /\ new.owner_process_id = service_list[s].owner_process_id
      BY <1>0 DEF ServiceInfo
    <3>3. service_list' = [service_list EXCEPT ![s] = new]
      BY <2>3 DEF ServiceInfoAcknowledge
    <3>4. new.mitm_process_id # NoPid => new.owner_process_id # NoPid
      BY <3>2 DEF TypeOK, HasMitm, HasServiceInfo
    <3> HIDE DEF new
    <3> QED BY <2>0, <2>3, <3>1, <3>3, <3>4, RecordChangeType DEF TypeOK, sessionVars
  <2> QED BY <1>4, <2>1, <2>2, <2>3 DEF AcknowledgeMitmSession
<1> QED BY <1>1, <1>2, <1>3, <1>4

LEMMA AcceptType ==
    ASSUME TypeOK, NEW p \in Pids, NEW s \in Services, AcceptMitmSession(p, s)
    PROVE  TypeOK'
<1> DEFINE q == mitm_queue[p][s]
<1>1. q \in Seq(Pids) /\ q # <<>>
  BY DEF AcceptMitmSession, TypeOK
<1>2. Head(q) \in Pids /\ Tail(q) \in Seq(Pids)
  BY <1>1
<1>3. [mitm_queue[p] EXCEPT ![s] = Tail(q)] \in [Services -> Seq(Pids)]
  BY <1>2 DEF TypeOK
<1>4. /\ mitm_queue' \in [Pids -> [Services -> Seq(Pids)]]
      /\ accepted' \in [Pids -> [Services -> MaybePid]]
  BY <1>2, <1>3 DEF AcceptMitmSession, TypeOK
<1> QED BY <1>4
        DEF AcceptMitmSession, TypeOK, smVars, sessionVars, HasMitm, HasServiceInfo

LEMMA StepType == ASSUME SmAssumption, TypeOK, [Next]_vars PROVE TypeOK'
<1>1. CASE EndInitialDefers
  BY <1>1 DEF EndInitialDefers, TypeOK, sessionVars, hostVars, HasMitm, HasServiceInfo
<1>2. ASSUME NEW p \in Pids, RegisterProcess(p) \/ UnregisterProcess(p) PROVE TypeOK'
  BY <1>2 DEF RegisterProcess, UnregisterProcess, TypeOK, sessionVars, hostVars,
              HasMitm, HasServiceInfo
<1>3. ASSUME NEW p \in Pids, Die(p) PROVE TypeOK'
  BY <1>3 DEF Die, TypeOK, smVars, sessionVars, HasMitm, HasServiceInfo
<1>4. ASSUME NEW p \in Pids, NEW s \in Services, WaitService(p, s) \/ WaitMitm(p, s)
      PROVE  TypeOK'
  BY <1>4, DeferType, RefuseType DEF WaitService, WaitMitm, Request, Ops
<1>5. ASSUME NEW s \in Services, CloseSession(s) PROVE TypeOK'
  <2>1. open_sessions[s] - 1 \in 0..MaxSessions
    BY <1>5, SMT DEF CloseSession, TypeOK, SmAssumption
  <2> QED BY <1>5, <2>1
          DEF CloseSession, TypeOK, smVars, hostVars, HasMitm, HasServiceInfo
<1>6. CASE UNCHANGED vars
  BY <1>6 DEF TypeOK, vars, smVars, sessionVars, hostVars, HasMitm, HasServiceInfo
<1> QED BY <1>1, <1>2, <1>3, <1>4, <1>5, <1>6, RegistrationType, MitmType,
           GetServiceHandleType, AcceptType DEF Next

(* Type correctness of sm, for any configuration: no port ever has more    *)
(* sessions than it was created with, and a mitm process is only set on a  *)
(* registered service (sm_service_manager.cpp: every handler).             *)
THEOREM TypeCorrect == Spec => []TypeOK
<1> USE SmAssumption
<1>1. Init => TypeOK
  BY InitType
<1>2. TypeOK /\ [Next]_vars => TypeOK'
  BY StepType
<1> QED BY <1>1, <1>2, PTL DEF Spec

---------------------------------------------------------------------------
(* The pairing of connections and acknowledgements.                        *)

(* What most steps do to it: nothing, or they end the mitm of a service.   *)
LEMMA PairedFrame ==
    ASSUME PairedAcks, UNCHANGED hostVars,
           \A s \in Services :
              \/ service_list'[s].mitm_process_id = NoPid
              \/ /\ service_list'[s].mitm_process_id = service_list[s].mitm_process_id
                 /\ service_list'[s].mitm_waiting_ack = service_list[s].mitm_waiting_ack
                 /\ service_list'[s].mitm_waiting_ack_process_id
                        = service_list[s].mitm_waiting_ack_process_id,
           SmAssumption
    PROVE  PairedAcks'
BY DEF PairedAcks, Paired, hostVars, SmAssumption

LEMMA PairedUnchanged ==
    ASSUME SmAssumption, PairedAcks, UNCHANGED hostVars, UNCHANGED service_list
    PROVE  PairedAcks'
BY PairedFrame

LEMMA PairedGet ==
    ASSUME SmAssumption, TypeOK, PairedAcks, NEW p \in Pids, NEW s \in Services,
           GetServiceHandle(p, s)
    PROVE  PairedAcks'
<1> DEFINE host == service_list[s].mitm_process_id
<1>1. CASE UNCHANGED hostVars /\ UNCHANGED service_list
  BY <1>1, PairedUnchanged
<1>2. CASE /\ ~service_list[s].mitm_waiting_ack
           /\ HasMitm(s)
           /\ mitm_queue' = [mitm_queue EXCEPT ![host][s] = Append(@, p)]
           /\ service_list' = [service_list EXCEPT ![s] = [@ EXCEPT
                    !.mitm_fwd_sess_h = TRUE,
                    !.mitm_waiting_ack_process_id = p,
                    !.mitm_waiting_ack = TRUE]]
           /\ UNCHANGED accepted
  <2> SUFFICES ASSUME NEW h \in Pids, NEW t \in Services PROVE Paired(h, t)'
    BY DEF PairedAcks
  <2>0. host \in Pids /\ service_list[s] \in ServiceInfo
    BY <1>2 DEF HasMitm, TypeOK, ServiceInfo
  <2>1. Paired(h, t)
    BY DEF PairedAcks
  <2>2. CASE t # s
    <3>1. service_list'[t] = service_list[t]
      BY <1>2, <2>2 DEF TypeOK
    <3>2. mitm_queue'[h][t] = mitm_queue[h][t]
      BY <1>2, <2>2 DEF TypeOK
    <3> QED BY <1>2, <2>1, <3>1, <3>2 DEF Paired
  <2>3. CASE t = s /\ h = host
    <3>1. mitm_queue[h][s] = <<>> /\ accepted[h][s] = NoPid
      BY <1>2, <2>1, <2>3 DEF Paired
    <3>2. mitm_queue'[h][s] = <<p>>
      <4>1. mitm_queue'[h][s] = Append(mitm_queue[h][s], p)
        BY <1>2, <2>3 DEF TypeOK
      <4> QED BY <3>1, <4>1
    <3>3. /\ service_list'[s].mitm_waiting_ack
          /\ service_list'[s].mitm_waiting_ack_process_id = p
      BY <1>2, <2>0 DEF TypeOK, ServiceInfo
    <3> QED BY <1>2, <2>3, <3>1, <3>2, <3>3 DEF Paired
  <2>4. CASE t = s /\ h # host
    <3>1. service_list'[s].mitm_process_id = host
      BY <1>2, <2>0 DEF TypeOK, ServiceInfo
    <3> QED BY <2>4, <3>1 DEF Paired
  <2> QED BY <2>2, <2>3, <2>4
<1>3. GetMitmServiceHandle(p, s) /\ ~service_list[s].mitm_waiting_ack /\ HasMitm(s)
      => PairedAcks'
  BY <1>1, <1>2 DEF GetMitmServiceHandle, Abort, ConnectDirect, hostVars, smVars
<1>4. CASE Defer(p, [op |-> "get", service |-> s])
  BY <1>1, <1>4 DEF Defer, smVars
<1>5. CASE GetServiceHandleImpl(p, s) /\ ~MustDeferGet(s)
  BY <1>1, <1>3, <1>5 DEF GetServiceHandleImpl, MustDeferGet, IsMitmd, Abort,
                          ConnectDirect, Refuse, smVars, hostVars
<1> QED BY <1>4, <1>5 DEF GetServiceHandle

LEMMA PairedInstall ==
    ASSUME SmAssumption, TypeOK, PairedAcks, NEW h \in Pids, NEW s \in Services,
           InstallMitm(h, s)
    PROVE  PairedAcks'
<1>1. CASE UNCHANGED hostVars /\ UNCHANGED service_list
  BY <1>1, PairedUnchanged
<1>2. CASE /\ accepted[h][s] = NoPid
           /\ service_list' = [service_list EXCEPT ![s].mitm_process_id = h]
           /\ mitm_queue' = [mitm_queue EXCEPT ![h][s] = <<>>]
           /\ UNCHANGED accepted
  <2> SUFFICES ASSUME NEW g \in Pids, NEW t \in Services PROVE Paired(g, t)'
    BY DEF PairedAcks
  <2>1. Paired(g, t)
    BY DEF PairedAcks
  <2>2. CASE t # s
    <3>1. service_list'[t] = service_list[t] /\ mitm_queue'[g][t] = mitm_queue[g][t]
      BY <1>2, <2>2 DEF TypeOK
    <3> QED BY <1>2, <2>1, <3>1 DEF Paired
  <2>3. CASE t = s
    <3>1. service_list'[s].mitm_process_id = h
      BY <1>2 DEF TypeOK, ServiceInfo
    <3>2. mitm_queue'[h][s] = <<>>
      BY <1>2 DEF TypeOK
    <3> QED BY <1>2, <2>3, <3>1, <3>2 DEF Paired
  <2> QED BY <2>2, <2>3
<1> QED BY <1>1, <1>2 DEF InstallMitm, Defer, Refuse, smVars, hostVars

LEMMA PairedAcknowledge ==
    ASSUME SmAssumption, TypeOK, PairedAcks, NEW h \in Pids, NEW s \in Services,
           AcknowledgeMitmSession(h, s)
    PROVE  PairedAcks'
<1>1. CASE UNCHANGED hostVars /\ UNCHANGED service_list
  BY <1>1, PairedUnchanged
<1>2. CASE /\ accepted[h][s] # NoPid
           /\ \/ UNCHANGED service_list
              \/ service_list[s].mitm_process_id = h /\ ServiceInfoAcknowledge(s)
           /\ accepted' = [accepted EXCEPT ![h][s] = NoPid]
           /\ UNCHANGED mitm_queue
  <2> SUFFICES ASSUME NEW g \in Pids, NEW t \in Services PROVE Paired(g, t)'
    BY DEF PairedAcks
  <2>1. Paired(g, t) /\ Paired(h, s)
    BY DEF PairedAcks
  <2>2. CASE t # s \/ (UNCHANGED service_list /\ g # h)
    <3>1. service_list'[t] = service_list[t] /\ accepted'[g][t] = accepted[g][t]
      BY <1>2, <2>2 DEF TypeOK, ServiceInfoAcknowledge
    <3> QED BY <1>2, <2>1, <3>1 DEF Paired
  <2>3. CASE t = s /\ UNCHANGED service_list /\ g = h
    <3>1. accepted'[h][s] = NoPid
      BY <1>2 DEF TypeOK
    <3> QED BY <1>2, <2>1, <2>3, <3>1 DEF Paired
  <2>4. CASE t = s /\ service_list[s].mitm_process_id = h /\ ServiceInfoAcknowledge(s)
    <3>1. service_list'[s].mitm_process_id = h
      BY <2>4 DEF TypeOK, ServiceInfo, ServiceInfoAcknowledge
    <3>2. mitm_queue'[h][s] = <<>> /\ accepted'[h][s] = NoPid
      BY <1>2, <2>1, <2>4 DEF TypeOK, Paired
    <3> QED BY <2>4, <3>1, <3>2 DEF Paired
  <2> QED BY <1>2, <2>2, <2>3, <2>4
<1> QED BY <1>1, <1>2 DEF AcknowledgeMitmSession, Abort, smVars, hostVars

LEMMA PairedAccept ==
    ASSUME SmAssumption, TypeOK, PairedAcks, NEW h \in Pids, NEW s \in Services,
           AcceptMitmSession(h, s)
    PROVE  PairedAcks'
<1> SUFFICES ASSUME NEW g \in Pids, NEW t \in Services PROVE Paired(g, t)'
  BY DEF PairedAcks
<1>0. Paired(g, t) /\ UNCHANGED service_list
  BY DEF PairedAcks, AcceptMitmSession, smVars
<1>1. CASE g # h \/ t # s
  <2>1. mitm_queue'[g][t] = mitm_queue[g][t] /\ accepted'[g][t] = accepted[g][t]
    BY <1>1 DEF AcceptMitmSession, TypeOK
  <2> QED BY <1>0, <2>1 DEF Paired
<1>2. CASE g = h /\ t = s /\ service_list[s].mitm_process_id = h
  <2> DEFINE w == service_list[s].mitm_waiting_ack_process_id
  <2>1. service_list[s].mitm_waiting_ack /\ mitm_queue[h][s] = <<w>>
    BY <1>0, <1>2 DEF Paired, AcceptMitmSession
  <2>2. accepted'[h][s] = w /\ mitm_queue'[h][s] = <<>>
    <3>1. /\ accepted'[h][s] = Head(mitm_queue[h][s])
          /\ mitm_queue'[h][s] = Tail(mitm_queue[h][s])
      BY DEF AcceptMitmSession, TypeOK
    <3> QED BY <2>1, <3>1
  <2> QED BY <1>0, <1>2, <2>1, <2>2 DEF Paired
<1>3. CASE g = h /\ t = s /\ service_list[s].mitm_process_id # h
  BY <1>0, <1>3 DEF Paired
<1> QED BY <1>1, <1>2, <1>3

LEMMA PairedDie ==
    ASSUME SmAssumption, TypeOK, PairedAcks, NEW p \in Pids, Die(p)
    PROVE  PairedAcks'
<1> SUFFICES ASSUME NEW g \in Pids, NEW t \in Services PROVE Paired(g, t)'
  BY DEF PairedAcks
<1>0. Paired(g, t) /\ UNCHANGED service_list
  BY DEF PairedAcks, Die, smVars
<1>1. CASE g # p
  <2>1. mitm_queue'[g] = mitm_queue[g] /\ accepted'[g] = accepted[g]
    BY <1>1 DEF Die, TypeOK
  <2> QED BY <1>0, <2>1 DEF Paired
<1>2. CASE g = p
  <2>1. mitm_queue'[p][t] = <<>> /\ accepted'[p][t] = NoPid
    BY DEF Die, TypeOK
  <2> QED BY <1>2, <2>1 DEF Paired
<1> QED BY <1>1, <1>2

LEMMA PairedStep ==
    ASSUME SmAssumption, TypeOK, PairedAcks, [Next]_vars PROVE PairedAcks'
<1>1. ASSUME NEW p \in Pids, NEW s \in Services, RegisterService(p, s)
      PROVE  PairedAcks'
  BY <1>1, PairedFrame DEF RegisterService, hostVars, TypeOK, ServiceInfo
<1>2. ASSUME NEW p \in Pids, NEW s \in Services, UnregisterService(p, s)
      PROVE  PairedAcks'
  BY <1>2, PairedFrame DEF UnregisterService, hostVars, TypeOK, FreeService
<1>3. ASSUME NEW h \in Pids, NEW s \in Services, UninstallMitm(h, s)
      PROVE  PairedAcks'
  BY <1>3, PairedFrame DEF UninstallMitm, hostVars, TypeOK, ServiceInfo
<1>4. ASSUME NEW p \in Pids, NEW s \in Services,
             DeclareFutureMitm(p, s) \/ WaitService(p, s) \/ WaitMitm(p, s)
      PROVE  PairedAcks'
  BY <1>4, PairedUnchanged DEF DeclareFutureMitm, WaitService, WaitMitm, Refuse,
                               Defer, smVars, hostVars
<1>5. CASE UNCHANGED vars
  BY <1>5, PairedUnchanged DEF vars, smVars
<1>6. CASE EndInitialDefers \/ \E p \in Pids : RegisterProcess(p) \/ UnregisterProcess(p)
  BY <1>6, PairedUnchanged DEF EndInitialDefers, RegisterProcess, UnregisterProcess, hostVars
<1>7. CASE \E s \in Services : CloseSession(s)
  BY <1>7, PairedUnchanged DEF CloseSession, smVars
<1> QED BY <1>1, <1>2, <1>3, <1>4, <1>5, <1>6, <1>7, PairedGet, PairedInstall,
           PairedAcknowledge, PairedAccept, PairedDie DEF Next

(* A mitm host that acknowledges a connection as the current mitm of a     *)
(* service always gets the process information and the forward session of  *)
(* that connection (AcknowledgeMitmSession, sm_service_manager.cpp:653),   *)
(* whatever dies, unregisters or uninstalls meanwhile.                     *)
THEOREM AcksArePaired == Spec => []PairedAcks
<1> USE SmAssumption
<1>1. Init => PairedAcks
  BY DEF Init, PairedAcks, Paired
<1>2. TypeOK /\ PairedAcks /\ [Next]_vars => PairedAcks'
  BY PairedStep
<1> QED BY <1>1, <1>2, TypeCorrect, PTL DEF Spec

(* The steps that neither install nor declare a mitm add no declaration    *)
(* and no mitm process.                                                    *)
LEMMA MitmFrame ==
    ASSUME TypeOK, NEW p \in Pids, NEW s \in Services,
           \/ RegisterService(p, s) \/ UnregisterService(p, s)
           \/ WaitService(p, s) \/ GetServiceHandle(p, s)
           \/ WaitMitm(p, s) \/ UninstallMitm(p, s)
           \/ AcknowledgeMitmSession(p, s) \/ AcceptMitmSession(p, s)
    PROVE  /\ future_mitm_list' = future_mitm_list
           /\ \A t \in Services : HasMitm(t)' => HasMitm(t)
<1>1. CASE UNCHANGED smVars
  BY <1>1 DEF smVars, HasMitm
<1>2. CASE WaitService(p, s) \/ WaitMitm(p, s) \/ AcceptMitmSession(p, s)
  BY <1>1, <1>2 DEF WaitService, WaitMitm, Refuse, Defer, AcceptMitmSession
<1>3. CASE RegisterService(p, s) \/ UnregisterService(p, s) \/ UninstallMitm(p, s)
  <2> DEFINE Keeps(new) == new.mitm_process_id \in {NoPid, service_list[s].mitm_process_id}
  <2>0. service_list[s] \in ServiceInfo
    BY DEF TypeOK
  <2>1. \E new : Keeps(new) /\ service_list' = [service_list EXCEPT ![s] = new]
    <3>1. CASE RegisterService(p, s)
      <4> DEFINE new == [service_list[s] EXCEPT !.owner_process_id = p]
      <4>1. service_list' = [service_list EXCEPT ![s] = new]
        BY <3>1 DEF RegisterService
      <4>2. Keeps(new)
        BY <2>0 DEF ServiceInfo
      <4> HIDE DEF new, Keeps
      <4> QED BY <4>1, <4>2
    <3>2. CASE UnregisterService(p, s)
      <4>1. Keeps(FreeService)
        BY DEF FreeService
      <4>2. service_list' = [service_list EXCEPT ![s] = FreeService]
        BY <3>2 DEF UnregisterService
      <4> HIDE DEF Keeps
      <4> QED BY <4>1, <4>2
    <3>3. CASE UninstallMitm(p, s)
      <4> DEFINE new == [service_list[s] EXCEPT !.mitm_process_id = NoPid]
      <4>1. service_list' = [service_list EXCEPT ![s] = new]
        BY <3>3 DEF UninstallMitm
      <4>2. Keeps(new)
        BY <2>0 DEF ServiceInfo
      <4> HIDE DEF new, Keeps
      <4> QED BY <4>1, <4>2
    <3> QED BY <1>3, <3>1, <3>2, <3>3
  <2>2. future_mitm_list' = future_mitm_list
    BY <1>3 DEF RegisterService, UnregisterService, UninstallMitm
  <2> QED BY <2>1, <2>2 DEF HasMitm, TypeOK
<1>4. CASE AcknowledgeMitmSession(p, s)
  <2>1. CASE UNCHANGED <<service_list, future_mitm_list>>
    BY <2>1 DEF HasMitm
  <2>2. CASE ServiceInfoAcknowledge(s) /\ UNCHANGED future_mitm_list
    <3>1. service_list'[s].mitm_process_id = service_list[s].mitm_process_id
      BY <2>2 DEF ServiceInfoAcknowledge, TypeOK, ServiceInfo
    <3> QED BY <2>2, <3>1 DEF ServiceInfoAcknowledge, HasMitm, TypeOK
  <2> QED BY <1>4, <2>1, <2>2 DEF AcknowledgeMitmSession, Abort, smVars
<1>5. CASE GetServiceHandle(p, s)
  <2>1. CASE GetMitmServiceHandle(p, s)
    <3>1. CASE UNCHANGED <<service_list, future_mitm_list>>
      BY <3>1 DEF HasMitm
    <3>2. CASE /\ service_list' = [service_list EXCEPT ![s] = [@ EXCEPT
                      !.mitm_fwd_sess_h = TRUE,
                      !.mitm_waiting_ack_process_id = p,
                      !.mitm_waiting_ack = TRUE]]
               /\ UNCHANGED future_mitm_list
      <4>1. service_list'[s].mitm_process_id = service_list[s].mitm_process_id
        BY <3>2 DEF TypeOK, ServiceInfo
      <4> QED BY <3>2, <4>1 DEF HasMitm, TypeOK
    <3> QED BY <2>1, <3>1, <3>2 DEF GetMitmServiceHandle, Abort, ConnectDirect, smVars
  <2> QED BY <1>1, <1>5, <2>1 DEF GetServiceHandle, GetServiceHandleImpl, Abort,
                                  ConnectDirect, Refuse, Defer, HasMitm
<1> QED BY <1>2, <1>3, <1>4, <1>5

(* A future mitm declaration never stays after its mitm is installed       *)
(* (InstallMitm ends with ClearFutureMitmDeclaration).                     *)
THEOREM FutureMitmIsDischarged == Spec => []FutureMitmDischarged
<1> USE SmAssumption
<1>1. Init => FutureMitmDischarged
  BY DEF Init, FutureMitmDischarged
<1>2. TypeOK /\ FutureMitmDischarged /\ [Next]_vars => FutureMitmDischarged'
  <2> SUFFICES ASSUME TypeOK, FutureMitmDischarged, [Next]_vars
               PROVE  FutureMitmDischarged'
    OBVIOUS
  <2>1. CASE /\ future_mitm_list' = future_mitm_list
             /\ \A t \in Services : HasMitm(t)' => HasMitm(t)
    BY <2>1 DEF FutureMitmDischarged, TypeOK
  <2>2. ASSUME NEW h \in Pids, NEW s \in Services, DeclareFutureMitm(h, s)
        PROVE  FutureMitmDischarged'
    BY <2>2 DEF DeclareFutureMitm, FutureMitmDischarged, HasMitm
  <2>3. ASSUME NEW h \in Pids, NEW s \in Services, InstallMitm(h, s)
        PROVE  FutureMitmDischarged'
    <3>1. CASE UNCHANGED smVars
      BY <3>1 DEF smVars, FutureMitmDischarged, HasMitm
    <3>2. CASE /\ service_list' = [service_list EXCEPT ![s].mitm_process_id = h]
               /\ ClearFutureMitmDeclaration(s)
      BY <3>2 DEF ClearFutureMitmDeclaration, FutureMitmDischarged, HasMitm, TypeOK
    <3> QED BY <2>3, <3>1, <3>2 DEF InstallMitm, Defer, Refuse
  <2>4. CASE \/ EndInitialDefers \/ UNCHANGED vars
             \/ \E p \in Pids : RegisterProcess(p) \/ UnregisterProcess(p) \/ Die(p)
             \/ \E s \in Services : CloseSession(s)
    <3>1. UNCHANGED <<service_list, future_mitm_list>>
      BY <2>4 DEF EndInitialDefers, CloseSession, vars, smVars, RegisterProcess,
                  UnregisterProcess, Die
    <3> QED BY <2>1, <3>1 DEF HasMitm
  <2> QED BY <2>1, <2>2, <2>3, <2>4, MitmFrame DEF Next
<1> QED BY <1>1, <1>2, TypeCorrect, PTL DEF Spec
---------------------------------------------------------------------------
(* What the boot's order and an acknowledgement owed rest on: the table of  *)
(* processes, in which what a live process registered stays, and who waits *)
(* for whom behind a mitm.                                                 *)

LEMMA LeastNatural ==
    ASSUME NEW T \in SUBSET Nat, T # {}
    PROVE  \E m \in T : \A k \in T : m <= k
<1> DEFINE F == {0..m : m \in T}
           R == StrictSubsetOrdering(Nat)
<1>1. F \subseteq FiniteSubsetsOf(Nat) /\ F # {}
  <2>1. ASSUME NEW m \in T PROVE 0..m \in FiniteSubsetsOf(Nat)
    <3>1. m \in Int /\ 0 \in Int /\ 0..m \in SUBSET Nat
      OBVIOUS
    <3>2. IsFiniteSet(0..m)
      BY <3>1, FS_Interval
    <3> QED BY <3>1, <3>2 DEF FiniteSubsetsOf
  <2>2. F # {}
    OBVIOUS
  <2> QED BY <2>1, <2>2
<1>2. PICK x \in F : \A y \in F : ~(<<y, x>> \in R)
  <2> HIDE DEF F
  <2> QED BY <1>1, WFMin, FS_StrictSubsetOrderingWellFounded
<1>3. PICK m \in T : x = 0..m
  OBVIOUS
<1>4. ASSUME NEW k \in T, k < m PROVE FALSE
  <2>1. 0..k \subseteq 0..m /\ 0..k # 0..m
    <3>1. m \in 0..m /\ m \notin 0..k
      BY <1>4
    <3> QED BY <1>4, <3>1
  <2>2. <<0..k, 0..m>> \in R
    BY <2>1 DEF StrictSubsetOrdering
  <2> QED BY <1>2, <1>3, <2>2
<1> QED BY <1>4

(* The search of the table finds a slot that holds what is searched.       *)
LEMMA FirstSlotHolds ==
    ASSUME SmAssumption, NEW p, HasProcessInfo(p)
    PROVE  FirstSlot(p) \in ProcessSlots /\ process_list[FirstSlot(p)] = p
<1> DEFINE T == {i \in ProcessSlots : process_list[i] = p}
<1>1. T \in SUBSET Nat /\ T # {}
  BY DEF HasProcessInfo
<1>2. PICK m \in T : \A k \in T : m <= k
  BY <1>1, LeastNatural
<1>3. m \in ProcessSlots /\ process_list[m] = p /\ \A j \in 1..(m - 1) : process_list[j] # p
  BY <1>2 DEF SmAssumption
<1> QED BY <1>3 DEF FirstSlot

(* Requests leave the process table and the end of the defers alone.       *)
LEMMA RequestFrame ==
    ASSUME NEW p \in Pids, NEW s \in Services,
           \/ RegisterService(p, s) \/ UnregisterService(p, s)
           \/ WaitService(p, s) \/ GetServiceHandle(p, s)
           \/ WaitMitm(p, s) \/ InstallMitm(p, s) \/ UninstallMitm(p, s)
           \/ DeclareFutureMitm(p, s) \/ AcknowledgeMitmSession(p, s)
           \/ AcceptMitmSession(p, s)
    PROVE  UNCHANGED <<process_list, ended_initial_defers, alive>>
<1>1. CASE GetServiceHandle(p, s)
  BY <1>1 DEF GetServiceHandle, GetServiceHandleImpl, GetMitmServiceHandle, ConnectDirect,
              Refuse, Defer, Abort, smVars
<1>2. CASE InstallMitm(p, s) \/ AcknowledgeMitmSession(p, s) \/ UninstallMitm(p, s)
  BY <1>2 DEF InstallMitm, AcknowledgeMitmSession, UninstallMitm, Refuse, Defer, Abort, smVars
<1>3. CASE \/ RegisterService(p, s) \/ UnregisterService(p, s)
           \/ WaitService(p, s) \/ WaitMitm(p, s)
           \/ DeclareFutureMitm(p, s) \/ AcceptMitmSession(p, s)
  BY <1>3 DEF RegisterService, UnregisterService, WaitService, WaitMitm,
              DeclareFutureMitm, AcceptMitmSession, Refuse, Defer, smVars
<1> QED BY <1>1, <1>2, <1>3

(* No process comes back to life.                                         *)
LEMMA AliveShrinks == ASSUME TypeOK, [Next]_vars PROVE alive' \subseteq alive
<1>1. CASE \E q \in Pids : Die(q)
  BY <1>1 DEF Die
<1>2. CASE ~\E q \in Pids : Die(q)
  BY <1>2, RequestFrame DEF Next, EndInitialDefers, RegisterProcess, UnregisterProcess,
                            CloseSession, vars, smVars
<1> QED BY <1>1, <1>2

LEMMA LiveStaysRegistered ==
    ASSUME SmAssumption, TypeOK, [Next]_vars, NEW p \in Pids, p \in alive', HasProcessInfo(p)
    PROVE  HasProcessInfo(p)' /\ p \in alive
<1>1. CASE UNCHANGED <<process_list, alive>>
  BY <1>1 DEF HasProcessInfo
<1>2. ASSUME NEW q \in Pids, RegisterProcess(q)
      PROVE  HasProcessInfo(p)' /\ p \in alive
  <2>1. FirstSlot(NoPid) \in ProcessSlots /\ process_list[FirstSlot(NoPid)] = NoPid
    BY <1>2, FirstSlotHolds DEF RegisterProcess
  <2>2. PICK i \in ProcessSlots : process_list[i] = p
    BY DEF HasProcessInfo
  <2>3. process_list'[i] = p
    BY <1>2, <2>1, <2>2 DEF RegisterProcess, TypeOK, SmAssumption
  <2> QED BY <1>2, <2>3 DEF HasProcessInfo, RegisterProcess
<1>3. ASSUME NEW q \in Pids, UnregisterProcess(q)
      PROVE  HasProcessInfo(p)' /\ p \in alive
  <2>1. FirstSlot(q) \in ProcessSlots /\ process_list[FirstSlot(q)] = q
    BY <1>3, FirstSlotHolds DEF UnregisterProcess
  <2>2. PICK i \in ProcessSlots : process_list[i] = p
    BY DEF HasProcessInfo
  <2>3. q # p
    BY <1>3 DEF UnregisterProcess
  <2>4. process_list'[i] = p
    BY <1>3, <2>1, <2>2, <2>3 DEF UnregisterProcess, TypeOK
  <2> QED BY <1>3, <2>4 DEF HasProcessInfo, UnregisterProcess
<1>4. ASSUME NEW q \in Pids, Die(q) PROVE HasProcessInfo(p)' /\ p \in alive
  BY <1>4 DEF Die, HasProcessInfo, smVars
<1>5. CASE EndInitialDefers \/ UNCHANGED vars \/ \E s \in Services : CloseSession(s)
  BY <1>1, <1>5 DEF EndInitialDefers, CloseSession, vars, smVars
<1> QED BY <1>1, <1>2, <1>3, <1>4, <1>5, RequestFrame DEF Next

---------------------------------------------------------------------------
(* What the steps do to the awaited acknowledgements.                      *)

(* What GetServiceHandle does beside a session of its own: it leaves the   *)
(* services and the hosts alone, or passes the client on to a mitm.        *)
PassesToMitm(p, s) ==
    LET host == service_list[s].mitm_process_id
    IN  /\ ~service_list[s].mitm_waiting_ack
        /\ HasMitm(s)
        /\ HasProcessInfo(p)
        /\ mitm_queue' = [mitm_queue EXCEPT ![host][s] = Append(@, p)]
        /\ service_list' = [service_list EXCEPT ![s] = [@ EXCEPT
                 !.mitm_fwd_sess_h = TRUE,
                 !.mitm_waiting_ack_process_id = p,
                 !.mitm_waiting_ack = TRUE]]
        /\ UNCHANGED <<accepted, aborted>>

LEMMA GetCases ==
    ASSUME NEW p \in Pids, NEW s \in Services, GetServiceHandle(p, s)
    PROVE  /\ p \in alive
           /\ PassesToMitm(p, s) \/ UNCHANGED <<service_list, hostVars>>
           /\ \/ UNCHANGED aborted
              \/ aborted' = "mitm_connect"
              \/ HasMitm(s) /\ ~HasProcessInfo(p)
           /\ UNCHANGED booted \/ (~ShouldDeferForInit(s) /\ OpenSession(p, s))
           /\ MayUse(p, s, FALSE)
<1>1. CASE Defer(p, [op |-> "get", service |-> s])
  BY <1>1 DEF GetServiceHandle, CanCall, Defer, smVars, sessionVars
<1>2. CASE GetServiceHandleImpl(p, s) /\ ~MustDeferGet(s)
  <2> DEFINE Goal == /\ PassesToMitm(p, s) \/ UNCHANGED <<service_list, hostVars>>
                     /\ \/ UNCHANGED aborted
                        \/ aborted' = "mitm_connect"
                        \/ HasMitm(s) /\ ~HasProcessInfo(p)
                     /\ UNCHANGED booted \/ OpenSession(p, s)
  <2>1. ~ShouldDeferForInit(s) /\ ~service_list[s].mitm_waiting_ack
    BY <1>2 DEF MustDeferGet
  <2>2. CASE IsMitmd(p, s) /\ ~HasProcessInfo(p) /\ Abort("no_process_info")
    <3>1. Goal
      BY <2>2 DEF Abort, IsMitmd, sessionVars, hostVars
    <3> QED BY <2>1, <3>1 DEF GetServiceHandle, CanCall
  <2>3. CASE IsMitmd(p, s) /\ HasProcessInfo(p) /\ GetMitmServiceHandle(p, s)
    <3>1. Goal
      BY <2>1, <2>3 DEF GetMitmServiceHandle, PassesToMitm, Abort, ConnectDirect, IsMitmd,
                        sessionVars, hostVars, smVars
    <3> QED BY <2>1, <3>1 DEF GetServiceHandle, CanCall
  <2>4. CASE IF CanConnect(s) THEN ConnectDirect(p, s) ELSE Refuse(p)
    <3>1. Goal
      BY <2>4 DEF ConnectDirect, Refuse, sessionVars, hostVars, smVars
    <3> QED BY <2>1, <3>1 DEF GetServiceHandle, CanCall
  <2> QED BY <1>2, <2>2, <2>3, <2>4 DEF GetServiceHandleImpl
<1> QED BY <1>1, <1>2 DEF GetServiceHandle

(* No other step makes sm wait: it keeps a wait as it is, or ends it.      *)
LEMMA WaitFrame ==
    ASSUME TypeOK, NEW p \in Pids, NEW s \in Services, NEW t \in Services,
           \/ RegisterService(p, s) \/ UnregisterService(p, s) \/ InstallMitm(p, s)
           \/ UninstallMitm(p, s) \/ AcknowledgeMitmSession(p, s),
           service_list'[t].mitm_waiting_ack
    PROVE  /\ service_list[t].mitm_waiting_ack
           /\ service_list'[t].mitm_waiting_ack_process_id
                = service_list[t].mitm_waiting_ack_process_id
<1>0. service_list[s] \in ServiceInfo
  BY DEF TypeOK
<1>1. CASE UNCHANGED service_list
  BY <1>1
<1>2. CASE RegisterService(p, s) \/ UninstallMitm(p, s)
  <2>1. CASE service_list' = [service_list EXCEPT ![s].owner_process_id = p]
    BY <1>0, <2>1 DEF TypeOK, ServiceInfo
  <2>2. CASE service_list' = [service_list EXCEPT ![s].mitm_process_id = NoPid]
    BY <1>0, <2>2 DEF TypeOK, ServiceInfo
  <2> QED BY <1>2, <2>1, <2>2 DEF RegisterService, UninstallMitm
<1>3. CASE UnregisterService(p, s)
  BY <1>3 DEF UnregisterService, TypeOK, FreeService
<1>4. CASE service_list' = [service_list EXCEPT ![s].mitm_process_id = p]
  BY <1>0, <1>4 DEF TypeOK, ServiceInfo
<1>5. CASE ServiceInfoAcknowledge(s)
  BY <1>0, <1>5 DEF ServiceInfoAcknowledge, TypeOK, ServiceInfo
<1>6. CASE InstallMitm(p, s)
  BY <1>1, <1>4, <1>6 DEF InstallMitm, Defer, Refuse, smVars
<1>7. CASE AcknowledgeMitmSession(p, s)
  BY <1>1, <1>5, <1>7 DEF AcknowledgeMitmSession, Abort, smVars
<1> QED BY <1>2, <1>3, <1>6, <1>7

(* The steps that touch no service.                                        *)
LEMMA ServicesFrame ==
    ASSUME \/ EndInitialDefers \/ UNCHANGED vars
           \/ \E p \in Pids : RegisterProcess(p) \/ UnregisterProcess(p) \/ Die(p)
           \/ \E s \in Services : CloseSession(s)
           \/ \E p \in Pids, s \in Services :
                \/ WaitService(p, s) \/ WaitMitm(p, s)
                \/ DeclareFutureMitm(p, s) \/ AcceptMitmSession(p, s)
    PROVE  UNCHANGED <<service_list, booted, aborted>>
<1>1. CASE \E p \in Pids : RegisterProcess(p) \/ UnregisterProcess(p) \/ Die(p)
  BY <1>1 DEF RegisterProcess, UnregisterProcess, Die, smVars, sessionVars
<1>2. CASE \E p \in Pids, s \in Services :
                \/ WaitService(p, s) \/ WaitMitm(p, s)
                \/ DeclareFutureMitm(p, s) \/ AcceptMitmSession(p, s)
  BY <1>2 DEF WaitService, WaitMitm, DeclareFutureMitm, AcceptMitmSession, Refuse, Defer,
              smVars, sessionVars
<1>3. CASE EndInitialDefers \/ UNCHANGED vars \/ \E s \in Services : CloseSession(s)
  BY <1>3 DEF EndInitialDefers, CloseSession, vars, smVars, sessionVars
<1> QED BY <1>1, <1>2, <1>3

---------------------------------------------------------------------------
(* Who may request a mitm session.                                         *)

(* The initial processes are registered before the deferred services are   *)
(* given out, so before any mitm is there; whoever sm awaits an            *)
(* acknowledgement for was registered when it asked.                       *)
BootOrder ==
    /\ ended_initial_defers => \A p \in InitialPids \cap alive : HasProcessInfo(p)
    /\ booted # {} => ended_initial_defers
    /\ \A p \in Pids \ InitialPids : HasProcessInfo(p) => ended_initial_defers
    /\ \A s \in Services : HasMitm(s) => ended_initial_defers
    /\ \A s \in Services :
         service_list[s].mitm_waiting_ack /\ service_list[s].mitm_waiting_ack_process_id \in alive
            => HasProcessInfo(service_list[s].mitm_waiting_ack_process_id)

BootInv == BootOrder /\ MitmRequesterRegistered

LEMMA DefersStayEnded ==
    ASSUME [Next]_vars, ended_initial_defers PROVE ended_initial_defers'
BY RequestFrame DEF Next, EndInitialDefers, RegisterProcess, UnregisterProcess, Die,
                    CloseSession, vars, smVars

LEMMA BootOrderStep ==
    ASSUME SmAssumption, TypeOK, BootOrder, [Next]_vars PROVE BootOrder'
<1>1. (ended_initial_defers => \A p \in InitialPids \cap alive : HasProcessInfo(p))'
  <2> SUFFICES ASSUME ended_initial_defers', NEW p \in InitialPids, p \in alive'
               PROVE  HasProcessInfo(p)'
    OBVIOUS
  <2>0. p \in Pids
    BY DEF SmAssumption
  <2>1. CASE ended_initial_defers
    <3>1. p \in alive
      BY AliveShrinks
    <3> QED BY <2>0, <2>1, <3>1, LiveStaysRegistered DEF BootOrder
  <2>2. CASE ~ended_initial_defers
    <3>1. EndInitialDefers
      BY <2>2, RequestFrame DEF Next, RegisterProcess, UnregisterProcess, Die,
                                CloseSession, vars, smVars
    <3> QED BY <3>1 DEF EndInitialDefers, HasProcessInfo
  <2> QED BY <2>1, <2>2
<1>2. (booted # {} => ended_initial_defers)'
  <2>1. ASSUME NEW p \in Pids, NEW s \in Services, GetServiceHandle(p, s),
               ~ShouldDeferForInit(s), OpenSession(p, s)
        PROVE  UNCHANGED booted \/ ended_initial_defers
    BY <2>1 DEF ShouldDeferForInit, OpenSession
  <2>2. ASSUME NEW p \in Pids, NEW s \in Services,
               RegisterService(p, s) \/ UnregisterService(p, s) \/ InstallMitm(p, s)
               \/ UninstallMitm(p, s) \/ AcknowledgeMitmSession(p, s)
        PROVE  UNCHANGED booted
    BY <2>2 DEF RegisterService, UnregisterService, InstallMitm, UninstallMitm,
                AcknowledgeMitmSession, Refuse, Defer, Abort, sessionVars
  <2>3. UNCHANGED booted \/ ended_initial_defers
    BY <2>1, <2>2, GetCases, ServicesFrame DEF Next
  <2> QED BY <2>3, DefersStayEnded DEF BootOrder
<1>3. (\A p \in Pids \ InitialPids : HasProcessInfo(p) => ended_initial_defers)'
  <2> SUFFICES ASSUME NEW p \in Pids \ InitialPids, HasProcessInfo(p)',
                      ~ended_initial_defers
               PROVE  FALSE
    BY DefersStayEnded
  <2>1. ~HasProcessInfo(p)
    BY DEF BootOrder
  <2>2. ~UNCHANGED process_list
    BY <2>1 DEF HasProcessInfo
  <2>3. PICK q \in Pids : RegisterProcess(q) \/ UnregisterProcess(q)
    BY <2>2, RequestFrame DEF Next, EndInitialDefers, Die, CloseSession, vars, smVars
  <2>4. CASE RegisterProcess(q)
    <3>1. q # p
      BY <2>4 DEF RegisterProcess
    <3>2. \A i \in ProcessSlots : process_list'[i] \in {process_list[i], q}
      BY <2>4 DEF RegisterProcess, TypeOK
    <3> QED BY <2>1, <3>1, <3>2 DEF HasProcessInfo
  <2>5. CASE UnregisterProcess(q)
    <3>1. \A i \in ProcessSlots : process_list'[i] \in {process_list[i], NoPid}
      BY <2>5 DEF UnregisterProcess, TypeOK
    <3> QED BY <2>1, <3>1 DEF HasProcessInfo, SmAssumption
  <2> QED BY <2>3, <2>4, <2>5
<1>4. (\A s \in Services : HasMitm(s) => ended_initial_defers)'
  <2> SUFFICES ASSUME NEW t \in Services, HasMitm(t)', ~ended_initial_defers
               PROVE  FALSE
    BY DefersStayEnded
  <2>1. ~HasMitm(t)
    BY DEF BootOrder
  <2>2. PICK h \in Pids, s \in Services : InstallMitm(h, s)
    BY <2>1, MitmFrame, ServicesFrame DEF Next, HasMitm
  <2>3. h \in InitialPids => booted # {}
    BY <2>2 DEF InstallMitm, IsInitialized
  <2>4. h \notin InitialPids => HasProcessInfo(h)
    BY <2>2 DEF InstallMitm, MayUse
  <2> QED BY <2>3, <2>4 DEF BootOrder
<1>5. (\A s \in Services :
         service_list[s].mitm_waiting_ack /\ service_list[s].mitm_waiting_ack_process_id \in alive
            => HasProcessInfo(service_list[s].mitm_waiting_ack_process_id))'
  <2> DEFINE c(t) == service_list[t].mitm_waiting_ack_process_id
  <2> SUFFICES ASSUME NEW t \in Services, service_list'[t].mitm_waiting_ack,
                      service_list'[t].mitm_waiting_ack_process_id \in alive'
               PROVE  (HasProcessInfo(service_list[t].mitm_waiting_ack_process_id))'
    OBVIOUS
  <2>0. alive' \subseteq Pids /\ alive' \subseteq alive
    BY AliveShrinks DEF TypeOK
  <2>1. CASE service_list[t].mitm_waiting_ack /\ c(t)' = c(t)
    <3>1. HasProcessInfo(c(t))
      BY <2>0, <2>1 DEF BootOrder
    <3>2. c(t) \in Pids /\ c(t) \in alive'
      BY <2>0, <2>1
    <3>3. ASSUME NEW q \in Pids, q \in alive', HasProcessInfo(q), q = c(t)'
          PROVE  HasProcessInfo(c(t))'
      <4>1. HasProcessInfo(q)'
        BY <3>3, LiveStaysRegistered
      <4> QED BY <3>3, <4>1 DEF HasProcessInfo
    <3> QED BY <2>1, <3>1, <3>2, <3>3
  <2>2. ASSUME NEW p \in Pids, NEW s \in Services, GetServiceHandle(p, s), PassesToMitm(p, s)
        PROVE  (service_list[t].mitm_waiting_ack /\ c(t)' = c(t)) \/ HasProcessInfo(c(t))'
    <3>1. CASE t # s
      BY <2>2, <3>1 DEF PassesToMitm, TypeOK
    <3>2. CASE t = s
      <4>1. c(t)' = p
        BY <2>2, <3>2 DEF PassesToMitm, TypeOK, ServiceInfo
      <4>2. UNCHANGED process_list
        BY <2>2, RequestFrame
      <4> QED BY <2>2, <4>1, <4>2 DEF PassesToMitm, HasProcessInfo
    <3> QED BY <3>1, <3>2
  <2>3. UNCHANGED service_list => service_list[t].mitm_waiting_ack /\ c(t)' = c(t)
    OBVIOUS
  <2> HIDE DEF c
  <2>4. (service_list[t].mitm_waiting_ack /\ c(t)' = c(t)) \/ HasProcessInfo(c(t))'
    BY <2>2, <2>3, GetCases, WaitFrame, ServicesFrame DEF Next, c
  <2> QED BY <2>1, <2>4 DEF c
<1> QED BY <1>1, <1>2, <1>3, <1>4, <1>5 DEF BootOrder

(* Without a death, whoever requests a mitm session, and whoever sm hands  *)
(* the process information of to a host, has a process entry               *)
(* (GetMitmProcessInfo, sm_service_manager.cpp), although initial          *)
(* processes may use services without one.                                 *)
THEOREM RequestersAreRegistered == Spec => []MitmRequesterRegistered
<1> USE SmAssumption
<1>1. Init => BootInv
  BY DEF Init, BootInv, BootOrder, MitmRequesterRegistered, HasMitm, FreeService,
         HasProcessInfo
<1>2. TypeOK /\ PairedAcks /\ BootInv /\ [Next]_vars => BootInv'
  <2> SUFFICES ASSUME TypeOK, PairedAcks, BootInv, [Next]_vars PROVE MitmRequesterRegistered'
    BY BootOrderStep DEF BootInv
  <2> USE DEF BootInv
  <2>0. alive' = Pids => alive = Pids
    BY AliveShrinks DEF TypeOK
  <2> SUFFICES ASSUME alive = Pids, aborted' = "no_process_info" PROVE FALSE
    BY <2>0 DEF MitmRequesterRegistered
  <2>1. ~UNCHANGED aborted
    BY DEF MitmRequesterRegistered
  <2>2. PICK p \in Pids, s \in Services : GetServiceHandle(p, s) \/ AcknowledgeMitmSession(p, s)
    <3>1. ASSUME NEW p \in Pids, NEW s \in Services,
                 \/ RegisterService(p, s) \/ UnregisterService(p, s)
                 \/ InstallMitm(p, s) \/ UninstallMitm(p, s)
          PROVE  UNCHANGED aborted
      BY <3>1 DEF RegisterService, UnregisterService, InstallMitm, UninstallMitm,
                  Refuse, Defer, smVars
    <3> QED BY <2>1, <3>1, ServicesFrame DEF Next
  <2>3. CASE GetServiceHandle(p, s)
    <3>1. HasMitm(s) /\ ~HasProcessInfo(p)
      BY <2>1, <2>3, GetCases
    <3>2. p \in InitialPids
      BY <2>3, <3>1, GetCases DEF MayUse
    <3> QED BY <3>1, <3>2 DEF BootOrder
  <2>4. CASE AcknowledgeMitmSession(p, s)
    <3> DEFINE c == service_list[s].mitm_waiting_ack_process_id
    <3>1. /\ accepted[p][s] # NoPid
          /\ service_list[s].mitm_process_id = p
          /\ service_list[s].mitm_waiting_ack
          /\ ~HasProcessInfo(c)
      BY <2>1, <2>4 DEF AcknowledgeMitmSession, smVars
    <3>2. c = accepted[p][s]
      BY <3>1 DEF PairedAcks, Paired
    <3>3. c \in Pids
      BY <3>1, <3>2 DEF TypeOK
    <3> QED BY <3>1, <3>3 DEF BootOrder
  <2> QED BY <2>2, <2>3, <2>4
<1>3. BootInv => MitmRequesterRegistered
  BY DEF BootInv
<1> QED BY <1>1, <1>2, <1>3, TypeCorrect, AcksArePaired, PTL DEF Spec

---------------------------------------------------------------------------
(* What sm waits for is on its way.                                        *)

(* A live mitm host is known to sm, so that its acknowledgements are heard *)
(* (MayUse when it installed itself); without quitters a wait is always    *)
(* behind a mitm, so that no mitm is installed over a wait of the last.    *)
HostsAreKnown ==
    \A s \in Services :
        service_list[s].mitm_process_id \in alive => IsKnown(service_list[s].mitm_process_id)

WaitsBehindMitm == \A s \in Services : service_list[s].mitm_waiting_ack => HasMitm(s)

AckInv == HostsAreKnown /\ WaitsBehindMitm /\ NoLostAck

LEMMA KnownStays ==
    ASSUME SmAssumption, TypeOK, [Next]_vars, NEW p \in Pids, p \in alive', IsKnown(p)
    PROVE  IsKnown(p)'
BY LiveStaysRegistered DEF IsKnown

(* The mitm of a service is set by its installation only.                  *)
LEMMA HostFrame ==
    ASSUME TypeOK, [Next]_vars, NEW t \in Services
    PROVE  \/ service_list'[t].mitm_process_id \in {NoPid, service_list[t].mitm_process_id}
           \/ \E h \in Pids : /\ InstallMitm(h, t)
                             /\ service_list'[t].mitm_process_id = h
<1> DEFINE Goal == \/ service_list'[t].mitm_process_id
                         \in {NoPid, service_list[t].mitm_process_id}
                   \/ \E h \in Pids : /\ InstallMitm(h, t)
                                     /\ service_list'[t].mitm_process_id = h
<1>0. UNCHANGED service_list => Goal
  OBVIOUS
<1>1. ASSUME NEW p \in Pids, NEW s \in Services, RegisterService(p, s) PROVE Goal
  BY <1>1 DEF RegisterService, TypeOK, ServiceInfo
<1>2. ASSUME NEW p \in Pids, NEW s \in Services, UnregisterService(p, s) PROVE Goal
  BY <1>2 DEF UnregisterService, TypeOK, FreeService
<1>3. ASSUME NEW p \in Pids, NEW s \in Services, UninstallMitm(p, s) PROVE Goal
  BY <1>3 DEF UninstallMitm, TypeOK, ServiceInfo
<1>4. ASSUME NEW p \in Pids, NEW s \in Services, InstallMitm(p, s) PROVE Goal
  <2>1. CASE service_list' = [service_list EXCEPT ![s].mitm_process_id = p]
    <3>1. CASE t = s
      <4>1. service_list'[t].mitm_process_id = p
        BY <2>1, <3>1 DEF TypeOK, ServiceInfo
      <4> QED BY <1>4, <3>1, <4>1
    <3>2. CASE t # s
      BY <2>1, <3>2 DEF TypeOK
    <3> QED BY <3>1, <3>2
  <2> QED BY <1>0, <1>4, <2>1 DEF InstallMitm, Defer, Refuse, smVars
<1>5. ASSUME NEW p \in Pids, NEW s \in Services, AcknowledgeMitmSession(p, s) PROVE Goal
  <2>1. CASE ServiceInfoAcknowledge(s)
    BY <2>1 DEF ServiceInfoAcknowledge, TypeOK, ServiceInfo
  <2> QED BY <1>0, <1>5, <2>1 DEF AcknowledgeMitmSession, Abort, smVars
<1>6. ASSUME NEW p \in Pids, NEW s \in Services, GetServiceHandle(p, s) PROVE Goal
  <2>1. CASE PassesToMitm(p, s)
    BY <2>1 DEF PassesToMitm, TypeOK, ServiceInfo
  <2> QED BY <1>0, <1>6, <2>1, GetCases
<1> HIDE DEF Goal
<1>7. Goal
  BY <1>0, <1>1, <1>2, <1>3, <1>4, <1>5, <1>6, ServicesFrame DEF Next
<1> QED BY <1>7 DEF Goal

LEMMA HostsAreKnownStep ==
    ASSUME SmAssumption, TypeOK, HostsAreKnown, [Next]_vars PROVE HostsAreKnown'
<1> SUFFICES ASSUME NEW t \in Services, service_list'[t].mitm_process_id \in alive'
             PROVE  IsKnown(service_list[t].mitm_process_id)'
  BY DEF HostsAreKnown
<1> DEFINE h == service_list'[t].mitm_process_id
<1>0. h \in Pids /\ h \in alive /\ h \in alive'
  BY AliveShrinks DEF TypeOK
<1>1. IsKnown(h)
  <2>1. CASE h = service_list[t].mitm_process_id
    BY <1>0, <2>1 DEF HostsAreKnown
  <2>2. CASE InstallMitm(h, t)
    BY <2>2 DEF InstallMitm, MayUse, IsKnown
  <2>3. h # NoPid
    BY <1>0 DEF SmAssumption
  <2> QED BY <2>1, <2>2, <2>3, HostFrame
<1>2. ASSUME NEW q \in Pids, q \in alive', IsKnown(q), q = h
      PROVE  IsKnown(service_list[t].mitm_process_id)'
  <2>1. IsKnown(q)'
    BY <1>2, KnownStays
  <2> QED BY <1>2, <2>1 DEF IsKnown, HasProcessInfo
<1> QED BY <1>0, <1>1, <1>2

LEMMA WaitsBehindMitmStep ==
    ASSUME SmAssumption, Quitters = {}, TypeOK, WaitsBehindMitm, [Next]_vars
    PROVE  WaitsBehindMitm'
<1> SUFFICES ASSUME NEW t \in Services, service_list'[t].mitm_waiting_ack PROVE HasMitm(t)'
  BY DEF WaitsBehindMitm
<1>1. service_list[t].mitm_waiting_ack \/ \E p \in Pids : PassesToMitm(p, t)
  <2>1. ASSUME NEW p \in Pids, NEW s \in Services, PassesToMitm(p, s), s # t
        PROVE  service_list[t].mitm_waiting_ack
    BY <2>1 DEF PassesToMitm, TypeOK
  <2> QED BY <2>1, GetCases, WaitFrame, ServicesFrame DEF Next
<1>2. HasMitm(t)
  BY <1>1 DEF WaitsBehindMitm, PassesToMitm
<1>3. HasMitm(t)'
  <2>1. CASE UNCHANGED service_list
    BY <1>2, <2>1 DEF HasMitm
  <2>2. ASSUME NEW p \in Pids, NEW s \in Services,
               UnregisterService(p, s) \/ UninstallMitm(p, s)
        PROVE  FALSE
    BY <2>2 DEF UnregisterService, UninstallMitm
  <2>3. ASSUME NEW p \in Pids, NEW s \in Services, RegisterService(p, s)
        PROVE  HasMitm(t)'
    BY <1>2, <2>3 DEF RegisterService, TypeOK, ServiceInfo, HasMitm
  <2>4. ASSUME NEW p \in Pids, NEW s \in Services, InstallMitm(p, s)
        PROVE  HasMitm(t)'
    <3>1. CASE service_list' = [service_list EXCEPT ![s].mitm_process_id = p]
      BY <1>2, <3>1 DEF TypeOK, ServiceInfo, HasMitm, SmAssumption
    <3> QED BY <2>1, <2>4, <3>1 DEF InstallMitm, Defer, Refuse, smVars
  <2>5. ASSUME NEW p \in Pids, NEW s \in Services, AcknowledgeMitmSession(p, s)
        PROVE  HasMitm(t)'
    <3>1. CASE ServiceInfoAcknowledge(s)
      BY <1>2, <3>1 DEF ServiceInfoAcknowledge, TypeOK, ServiceInfo, HasMitm
    <3> QED BY <2>1, <2>5, <3>1 DEF AcknowledgeMitmSession, Abort, smVars
  <2>6. ASSUME NEW p \in Pids, NEW s \in Services, PassesToMitm(p, s)
        PROVE  HasMitm(t)'
    BY <1>2, <2>6 DEF PassesToMitm, TypeOK, ServiceInfo, HasMitm
  <2> QED BY <2>1, <2>2, <2>3, <2>4, <2>5, <2>6, GetCases, ServicesFrame DEF Next
<1> QED BY <1>3

LEMMA NoLostAckStep ==
    ASSUME SmAssumption, Quitters = {}, TypeOK, PairedAcks, AckInv, [Next]_vars
    PROVE  NoLostAck'
<1> DEFINE m(t) == service_list[t].mitm_process_id
           c(t) == service_list[t].mitm_waiting_ack_process_id
           Held(t) == /\ c(t) # NoPid
                      /\ \/ accepted[m(t)][t] = c(t)
                         \/ mitm_queue[m(t)][t] = <<c(t)>>
           Kept(t) == /\ m(t)' = m(t) /\ c(t)' = c(t)
                      /\ service_list[t].mitm_waiting_ack
<1> SUFFICES ASSUME NEW t \in Services, service_list'[t].mitm_waiting_ack, m(t)' \in alive'
             PROVE  Held(t)'
  BY DEF NoLostAck
<1> USE DEF AckInv
<1>0. m(t)' \in Pids /\ m(t)' \in alive
  BY AliveShrinks DEF TypeOK
<1>1. CASE Kept(t) /\ accepted'[m(t)][t] = accepted[m(t)][t]
                   /\ mitm_queue'[m(t)][t] = mitm_queue[m(t)][t]
  BY <1>0, <1>1 DEF NoLostAck
<1>2. CASE UNCHANGED <<service_list, hostVars>>
  BY <1>1, <1>2 DEF hostVars
<1>3. ASSUME NEW p \in Pids, NEW s \in Services, RegisterService(p, s) PROVE Held(t)'
  <2>1. Kept(t)
    BY <1>3 DEF RegisterService, TypeOK, ServiceInfo
  <2> QED BY <1>1, <1>3, <2>1 DEF RegisterService, hostVars
<1>4. ASSUME NEW p \in Pids, NEW s \in Services,
             UnregisterService(p, s) \/ UninstallMitm(p, s)
      PROVE  FALSE
  BY <1>4 DEF UnregisterService, UninstallMitm
<1>5. ASSUME NEW h \in Pids, NEW s \in Services, InstallMitm(h, s) PROVE Held(t)'
  <2>1. CASE /\ ~HasMitm(s)
             /\ service_list' = [service_list EXCEPT ![s].mitm_process_id = h]
             /\ mitm_queue' = [mitm_queue EXCEPT ![h][s] = <<>>]
             /\ UNCHANGED accepted
    <3>1. t # s
      BY <2>1 DEF WaitsBehindMitm, TypeOK, ServiceInfo
    <3>2. Kept(t) /\ \A g \in Pids : mitm_queue'[g][t] = mitm_queue[g][t]
      BY <2>1, <3>1 DEF TypeOK
    <3> QED BY <1>0, <1>1, <2>1, <3>2
  <2> QED BY <1>2, <1>5, <2>1 DEF InstallMitm, Defer, Refuse, smVars
<1>6. ASSUME NEW h \in Pids, NEW s \in Services, AcknowledgeMitmSession(h, s) PROVE Held(t)'
  <2>1. CASE /\ m(s) = h /\ ServiceInfoAcknowledge(s)
             /\ accepted' = [accepted EXCEPT ![h][s] = NoPid]
             /\ UNCHANGED mitm_queue
    <3>1. t # s
      BY <2>1 DEF ServiceInfoAcknowledge, TypeOK, ServiceInfo
    <3>2. Kept(t) /\ \A g \in Pids : accepted'[g][t] = accepted[g][t]
      BY <2>1, <3>1 DEF ServiceInfoAcknowledge, TypeOK
    <3> QED BY <1>0, <1>1, <2>1, <3>2
  <2>2. CASE /\ ~IsKnown(h) \/ m(s) # h \/ ~service_list[s].mitm_waiting_ack
             /\ accepted' = [accepted EXCEPT ![h][s] = NoPid]
             /\ UNCHANGED <<smVars, request, alive, sessionVars, mitm_queue>>
    <3>1. m(s) # h
      <4>1. h \in alive /\ accepted[h][s] # NoPid
        BY <1>6 DEF AcknowledgeMitmSession
      <4>2. m(s) = h => service_list[s].mitm_waiting_ack
        BY <4>1 DEF PairedAcks, Paired
      <4>3. m(s) = h => IsKnown(h)
        BY <4>1 DEF HostsAreKnown
      <4> QED BY <2>2, <4>2, <4>3
    <3>2. accepted'[m(t)][t] = accepted[m(t)][t]
      BY <1>0, <2>2, <3>1 DEF TypeOK, smVars
    <3> QED BY <1>1, <2>2, <3>2 DEF smVars
  <2> QED BY <1>2, <1>6, <2>1, <2>2 DEF AcknowledgeMitmSession, Abort, hostVars
<1>7. ASSUME NEW p \in Pids, NEW s \in Services, PassesToMitm(p, s) PROVE Held(t)'
  <2>1. CASE t # s
    <3>1. Kept(t) /\ \A g \in Pids : mitm_queue'[g][t] = mitm_queue[g][t]
      BY <1>7, <2>1 DEF PassesToMitm, TypeOK
    <3> QED BY <1>0, <1>1, <1>7, <3>1 DEF PassesToMitm
  <2>2. CASE t = s
    <3>1. m(s)' = m(s) /\ c(s)' = p /\ p # NoPid
      BY <1>7 DEF PassesToMitm, TypeOK, ServiceInfo, SmAssumption
    <3>2. m(s) \in Pids
      BY <1>0, <2>2, <3>1
    <3>3. mitm_queue[m(s)][s] = <<>>
      BY <1>7, <3>2 DEF PassesToMitm, PairedAcks, Paired
    <3>4. mitm_queue'[m(s)][s] = Append(mitm_queue[m(s)][s], p)
      BY <1>7, <3>2 DEF PassesToMitm, TypeOK
    <3>5. mitm_queue'[m(s)][s] = <<p>>
      BY <3>3, <3>4
    <3> QED BY <2>2, <3>1, <3>5
  <2> QED BY <2>1, <2>2
<1>8. ASSUME NEW h \in Pids, NEW s \in Services, AcceptMitmSession(h, s) PROVE Held(t)'
  <2>0. Kept(t) /\ m(t) \in Pids
    BY <1>0, <1>8 DEF AcceptMitmSession, smVars
  <2>1. CASE h # m(t) \/ t # s
    <3>1. accepted'[m(t)][t] = accepted[m(t)][t] /\ mitm_queue'[m(t)][t] = mitm_queue[m(t)][t]
      BY <1>8, <2>0, <2>1 DEF AcceptMitmSession, TypeOK
    <3> QED BY <1>1, <2>0, <3>1
  <2>2. CASE h = m(t) /\ t = s
    <3>1. mitm_queue[h][s] = <<c(t)>>
      BY <1>8, <2>2 DEF AcceptMitmSession, PairedAcks, Paired
    <3>2. accepted'[h][s] = Head(mitm_queue[h][s])
      BY <1>8 DEF AcceptMitmSession, TypeOK
    <3>3. accepted'[h][s] = c(t)
      BY <3>1, <3>2
    <3>4. c(t) # NoPid
      BY <2>0, <1>0, <1>8, <2>2 DEF NoLostAck, AcceptMitmSession
    <3> QED BY <2>0, <2>2, <3>3, <3>4
  <2> QED BY <2>1, <2>2
<1>9. ASSUME NEW p \in Pids, Die(p) PROVE Held(t)'
  <2>0. Kept(t) /\ m(t) \in Pids /\ m(t) # p
    BY <1>0, <1>9 DEF Die, smVars
  <2>1. accepted'[m(t)] = accepted[m(t)] /\ mitm_queue'[m(t)] = mitm_queue[m(t)]
    BY <1>9, <2>0 DEF Die, TypeOK
  <2> QED BY <1>1, <2>0, <2>1
<1>10. CASE \/ EndInitialDefers \/ UNCHANGED vars
            \/ \E p \in Pids : RegisterProcess(p) \/ UnregisterProcess(p)
            \/ \E s \in Services : CloseSession(s)
            \/ \E p \in Pids, s \in Services :
                 WaitService(p, s) \/ WaitMitm(p, s) \/ DeclareFutureMitm(p, s)
  <2>1. UNCHANGED hostVars
    BY <1>10 DEF EndInitialDefers, RegisterProcess, UnregisterProcess, CloseSession, WaitService,
                 WaitMitm, DeclareFutureMitm, Refuse, Defer, vars, hostVars
  <2> QED BY <1>2, <1>10, <2>1, ServicesFrame
<1> HIDE DEF Held, Kept, m, c
<1> QED BY <1>2, <1>3, <1>4, <1>5, <1>6, <1>7, <1>8, <1>9, <1>10, GetCases DEF Next

(* As long as no host uninstalls its mitm and no service is unregistered,  *)
(* whatever sm waits for the acknowledgement of is in the queue of a live  *)
(* host or in its hands, whoever else dies: the clients deferred behind it *)
(* are not forgotten (AcknowledgeMitmSession, sm_service_manager.cpp).     *)
THEOREM NoAckIsLost == Quitters = {} => (Spec => []NoLostAck)
<1> USE SmAssumption
<1> SUFFICES ASSUME Quitters = {} PROVE Spec => []NoLostAck
  OBVIOUS
<1>1. Init => AckInv
  BY DEF Init, AckInv, HostsAreKnown, WaitsBehindMitm, NoLostAck, FreeService, SmAssumption
<1>2. TypeOK /\ PairedAcks /\ AckInv /\ [Next]_vars => AckInv'
  BY HostsAreKnownStep, WaitsBehindMitmStep, NoLostAckStep DEF AckInv
<1>3. AckInv => NoLostAck
  BY DEF AckInv
<1> QED BY <1>1, <1>2, <1>3, TypeCorrect, AcksArePaired, PTL DEF Spec
===========================================================================
