---------------------------- MODULE ServerProofs ----------------------------
(***************************************************************************)
(* Proofs about three servers, each a machine of its own, for every value  *)
(* of their constants: loader creates a process from the meta of its own   *)
(* program and accounts for its pins; the layered storages of rnx_mitm are *)
(* made once and shared by the sessions that open them; fatal shows and    *)
(* reports the first throw, on a good battery.                             *)
(***************************************************************************)
EXTENDS Loader, FsMitm, FatalService, TLAPS

(***************************************************************************)
(* Loader.                                                                 *)
(***************************************************************************)
Own == [program |-> launch.program, status |-> launch.status]

Pin == [program : LaunchedPrograms, status : Statuses, process : Nat,
        modules : LaunchedPrograms \cup {"none"}]

Process == [process : Nat, pin : Nat, program : LaunchedPrograms, status : Statuses,
            meta : [program : LaunchedPrograms \cup {"none"}, status : Statuses \cup {"none"}]]

Launch == [at : {"idle", "get info", "pin", "create"},
           program : LaunchedPrograms \cup {"none"}, status : Statuses \cup {"none"}, pin : Nat]

(* The types.                                                              *)
LoaderTypeOK ==
    /\ launches \in Nat
    /\ launch \in Launch
    /\ pins \in [DOMAIN pins -> Pin] /\ DOMAIN pins \subseteq 1..launches
    /\ processes \subseteq Process

(* pm's launch: what it knows of its program at each of its requests.  The *)
(* newest launch is the last that took a number.                           *)
LaunchKnows ==
    /\ launch.at = "idle" => launch = NoLaunch
    /\ launch.at # "idle" =>
           /\ launches > 0
           /\ launch.program \in LaunchedPrograms
           /\ \A p \in processes : p.pin # launches
    /\ launch.at \in {"get info", "pin"} => launch.pin = 0
    /\ launch.at \in {"pin", "create"} =>
           /\ launch.status \in Statuses
           /\ cached = Own /\ meta = Own
    /\ launch.at = "create" =>
           /\ launch.pin = launches
           /\ launches \in DOMAIN pins
           /\ pins[launches] = [program |-> launch.program, status |-> launch.status,
                                process |-> 0, modules |-> "none"]

(* A process is numbered like its pin, which has recorded it.              *)
ProcessesPinned ==
    /\ \A p \in processes :
           /\ p.process = p.pin
           /\ p.pin \in DOMAIN pins
           /\ pins[p.pin].process = p.pin /\ pins[p.pin].modules = p.program
    /\ \A p, q \in processes : p.pin = q.pin => p = q
    /\ \A n \in Nat : n \in DOMAIN pins <=> \/ \E p \in processes : p.pin = n
                                            \/ n = launch.pin /\ n # 0

LoaderInv == LoaderTypeOK /\ LaunchKnows /\ ProcessesPinned /\ CreatedFromOwnMeta

(* What is numbered up to n is numbered up to n + 1, and has other numbers.*)
LEMMA UpTo ==
    ASSUME NEW n \in Nat, NEW S, S \subseteq 1..n
    PROVE  S \subseteq 1..(n + 1) /\ S \subseteq Nat /\ (\A k \in S : k # n + 1)
  OBVIOUS

(* No launch is a launch.                                                  *)
LEMMA NoLaunchType == NoLaunch \in Launch /\ NoLaunch.at = "idle" /\ NoLaunch.pin = 0
  BY DEF NoLaunch, Launch

(* The invariant holds initially.                                          *)
LEMMA LoaderInitInv == LoaderInit => LoaderInv
<1> SUFFICES ASSUME LoaderInit PROVE LoaderInv
  OBVIOUS
<1> USE DEF LoaderInit
<1>1. LoaderTypeOK
  BY NoLaunchType DEF LoaderTypeOK
<1>2. LaunchKnows /\ CreatedFromOwnMeta
  BY NoLaunchType DEF LaunchKnows, CreatedFromOwnMeta
<1>3. ProcessesPinned
  BY NoLaunchType DEF ProcessesPinned
<1> QED  BY <1>1, <1>2, <1>3 DEF LoaderInv

---------------------------------------------------------------------------
(* A successful LoadMeta leaves the meta that was asked for in the cache;  *)
(* so does LoadMetaFromCache, if what the cache says of itself is true.    *)
LEMMA MetaLoaded ==
    ASSUME NEW program, NEW status, NEW outcome \in MetaOutcomes(program, status), outcome.ok
    PROVE  /\ outcome.meta = [program |-> program, status |-> status]
           /\ outcome.cached = [program |-> program, status |-> status]
BY DEF MetaOutcomes, LoadMetaFromFile

(* The meta that comes from the cache, or was loaded into it, is that of   *)
(* the program and status asked for.                                       *)
LEMMA CachedMetaLoaded ==
    ASSUME NEW program, NEW status, NEW outcome \in CachedOutcomes(program, status), outcome.ok,
           cached = [program |-> program, status |-> status] => meta = cached
    PROVE  outcome.meta = [program |-> program, status |-> status]
BY MetaLoaded DEF CachedOutcomes

(* LaunchProgram takes the next number, which no pin has.                  *)
LEMMA LaunchInv ==
    ASSUME LoaderInv, NEW program \in LaunchedPrograms, LaunchProgram(program) PROVE LoaderInv'
<1>1. launches \in Nat /\ launches + 1 \in Nat /\ launches + 1 > 0
  BY DEF LoaderInv, LoaderTypeOK
<1>2. /\ launches' = launches + 1
      /\ launch.pin = 0
      /\ pins' = pins /\ processes' = processes /\ cached' = cached /\ meta' = meta
      /\ launch' = [at |-> "get info", program |-> program, status |-> "none", pin |-> 0]
  BY DEF LaunchProgram, NoLaunch
<1>3. launch' \in Launch /\ launch'.pin = 0 /\ launch'.at = "get info"
      /\ launch'.program \in LaunchedPrograms
  BY <1>2 DEF Launch
<1>4. \A p \in processes : p.pin \in 1..launches
  BY DEF LoaderInv, LoaderTypeOK, ProcessesPinned
<1>5. \A p \in processes : p.pin # launches + 1
  BY <1>1, <1>4, UpTo
<1>6. LoaderTypeOK'
  <2>1. DOMAIN pins \subseteq 1..(launches + 1)
    BY <1>1, UpTo DEF LoaderInv, LoaderTypeOK
  <2>2. pins \in [DOMAIN pins -> Pin] /\ processes \subseteq Process
    BY DEF LoaderInv, LoaderTypeOK
  <2> QED  BY <1>1, <1>2, <1>3, <2>1, <2>2 DEF LoaderTypeOK
<1>7. LaunchKnows'
  BY <1>1, <1>2, <1>3, <1>5 DEF LaunchKnows
<1>8. ProcessesPinned' /\ CreatedFromOwnMeta'
  BY <1>2, <1>3 DEF LoaderInv, ProcessesPinned, CreatedFromOwnMeta
<1> QED  BY <1>6, <1>7, <1>8 DEF LoaderInv

(* AtmosphereGetProgramInfo: when it succeeds the cache has the program.   *)
LEMMA GetInfoInv == ASSUME LoaderInv, GetProgramInfo PROVE LoaderInv'
<1> USE DEF LoaderInv
<1>1. /\ launch.pin = 0 /\ launches > 0 /\ launch \in Launch
      /\ launch.program \in LaunchedPrograms
      /\ \A p \in processes : p.pin # launches
      /\ pins' = pins /\ processes' = processes /\ launches' = launches
  BY DEF GetProgramInfo, LaunchKnows, LoaderTypeOK
<1>2. \/ launch' = NoLaunch
      \/ \E status \in Statuses : \E outcome \in MetaOutcomes(launch.program, status) :
            outcome.ok /\ Load(outcome) /\ launch' = [launch EXCEPT !.at = "pin", !.status = status]
  BY DEF GetProgramInfo
<1>3. LaunchKnows' /\ launch' \in Launch /\ launch'.pin = 0
  <2>1. CASE launch' = NoLaunch
    BY <2>1, NoLaunchType DEF LaunchKnows
  <2>2. ASSUME NEW status \in Statuses, NEW outcome \in MetaOutcomes(launch.program, status),
               outcome.ok, Load(outcome), launch' = [launch EXCEPT !.at = "pin", !.status = status]
        PROVE  LaunchKnows' /\ launch' \in Launch /\ launch'.pin = 0
    <3>1. launch'.at = "pin" /\ launch'.program = launch.program /\ launch'.status = status
          /\ launch'.pin = 0 /\ launch' \in Launch
      BY <2>2, <1>1 DEF Launch
    <3>2. cached' = Own' /\ meta' = Own'
      BY <2>2, <3>1, MetaLoaded DEF Load, Own
    <3> QED  BY <3>1, <3>2, <1>1 DEF LaunchKnows
  <2> QED  BY <1>2, <2>1, <2>2
<1>4. LoaderTypeOK' /\ ProcessesPinned' /\ CreatedFromOwnMeta'
  BY <1>1, <1>3 DEF LoaderTypeOK, ProcessesPinned, CreatedFromOwnMeta
<1> QED  BY <1>3, <1>4

(* AtmospherePinProgram: the pin of this launch, or the launch ends.       *)
LEMMA PinInv == ASSUME LoaderInv, PinProgram PROVE LoaderInv'
<1> USE DEF LoaderInv
<1>1. /\ launch.at = "pin" /\ launch.pin = 0 /\ launches \in Nat /\ launches > 0
      /\ launch.program \in LaunchedPrograms /\ launch.status \in Statuses
      /\ cached = Own /\ meta = Own
      /\ \A p \in processes : p.pin # launches
  BY DEF PinProgram, LaunchKnows, LoaderTypeOK
<1>2. /\ cached' = cached /\ meta' = meta /\ processes' = processes /\ launches' = launches
  BY DEF PinProgram
<1>3. CASE launch' = NoLaunch /\ pins' = pins
  BY <1>1, <1>2, <1>3, NoLaunchType
     DEF LoaderTypeOK, LaunchKnows, ProcessesPinned, CreatedFromOwnMeta
<1>4. ASSUME NEW new, new = [program |-> launch.program, status |-> launch.status,
                             process |-> 0, modules |-> "none"],
             pins' = [p \in DOMAIN pins \cup {launches} |-> IF p = launches THEN new ELSE pins[p]],
             launch' = [launch EXCEPT !.at = "create", !.pin = launches]
      PROVE  LoaderInv'
  <2>1. /\ launch'.at = "create" /\ launch'.pin = launches
        /\ launch'.program = launch.program /\ launch'.status = launch.status
        /\ launch' \in Launch
    BY <1>1, <1>4 DEF LoaderTypeOK, Launch
  <2>2. new \in Pin /\ new.process = 0
    BY <1>1, <1>4 DEF Pin
  <2>3. /\ DOMAIN pins' = DOMAIN pins \cup {launches}
        /\ pins' \in [DOMAIN pins' -> Pin] /\ pins'[launches] = new
        /\ \A p \in DOMAIN pins \ {launches} : pins'[p] = pins[p]
    BY <1>4, <2>2 DEF LoaderTypeOK
  <2> HIDE <1>4
  <2>4. LoaderTypeOK'
    BY <1>1, <1>2, <2>1, <2>3 DEF LoaderTypeOK
  <2>5. LaunchKnows'
    BY <1>1, <1>2, <1>4, <2>1, <2>3 DEF LaunchKnows, Own
  <2>6. CreatedFromOwnMeta'
    BY <1>2 DEF CreatedFromOwnMeta
  <2>7. ProcessesPinned'
    BY <1>1, <1>2, <2>1, <2>3 DEF ProcessesPinned
  <2> QED  BY <2>4, <2>5, <2>6, <2>7
<1> QED  BY <1>3, <1>4 DEF PinProgram

(* Taking a pin away: what is known of the others.                         *)
LEMMA WithoutPin ==
    ASSUME LoaderTypeOK, NEW pin
    PROVE  /\ DOMAIN Without(pin) = DOMAIN pins \ {pin}
           /\ Without(pin) \in [DOMAIN Without(pin) -> Pin]
           /\ \A q \in DOMAIN pins \ {pin} : Without(pin)[q] = pins[q]
BY DEF Without, LoaderTypeOK

(* CreateProcess that succeeds: the pin records the process.               *)
LEMMA CreateInv == ASSUME LoaderInv, Create PROVE LoaderInv'
<1> USE DEF LoaderInv
<1>1. /\ launch.at = "create" /\ launch.pin = launches /\ launches \in Nat /\ launches > 0
      /\ launch.program \in LaunchedPrograms /\ launch.status \in Statuses
      /\ cached = Own /\ meta = Own
      /\ \A p \in processes : p.pin # launches
      /\ launches \in DOMAIN pins
      /\ pins[launches].program = launch.program /\ pins[launches].status = launch.status
  BY DEF Create, LaunchKnows, LoaderTypeOK
<1>2. PICK outcome \in CachedOutcomes(launch.program, launch.status) : outcome.ok /\ Load(outcome)
  BY <1>1 DEF Create
<1>3. meta' = Own
  BY <1>1, <1>2, CachedMetaLoaded DEF Load, Own
<1> DEFINE made == [process |-> launches, pin |-> launches, program |-> launch.program,
                    status |-> launch.status, meta |-> Own]
<1>4. /\ pins' = [pins EXCEPT ![launches].process = launches,
                              ![launches].modules = launch.program]
      /\ processes' = processes \cup {made}
      /\ launch' = NoLaunch /\ launches' = launches
  BY <1>1, <1>3 DEF Create
<1>5. made \in Process
  BY <1>1 DEF Process, Own
<1>6. /\ DOMAIN pins' = DOMAIN pins
      /\ \A q \in DOMAIN pins \ {launches} : pins'[q] = pins[q]
      /\ pins'[launches].process = launches /\ pins'[launches].modules = launch.program
      /\ pins' \in [DOMAIN pins' -> Pin]
  <2>1. pins[launches] \in Pin
    BY <1>1 DEF LoaderTypeOK
  <2>2. [pins[launches] EXCEPT !.process = launches, !.modules = launch.program] \in Pin
    BY <2>1, <1>1 DEF Pin
  <2> QED  BY <1>1, <1>4, <2>1, <2>2 DEF LoaderTypeOK, Pin
<1>7. LoaderTypeOK'
  BY <1>1, <1>4, <1>5, <1>6, NoLaunchType DEF LoaderTypeOK
<1>8. LaunchKnows'
  BY <1>4, NoLaunchType DEF LaunchKnows
<1>9. made.pin = launches /\ made.process = launches /\ made.program = launch.program
      /\ made.meta = [program |-> made.program, status |-> made.status]
  BY DEF Own
<1>10. ProcessesPinned'
  <2> HIDE DEF made
  <2> QED  BY <1>1, <1>4, <1>6, <1>9, NoLaunchType DEF ProcessesPinned
<1>11. CreatedFromOwnMeta'
  <2> HIDE DEF made
  <2> QED  BY <1>4, <1>9 DEF CreatedFromOwnMeta
<1> QED  BY <1>7, <1>8, <1>10, <1>11

(* CreateProcess that fails: pm's guard takes the pin away.                *)
LEMMA CreateFailsInv == ASSUME LoaderInv, CreateFails PROVE LoaderInv'
<1> USE DEF LoaderInv
<1>1. /\ launch.pin = launches /\ launches \in Nat /\ launches > 0
      /\ \A p \in processes : p.pin # launches
      /\ pins' = Without(launches) /\ launch' = NoLaunch
      /\ processes' = processes /\ launches' = launches
  BY DEF CreateFails, UnpinFailed, LaunchKnows, LoaderTypeOK
<1>2. LoaderTypeOK'
  BY <1>1, WithoutPin, NoLaunchType DEF LoaderTypeOK
<1>3. LaunchKnows' /\ CreatedFromOwnMeta'
  BY <1>1, NoLaunchType DEF LaunchKnows, CreatedFromOwnMeta
<1>4. ProcessesPinned'
  <2>1. \A p \in processes : p.pin \in DOMAIN pins' /\ pins'[p.pin] = pins[p.pin]
    BY <1>1, WithoutPin DEF ProcessesPinned
  <2>2. ASSUME NEW n \in Nat
        PROVE  n \in DOMAIN pins' <=> \E p \in processes : p.pin = n
    BY <1>1, WithoutPin DEF ProcessesPinned
  <2>3. launch'.pin = 0
    BY <1>1, NoLaunchType
  <2> QED  BY <1>1, <2>1, <2>2, <2>3 DEF ProcessesPinned
<1> QED  BY <1>2, <1>3, <1>4

(* The end of a process takes its pin, which is nobody else's.             *)
LEMMA ProcessEndsInv == ASSUME LoaderInv, ProcessEnds PROVE LoaderInv'
<1> USE DEF LoaderInv
<1>1. PICK p \in processes : processes' = processes \ {p} /\ pins' = Without(p.pin)
                             /\ UNCHANGED <<cached, meta, launch, launches>>
  BY DEF ProcessEnds
<1>2. LoaderTypeOK'
  BY <1>1, WithoutPin DEF LoaderTypeOK
<1>3. LaunchKnows'
  BY <1>1, WithoutPin DEF LaunchKnows, Own
<1>4. \A q \in processes : q.pin # launch.pin
  <2>1. CASE launch.at = "create"
    BY <2>1 DEF LaunchKnows
  <2>2. CASE launch.at # "create"
    <3>1. launch.pin = 0
      BY <2>2, NoLaunchType DEF LaunchKnows, LoaderTypeOK, Launch
    <3>2. \A q \in processes : q.pin \in 1..launches
      BY DEF ProcessesPinned, LoaderTypeOK
    <3>3. launches \in Nat /\ 0 \notin 1..launches
      BY DEF LoaderTypeOK
    <3> QED  BY <3>1, <3>2, <3>3
  <2> QED  BY <2>1, <2>2
<1>5. \A q \in processes' : q \in processes /\ q.pin # p.pin
  BY <1>1 DEF ProcessesPinned
<1>6. ProcessesPinned'
  <2>1. \A q \in processes' : q.pin \in DOMAIN pins' /\ pins'[q.pin] = pins[q.pin]
    BY <1>1, <1>5, WithoutPin DEF ProcessesPinned
  <2>2. ASSUME NEW n \in Nat
        PROVE  n \in DOMAIN pins' <=> \/ \E q \in processes' : q.pin = n
                                      \/ n = launch.pin /\ n # 0
    <3>1. n \in DOMAIN pins' <=> n \in DOMAIN pins /\ n # p.pin
      BY <1>1, WithoutPin
    <3>2. (\E q \in processes' : q.pin = n) <=> (\E q \in processes : q.pin = n) /\ n # p.pin
      BY <1>1, <1>5
    <3> QED  BY <3>1, <3>2, <1>4 DEF ProcessesPinned
  <2>3. /\ \A q \in processes' : q.process = q.pin /\ pins[q.pin].process = q.pin
                                 /\ pins[q.pin].modules = q.program
        /\ \A q, r \in processes' : q.pin = r.pin => q = r
    BY <1>5 DEF ProcessesPinned
  <2>4. launch' = launch
    BY <1>1
  <2> QED  BY <2>1, <2>2, <2>3, <2>4 DEF ProcessesPinned
<1>7. CreatedFromOwnMeta'
  BY <1>5 DEF CreatedFromOwnMeta
<1> QED  BY <1>2, <1>3, <1>6, <1>7

---------------------------------------------------------------------------
(* The requests of others change nothing that is spoken of here, and pm    *)
(* looks at a program again only when no launch is under way.              *)
LEMMA OthersInv ==
    ASSUME LoaderInv, UNCHANGED <<pins, launch, processes, launches>>,
           launch = NoLaunch \/ UNCHANGED <<cached, meta>>
    PROVE  LoaderInv'
<1> USE DEF LoaderInv
<1>1. LoaderTypeOK' /\ ProcessesPinned' /\ CreatedFromOwnMeta'
  BY DEF LoaderTypeOK, ProcessesPinned, CreatedFromOwnMeta
<1>2. LaunchKnows'
  BY NoLaunchType DEF LaunchKnows, Own
<1> QED  BY <1>1, <1>2

(* The invariant always holds.                                             *)
LEMMA LoaderInvAlways == LoaderSpec => []LoaderInv
<1>1. LoaderInv /\ [LoaderNext]_loaderVars => LoaderInv'
  <2> SUFFICES ASSUME LoaderInv, [LoaderNext]_loaderVars PROVE LoaderInv'
    OBVIOUS
  <2>1. ASSUME NEW p \in LaunchedPrograms,
               \/ SetProgramArguments(p) \/ RegisterExternalCode(p) \/ UnregisterExternalCode(p)
        PROVE  LoaderInv'
    BY <2>1, OthersInv DEF SetProgramArguments, RegisterExternalCode, UnregisterExternalCode
  <2>2. CASE FlushArguments
    BY <2>2, OthersInv DEF FlushArguments
  <2>3. CASE StartProcess
    BY <2>3, OthersInv DEF StartProcess, ServesClients
  <2>4. CASE UNCHANGED loaderVars
    BY <2>4, OthersInv DEF loaderVars
  <2> QED  BY <2>1, <2>2, <2>3, <2>4, LaunchInv, GetInfoInv, PinInv, CreateInv, CreateFailsInv,
              ProcessEndsInv DEF LoaderNext
<1> QED  BY <1>1, LoaderInitInv, PTL DEF LoaderSpec

(* The modules of a process are found by its own pin: the pins of others,  *)
(* and of a launch that has made no process yet, name other processes.     *)
LEMMA OwnPinOnly ==
    ASSUME LoaderInv, NEW p \in processes PROVE ModulesOf(p.process) = {p.program}
<1>1. p.process = p.pin /\ p.pin \in DOMAIN pins /\ p.pin > 0 /\ pins[p.pin].process = p.pin
      /\ pins[p.pin].modules = p.program
  BY DEF LoaderInv, LoaderTypeOK, ProcessesPinned
<1>2. ASSUME NEW q \in DOMAIN pins, pins[q].process = p.pin PROVE q = p.pin
  <2>1. CASE \E r \in processes : r.pin = q
    BY <1>2, <2>1 DEF LoaderInv, ProcessesPinned
  <2>2. CASE q = launch.pin /\ q # 0
    <3>1. launch.at = "create"
      BY <2>2, NoLaunchType DEF LoaderInv, LaunchKnows, LoaderTypeOK, Launch
    <3>2. pins[q].process = 0
      BY <2>2, <3>1 DEF LoaderInv, LaunchKnows
    <3> QED  BY <1>1, <1>2, <3>2
  <2>3. q \in Nat
    BY <1>2 DEF LoaderInv, LoaderTypeOK
  <2> QED  BY <2>1, <2>2, <2>3 DEF LoaderInv, ProcessesPinned
<1>3. {q \in DOMAIN pins : pins[q].process = p.process} = {p.pin}
  BY <1>1, <1>2
<1> QED  BY <1>1, <1>3 DEF ModulesOf

(* Whatever else was looked at in between and whichever step fails, every  *)
(* process is created from the meta of its own program and override status,*)
(* and no pin is left behind (LaunchProcess in pm, CreateProcess in loader).*)
THEOREM LaunchesAreKept == LoaderSpec => []LaunchesKept
<1>1. LoaderInv => LaunchesKept
  <2>1. LoaderInv => DOMAIN pins = {p.pin : p \in processes} \cup ({launch.pin} \ {0})
    <3> SUFFICES ASSUME LoaderInv
                 PROVE  DOMAIN pins = {p.pin : p \in processes} \cup ({launch.pin} \ {0})
      OBVIOUS
    <3>1. DOMAIN pins \subseteq Nat /\ launch.pin \in Nat
      BY UpTo DEF LoaderInv, LoaderTypeOK, Launch
    <3>2. \A p \in processes : p.pin \in Nat
      BY DEF LoaderInv, LoaderTypeOK, Process
    <3>3. \A n \in Nat : n \in DOMAIN pins <=> \/ \E p \in processes : p.pin = n
                                               \/ n = launch.pin /\ n # 0
      BY DEF LoaderInv, ProcessesPinned
    <3> QED  BY <3>1, <3>2, <3>3
  <2> QED  BY <2>1, OwnPinOnly DEF LaunchesKept, PinsAccounted, LoaderInv
<1> QED  BY <1>1, LoaderInvAlways, PTL

(* The types of the pins, the processes and the launch.                    *)
THEOREM LoaderTypesCorrect == LoaderSpec => []LoaderTypeOK
  BY LoaderInvAlways, PTL DEF LoaderInv

(***************************************************************************)
(* rnx_mitm: the layered storages and their initializer.                   *)
(***************************************************************************)
Client == [at : {"idle", "lock", "request", "acknowledge", "publish", "read"},
           storage : StorageIds \cup {None}]
Storage == [program : GamePrograms \cup {None}, is_initialized : BOOLEAN]
Initializer == [at : {"receive", "acknowledge", "initialize"},
                storage : StorageIds \cup {None}, target : StorageIds \cup {None}]

(* The types.                                                              *)
StorageTypeOK ==
    /\ game_of \in [FsSessions -> GamePrograms]
    /\ client \in [FsSessions -> Client]
    /\ storage_cache \in [GamePrograms -> StorageIds \cup {None}]
    /\ data_storage_lock \in FsSessions \cup {None}
    /\ initializer \in Initializer
    /\ storages \in [StorageIds -> Storage]
    /\ \A mq \in {req_mq, ack_mq} : mq = <<>> \/ \E s \in StorageIds : mq = <<s>>

(* The request that makes a storage has the lock all the time, and until   *)
(* it publishes it no storage of its program is known.                     *)
Making == {"request", "acknowledge", "publish"}
MakerHasLock ==
    \A c \in FsSessions :
        /\ client[c].at \in Making <=> data_storage_lock = c
        /\ client[c].at \in Making => client[c].storage # None /\ storage_cache[game_of[c]] = None
        /\ client[c].at = "lock" => client[c].storage = None
        /\ client[c].at = "read" => client[c].storage # None

(* A storage is of the program of whoever has it.                          *)
HeldStoragesThere ==
    /\ \A c \in FsSessions : client[c].storage # None =>
            storages[client[c].storage].program = game_of[c]
    /\ \A p \in GamePrograms : storage_cache[p] # None => storages[storage_cache[p]].program = p

(* The weak reference is of the storage the sessions have, and of no other.*)
CacheOfSessions ==
    /\ \A c \in FsSessions : client[c].at \notin Making /\ client[c].storage # None =>
            storage_cache[game_of[c]] = client[c].storage
    /\ \A p \in GamePrograms : storage_cache[p] # None =>
            \E c \in FsSessions : client[c].at \notin Making /\ client[c].storage = storage_cache[p]

(* One message is under way, or the thread has taken it; it is of the      *)
(* storage of the request that waits, and what the thread took it keeps.   *)
OneMessage ==
    /\ req_mq # <<>> => /\ ack_mq = <<>> /\ initializer.at # "acknowledge"
                        /\ \E c \in FsSessions : client[c].at = "acknowledge" /\ req_mq = <<client[c].storage>>
    /\ ack_mq # <<>> => /\ initializer.at # "acknowledge"
                        /\ \E c \in FsSessions : client[c].at = "acknowledge" /\ ack_mq = <<client[c].storage>>
    /\ initializer.at = "acknowledge" =>
           \E c \in FsSessions : client[c].at = "acknowledge" /\ client[c].storage = initializer.target
    /\ initializer.storage = initializer.target
    /\ initializer.at = "receive" <=> initializer.target = None
    /\ initializer.target # None => storages[initializer.target].program # None

StorageInv ==
    StorageTypeOK /\ MakerHasLock /\ HeldStoragesThere /\ CacheOfSessions /\ OneMessage

(* The invariant holds before anything is opened.                          *)
LEMMA StorageInitInv == ASSUME StorageInit PROVE StorageInv
<1> USE NoneIsNothing DEF StorageInit
<1>1. StorageTypeOK
  BY DEF StorageTypeOK, Client, Storage, Initializer, NoStorage
<1>2. MakerHasLock
  BY DEF MakerHasLock, Making
<1>3. HeldStoragesThere /\ CacheOfSessions
  BY DEF HeldStoragesThere, CacheOfSessions
<1>4. OneMessage
  BY DEF OneMessage
<1> QED  BY <1>1, <1>2, <1>3, <1>4 DEF StorageInv

(* What At leaves: the other sessions.                                     *)
LEMMA AtOne ==
    ASSUME StorageTypeOK, NEW c \in FsSessions, NEW at, NEW s, [at |-> at, storage |-> s] \in Client,
           client' = At(c, at, s)
    PROVE  /\ client' \in [FsSessions -> Client]
           /\ client'[c].at = at /\ client'[c].storage = s
           /\ \A d \in FsSessions : d # c => client'[d] = client[d]
  BY DEF StorageTypeOK, At

(* A storage that a session or the thread has is not collected.            *)
LEMMA CollectedKeeps ==
    ASSUME NEW clients, NEW thread, NEW table \in [StorageIds -> Storage]
    PROVE  /\ Collected(clients, thread, table) \in [StorageIds -> Storage]
           /\ \A c \in FsSessions : clients[c].storage \in StorageIds =>
                  Collected(clients, thread, table)[clients[c].storage] = table[clients[c].storage]
           /\ thread.storage \in StorageIds =>
                  Collected(clients, thread, table)[thread.storage] = table[thread.storage]
<1>1. NoStorage \in Storage
  BY DEF NoStorage, Storage
<1> QED  BY <1>1 DEF Collected, Users

(* The storage that is being made is nobody else's.                        *)
LEMMA MakersAlone ==
    ASSUME StorageInv, NEW c \in FsSessions, client[c].at \in Making
    PROVE  /\ client[c].storage \in StorageIds
           /\ \A d \in FsSessions : d # c => client[d].at \notin Making
                                             /\ client[d].storage # client[c].storage
           /\ \A p \in GamePrograms : storage_cache[p] # client[c].storage
<1>1. client[c].storage # None /\ client[c].storage \in StorageIds /\ data_storage_lock = c
      /\ storage_cache[game_of[c]] = None /\ game_of[c] \in GamePrograms
  BY DEF StorageInv, MakerHasLock, StorageTypeOK, Client
<1>2. \A d \in FsSessions : d # c => client[d].at \notin Making
  BY <1>1 DEF StorageInv, MakerHasLock
<1>3. ASSUME NEW d \in FsSessions, d # c, client[d].storage = client[c].storage PROVE FALSE
  <2>1. storages[client[c].storage].program = game_of[c]
    BY <1>1 DEF StorageInv, HeldStoragesThere
  <2>2. storages[client[c].storage].program = game_of[d]
    BY <1>1, <1>3 DEF StorageInv, HeldStoragesThere
  <2>3. storage_cache[game_of[d]] # None
    BY <1>1, <1>2, <1>3 DEF StorageInv, CacheOfSessions
  <2> QED  BY <1>1, <2>1, <2>2, <2>3
<1>4. ASSUME NEW p \in GamePrograms, storage_cache[p] = client[c].storage PROVE FALSE
  <2>1. storages[client[c].storage].program = game_of[c]
    BY <1>1 DEF StorageInv, HeldStoragesThere
  <2>2. storages[client[c].storage].program = p
    BY <1>1, <1>4 DEF StorageInv, HeldStoragesThere
  <2> QED  BY <1>1, <1>4, <2>1, <2>2
<1> QED  BY <1>1, <1>2, <1>3, <1>4

(* Who waits for an acknowledgement is the only one.                       *)
LEMMA OneWaits ==
    ASSUME StorageInv, NEW c \in FsSessions, NEW d \in FsSessions,
           client[c].at \in Making, client[d].at \in Making
    PROVE  c = d
  BY DEF StorageInv, MakerHasLock
---------------------------------------------------------------------------
(* One lemma for each action.  A session that only moves between the       *)
(* places that hold no lock, with the storage it has or without any.       *)
LEMMA MoveInv ==
    ASSUME StorageInv, NEW c \in FsSessions,
           client[c].at \in {"idle", "read"}, NEW at \in {"idle", "lock", "read"},
           at = "lock" <=> client[c].storage = None /\ at # "idle",
           client' = At(c, at, client[c].storage),
           UNCHANGED <<game_of, storage_cache, data_storage_lock, req_mq, ack_mq, initializer, storages>>
    PROVE  StorageInv'
<1> USE DEF StorageInv
<1>1. [at |-> at, storage |-> client[c].storage] \in Client
  BY DEF StorageTypeOK, Client
<1>2. /\ client' \in [FsSessions -> Client]
      /\ client'[c].at = at /\ client'[c].storage = client[c].storage
      /\ \A d \in FsSessions : d # c => client'[d] = client[d]
  BY <1>1, AtOne
<1>3. \A d \in FsSessions : /\ client'[d].storage = client[d].storage
                            /\ client'[d].at \in Making <=> client[d].at \in Making
                            /\ client[d].at \in Making => client'[d] = client[d]
  BY <1>2 DEF Making
<1>4. StorageTypeOK'
  BY <1>2 DEF StorageTypeOK
<1>5. MakerHasLock'
  BY <1>2, <1>3 DEF MakerHasLock, Making
<1>6. HeldStoragesThere'
  BY <1>3 DEF HeldStoragesThere
<1>7. CacheOfSessions'
  BY <1>3 DEF CacheOfSessions
<1>8. OneMessage'
  BY <1>3 DEF OneMessage, Making
<1> QED  BY <1>4, <1>5, <1>6, <1>7, <1>8

(* A session opens the storage.                                            *)
LEMMA OpenInv ==
    ASSUME StorageInv, NEW c \in FsSessions, OpenDataStorage(c) PROVE StorageInv'
  BY MoveInv DEF OpenDataStorage

(* A session reads from it.                                                *)
LEMMA ReadInv ==
    ASSUME StorageInv, NEW c \in FsSessions, ReadStorage(c) PROVE StorageInv'
  BY MoveInv DEF ReadStorage

(* A session is answered.                                                  *)
LEMMA AnswerInv ==
    ASSUME StorageInv, NEW c \in FsSessions, AnswerRead(c) PROVE StorageInv'
  BY MoveInv DEF AnswerRead

(* FindStorage: the cached storage, or a fresh one.                        *)
LEMMA FindInv ==
    ASSUME StorageInv, NEW c \in FsSessions, FindStorage(c) PROVE StorageInv'
<1> USE DEF StorageInv
<1> DEFINE cached_storage == storage_cache[game_of[c]]
<1>0. /\ client[c].at = "lock" /\ data_storage_lock = None /\ client[c].storage = None
      /\ game_of[c] \in GamePrograms /\ cached_storage \in StorageIds \cup {None}
      /\ UNCHANGED <<game_of, storage_cache, req_mq, ack_mq, initializer>>
  BY DEF FindStorage, MakerHasLock, StorageTypeOK
<1>1. \A d \in FsSessions : client[d].at \notin Making
  BY <1>0, NoneIsNothing DEF MakerHasLock
<1>2. req_mq = <<>> /\ ack_mq = <<>> /\ initializer.at # "acknowledge"
  BY <1>1 DEF OneMessage, Making
<1>3. CASE /\ cached_storage # None /\ client' = At(c, "idle", cached_storage)
           /\ UNCHANGED <<data_storage_lock, storages>>
  <2>1. [at |-> "idle", storage |-> cached_storage] \in Client
    BY <1>0 DEF Client
  <2>2. /\ client' \in [FsSessions -> Client]
        /\ client'[c].at = "idle" /\ client'[c].storage = cached_storage
        /\ \A d \in FsSessions : d # c => client'[d] = client[d]
    BY <1>3, <2>1, AtOne
  <2>3. StorageTypeOK' /\ OneMessage'
    BY <1>0, <1>2, <1>3, <2>2 DEF StorageTypeOK, OneMessage
  <2>4. MakerHasLock'
    BY <1>0, <1>1, <1>3, <2>2 DEF MakerHasLock, Making
  <2>5. HeldStoragesThere'
    BY <1>0, <1>3, <2>2 DEF HeldStoragesThere
  <2>6. CacheOfSessions'
    BY <1>0, <1>3, <2>2 DEF CacheOfSessions, Making
  <2> QED  BY <2>3, <2>4, <2>5, <2>6
<1>4. ASSUME NEW s \in StorageIds, cached_storage = None, storages[s] = NoStorage,
             client' = At(c, "request", s), data_storage_lock' = c,
             storages' = [storages EXCEPT ![s].program = game_of[c]]
      PROVE  StorageInv'
  <2>1. [at |-> "request", storage |-> s] \in Client
    BY DEF Client
  <2>2. /\ client' \in [FsSessions -> Client]
        /\ client'[c].at = "request" /\ client'[c].storage = s
        /\ \A d \in FsSessions : d # c => client'[d] = client[d]
    BY <1>4, <2>1, AtOne
  <2>3. /\ storages' \in [StorageIds -> Storage] /\ storages'[s].program = game_of[c]
        /\ \A x \in StorageIds : x # s => storages'[x] = storages[x]
        /\ storages[s].program = None
    <3>1. storages \in [StorageIds -> Storage] /\ storages[s].program = None
      BY <1>4 DEF StorageTypeOK, NoStorage
    <3>2. /\ storages' = [storages EXCEPT ![s] = [storages[s] EXCEPT !.program = game_of[c]]]
          /\ storages[s] \in Storage
      BY <1>4, <3>1
    <3>3. /\ [storages[s] EXCEPT !.program = game_of[c]] \in Storage
          /\ [storages[s] EXCEPT !.program = game_of[c]].program = game_of[c]
      BY <1>0, <3>2 DEF Storage
    <3> QED  BY <3>1, <3>2, <3>3
  <2>4. \A d \in FsSessions : client[d].storage # s
    BY <1>4, <2>3, NoneIsNothing DEF HeldStoragesThere, StorageTypeOK
  <2>5. initializer.target # s /\ \A p \in GamePrograms : storage_cache[p] # s
    BY <1>4, <2>3, NoneIsNothing DEF OneMessage, HeldStoragesThere
  <2>6. StorageTypeOK'
    BY <1>0, <1>4, <2>2, <2>3 DEF StorageTypeOK
  <2>7. MakerHasLock'
    BY <1>0, <1>1, <1>4, <2>2, NoneIsNothing DEF MakerHasLock, Making
  <2>8. HeldStoragesThere'
    BY <1>0, <2>2, <2>3, <2>4, <2>5 DEF HeldStoragesThere, StorageTypeOK, Client
  <2>9. CacheOfSessions'
    BY <1>0, <2>2 DEF CacheOfSessions, Making
  <2>10. OneMessage'
    BY <1>0, <1>2, <2>3, <2>5 DEF OneMessage, StorageTypeOK, Initializer
  <2> QED  BY <2>6, <2>7, <2>8, <2>9, <2>10
<1> QED  BY <1>3, <1>4 DEF FindStorage

(* RequestInitializeStorage sends; no message is under way, for whoever    *)
(* would wait for it has the lock.                                         *)
LEMMA RequestInv ==
    ASSUME StorageInv, NEW c \in FsSessions, RequestInitializeStorage(c)
    PROVE  StorageInv'
<1> USE DEF StorageInv
<1>1. /\ client[c].at = "request" /\ client[c].storage \in StorageIds
      /\ req_mq' = <<client[c].storage>> /\ client' = At(c, "acknowledge", client[c].storage)
      /\ UNCHANGED <<game_of, storage_cache, data_storage_lock, ack_mq, initializer, storages>>
  BY MakersAlone DEF RequestInitializeStorage, Making
<1>2. [at |-> "acknowledge", storage |-> client[c].storage] \in Client
  BY <1>1 DEF Client
<1>3. /\ client' \in [FsSessions -> Client]
      /\ client'[c].at = "acknowledge" /\ client'[c].storage = client[c].storage
      /\ \A d \in FsSessions : d # c => client'[d] = client[d]
  BY <1>1, <1>2, AtOne
<1>4. \A d \in FsSessions : client[d].at # "acknowledge"
  BY <1>1, OneWaits DEF Making
<1>5. StorageTypeOK'
  BY <1>1, <1>3 DEF StorageTypeOK
<1>6. MakerHasLock'
  BY <1>1, <1>3 DEF MakerHasLock, Making
<1>7. HeldStoragesThere'
  BY <1>1, <1>3 DEF HeldStoragesThere
<1>8. CacheOfSessions'
  BY <1>1, <1>3 DEF CacheOfSessions, Making
<1>9. OneMessage'
  BY <1>1, <1>3, <1>4 DEF OneMessage
<1> QED  BY <1>5, <1>6, <1>7, <1>8, <1>9

(* The acknowledgement was the only message.                               *)
LEMMA AckInv ==
    ASSUME StorageInv, NEW c \in FsSessions, ReceiveAck(c) PROVE StorageInv'
<1> USE DEF StorageInv
<1>1. /\ client[c].at = "acknowledge" /\ client[c].storage \in StorageIds
      /\ ack_mq # <<>> /\ ack_mq' = <<>> /\ client' = At(c, "publish", client[c].storage)
      /\ UNCHANGED <<game_of, storage_cache, data_storage_lock, req_mq, initializer, storages>>
  BY MakersAlone DEF ReceiveAck, Making
<1>2. [at |-> "publish", storage |-> client[c].storage] \in Client
  BY <1>1 DEF Client
<1>3. /\ client' \in [FsSessions -> Client]
      /\ client'[c].at = "publish" /\ client'[c].storage = client[c].storage
      /\ \A d \in FsSessions : d # c => client'[d] = client[d]
  BY <1>1, <1>2, AtOne
<1>4. req_mq = <<>> /\ initializer.at # "acknowledge"
  BY <1>1 DEF OneMessage
<1>5. StorageTypeOK'
  BY <1>1, <1>3 DEF StorageTypeOK
<1>6. MakerHasLock'
  BY <1>1, <1>3 DEF MakerHasLock, Making
<1>7. HeldStoragesThere'
  BY <1>1, <1>3 DEF HeldStoragesThere
<1>8. CacheOfSessions'
  BY <1>1, <1>3 DEF CacheOfSessions, Making
<1>9. OneMessage'
  BY <1>1, <1>3, <1>4 DEF OneMessage
<1> QED  BY <1>5, <1>6, <1>7, <1>8, <1>9

(* SetStorageCacheEntry: no storage of the program was known, so its own   *)
(* is published, and nothing loses its last user.                          *)
LEMMA PublishInv ==
    ASSUME StorageInv, NEW c \in FsSessions, SetStorageCacheEntry(c)
    PROVE  StorageInv'
<1> USE DEF StorageInv
<1> DEFINE s == client[c].storage
<1>1. /\ client[c].at = "publish" /\ s \in StorageIds /\ game_of[c] \in GamePrograms
      /\ storage_cache[game_of[c]] = None
      /\ client' = At(c, "idle", s) /\ storage_cache' = [storage_cache EXCEPT ![game_of[c]] = s]
      /\ storages' = Collected(client', initializer, storages) /\ data_storage_lock' = None
      /\ UNCHANGED <<game_of, req_mq, ack_mq, initializer>>
  BY MakersAlone DEF SetStorageCacheEntry, Making, MakerHasLock, StorageTypeOK
<1>2. [at |-> "idle", storage |-> s] \in Client
  BY <1>1 DEF Client
<1>3. /\ client' \in [FsSessions -> Client]
      /\ client'[c].at = "idle" /\ client'[c].storage = s
      /\ \A d \in FsSessions : d # c => client'[d] = client[d]
  BY <1>1, <1>2, AtOne
<1>4. \A d \in FsSessions : client'[d].at \notin Making /\ client'[d].storage = client[d].storage
  BY <1>1, <1>3, MakersAlone DEF Making
<1>5. req_mq = <<>> /\ ack_mq = <<>> /\ initializer.at # "acknowledge"
  BY <1>1, OneWaits DEF OneMessage, Making
<1>6. /\ storages' \in [StorageIds -> Storage]
      /\ \A d \in FsSessions : client[d].storage \in StorageIds =>
             storages'[client[d].storage] = storages[client[d].storage]
      /\ initializer.storage \in StorageIds =>
             storages'[initializer.storage] = storages[initializer.storage]
  BY <1>1, <1>4, CollectedKeeps DEF StorageTypeOK
<1>7. /\ storage_cache' \in [GamePrograms -> StorageIds \cup {None}]
      /\ storage_cache'[game_of[c]] = s
      /\ \A p \in GamePrograms : p # game_of[c] => storage_cache'[p] = storage_cache[p]
  BY <1>1 DEF StorageTypeOK
<1>8. StorageTypeOK'
  BY <1>1, <1>3, <1>6, <1>7 DEF StorageTypeOK
<1>9. MakerHasLock'
  BY <1>1, <1>3, <1>4, NoneIsNothing DEF MakerHasLock, Making
<1>10. CacheOfSessions'
  <2>1. ASSUME NEW d \in FsSessions, client'[d].storage # None
        PROVE  storage_cache'[game_of[d]] = client'[d].storage
    <3>1. CASE d = c
      BY <1>1, <1>3, <1>7, <3>1
    <3>2. CASE d # c
      <4>1. storage_cache[game_of[d]] = client[d].storage
        BY <1>1, <1>3, <1>4, <2>1, <3>2 DEF CacheOfSessions
      <4> QED  BY <1>1, <1>4, <1>7, <2>1, <4>1 DEF StorageTypeOK
    <3> QED  BY <3>1, <3>2
  <2>2. ASSUME NEW p \in GamePrograms, storage_cache'[p] # None
        PROVE  \E d \in FsSessions : client'[d].storage = storage_cache'[p]
    BY <1>3, <1>4, <1>7, <2>2 DEF CacheOfSessions
  <2> QED  BY <1>1, <1>4, <2>1, <2>2 DEF CacheOfSessions
<1>11. HeldStoragesThere'
  <2>1. ASSUME NEW d \in FsSessions, client'[d].storage # None
        PROVE  storages'[client'[d].storage].program = game_of[d]
    BY <1>4, <1>6, <2>1 DEF HeldStoragesThere, StorageTypeOK, Client
  <2>2. ASSUME NEW p \in GamePrograms, storage_cache'[p] # None
        PROVE  storages'[storage_cache'[p]].program = p
    <3>1. CASE p = game_of[c]
      BY <1>1, <1>3, <1>7, <2>1, <3>1, NoneIsNothing
    <3>2. CASE p # game_of[c]
      <4>1. storage_cache[p] # None /\ storage_cache'[p] = storage_cache[p]
        BY <1>7, <2>2, <3>2
      <4>2. PICK d \in FsSessions : client[d].storage = storage_cache[p]
        BY <4>1 DEF CacheOfSessions
      <4>3. storages'[storage_cache[p]] = storages[storage_cache[p]]
        BY <1>6, <4>1, <4>2 DEF StorageTypeOK
      <4> QED  BY <4>1, <4>3 DEF HeldStoragesThere
    <3> QED  BY <3>1, <3>2
  <2> QED  BY <1>1, <2>1, <2>2 DEF HeldStoragesThere
<1>12. OneMessage'
  BY <1>1, <1>5, <1>6, NoneIsNothing DEF OneMessage, StorageTypeOK, Initializer
<1> QED  BY <1>8, <1>9, <1>10, <1>11, <1>12

(* The thread takes the message, and a reference to its storage.           *)
LEMMA ThreadReceiveInv ==
    ASSUME StorageInv, InitializerReceive PROVE StorageInv'
<1> USE DEF StorageInv
<1>1. PICK c \in FsSessions : client[c].at = "acknowledge" /\ req_mq = <<client[c].storage>>
  BY DEF InitializerReceive, OneMessage
<1>2. client[c].storage \in StorageIds /\ client[c].storage # None /\ ack_mq = <<>>
  BY <1>1, MakersAlone DEF Making, OneMessage, MakerHasLock
<1>3. /\ initializer' = [at |-> "acknowledge", storage |-> client[c].storage,
                         target |-> client[c].storage]
      /\ req_mq' = <<>>
      /\ UNCHANGED <<game_of, client, storage_cache, data_storage_lock, ack_mq, storages>>
  BY <1>1 DEF InitializerReceive
<1>4. storages[client[c].storage].program # None
  BY <1>2, NoneIsNothing DEF HeldStoragesThere, StorageTypeOK
<1>5. StorageTypeOK'
  BY <1>2, <1>3 DEF StorageTypeOK, Initializer
<1>6. MakerHasLock' /\ HeldStoragesThere' /\ CacheOfSessions'
  BY <1>3 DEF MakerHasLock, HeldStoragesThere, CacheOfSessions
<1>7. OneMessage'
  BY <1>1, <1>2, <1>3, <1>4 DEF OneMessage
<1> QED  BY <1>5, <1>6, <1>7

(* The thread that makes storages acknowledges its message to the session  *)
(* waiting for it.                                                         *)
LEMMA ThreadAckInv ==
    ASSUME StorageInv, InitializerAck PROVE StorageInv'
<1> USE DEF StorageInv
<1>1. PICK c \in FsSessions : client[c].at = "acknowledge" /\ client[c].storage = initializer.target
  BY DEF InitializerAck, OneMessage
<1>2. client[c].storage \in StorageIds
  BY <1>1, MakersAlone DEF Making
<1>3. /\ initializer.at = "acknowledge" /\ initializer \in Initializer
      /\ initializer' = [initializer EXCEPT !.at = "initialize"]
      /\ ack_mq' = <<client[c].storage>>
      /\ UNCHANGED <<game_of, client, storage_cache, data_storage_lock, req_mq, storages>>
  BY <1>1 DEF InitializerAck, StorageTypeOK
<1>4. /\ initializer' \in Initializer /\ initializer'.at = "initialize"
      /\ initializer'.storage = initializer.storage /\ initializer'.target = initializer.target
  BY <1>3 DEF Initializer
<1>5. req_mq = <<>>
  BY <1>3 DEF OneMessage
<1>6. StorageTypeOK'
  BY <1>2, <1>3, <1>4 DEF StorageTypeOK
<1>7. MakerHasLock' /\ HeldStoragesThere' /\ CacheOfSessions'
  BY <1>3 DEF MakerHasLock, HeldStoragesThere, CacheOfSessions
<1>8. OneMessage'
  BY <1>1, <1>2, <1>3, <1>4, <1>5 DEF OneMessage
<1> QED  BY <1>6, <1>7, <1>8

(* The thread gives its reference back: what sessions have stays.          *)
LEMMA ThreadInitializeInv ==
    ASSUME StorageInv, InitializeImpl PROVE StorageInv'
<1> USE DEF StorageInv
<1> DEFINE built == [storages EXCEPT ![initializer.target].is_initialized = TRUE]
<1>1. /\ initializer.at = "initialize" /\ initializer.target \in StorageIds
      /\ initializer' = [at |-> "receive", storage |-> None, target |-> None]
      /\ storages' = Collected(client, initializer', built)
      /\ UNCHANGED <<game_of, client, storage_cache, data_storage_lock, req_mq, ack_mq>>
  BY DEF InitializeImpl, OneMessage, StorageTypeOK, Initializer
<1>2. /\ built \in [StorageIds -> Storage]
      /\ \A s \in StorageIds : built[s].program = storages[s].program
  <2>1. storages[initializer.target] \in Storage /\ storages \in [StorageIds -> Storage]
    BY <1>1 DEF StorageTypeOK
  <2>2. /\ [storages[initializer.target] EXCEPT !.is_initialized = TRUE] \in Storage
        /\ [storages[initializer.target] EXCEPT !.is_initialized = TRUE].program
             = storages[initializer.target].program
    BY <2>1 DEF Storage
  <2>3. built = [storages EXCEPT ![initializer.target] =
                    [storages[initializer.target] EXCEPT !.is_initialized = TRUE]]
    BY <2>1
  <2> HIDE DEF built
  <2> QED  BY <2>1, <2>2, <2>3
<1> HIDE DEF built
<1>3. /\ storages' \in [StorageIds -> Storage]
      /\ \A c \in FsSessions : client[c].storage \in StorageIds =>
             storages'[client[c].storage].program = storages[client[c].storage].program
  BY <1>1, <1>2, CollectedKeeps
<1>4. StorageTypeOK'
  BY <1>1, <1>3 DEF StorageTypeOK, Initializer
<1>5. MakerHasLock' /\ CacheOfSessions'
  BY <1>1 DEF MakerHasLock, CacheOfSessions
<1>6. HeldStoragesThere'
  <2>1. \A c \in FsSessions : client[c].storage # None => client[c].storage \in StorageIds
    BY DEF StorageTypeOK, Client
  <2>2. \A p \in GamePrograms : storage_cache[p] # None =>
            \E c \in FsSessions : client[c].storage = storage_cache[p]
    BY DEF CacheOfSessions
  <2> QED  BY <1>1, <1>3, <2>1, <2>2 DEF HeldStoragesThere
<1>7. OneMessage'
  BY <1>1 DEF OneMessage
<1> QED  BY <1>4, <1>5, <1>6, <1>7

(* CloseStorage: the last user of a storage takes the weak reference with  *)
(* it, and no other.                                                       *)
LEMMA CloseInv ==
    ASSUME StorageInv, NEW c \in FsSessions, CloseStorage(c) PROVE StorageInv'
<1> USE DEF StorageInv
<1>1. /\ client[c].at = "idle" /\ client[c].storage # None
      /\ client' = At(c, "idle", None)
      /\ storages' = Collected(client', initializer, storages)
      /\ storage_cache' = Expired(client', storage_cache)
      /\ UNCHANGED <<game_of, data_storage_lock, req_mq, ack_mq, initializer>>
  BY DEF CloseStorage
<1>2. [at |-> "idle", storage |-> None] \in Client
  BY DEF Client
<1>3. /\ client' \in [FsSessions -> Client]
      /\ client'[c].at = "idle" /\ client'[c].storage = None
      /\ \A d \in FsSessions : d # c => client'[d] = client[d]
  BY <1>1, <1>2, AtOne
<1>4. \A d \in FsSessions : /\ client'[d].at = client[d].at
                            /\ client'[d].storage # None => client'[d].storage = client[d].storage
                            /\ client[d].at \in Making => client'[d] = client[d]
  BY <1>1, <1>3 DEF Making
<1>5. /\ storages' \in [StorageIds -> Storage]
      /\ \A d \in FsSessions : client'[d].storage \in StorageIds =>
             storages'[client'[d].storage] = storages[client'[d].storage]
      /\ initializer.storage \in StorageIds =>
             storages'[initializer.storage] = storages[initializer.storage]
  BY <1>1, CollectedKeeps DEF StorageTypeOK
<1>6. /\ storage_cache' \in [GamePrograms -> StorageIds \cup {None}]
      /\ \A p \in GamePrograms : storage_cache'[p] \in {None, storage_cache[p]}
      /\ \A p \in GamePrograms : storage_cache'[p] # None =>
             \E d \in FsSessions : /\ client'[d].storage = storage_cache[p]
                                   /\ client'[d].at \notin {"request", "acknowledge"}
      /\ \A d \in FsSessions, p \in GamePrograms :
             /\ client'[d].storage = storage_cache[p]
             /\ client'[d].at \notin {"request", "acknowledge"}
             => storage_cache'[p] = storage_cache[p]
  <2>1. storage_cache \in [GamePrograms -> StorageIds \cup {None}]
    BY DEF StorageTypeOK
  <2> QED  BY <1>1, <2>1 DEF Expired, InterfaceHolders
<1>7. StorageTypeOK'
  BY <1>1, <1>3, <1>5, <1>6 DEF StorageTypeOK
<1>8. MakerHasLock'
  <2>1. \A d \in FsSessions : client[d].at \in Making => storage_cache'[game_of[d]] = None
    BY <1>6 DEF MakerHasLock, StorageTypeOK
  <2> QED  BY <1>1, <1>3, <1>4, <2>1 DEF MakerHasLock
<1>9. CacheOfSessions'
  <2>1. ASSUME NEW d \in FsSessions, client'[d].at \notin Making, client'[d].storage # None
        PROVE  storage_cache'[game_of[d]] = client'[d].storage
    <3>1. storage_cache[game_of[d]] = client'[d].storage /\ game_of[d] \in GamePrograms
      BY <1>4, <2>1 DEF CacheOfSessions, StorageTypeOK
    <3> QED  BY <1>6, <2>1, <3>1 DEF Making
  <2>2. ASSUME NEW p \in GamePrograms, storage_cache'[p] # None
        PROVE  \E d \in FsSessions : /\ client'[d].at \notin Making
                                     /\ client'[d].storage = storage_cache'[p]
    <3>1. PICK d \in FsSessions : /\ client'[d].storage = storage_cache[p]
                                  /\ storage_cache'[p] = storage_cache[p]
      BY <1>6, <2>2
    <3>2. client[d].at \notin Making
      BY <1>4, <3>1, MakersAlone
    <3> QED  BY <1>4, <3>1, <3>2
  <2> QED  BY <1>1, <2>1, <2>2 DEF CacheOfSessions
<1>10. HeldStoragesThere'
  <2>1. \A d \in FsSessions : client'[d].storage # None =>
            storages'[client'[d].storage].program = game_of[d]
    BY <1>3, <1>4, <1>5 DEF HeldStoragesThere, Client
  <2>2. ASSUME NEW p \in GamePrograms, storage_cache'[p] # None
        PROVE  storages'[storage_cache'[p]].program = p
    <3>1. PICK d \in FsSessions : client'[d].storage = storage_cache[p]
      BY <1>6, <2>2
    <3>2. storage_cache'[p] = storage_cache[p] /\ storage_cache[p] \in StorageIds
      BY <1>6, <2>2
    <3> QED  BY <1>5, <3>1, <3>2, <2>2 DEF HeldStoragesThere
  <2> QED  BY <1>1, <2>1, <2>2 DEF HeldStoragesThere
<1>11. OneMessage'
  BY <1>1, <1>4, <1>5 DEF OneMessage, Making, StorageTypeOK, Initializer
<1> QED  BY <1>7, <1>8, <1>9, <1>10, <1>11

---------------------------------------------------------------------------
(* The invariant always holds.                                             *)
LEMMA StorageInvAlways == StorageSpec => []StorageInv
<1>1. StorageInit => StorageInv
  BY StorageInitInv
<1>2. StorageInv /\ [StorageNext]_storageVars => StorageInv'
  <2> SUFFICES ASSUME StorageInv, [StorageNext]_storageVars PROVE StorageInv'
    OBVIOUS
  <2>1. CASE StorageNext
    BY <2>1, OpenInv, ReadInv, AnswerInv, FindInv, RequestInv, AckInv, PublishInv,
       ThreadReceiveInv, ThreadAckInv, ThreadInitializeInv, CloseInv
       DEF StorageNext, StorageProgress
  <2>2. CASE UNCHANGED storageVars
    BY <2>2 DEF storageVars, StorageInv, StorageTypeOK, MakerHasLock, HeldStoragesThere,
                CacheOfSessions, OneMessage
  <2> QED  BY <2>1, <2>2
<1> QED  BY <1>1, <1>2, PTL DEF StorageSpec

(* For any sessions, programs and threads: one storage for the sessions of *)
(* a program, never a freed one for the thread, and the acknowledgement is *)
(* of the storage that was sent (RequestInitializeStorage).                *)
THEOREM StoragesAreShared == StorageSpec => []StoragesShared
<1>1. StorageInv => StoragesShared
  <2> SUFFICES ASSUME StorageInv PROVE StoragesShared
    OBVIOUS
  <2> USE DEF StorageInv
  <2>1. ASSUME NEW c \in FsSessions, NEW d \in FsSessions, game_of[c] = game_of[d],
               client[c].at \in {"idle", "read"}, client[d].at \in {"idle", "read"},
               None \notin {client[c].storage, client[d].storage}
        PROVE  client[c].storage = client[d].storage
    BY <2>1 DEF CacheOfSessions, Making
  <2>2. initializer.target # None => storages[initializer.target] # NoStorage
    BY DEF OneMessage, NoStorage
  <2>3. \A c \in FsSessions : client[c].storage # None =>
            storages[client[c].storage].program = game_of[c]
    BY DEF HeldStoragesThere
  <2>4. ASSUME NEW c \in FsSessions, client[c].at = "acknowledge", ack_mq # <<>>
        PROVE  ack_mq = <<client[c].storage>>
    BY <2>4, OneWaits DEF OneMessage, Making
  <2> QED  BY <2>1, <2>2, <2>3, <2>4 DEF StoragesShared
<1> QED  BY <1>1, StorageInvAlways, PTL

(* The types of the sessions, the storages and the thread.                 *)
THEOREM StorageTypesCorrect == StorageSpec => []StorageTypeOK
  BY StorageInvAlways, PTL DEF StorageInv

(***************************************************************************)
(* rnx_mitm: redirected saves.                                             *)
(***************************************************************************)
Save == [present : BOOLEAN, working : SaveContents, committed : SaveContents]
SaveRequest == [at : {"closed", "looked", "ensured", "initialized", "open", "played"},
                is_new_save : BOOLEAN]

(* Versions are in a directory that is there; a request that found none,   *)
(* and is yet to copy, has nothing of the game's before it; and once the   *)
(* library has initialised the save, a committed version is the working    *)
(* one as well, until the game writes.                                     *)
SaveInv ==
    /\ sd_save \in Save /\ save_request \in SaveRequest
    /\ sd_save.working # "absent" \/ sd_save.committed # "absent" => sd_save.present
    /\ save_request.at \notin {"closed", "looked"} => sd_save.present
    /\ save_request.is_new_save /\ save_request.at \in {"looked", "ensured", "initialized"}
       => sd_save.working # "new" /\ sd_save.committed # "new"
    /\ save_request.at \in {"initialized", "open"} /\ sd_save.committed = "new"
       => sd_save.working = "new"

(* What a game committed to its redirected save is what it finds, whatever *)
(* failed in the meantime and whenever the console was switched off: only  *)
(* a directory that is not there makes a save a new one, and the library   *)
(* restores the working version (OpenSaveDataFileSystem).                  *)
THEOREM CommitsAreKept == SaveSpec => []CommitsKept
<1> USE DEF Save, SaveRequest, SaveContents
<1>1. SaveInit => SaveInv
  BY DEF SaveInit, SaveInv, CloseSave
<1>2. SaveInv /\ [SaveNext]_saveVars => SaveInv'
  <2> SUFFICES ASSUME SaveInv, [SaveNext]_saveVars PROVE SaveInv'
    OBVIOUS
  <2> USE DEF SaveInv, CloseSave
  <2>1. CASE LookForSave
    <3>1. PICK found \in BOOLEAN :
              /\ sd_save.present => found
              /\ save_request' = [at |-> "looked", is_new_save |-> ~found]
      BY <2>1 DEF LookForSave
    <3>2. sd_save' = sd_save /\ (save_request'.is_new_save => ~sd_save.present)
      BY <2>1, <3>1 DEF LookForSave
    <3> QED  BY <3>1, <3>2
  <2>2. CASE EnsureDirectory
    <3>1. CASE /\ sd_save' = [sd_save EXCEPT !.present = TRUE]
               /\ save_request' = [save_request EXCEPT !.at = "ensured"]
      BY <2>2, <3>1 DEF EnsureDirectory
    <3>2. CASE save_request' = CloseSave /\ UNCHANGED sd_save
      BY <3>2
    <3> QED  BY <2>2, <3>1, <3>2 DEF EnsureDirectory
  <2>3. CASE InitializeSave
    <3>1. ASSUME sd_save.working = "absent", save_request.at = "ensured",
                 sd_save' = [sd_save EXCEPT !.working = "empty"],
                 save_request' \in {save_request, CloseSave}
          PROVE  SaveInv'
      <4>1. CASE save_request' = save_request
        BY <3>1, <4>1
      <4>2. CASE save_request' = CloseSave
        BY <3>1, <4>2
      <4> QED  BY <3>1, <4>1, <4>2
    <3>2. ASSUME save_request.at = "ensured",
                 sd_save' = [sd_save EXCEPT
                    !.committed = IF @ = "absent" THEN sd_save.working ELSE @,
                    !.working = IF sd_save.committed = "absent" THEN @ ELSE sd_save.committed],
                 save_request' = [save_request EXCEPT !.at = "initialized"]
          PROVE  SaveInv'
      BY <3>2
    <3>3. CASE save_request' = CloseSave /\ UNCHANGED sd_save
      BY <3>3
    <3> QED  BY <2>3, <3>1, <3>2, <3>3 DEF InitializeSave
  <2>4. CASE CopySaveFromFileSystem
    <3>1. /\ save_request.at = "initialized" /\ save_request' \in SaveRequest
          /\ save_request'.at = "open"
      BY <2>4 DEF CopySaveFromFileSystem
    <3>2. CASE UNCHANGED sd_save
      BY <3>1, <3>2
    <3>3. ASSUME save_request.is_new_save,
                 \/ sd_save' = [sd_save EXCEPT !.working = "old", !.committed = "old"]
                 \/ sd_save' = [sd_save EXCEPT !.working = "part"]
          PROVE  SaveInv'
      <4>1. /\ sd_save' \in Save /\ sd_save'.present = sd_save.present
            /\ sd_save'.committed # "new"
        BY <3>1, <3>3
      <4> QED  BY <3>1, <4>1
    <3> QED  BY <2>4, <3>2, <3>3 DEF CopySaveFromFileSystem
  <2>5. CASE PlaySave
    <3>1. CASE /\ save_request.at \in {"open", "played"}
               /\ sd_save' = [sd_save EXCEPT !.working = "new"]
               /\ save_request' = [save_request EXCEPT !.at = "played"]
      BY <3>1
    <3>2. CASE sd_save' = [sd_save EXCEPT !.committed = sd_save.working] /\ UNCHANGED save_request
      BY <2>5, <3>2 DEF PlaySave
    <3>3. CASE save_request' = CloseSave /\ UNCHANGED sd_save
      BY <3>3
    <3> QED  BY <2>5, <3>1, <3>2, <3>3 DEF PlaySave
  <2>6. CASE SwitchOff
    BY <2>6 DEF SwitchOff
  <2>7. CASE UNCHANGED saveVars
    BY <2>7 DEF saveVars
  <2> QED  BY <2>1, <2>2, <2>3, <2>4, <2>5, <2>6, <2>7 DEF SaveNext
<1>3. SaveInv => CommitsKept
  BY DEF SaveInv, CommitsKept
<1> QED  BY <1>1, <1>2, <1>3, PTL DEF SaveSpec

(***************************************************************************)
(* fatal.                                                                  *)
(***************************************************************************)
ShownPolicies == {"ErrorReportAndErrorScreen", "ErrorScreen"}
Places == {"start", "done", "first query", "wait for report", "last try", "loop", "try", "watch"}
RepairErrors == {"InRepairWithoutVolHeld", "InRepairWithoutTimeReviserCartridge"}

Calls == (UNION {CallsOf(command) : command \in 0..2}) \cup {SelfCall(r) : r \in RepairErrors}

(* The types.                                                              *)
FatalTypeOK ==
    /\ has_thrown \in BOOLEAN /\ battery_good \in BOOLEAN
    /\ fatal_events \in [erpt : BOOLEAN, battery : BOOLEAN, fatal : BOOLEAN]
    /\ fatal_tasks # <<>> => fatal_tasks \in [TaskNames -> Places]
    /\ console \in {"on", "shutdown", "rebooted", "aborted"}

(* What the tasks work with is the context of the one throw there was.     *)
ContextOfThrow ==
    IF has_thrown
    THEN first_throw \in Calls /\ throw_context = ContextThrown(first_throw)
    ELSE first_throw = NoThrow /\ throw_context = NoContext

TasksAfterThrow == fatal_tasks # <<>> => has_thrown /\ first_throw.policy \in ShownPolicies

ShownOfThrow ==
    \A shown \in {screen, report} : shown # <<>> =>
        /\ has_thrown /\ first_throw.policy \in ShownPolicies
        /\ shown.result = throw_context.result

BatteryFirst == /\ fatal_events.battery => battery_good
                /\ screen # <<>> => battery_good

FatalInv == /\ FatalTypeOK /\ ContextOfThrow /\ TasksAfterThrow /\ ShownOfThrow /\ BatteryFirst
            /\ ScreenNotForgotten

(* The invariant holds before the first throw.                             *)
LEMMA FatalInitInv == ASSUME FatalInit PROVE FatalInv
<1> USE DEF FatalInit
<1>1. FatalTypeOK
  BY DEF FatalTypeOK
<1>2. ContextOfThrow /\ TasksAfterThrow /\ ShownOfThrow /\ BatteryFirst /\ ScreenNotForgotten
  BY DEF ContextOfThrow, TasksAfterThrow, ShownOfThrow, BatteryFirst, ScreenNotForgotten
<1> QED  BY <1>1, <1>2 DEF FatalInv

(* ThrowFatal, when nothing was thrown before: no task runs yet, and       *)
(* nothing is shown.                                                       *)
LEMMA ThrowInv ==
    ASSUME FatalInv, NEW call \in Calls, ThrowFatal(call) PROVE FatalInv'
<1> USE DEF FatalInv
<1>1. /\ ~has_thrown /\ has_thrown' = TRUE /\ first_throw' = call /\ throw_context' = ContextThrown(call)
      /\ UNCHANGED <<screen, report, battery_good>>
      /\ screen = <<>> /\ report = <<>> /\ fatal_tasks = <<>>
  BY DEF ThrowFatal, ShownOfThrow, TasksAfterThrow
<1>2. \/ /\ call.policy \in ShownPolicies /\ fatal_events' = [fatal_events EXCEPT !.fatal = TRUE]
         /\ fatal_tasks' \in {FirstPlace, <<>>} /\ console' = console
      \/ console' = "aborted" /\ UNCHANGED <<fatal_events, fatal_tasks>>
  BY <1>1 DEF ThrowFatal, RunTasks, ShownPolicies
<1>3. FirstPlace \in [TaskNames -> Places] /\ FirstPlace["power"] = "first query"
  BY DEF FirstPlace, TaskNames, Places
<1>4. /\ fatal_events' \in [erpt : BOOLEAN, battery : BOOLEAN, fatal : BOOLEAN]
      /\ fatal_events'.battery = fatal_events.battery
  BY <1>2 DEF FatalTypeOK
<1>5. FatalTypeOK'
  BY <1>1, <1>2, <1>3, <1>4 DEF FatalTypeOK
<1>6. ContextOfThrow'
  BY <1>1 DEF ContextOfThrow
<1>7. TasksAfterThrow'
  BY <1>1, <1>2 DEF TasksAfterThrow
<1>8. ShownOfThrow' /\ BatteryFirst'
  BY <1>1, <1>4 DEF ShownOfThrow, BatteryFirst
<1>9. ScreenNotForgotten'
  BY <1>1, <1>2, <1>3 DEF ScreenNotForgotten
<1> QED  BY <1>5, <1>6, <1>7, <1>8, <1>9

(* The other steps: tasks change their places and set events; what they    *)
(* show is of the context.                                                 *)
LEMMA TaskInv ==
    ASSUME FatalInv, UNCHANGED <<has_thrown, throw_context, first_throw>>,
           console' \in {"on", "shutdown", "rebooted", "aborted"},
           fatal_tasks # <<>> \/ UNCHANGED <<fatal_tasks, screen, report>>,
           fatal_tasks # <<>> => fatal_tasks' \in [TaskNames -> Places],
           fatal_events' \in [erpt : BOOLEAN, battery : BOOLEAN, fatal : BOOLEAN],
           battery_good' \in BOOLEAN, battery_good => battery_good',
           fatal_events'.battery => battery_good',
           fatal_events.battery => fatal_events'.battery,
           \A shown \in {screen', report'} :
               \/ shown \in {screen, report} \/ shown.result = throw_context.result,
           screen' = screen \/ fatal_events.battery,
           report' = report \/ report'.result = throw_context.result,
           console # "on" => console' # "on",
           fatal_tasks' # <<>> /\ fatal_tasks'["power"] = "done" =>
               fatal_tasks["power"] = "done" \/ console' # "on" \/ battery_good'
    PROVE  FatalInv'
<1> USE DEF FatalInv
<1>1. FatalTypeOK'
  BY DEF FatalTypeOK
<1>2. ContextOfThrow' /\ TasksAfterThrow'
  BY DEF ContextOfThrow, TasksAfterThrow
<1>3. ShownOfThrow'
  BY DEF ShownOfThrow, TasksAfterThrow
<1>4. BatteryFirst'
  BY DEF BatteryFirst
<1>5. ScreenNotForgotten'
  BY DEF ScreenNotForgotten
<1> QED  BY <1>1, <1>2, <1>3, <1>4, <1>5

(* A task goes from one place to another; the other tasks, and what was    *)
(* thrown, stay.                                                           *)
LEMMA GoMoves ==
    ASSUME FatalInv, NEW task \in TaskNames, NEW from, NEW to \in Places, Go(task, from, to)
    PROVE  /\ fatal_tasks # <<>> /\ fatal_tasks[task] = from /\ fatal_tasks'[task] = to
           /\ fatal_tasks' \in [TaskNames -> Places]
           /\ \A t \in TaskNames : t # task => fatal_tasks'[t] = fatal_tasks[t]
           /\ UNCHANGED <<has_thrown, throw_context, first_throw>>
<1>1. fatal_tasks # <<>> /\ fatal_tasks \in [TaskNames -> Places]
  BY DEF Go, FatalInv, FatalTypeOK
<1> QED  BY <1>1 DEF Go

(* The tasks that are not the power task leave its place alone.            *)
LEMMA OtherTaskInv ==
    ASSUME FatalInv, NEW task \in TaskNames \ {"power"}, NEW from, NEW to \in Places,
           Go(task, from, to), UNCHANGED battery_good,
           console' \in {"on", "shutdown", "rebooted", "aborted"}, console # "on" => console' # "on",
           fatal_events' \in [erpt : BOOLEAN, battery : BOOLEAN, fatal : BOOLEAN],
           fatal_events'.battery = fatal_events.battery,
           screen' = screen \/ (fatal_events.battery /\ screen'.result = throw_context.result),
           report' = report \/ report'.result = throw_context.result
    PROVE  FatalInv'
<1>1. /\ fatal_tasks # <<>> /\ fatal_tasks' \in [TaskNames -> Places]
      /\ fatal_tasks'["power"] = fatal_tasks["power"]
      /\ UNCHANGED <<has_thrown, throw_context, first_throw>>
  BY GoMoves DEF TaskNames
<1>2. FatalTypeOK /\ BatteryFirst
  BY DEF FatalInv
<1>3. /\ battery_good' \in BOOLEAN
      /\ battery_good => battery_good'
      /\ fatal_events'.battery => battery_good'
      /\ fatal_events.battery => fatal_events'.battery
  BY <1>2 DEF FatalTypeOK, BatteryFirst
<1> QED  BY <1>1, <1>3, TaskInv

(* The report is written, to its end or not.                               *)
LEMMA WriteReportInv == ASSUME FatalInv, WriteReport PROVE FatalInv'
<1>1. fatal_events \in [erpt : BOOLEAN, battery : BOOLEAN, fatal : BOOLEAN]
      /\ console \in {"on", "shutdown", "rebooted", "aborted"}
  BY DEF FatalInv, FatalTypeOK
<1>2. /\ Go("report", "start", "done") /\ UNCHANGED <<screen, console, battery_good>>
      /\ fatal_events' = [fatal_events EXCEPT !.erpt = TRUE]
      /\ report' = report \/ report'.result = throw_context.result
  BY DEF WriteReport
<1>3. /\ fatal_events' \in [erpt : BOOLEAN, battery : BOOLEAN, fatal : BOOLEAN]
      /\ fatal_events'.battery = fatal_events.battery
  BY <1>1, <1>2
<1>4. "report" \in TaskNames \ {"power"} /\ "done" \in Places
  BY DEF TaskNames, Places
<1> QED  BY <1>1, <1>2, <1>3, <1>4, OtherTaskInv

(* The error is shown.                                                     *)
LEMMA ShowFatalInv == ASSUME FatalInv, ShowFatal PROVE FatalInv'
<1>1. fatal_events \in [erpt : BOOLEAN, battery : BOOLEAN, fatal : BOOLEAN]
      /\ console \in {"on", "shutdown", "rebooted", "aborted"}
  BY DEF FatalInv, FatalTypeOK
<1>2. /\ Go("screen", "start", "done") /\ UNCHANGED <<fatal_events, report, battery_good>>
      /\ fatal_events.battery
      /\ screen' = screen \/ screen'.result = throw_context.result
      /\ console' = console \/ console' = "aborted"
  BY DEF ShowFatal
<1>3. "screen" \in TaskNames \ {"power"} /\ "done" \in Places
  BY DEF TaskNames, Places
<1> QED  BY <1>1, <1>2, <1>3, OtherTaskInv

(* The power button is waited for.                                         *)
LEMMA ButtonInv ==
    ASSUME FatalInv,
           ButtonWaited \/ SecondPasses \/ \E pressed \in BOOLEAN : WatchButtons(pressed)
    PROVE  FatalInv'
<1>1. fatal_events \in [erpt : BOOLEAN, battery : BOOLEAN, fatal : BOOLEAN]
      /\ console \in {"on", "shutdown", "rebooted", "aborted"}
  BY DEF FatalInv, FatalTypeOK
<1>2. /\ \E from \in Places, to \in Places : Go("button", from, to)
      /\ UNCHANGED <<fatal_events, screen, report, battery_good>>
      /\ console' = console \/ console' = "rebooted"
  BY DEF ButtonWaited, SecondPasses, WatchButtons, Places
<1>3. "button" \in TaskNames \ {"power"}
  BY DEF TaskNames
<1> QED  BY <1>1, <1>2, <1>3, OtherTaskInv

(* The power task: it sets its event, and remembers a good battery.        *)
LEMMA PowerTaskInv ==
    ASSUME FatalInv, NEW from, NEW to \in Places, Go("power", from, to),
           UNCHANGED <<screen, report>>, battery_good' \in BOOLEAN, battery_good => battery_good',
           console' \in {"on", "shutdown", "rebooted", "aborted"}, console # "on" => console' # "on",
           fatal_events' \in [erpt : BOOLEAN, battery : BOOLEAN, fatal : BOOLEAN],
           fatal_events'.battery => battery_good', fatal_events.battery => fatal_events'.battery,
           to = "done" => console' # "on" \/ battery_good'
    PROVE  FatalInv'
<1>1. /\ fatal_tasks # <<>> /\ fatal_tasks' \in [TaskNames -> Places] /\ fatal_tasks'["power"] = to
      /\ UNCHANGED <<has_thrown, throw_context, first_throw>>
  BY GoMoves DEF TaskNames
<1> QED  BY <1>1, TaskInv

(* The battery is read, and decides.                                       *)
LEMMA PowerInv ==
    ASSUME FatalInv,
           \/ \E s \in BatteryStates : FirstQuery(s) \/ LoopQuery(s) \/ TryShutdown(s)
           \/ PowerWaited
    PROVE  FatalInv'
<1>1. /\ fatal_events \in [erpt : BOOLEAN, battery : BOOLEAN, fatal : BOOLEAN]
      /\ console \in {"on", "shutdown", "rebooted", "aborted"} /\ battery_good \in BOOLEAN
      /\ fatal_events.battery => battery_good
  BY DEF FatalInv, FatalTypeOK, BatteryFirst
<1>2. CASE PowerWaited
  <2>1. /\ Go("power", "wait for report", "last try") /\ "last try" \in Places
        /\ UNCHANGED <<fatal_events, console, battery_good, screen, report>>
    BY <1>2 DEF PowerWaited, PowerUnchanged, Places
  <2> QED  BY <1>1, <2>1, PowerTaskInv
<1>3. ASSUME NEW s \in BatteryStates, FirstQuery(s) PROVE FatalInv'
  <2>1. UNCHANGED <<console, screen, report>>
    BY <1>3 DEF FirstQuery, PowerUnchanged
  <2>2. CASE Bad(s)
    <3>1. /\ Go("power", "first query", "wait for report") /\ UNCHANGED <<fatal_events, battery_good>>
          /\ "wait for report" \in Places
      BY <1>3, <2>2 DEF FirstQuery, Places
    <3> QED  BY <1>1, <2>1, <3>1, PowerTaskInv
  <2>3. CASE ~Bad(s)
    <3>1. /\ Go("power", "first query", "loop") /\ "loop" \in Places /\ battery_good' = TRUE
          /\ fatal_events' = [fatal_events EXCEPT !.battery = TRUE]
      BY <1>3, <2>3 DEF FirstQuery, Places
    <3>2. /\ fatal_events' \in [erpt : BOOLEAN, battery : BOOLEAN, fatal : BOOLEAN]
          /\ fatal_events.battery => fatal_events'.battery
      BY <1>1, <3>1
    <3> QED  BY <1>1, <2>1, <3>1, <3>2, PowerTaskInv
  <2> QED  BY <2>2, <2>3
<1>4. ASSUME NEW s \in BatteryStates, LoopQuery(s) PROVE FatalInv'
  <2>1. /\ \E to \in Places : Go("power", "loop", to) /\ to # "done"
        /\ UNCHANGED <<fatal_events, console, battery_good, screen, report>>
    BY <1>4 DEF LoopQuery, PowerUnchanged, Places
  <2> QED  BY <1>1, <2>1, PowerTaskInv
<1>5. ASSUME NEW s \in BatteryStates, TryShutdown(s) PROVE FatalInv'
  <2>1. UNCHANGED <<fatal_events, screen, report>>
    BY <1>5 DEF TryShutdown, PowerUnchanged
  <2>2. \E place \in {"try", "last try"} :
          \/ Go("power", place, "done") /\ console' = "shutdown" /\ UNCHANGED battery_good
          \/ /\ Go("power", place, IF place = "try" THEN "loop" ELSE "done")
             /\ battery_good' = TRUE /\ UNCHANGED console
          \/ Go("power", place, place) /\ UNCHANGED <<console, battery_good>>
    BY <1>5 DEF TryShutdown
  <2>3. {"try", "last try", "loop", "done"} \subseteq Places
    BY DEF Places
  <2>4. PICK place \in {"try", "last try"} :
          \/ Go("power", place, "done") /\ console' = "shutdown" /\ UNCHANGED battery_good
          \/ /\ Go("power", place, IF place = "try" THEN "loop" ELSE "done")
             /\ battery_good' = TRUE /\ UNCHANGED console
          \/ Go("power", place, place) /\ UNCHANGED <<console, battery_good>>
    BY <2>2
  <2>5. CASE Go("power", place, "done") /\ console' = "shutdown" /\ UNCHANGED battery_good
    BY <1>1, <2>1, <2>3, <2>5, PowerTaskInv
  <2>6. CASE Go("power", place, place) /\ UNCHANGED <<console, battery_good>>
    BY <1>1, <2>1, <2>3, <2>6, PowerTaskInv
  <2>7. CASE /\ Go("power", place, IF place = "try" THEN "loop" ELSE "done")
             /\ battery_good' = TRUE /\ UNCHANGED console
    <3> DEFINE to == IF place = "try" THEN "loop" ELSE "done"
    <3>1. to \in Places
      BY <2>3
    <3>2. Go("power", place, to)
      BY <2>7
    <3> HIDE DEF to
    <3> QED  BY <1>1, <2>1, <2>7, <3>1, <3>2, PowerTaskInv
  <2> QED  BY <2>4, <2>5, <2>6, <2>7
<1> QED  BY <1>2, <1>3, <1>4, <1>5

(* Sound and backlight are turned off.                                     *)
LEMMA QuietDownInv == ASSUME FatalInv, QuietDown PROVE FatalInv'
<1>1. /\ fatal_events \in [erpt : BOOLEAN, battery : BOOLEAN, fatal : BOOLEAN]
      /\ console \in {"on", "shutdown", "rebooted", "aborted"} /\ battery_good \in BOOLEAN
      /\ fatal_events.battery => battery_good
      /\ fatal_tasks # <<>> => fatal_tasks \in [TaskNames -> Places]
  BY DEF FatalInv, FatalTypeOK, BatteryFirst
<1>2. /\ fatal_tasks # <<>>
      /\ UNCHANGED <<has_thrown, throw_context, first_throw, fatal_events, screen, report, console,
                     battery_good>>
      /\ fatal_tasks' = [t \in TaskNames |-> IF t \in QuietTasks THEN "done" ELSE fatal_tasks[t]]
  BY DEF QuietDown
<1>3. /\ fatal_tasks' \in [TaskNames -> Places] /\ fatal_tasks'["power"] = fatal_tasks["power"]
  BY <1>1, <1>2 DEF TaskNames, QuietTasks, Places
<1> QED  BY <1>1, <1>2, <1>3, TaskInv

(* What fatal throws to itself is a call like any other.                   *)
LEMMA SelfCallIsCall == ASSUME NEW r \in RepairErrors PROVE SelfCall(r) \in Calls
  BY DEF Calls

(* The repair status is read, and thrown where it is bad.                  *)
LEMMA CheckRepairStatusInv == ASSUME FatalInv, CheckRepairStatus PROVE FatalInv'
<1>1. repair' \in RepairErrors \cup {"none"}
  BY DEF CheckRepairStatus, RepairError, RepairErrors
<1>2. CASE repair' = "none"
  <2>1. UNCHANGED <<has_thrown, throw_context, fatal_events, fatal_tasks, screen, report, console,
                    first_throw, battery_good>>
    BY <1>2 DEF CheckRepairStatus
  <2> QED  BY <2>1 DEF FatalInv, FatalTypeOK, ContextOfThrow, TasksAfterThrow, ShownOfThrow,
                       BatteryFirst, ScreenNotForgotten
<1>3. CASE repair' # "none"
  <2>1. ThrowFatal(SelfCall(repair'))
    BY <1>3 DEF CheckRepairStatus
  <2>2. SelfCall(repair') \in Calls
    BY <1>1, <1>3, SelfCallIsCall
  <2> QED  BY <2>1, <2>2, ThrowInv
<1> QED  BY <1>2, <1>3

(* Every step keeps the invariant.                                         *)
LEMMA FatalNextInv == ASSUME FatalInv, [FatalNext]_fatalVars PROVE FatalInv'
<1>1. CASE UNCHANGED fatalVars
  BY <1>1 DEF fatalVars, FatalInv, FatalTypeOK, ContextOfThrow, TasksAfterThrow, ShownOfThrow,
              BatteryFirst, ScreenNotForgotten
<1>2. CASE Request
  BY <1>2, ThrowInv DEF Request, Calls
<1> QED  BY <1>1, <1>2, CheckRepairStatusInv, WriteReportInv, ShowFatalInv, ButtonInv, PowerInv,
            QuietDownInv DEF FatalNext

(* What a call says: its command, how far the debugging of its thrower     *)
(* gets, and which results a thrower that is debugged can have.            *)
LEMMA CallShapes ==
    ASSUME NEW call \in Calls
    PROVE  /\ call.command \in 0..2 /\ call.debug \in Debugs
           /\ call.debug # "not debugged" => call.result \in {"success", "error"}
<1>1. ASSUME NEW r \in RepairErrors, call = SelfCall(r)
      PROVE  call.command = 1 /\ call.debug = "not debugged"
  BY <1>1 DEF SelfCall, NoThrow
<1>2. ASSUME NEW command \in 0..2, call \in CallsOf(command)
      PROVE  /\ call.command = command /\ call.debug \in Debugs
             /\ call.result \in {"success", "error"}
  BY <1>2 DEF CallsOf
<1>3. \/ \E command \in 0..2 : call \in CallsOf(command)
      \/ \E r \in RepairErrors : call = SelfCall(r)
  BY DEF Calls
<1>4. CASE \E r \in RepairErrors : call = SelfCall(r)
  <2>1. call.command = 1 /\ call.debug = "not debugged"
    BY <1>1, <1>4
  <2>2. call.command \in 0..2
    <3>1. 1 \in 0..2
      OBVIOUS
    <3> QED  BY <2>1, <3>1, Zenon
  <2>3. call.debug \in Debugs
    BY <2>1 DEF Debugs
  <2> QED  BY <2>1, <2>2, <2>3, Zenon
<1>5. CASE \E command \in 0..2 : call \in CallsOf(command)
  <2>1. PICK command \in 0..2 : call \in CallsOf(command)
    BY <1>5
  <2>2. call.command = command /\ call.debug \in Debugs /\ call.result \in {"success", "error"}
    BY <1>2, <2>1
  <2> QED  BY <2>2
<1> QED  BY <1>3, <1>4, <1>5

(* The thread that threw is the only one that can be taken for it: the     *)
(* request of the first is answered, that of the second has another result.*)
LEMMA OnlyThrowerMatches ==
    ASSUME NEW call \in Calls, call.result # "other"
    PROVE  Callers(call.result, ThreadsOf(call)) =
              IF call.debug # "unreadable" /\ call.command < 2 THEN {3} ELSE {}
<1> DEFINE threads == ThreadsOf(call)
<1>1. /\ DOMAIN threads = 1..3
      /\ threads[1] = Thread(0, call.result, 0, FALSE, TRUE)
      /\ threads[2] = Thread(0, "other", 0, TRUE, TRUE)
      /\ threads[3] = Thread(call.command, call.result, MaxStackTraceDepth + 1, TRUE,
                             call.debug # "unreadable")
  BY DEF ThreadsOf
<1>2. ~IsThreadFatalCaller(call.result, threads[1]) /\ ~IsThreadFatalCaller(call.result, threads[2])
  BY <1>1 DEF IsThreadFatalCaller, Thread
<1>3. IsThreadFatalCaller(call.result, threads[3]) <=>
          call.debug # "unreadable" /\ call.command \in {0, 1}
  <2>1. /\ threads[3].readable = (call.debug # "unreadable")
        /\ threads[3].state = "Waiting" /\ threads[3].at_svc = TRUE
        /\ threads[3].command = call.command /\ threads[3].result = call.result
    BY <1>1 DEF Thread
  <2> HIDE DEF threads
  <2>2. KnownCommand(threads[3]) <=> call.command \in {0, 1}
    BY <2>1 DEF KnownCommand, SentBuffers
  <2> QED  BY <2>1, <2>2, Zenon DEF IsThreadFatalCaller
<1>4. call.command \in {0, 1} <=> call.command < 2
  <2>1. call.command \in 0..2
    BY CallShapes
  <2> QED  BY <2>1
<1> HIDE DEF threads
<1>5. Callers(call.result, threads) =
          IF IsThreadFatalCaller(call.result, threads[3]) THEN {3} ELSE {}
  <2>1. \A i \in DOMAIN threads : i \in {1, 2} \/ i = 3
    BY <1>1
  <2>2. 3 \in DOMAIN threads
    BY <1>1
  <2>3. \A i \in DOMAIN threads : IsThreadFatalCaller(call.result, threads[i]) => i = 3
    BY <1>2, <2>1
  <2> QED  BY <2>2, <2>3, Zenon DEF Callers
<1> QED  BY <1>3, <1>4, <1>5 DEF threads

(* The context that a throw leaves: never of a success, of the error that  *)
(* was thrown, and of the thread that threw exactly when that is found.    *)
LEMMA ContextRight ==
    ASSUME NEW call \in Calls
    PROVE  /\ ContextThrown(call).result # "success"
           /\ call.result # "success" => ContextThrown(call).result = call.result
           /\ ContextThrown(call).caller <=>
                 call.debug = "64-bit" /\ call.command < 2 /\ ~ContextThrown(call).is_creport
           /\ ContextThrown(call).caller =>
                 ContextThrown(call).name /\ ContextThrown(call).trace = MaxStackTraceDepth
<1> DEFINE given == [NoContext EXCEPT
                        !.result = call.result,
                        !.trace = CappedTrace(call.trace),
                        !.program = IF call.pid = "unknown" THEN "none" ELSE call.pid,
                        !.is_creport = call.pid = "creport"]
           Fields == {"result", "program", "is_creport", "generate_error_report", "trace", "name",
                      "caller"}
           callers == Callers(given.result, ThreadsOf(call))
           first == CHOOSE i \in callers : \A j \in callers : i <= j
           frames == FramesRead(ThreadsOf(call)[first])
           learnt == IF given.is_creport THEN [given EXCEPT !.program = "crashed"]
                     ELSE CollectDebugInformation(given, ThreadsOf(call), call.debug)
<1>1. ContextThrown(call) = [learnt EXCEPT
            !.generate_error_report = call.policy = "ErrorReportAndErrorScreen",
            !.result = IF learnt.result = "success" THEN "SystemModuleAborted" ELSE learnt.result]
  BY Zenon DEF ContextThrown
<1>2. /\ given.result = call.result /\ given.name = FALSE /\ given.caller = FALSE
      /\ given.is_creport \in BOOLEAN
      /\ DOMAIN given = Fields
  BY DEF NoContext
<1>3. call.debug = "64-bit" => callers = IF call.command < 2 THEN {3} ELSE {}
  BY <1>2, CallShapes, OnlyThrowerMatches DEF callers
<1>4. call.debug = "unreadable" => callers = {}
  BY <1>2, CallShapes, OnlyThrowerMatches DEF callers
<1> HIDE DEF callers
<1>5. call.debug = "64-bit" /\ call.command < 2 => frames = MaxStackTraceDepth
  <2>1. SUFFICES ASSUME call.debug = "64-bit", call.command < 2 PROVE frames = MaxStackTraceDepth
    OBVIOUS
  <2>2. first = 3
    BY <2>1, <1>3
  <2>3. ThreadsOf(call)[3].frames = MaxStackTraceDepth + 1
    BY DEF ThreadsOf, Thread
  <2> HIDE DEF first
  <2> QED  BY <2>2, <2>3, DepthIsNatural DEF FramesRead
<1>6. learnt = IF given.is_creport THEN [given EXCEPT !.program = "crashed"]
               ELSE IF call.debug = "not debugged" THEN given
               ELSE IF call.debug # "64-bit" \/ callers = {} THEN [given EXCEPT !.name = TRUE]
               ELSE [given EXCEPT !.name = TRUE, !.caller = TRUE, !.trace = frames]
  <2> HIDE DEF given, first, frames
  <2>1. call.debug \in Debugs
    BY CallShapes
  <2>2. CollectDebugInformation(given, ThreadsOf(call), call.debug) =
            IF call.debug = "not debugged" THEN given
            ELSE IF call.debug # "64-bit" \/ callers = {} THEN [given EXCEPT !.name = TRUE]
            ELSE [given EXCEPT !.name = TRUE, !.caller = TRUE, !.trace = frames]
    <3>1. CASE call.debug = "not debugged"
      BY <3>1 DEF CollectDebugInformation
    <3>2. CASE call.debug \in {"32-bit", "no threads", "no registers"}
      BY <3>2 DEF CollectDebugInformation
    <3>3. CASE call.debug \in {"unreadable", "64-bit"}
      <4>1. CollectDebugInformation(given, ThreadsOf(call), call.debug) =
              IF callers = {} THEN [given EXCEPT !.name = TRUE]
              ELSE [given EXCEPT !.name = TRUE, !.caller = TRUE, !.trace = frames]
        BY <3>3 DEF CollectDebugInformation, callers, first, frames
      <4> QED  BY <3>3, <4>1, <1>4
    <3> QED  BY <2>1, <3>1, <3>2, <3>3 DEF Debugs
  <2> QED  BY <2>2
<1> HIDE DEF first, frames, given, learnt
<1>7. /\ learnt.result = call.result /\ DOMAIN learnt = Fields
      /\ learnt.is_creport = given.is_creport
      /\ learnt.caller <=> ~given.is_creport /\ call.debug = "64-bit" /\ call.command < 2
      /\ learnt.caller => learnt.name /\ learnt.trace = MaxStackTraceDepth
  BY <1>2, <1>3, <1>5, <1>6
<1> QED  BY <1>1, <1>7

(***************************************************************************)
(* The theorems.                                                           *)
(***************************************************************************)
LEMMA FatalInvHandles ==
    ASSUME FatalInv PROVE FatalHandled
<1>1. ContextOfThrow /\ ShownOfThrow /\ BatteryFirst /\ ScreenNotForgotten
  BY DEF FatalInv
<1>2. CASE has_thrown
  <2>1. first_throw \in Calls /\ throw_context = ContextThrown(first_throw)
    BY <1>1, <1>2 DEF ContextOfThrow
  <2>2. /\ throw_context.result # "success"
        /\ first_throw.result # "success" => throw_context.result = first_throw.result
        /\ CallerFound
    BY <2>1, ContextRight DEF CallerFound
  <2>3. FirstThrowReported
    BY <1>1, <2>2 DEF FirstThrowReported, ShownOfThrow, ShownPolicies
  <2> QED  BY <1>1, <2>2, <2>3 DEF FatalHandled, ShownOnGoodBattery, BatteryFirst
<1>3. CASE ~has_thrown
  <2>1. first_throw = NoThrow /\ throw_context = NoContext
    BY <1>1, <1>3 DEF ContextOfThrow
  <2>2. screen = <<>> /\ report = <<>>
    BY <1>1, <1>3 DEF ShownOfThrow
  <2>3. CallerFound
    BY <2>1 DEF CallerFound, NoThrow, NoContext
  <2> QED  BY <1>1, <2>2, <2>3 DEF FatalHandled, ShownOnGoodBattery, FirstThrowReported
<1> QED  BY <1>2, <1>3

(* The invariant always holds.                                             *)
LEMMA FatalInvAlways == FatalSpec => []FatalInv
<1>1. FatalInit => FatalInv
  BY FatalInitInv
<1>2. FatalInv /\ [FatalNext]_fatalVars => FatalInv'
  BY FatalNextInv
<1> QED  BY <1>1, <1>2, PTL DEF FatalSpec

(* fatal, whoever throws how often and whatever becomes of the battery and *)
(* of the display: the screen and the report are of the first throw that   *)
(* was to be shown, a success is never shown as one, nothing is drawn on   *)
(* an empty battery, a power task that has ended leaves no screen waiting  *)
(* unless the battery recovered, and the thread that threw is in the       *)
(* context exactly when its process is 64-bit, was read to the end and     *)
(* made a request without a context.                                       *)
THEOREM FatalIsHandled == FatalSpec => []FatalHandled
<1>1. FatalInv => FatalHandled
  BY FatalInvHandles
<1> QED  BY <1>1, FatalInvAlways, PTL

(* The types of fatal's context, events and tasks.                         *)
THEOREM FatalTypesCorrect == FatalSpec => []FatalTypeOK
<1>1. FatalInv => FatalTypeOK
  BY DEF FatalInv
<1> QED  BY <1>1, FatalInvAlways, PTL
=============================================================================
