------------------------------- MODULE Loader -------------------------------
(***************************************************************************)
(* The loader service (loader/source/): the meta of the program that was   *)
(* looked at last is cached, programs are pinned by pm before they are     *)
(* created, and the modules of created processes are recorded by pin.      *)
(* Loader serves one request at a time, so a request is one step.          *)
(*                                                                         *)
(* The client is pm (pm/source/impl/pm_process_manager.cpp): its launch    *)
(* thread makes the three requests of LaunchProcess, while the thread that *)
(* serves pm's clients, which waits for a launch it asked for, may look at *)
(* a program to start it; processes end at any time.                       *)
(***************************************************************************)
EXTENDS Naturals, FiniteSets, Sequences

CONSTANTS
    LaunchedPrograms,
    PinLimit,               \* ProcessCountMax: 0x40
    ArgumentLimit,          \* MaxArgumentInfos: 10
    MaxLaunches             \* bound

VARIABLES
    cached,                 \* g_cached_program_id, g_cached_override_status
    meta,                   \* g_meta_cache: whose meta it is, if one is loaded
    pins,                   \* pin id -> [program, status, process, modules]
    arguments,              \* program -> the kind of its arguments
    external_code,          \* the programs whose code was registered
    launched,               \* g_launched_programs
    launch,                 \* pm's launch thread
    processes,              \* pm's list, and the meta each was made with
    launches                \* launches so far; also g_cur_pin_id and process ids

loaderVars == <<cached, meta, pins, arguments, external_code, launched, launch,
                processes, launches>>

Statuses == {"none", "hbl"}
NoMeta == [program |-> "none", status |-> "none"]
NoLaunch == [at |-> "idle", program |-> "none", status |-> "none", pin |-> 0]

LoaderInit ==
    /\ cached = NoMeta
    /\ meta = NoMeta
    /\ pins = <<>>
    /\ arguments = [p \in LaunchedPrograms |-> "none"]
    /\ external_code = {} /\ launched = {}
    /\ launch = NoLaunch
    /\ processes = {}
    /\ launches = 0

---------------------------------------------------------------------------
(* Meta.                                                                   *)

(* ResolveContentPath and the three mounts of ScopedCodeMount, of which the*)
(* last may fail; what was mounted is unmounted by the end of the request. *)
Mounts == [content_path : BOOLEAN, ams : BOOLEAN, sd_or_code : BOOLEAN, code : BOOLEAN]

Mounted(m) == m.content_path /\ m.ams /\ m.sd_or_code

(* LoadMetaFromFile: the cache is reset, and gets a meta when the file is  *)
(* read and valid.                                                         *)
LoadMetaFromFile(own) == {NoMeta, own}

(* LoadMeta: the file is opened and read, and then, but for a homebrew     *)
(* program, what is needed of the base meta is.  Only after all of it the  *)
(* cache is known to be of the program.                                    *)
MetaOutcomes(program, status) ==
    LET own == [program |-> program, status |-> status]
        failed(m) == [ok |-> FALSE, meta |-> m, cached |-> cached]
    IN  {failed(meta), [ok |-> TRUE, meta |-> own, cached |-> own]}
        \cup {failed(m) : m \in LoadMetaFromFile(own) \ (IF status = "hbl" THEN {own} ELSE {})}

(* LoadMetaFromCache.                                                      *)
CachedOutcomes(program, status) ==
    IF cached = [program |-> program, status |-> status]
    THEN {[ok |-> TRUE, meta |-> meta, cached |-> cached]}
    ELSE MetaOutcomes(program, status)

Load(outcome) == meta' = outcome.meta /\ cached' = outcome.cached

---------------------------------------------------------------------------
(* Requests of pm.                                                         *)

(* A launch, and what the caller of LaunchProgram waits for.               *)
LaunchProgram(program) ==
    /\ launch = NoLaunch
    /\ launches < MaxLaunches
    /\ launch' = [NoLaunch EXCEPT !.at = "get info", !.program = program]
    /\ launches' = launches + 1
    /\ UNCHANGED <<cached, meta, pins, arguments, external_code, launched, processes>>

(* AtmosphereGetProgramInfo: the override status is captured as the code   *)
(* is mounted, which may fail before the meta is looked at.                *)
GetProgramInfo ==
    /\ launch.at = "get info"
    /\ \E m \in Mounts :
          \/ ~Mounted(m) /\ launch' = NoLaunch /\ UNCHANGED <<cached, meta>>
          \/ /\ Mounted(m)
             /\ \E status \in Statuses : \E outcome \in MetaOutcomes(launch.program, status) :
                    /\ Load(outcome)
                    /\ launch' = IF outcome.ok THEN [launch EXCEPT !.at = "pin", !.status = status]
                                 ELSE NoLaunch
    /\ UNCHANGED <<pins, arguments, external_code, launched, processes, launches>>

(* AtmospherePinProgram, unless an application runs already.               *)
PinProgram ==
    /\ launch.at = "pin"
    /\ \/ /\ Cardinality(DOMAIN pins) < PinLimit
          /\ pins' = [p \in DOMAIN pins \cup {launches} |->
                         IF p = launches
                         THEN [program |-> launch.program, status |-> launch.status,
                               process |-> 0, modules |-> "none"]
                         ELSE pins[p]]
          /\ launch' = [launch EXCEPT !.at = "create", !.pin = launches]
       \/ launch' = NoLaunch /\ UNCHANGED pins
    /\ UNCHANGED <<cached, meta, arguments, external_code, launched, processes, launches>>

Without(pin) == [p \in DOMAIN pins \ {pin} |-> pins[p]]

(* Mutant: the pin guard of LaunchProcess is missing.                      *)
KeepPin(pin) == pins

UnpinFailed(pin) == Without(pin)

(* LoadNsosIntoProcessMemory: arguments that are set, but empty, have no   *)
(* memory they could be mapped at.                                         *)
ArgumentsLoad(program) == arguments[program] # "empty"

(* CreateProcess, when all of it succeeds: RegisterProcess and             *)
(* RegisterModule by pin, DestroyExternalCode, SetLaunchedProgram.         *)
Create ==
    /\ launch.at = "create"
    /\ ArgumentsLoad(launch.program)
    /\ \E outcome \in CachedOutcomes(pins[launch.pin].program, pins[launch.pin].status) :
           outcome.ok /\ Load(outcome)
    /\ pins' = [pins EXCEPT ![launch.pin].process = launches,
                            ![launch.pin].modules = launch.program]
    /\ external_code' = external_code \ {launch.program}
    /\ launched' = launched \cup {launch.program}
    /\ processes' = processes \cup
                        {[process |-> launches, pin |-> launch.pin, program |-> launch.program,
                          status |-> launch.status, meta |-> meta']}
    /\ launch' = NoLaunch
    /\ UNCHANGED <<arguments, launches>>

(* It fails: the code is not mounted, the meta is not loaded, or one of    *)
(* the validations, svcCreateProcess or the load of a module fails; then   *)
(* the process handle is closed, and pm unpins the program.                *)
CreateFails ==
    /\ launch.at = "create"
    /\ \/ UNCHANGED <<cached, meta>>
       \/ \E outcome \in CachedOutcomes(pins[launch.pin].program, pins[launch.pin].status) :
              Load(outcome)
    /\ pins' = UnpinFailed(launch.pin)
    /\ launch' = NoLaunch
    /\ UNCHANGED <<arguments, external_code, launched, processes, launches>>

(* ~ProcessInfo: the pin of a process that is gone.                        *)
ProcessEnds ==
    \E p \in processes :
        /\ processes' = processes \ {p}
        /\ pins' = Without(p.pin)
        /\ UNCHANGED <<cached, meta, arguments, external_code, launched, launch, launches>>

(* Mutant: pm serves its clients with a second thread.                     *)
Anytime == TRUE

ServesClients == launch = NoLaunch

(* pm's StartProcess looks at the meta of a process again.                 *)
StartProcess ==
    /\ ServesClients
    /\ \E p \in processes, status \in Statuses :
           \E outcome \in MetaOutcomes(p.program, status) : Load(outcome)
    /\ UNCHANGED <<pins, arguments, external_code, launched, launch, processes, launches>>

---------------------------------------------------------------------------
(* Requests of others, at ldr:shel, ldr:dmnt and ldr:pm.                   *)

HasArguments == {p \in LaunchedPrograms : arguments[p] # "none"}

SetProgramArguments(program) ==
    /\ Cardinality(HasArguments \cup {program}) <= ArgumentLimit
    /\ \E kind \in {"empty", "some"} : arguments' = [arguments EXCEPT ![program] = kind]
    /\ UNCHANGED <<cached, meta, pins, external_code, launched, launch, processes, launches>>

FlushArguments ==
    /\ arguments' = [p \in LaunchedPrograms |-> "none"]
    /\ UNCHANGED <<cached, meta, pins, external_code, launched, launch, processes, launches>>

RegisterExternalCode(program) ==
    /\ external_code' = external_code \cup {program}
    /\ UNCHANGED <<cached, meta, pins, arguments, launched, launch, processes, launches>>

UnregisterExternalCode(program) ==
    /\ external_code' = external_code \ {program}
    /\ UNCHANGED <<cached, meta, pins, arguments, launched, launch, processes, launches>>

(* GetProcessModuleInfo: the first entry of the process.                   *)
ModulesOf(process) == {pins[p].modules : p \in {q \in DOMAIN pins : pins[q].process = process}}

LoaderNext ==
    \/ \E p \in LaunchedPrograms :
          \/ LaunchProgram(p) \/ SetProgramArguments(p)
          \/ RegisterExternalCode(p) \/ UnregisterExternalCode(p)
    \/ GetProgramInfo \/ PinProgram \/ Create \/ CreateFails
    \/ StartProcess \/ ProcessEnds \/ FlushArguments

LoaderSpec == LoaderInit /\ [][LoaderNext]_loaderVars

---------------------------------------------------------------------------
(* Properties.                                                             *)

(* A process is created with the meta of its own program and override      *)
(* status, although LoadMeta leaves another one in the cache, or none, when*)
(* it fails after it read the file: that pm looks at the program first, on *)
(* the thread that creates it, and serves nobody meanwhile, is what keeps  *)
(* the cache right.                                                        *)
CreatedFromOwnMeta ==
    \A p \in processes : p.meta = [program |-> p.program, status |-> p.status]

(* The pins are those of the processes and of the launch that is under     *)
(* way: none is left behind by a launch that fails, and a process is found *)
(* by one pin only, with its own modules.                                  *)
PinsAccounted ==
    /\ DOMAIN pins = {p.pin : p \in processes} \cup ({launch.pin} \ {0})
    /\ \A p \in processes : ModulesOf(p.process) = {p.program}

(* What loader and pm agree on, launch after launch.                       *)
LaunchesKept == CreatedFromOwnMeta /\ PinsAccounted
=============================================================================
