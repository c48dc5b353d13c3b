----------------------------- MODULE RoService -----------------------------
(***************************************************************************)
(* The loader of relocatable modules, ro (ro/source/ro_service.cpp and     *)
(* ro/source/impl): a process opens a session, registers itself, hands ro  *)
(* registries (NRR) that list the modules it may load, and then modules    *)
(* (NRO) that lie in its heap.  ro maps them as code in that process and   *)
(* keeps in a context what it has mapped.                                  *)
(*                                                                         *)
(* ro has one thread: a request is one step.  What makes it hard is that a *)
(* step is a chain of kernel calls on the memory of another process, each  *)
(* of which may fail with those before it done, and so may the calls that  *)
(* undo them.  A request that is refused changes nothing and is no action. *)
(***************************************************************************)
EXTENDS Naturals, FiniteSets, Sequences

CONSTANTS
    Pids,         \* the processes that use ro
    NoPid,        \* the process id of a zeroed context
    Sessions,     \* the sessions the ports of ro admit
    Access,       \* pairs of a process and a session: what sm lets it open
    SessionType,  \* [Sessions -> ModuleTypes]: ldr:ro or ro:1
    NroRegions,   \* pieces of heap that hold a module, in every process
    NrrRegions,   \* pieces of heap that hold a registry, in every process
    Image,        \* [NroRegions -> its header, see ImageType]
    Listing,      \* [NrrRegions -> its header, see ListingType]
    Modules,      \* module ids
    EaseNroRestriction, \* the setting ro!ease_nro_restriction
    MaxSessions,  \* contexts
    MaxNroInfos,  \* modules in a context
    MaxNrrInfos   \* registries in a context

ModuleTypes == {"ForSelf", "ForOthers"}

(* valid is what the header's magic, its sizes and its order of sections   *)
(* are checked for.                                                        *)
ImageType == [module : Modules, bss : BOOLEAN, rw : BOOLEAN, valid : BOOLEAN]

ListingType == [hashes : SUBSET Modules, program : Pids, type : ModuleTypes, valid : BOOLEAN]

ASSUME RoAssumption ==
    /\ IsFiniteSet(Pids)
    /\ NoPid \notin Pids
    /\ SessionType \in [Sessions -> ModuleTypes]
    /\ Access \subseteq Pids \X Sessions
    /\ NroRegions \cap NrrRegions = {}
    /\ Image \in [NroRegions -> ImageType]
    /\ Listing \in [NrrRegions -> ListingType]
    /\ EaseNroRestriction \in BOOLEAN
    /\ MaxSessions \in Nat /\ MaxNroInfos \in Nat /\ MaxNrrInfos \in Nat

VARIABLES
    contexts,  \* g_process_contexts
    session,   \* who opened each session, and its Service::context_id
    alive,     \* processes that run
    mapped,    \* what the kernel has mapped from each process's heap
    stranded,  \* history: what ro has lost track of
    out_of_contexts    \* AllocateContext found no context

roVars == <<contexts, session, alive, mapped, stranded, out_of_contexts>>

---------------------------------------------------------------------------
(* Types.                                                                  *)

ContextIds == 1..MaxSessions

InvalidContextId == 0

Context == [in_use : BOOLEAN, process_id : Pids \cup {NoPid},
            nro : SUBSET NroRegions, nrr : SUBSET NrrRegions]

FreedContext == [in_use |-> FALSE, process_id |-> NoPid, nro |-> {}, nrr |-> {}]

(* A module is mapped as its bss, its data and its code; a registry as     *)
(* code of the process and as ro's own view of it.                         *)
Pieces == (NroRegions \X {"bss", "rw", "code"}) \cup (NrrRegions \X {"view", "code"})

NroPieces(a) == {<<a, "code">>}
                \cup (IF Image[a].rw THEN {<<a, "rw">>} ELSE {})
                \cup (IF Image[a].bss THEN {<<a, "bss">>} ELSE {})

NrrPieces(r) == {<<r, "view">>, <<r, "code">>}

PiecesOf(c) == (UNION {NroPieces(a) : a \in c.nro}) \cup (UNION {NrrPieces(r) : r \in c.nrr})

---------------------------------------------------------------------------
(* Kernel calls.  A chain of unmappings is a sequence of sets of pieces:   *)
(* it ends with the first call that fails.                                 *)

(* UnmapNro, given the size of the data: bss, data and then code.          *)
UnmapNroSteps(a) ==
    (IF Image[a].bss THEN <<{<<a, "bss">>}>> ELSE <<>>)
    \o (IF Image[a].rw THEN <<{<<a, "rw">>}>> ELSE <<>>)
    \o <<{<<a, "code">>}>>

(* Mutant: the bss is left to the process.                                 *)
UnmapNroWholeButBss(a) == <<NroPieces(a) \ {<<a, "bss">>}>>

(* UnmapNro before the extents are known: all of the file is code.         *)
UnmapNroWholeSteps(a) ==
    (IF Image[a].bss THEN <<{<<a, "bss">>}>> ELSE <<>>)
    \o <<NroPieces(a) \ {<<a, "bss">>}>>

UnmapNrrSteps(r) == <<{<<r, "view">>}, {<<r, "code">>}>>

Done(steps, n) == UNION {steps[i] : i \in 1..n}

Left(steps, n) == UNION {steps[i] : i \in (n + 1)..Len(steps)}

(* The chain is run on what p has mapped, new pieces included.  What it    *)
(* does not reach is lost: no entry of a context names it.                 *)
Unmap(p, new, steps) ==
    \E n \in 0..Len(steps) :
        /\ mapped' = [mapped EXCEPT ![p] = (@ \cup new) \ Done(steps, n)]
        /\ stranded' = [stranded EXCEPT ![p] = @ \cup Left(steps, n)]

(* The kernel maps heap as code only if none of it is mapped already.      *)
IsHeap(p, region) == \A piece \in mapped[p] : piece[1] # region

Map(p, new) ==
    /\ mapped' = [mapped EXCEPT ![p] = @ \cup new]
    /\ UNCHANGED stranded

---------------------------------------------------------------------------
(* Contexts.                                                               *)

(* GetContextByProcessId, which does not look at in_use.                   *)
HasContext(p) == \E i \in ContextIds : contexts[i].process_id = p

IsFirstFree(i) == /\ ~contexts[i].in_use
                  /\ \A j \in 1..(i - 1) : contexts[j].in_use

(* ValidateProcess: the session has registered the process that calls.     *)
Validated(s) ==
    /\ ~out_of_contexts
    /\ session[s].owner \in alive
    /\ session[s].context_id # InvalidContextId
    /\ contexts[session[s].context_id].process_id = session[s].owner

(* Mutant: one registry too many.                                          *)
HasFreeNrrInfoOffByOne(c) == Cardinality(c.nrr) <= MaxNrrInfos

(* GetFreeNrrInfo and GetFreeNroInfo.                                      *)
HasFreeNrrInfo(c) == Cardinality(c.nrr) < MaxNrrInfos

HasFreeNroInfo(c) == Cardinality(c.nro) < MaxNroInfos

(* ValidateNrr, for the program whose id was asked for.                    *)
ValidateNrr(r, program, expected_type, enforce_type) ==
    /\ Listing[r].valid
    /\ ~EaseNroRestriction =>
        /\ Listing[r].program = program
        /\ enforce_type => Listing[r].type = expected_type

(* Mutant: every registered list is taken for one that has the module.     *)
HasAnyNrr(c, a) == c.nrr # {}

(* ValidateHasNroHash.                                                     *)
ValidateHasNroHash(c, a) == \E r \in c.nrr : Image[a].module \in Listing[r].hashes

ValidateNro(c, a) ==
    /\ Image[a].valid
    /\ ValidateHasNroHash(c, a)
    /\ \A b \in c.nro : Image[b].module # Image[a].module   \* else ResultAlreadyLoaded

---------------------------------------------------------------------------
(* Requests.                                                               *)

OpenSession(p, s) ==
    /\ p \in alive
    /\ <<p, s>> \in Access
    /\ session[s].owner = NoPid
    /\ session' = [session EXCEPT ![s] = [owner |-> p, context_id |-> InvalidContextId]]
    /\ UNCHANGED <<contexts, alive, mapped, stranded, out_of_contexts>>

(* Mutant: a process may register once per session.                        *)
MayRegisterPerSession(s) == session[s].context_id = InvalidContextId

MayRegister(s) == ~HasContext(session[s].owner)

(* Initialize: RegisterProcess, which takes the first free context and     *)
(* aborts when there is none.                                              *)
Initialize(s) ==
    LET p == session[s].owner
    IN  /\ ~out_of_contexts
        /\ p \in alive
        /\ MayRegister(s)
        /\ \/ \E i \in ContextIds :
                /\ IsFirstFree(i)
                /\ contexts' = [contexts EXCEPT ![i] =
                        [FreedContext EXCEPT !.in_use = TRUE, !.process_id = p]]
                /\ session' = [session EXCEPT ![s].context_id = i]
                /\ UNCHANGED out_of_contexts
           \/ /\ \A i \in ContextIds : contexts[i].in_use
              /\ out_of_contexts' = TRUE
              /\ UNCHANGED <<contexts, session>>
        /\ UNCHANGED <<alive, mapped, stranded>>

(* LoadNrr(context, process_h): q is the process whose program id counts.  *)
LoadNrrImpl(s, q, r, expected_type, enforce_type) ==
    LET i == session[s].context_id
        p == contexts[i].process_id
    IN  /\ Validated(s)
        /\ HasFreeNrrInfo(contexts[i])
        /\ IsHeap(p, r)
        /\ ValidateNrr(r, q, expected_type, enforce_type)
        /\ Map(p, NrrPieces(r))
        /\ contexts' = [contexts EXCEPT ![i].nrr = @ \cup {r}]
        /\ UNCHANGED <<session, alive, out_of_contexts>>

LoadNrr(s, r) == LoadNrrImpl(s, session[s].owner, r, "ForSelf", TRUE)

(* The client hands over the handle of the process q.                      *)
LoadNrrEx(s, q, r) ==
    LoadNrrImpl(s, q, r, SessionType[s], SessionType[s] = "ForOthers")

(* UnloadNrr forgets the registry before it unmaps it.                     *)
UnloadNrr(s, r) ==
    LET i == session[s].context_id
        p == contexts[i].process_id
    IN  /\ Validated(s)
        /\ r \in contexts[i].nrr
        /\ contexts' = [contexts EXCEPT ![i].nrr = @ \ {r}]
        /\ Unmap(p, {}, UnmapNrrSteps(r))
        /\ UNCHANGED <<session, alive, out_of_contexts>>

(* LoadNro: MapNro, ValidateNro, SetNroPerms.  When one of the last two    *)
(* fails the module is unmapped again, in pieces that depend on which.     *)
LoadNro(s, a) ==
    LET i == session[s].context_id
        c == contexts[i]
        p == c.process_id
    IN  /\ Validated(s)
        /\ HasFreeNroInfo(c)
        /\ IsHeap(p, a)
        /\ \/ /\ ValidateNro(c, a)
              /\ Map(p, NroPieces(a))
              /\ contexts' = [contexts EXCEPT ![i].nro = @ \cup {a}]
           \/ /\ Unmap(p, NroPieces(a), UnmapNroWholeSteps(a))  \* or no space to validate it in
              /\ UNCHANGED contexts
           \/ /\ ValidateNro(c, a)                              \* permissions not set
              /\ Unmap(p, NroPieces(a), UnmapNroSteps(a))
              /\ UNCHANGED contexts
        /\ UNCHANGED <<session, alive, out_of_contexts>>

(* UnloadNro forgets the module before it unmaps it, too.                  *)
UnloadNro(s, a) ==
    LET i == session[s].context_id
        p == contexts[i].process_id
    IN  /\ Validated(s)
        /\ a \in contexts[i].nro
        /\ contexts' = [contexts EXCEPT ![i].nro = @ \ {a}]
        /\ Unmap(p, {}, UnmapNroSteps(a))
        /\ UNCHANGED <<session, alive, out_of_contexts>>

(* FreeContext unmaps the registries and drops the results; the modules    *)
(* stay mapped.  The memory of a dead process goes with its last handle.   *)
FreeContext(i) ==
    LET c == contexts[i]
        p == c.process_id
    IN  \E n \in [c.nrr -> 0..2] :
            LET gone == UNION {Done(UnmapNrrSteps(r), n[r]) : r \in c.nrr}
            IN  /\ mapped' = [mapped EXCEPT ![p] = IF p \in alive THEN @ \ gone ELSE {}]
                /\ stranded' = [stranded EXCEPT ![p] =
                        IF p \in alive THEN @ \cup (PiecesOf(c) \ gone) ELSE {}]
                /\ contexts' = [contexts EXCEPT ![i] = FreedContext]

(* ~Service, when the client closes the session or has died.               *)
CloseSession(s) ==
    LET i == session[s].context_id
    IN  /\ ~out_of_contexts
        /\ session[s].owner # NoPid
        /\ session' = [session EXCEPT ![s] =
                [owner |-> NoPid, context_id |-> InvalidContextId]]
        /\ IF i = InvalidContextId THEN UNCHANGED <<contexts, mapped, stranded>>
                                   ELSE FreeContext(i)
        /\ UNCHANGED <<alive, out_of_contexts>>

(* The handle in a context keeps the memory of a dead process.             *)
Die(p) ==
    /\ p \in alive
    /\ alive' = alive \ {p}
    /\ IF HasContext(p)
       THEN UNCHANGED <<mapped, stranded>>
       ELSE /\ mapped' = [mapped EXCEPT ![p] = {}]
            /\ stranded' = [stranded EXCEPT ![p] = {}]
    /\ UNCHANGED <<contexts, session, out_of_contexts>>

---------------------------------------------------------------------------
RoInit ==
    /\ contexts = [i \in ContextIds |-> FreedContext]
    /\ session = [s \in Sessions |-> [owner |-> NoPid, context_id |-> InvalidContextId]]
    /\ alive = Pids
    /\ mapped = [p \in Pids |-> {}]
    /\ stranded = [p \in Pids |-> {}]
    /\ out_of_contexts = FALSE

RoNext ==
    \/ \E p \in Pids : Die(p) \/ \E s \in Sessions : OpenSession(p, s)
    \/ \E s \in Sessions :
        \/ Initialize(s) \/ CloseSession(s)
        \/ \E r \in NrrRegions : LoadNrr(s, r) \/ UnloadNrr(s, r)
        \/ \E q \in alive, r \in NrrRegions : LoadNrrEx(s, q, r)
        \/ \E a \in NroRegions : LoadNro(s, a) \/ UnloadNro(s, a)

RoSpec == RoInit /\ [][RoNext]_roVars

---------------------------------------------------------------------------
(* Properties.                                                             *)

(* The tables of contexts and sessions and the kernel's mappings keep      *)
(* their shape, and no context has more entries than slots                 *)
(* (g_process_contexts, Service::context_id).                              *)
TypeOK ==
    /\ contexts \in [ContextIds -> Context]
    /\ \A i \in ContextIds : /\ Cardinality(contexts[i].nrr) <= MaxNrrInfos
                             /\ Cardinality(contexts[i].nro) <= MaxNroInfos
    /\ session \in [Sessions -> [owner : Pids \cup {NoPid},
                                 context_id : ContextIds \cup {InvalidContextId}]]
    /\ alive \subseteq Pids
    /\ mapped \in [Pids -> SUBSET Pieces]
    /\ stranded \in [Pids -> SUBSET Pieces]
    /\ out_of_contexts \in BOOLEAN

(* Contexts and the sessions that registered are in one to one             *)
(* correspondence, a freed context answers to no process id                *)
(* (GetContextByProcessId does not look at in_use), and no process has     *)
(* two: that is why as many contexts as processes are enough, and          *)
(* AllocateContext does not abort.                                         *)
ContextsMatchSessions ==
    /\ TypeOK
    /\ \A i \in ContextIds :
        /\ contexts[i].in_use <=> contexts[i].process_id # NoPid
        /\ contexts[i].in_use =>
            /\ \E s \in Sessions : session[s] = [owner |-> contexts[i].process_id, context_id |-> i]
            /\ \A j \in ContextIds \ {i} : contexts[j].process_id # contexts[i].process_id
    /\ \A s, t \in Sessions :
        session[s].context_id # InvalidContextId /\ session[s].context_id = session[t].context_id
            => s = t
    /\ out_of_contexts => Cardinality(Pids) > MaxSessions

(* What is mapped in a process is exactly what its context records and     *)
(* what was lost by an unmapping that failed or by the closing of a        *)
(* session: a load that fails undoes all of its mappings, and ro never     *)
(* reads the header of a registry (ValidateHasNroHash) that is unmapped.   *)
MemoryAccounted ==
    \A i \in ContextIds : contexts[i].in_use =>
        LET p == contexts[i].process_id
        IN  /\ mapped[p] = PiecesOf(contexts[i]) \cup stranded[p]
            /\ PiecesOf(contexts[i]) \cap stranded[p] = {}

(* A process gets a module only while a registry that ro accepted and that *)
(* lists the module is still mapped for ro to read, and no context gets a  *)
(* module twice (ValidateNro): neither an unloaded registry nor one of     *)
(* another context authorises anything.                                    *)
NewModulesAuthorised ==
    \A i \in ContextIds : \A a \in contexts'[i].nro \ contexts[i].nro :
        /\ \E r \in contexts[i].nrr :
            /\ <<r, "view">> \in mapped[contexts[i].process_id]
            /\ Image[a].module \in Listing[r].hashes
        /\ \A b \in contexts[i].nro : Image[b].module # Image[a].module

ModulesAuthorised == [][NewModulesAuthorised]_roVars

(* What ro keeps of its clients agrees with its sessions and with what is  *)
(* mapped in them.                                                         *)
RoMappingsKept == ContextsMatchSessions /\ MemoryAccounted
===========================================================================
