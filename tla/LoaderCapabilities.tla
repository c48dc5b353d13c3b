------------------------- MODULE LoaderCapabilities -------------------------
(***************************************************************************)
(* The kernel capabilities of a program (loader/source/                    *)
(* ldr_capabilities.cpp): those that the program asks for (ACI) are checked*)
(* against those it is allowed (ACID) before the process is created.       *)
(*                                                                         *)
(* A capability is a record whose id is the number of its trailing ones;   *)
(* its fields are those of the class of that id.                           *)
(***************************************************************************)
EXTENDS Integers, Sequences

CONSTANTS
    SizeMax,            \* of a mapped range, in pages
    EmptyInterruptId

Of(id, kac) == {n \in DOMAIN kac : kac[n].id = id}

(* "for i: if GetCapabilityId(kac[i]) == Id ... return": the first counts. *)
First(id, kac) == kac[CHOOSE n \in Of(id, kac) : \A m \in Of(id, kac) : n <= m]

---------------------------------------------------------------------------
(* IsValid of the classes.                                                 *)

KernelFlagsValid(cap, kac) ==
    /\ Of("KernelFlags", kac) # {}
    /\ LET r == First("KernelFlags", kac)
       IN  /\ cap.min_priority >= r.min_priority /\ cap.max_priority <= r.max_priority
           /\ cap.min_priority <= cap.max_priority
           /\ cap.min_core >= r.min_core /\ cap.max_core <= r.max_core
           /\ cap.min_core <= cap.max_core

(* SyscallMask and MapPage: one of the allowed ones.                       *)
SameValid(cap, kac) == \E n \in Of(cap.id, kac) : kac[n] = cap

(* ApplicationType and KernelVersion: the first allowed one.               *)
FirstValid(cap, kac) == Of(cap.id, kac) # {} /\ First(cap.id, kac) = cap

HandleTableValid(cap, kac) ==
    Of("HandleTable", kac) # {} /\ cap.size <= First("HandleTable", kac).size

DebugFlagsValid(cap, kac) ==
    Of("DebugFlags", kac) # {} /\ cap.flags \subseteq First("DebugFlags", kac).flags

IsSingleIdValid(id, kac) ==
    \E n \in Of("InterruptPair", kac) :
        \/ kac[n].ids = <<EmptyInterruptId, EmptyInterruptId>>
        \/ \E k \in 1..2 : kac[n].ids[k] = id

InterruptPairValid(cap, kac) == \A k \in 1..2 : IsSingleIdValid(cap.ids[k], kac)

(* The ranges are pairs of capabilities; the scan of the allowed ones takes*)
(* two at a time, and ends at one that has no second half.                 *)
Halves(kac) ==
    {n \in Of("MapRange", kac) :
        \E k \in 0..Len(kac) :
            /\ n - 2 * k >= 1 /\ \A m \in (n - 2 * k)..n : kac[m].id = "MapRange"
            /\ n - 2 * k = 1 \/ kac[n - 2 * k - 1].id # "MapRange"}

Paired(kac, n) == n + 1 \in DOMAIN kac /\ kac[n + 1].id = "MapRange"

(* Mutant: only the start of the range is compared.                        *)
StartInside(start, end, r_start, r_end) == r_start <= start /\ start <= r_end

Inside(start, end, r_start, r_end) ==
    r_start <= start /\ start <= r_end /\ end <= r_end

MapRangeValid(cap, next, kac) ==
    /\ next.id = "MapRange"
    /\ next.address_size < SizeMax
    /\ \E n \in Halves(kac) :
          /\ \A m \in Halves(kac) : m <= n => Paired(kac, m)
          /\ LET r == kac[n]
                 r_next == kac[n + 1]
             IN  /\ r_next.address_size < SizeMax
                 /\ cap.flag = r.flag /\ next.flag = r_next.flag
                 /\ Inside(cap.address_size, cap.address_size + next.address_size,
                           r.address_size, r.address_size + r_next.address_size)

(* ValidateCapabilities: of the MapRange capabilities, a run is taken two  *)
(* at a time; a second half that is missing or of another kind is refused. *)
Valid(aci, n, acid) ==
    LET cap == aci[n]
    IN  CASE cap.id = "KernelFlags" -> KernelFlagsValid(cap, acid)
          [] cap.id \in {"SyscallMask", "MapPage"} -> SameValid(cap, acid)
          [] cap.id \in {"ApplicationType", "KernelVersion"} -> FirstValid(cap, acid)
          [] cap.id = "HandleTable" -> HandleTableValid(cap, acid)
          [] cap.id = "DebugFlags" -> DebugFlagsValid(cap, acid)
          [] cap.id = "InterruptPair" -> InterruptPairValid(cap, acid)
          [] cap.id = "MapRange" ->
                n \in Halves(aci) => n + 1 \in DOMAIN aci /\ MapRangeValid(cap, aci[n + 1], acid)
          [] OTHER -> cap.id = "Empty"

ValidateCapabilities(acid, aci) == \A n \in DOMAIN aci : Valid(aci, n, acid)

(* GetProgramInfoFlags and SetProgramInfoFlags.                            *)
GetProgramInfoFlags(kac) ==
    [types |-> {kac[n].type : n \in Of("ApplicationType", kac)} \ {"invalid"},
     allow_debug |-> \E n \in Of("DebugFlags", kac) : "allow" \in kac[n].flags]

SetProgramInfoFlags(type, allow_debug, kac) ==
    [n \in DOMAIN kac |->
        CASE kac[n].id = "ApplicationType" -> [kac[n] EXCEPT !.type = type]
          [] kac[n].id = "DebugFlags" ->
                [kac[n] EXCEPT !.flags = (@ \ {"allow"}) \cup (IF allow_debug THEN {"allow"} ELSE {})]
          [] OTHER -> kac[n]]

---------------------------------------------------------------------------
(* Properties.                                                             *)

(* What the kernel grants for a list, elementary right by elementary right.*)
RightsOf(kac, n, interrupts) ==
    LET cap == kac[n]
    IN  CASE cap.id = "KernelFlags" ->
                ({"priority"} \X (cap.min_priority..cap.max_priority))
                \cup ({"core"} \X (cap.min_core..cap.max_core))
          [] cap.id = "SyscallMask" -> {<<"syscall", cap.mask>>}
          [] cap.id = "MapPage" -> {<<"page", cap.address>>}
          [] cap.id = "ApplicationType" -> {<<"type", cap.type>>}
          [] cap.id = "KernelVersion" -> {<<"version", cap.version>>}
          [] cap.id = "HandleTable" -> {"handles"} \X (1..cap.size)
          [] cap.id = "DebugFlags" -> {"debug"} \X cap.flags
          [] cap.id = "InterruptPair" ->
                {"interrupt"} \X (IF cap.ids = <<EmptyInterruptId, EmptyInterruptId>> THEN interrupts
                                  ELSE {cap.ids[1], cap.ids[2]} \ {EmptyInterruptId})
          [] cap.id = "MapRange" /\ n \in Halves(kac) /\ Paired(kac, n) ->
                {<<"range", p, cap.flag, kac[n + 1].flag>> :
                    p \in cap.address_size..(cap.address_size + kac[n + 1].address_size - 1)}
          [] OTHER -> {}

Rights(kac, interrupts) == UNION {RightsOf(kac, n, interrupts) : n \in DOMAIN kac}

(* A program never gets more than it is allowed, whichever capabilities    *)
(* are repeated, adjacent or cut off: of what an accepted ACI grants the   *)
(* ACID allows every thread priority, core, page and interrupt.            *)
AcceptsOnlyAllowed(acid, aci, interrupts) ==
    ValidateCapabilities(acid, aci) => Rights(aci, {}) \subseteq Rights(acid, interrupts)

(* What SetProgramInfoFlags copies from the program that the homebrew      *)
(* loader replaces is what is found later, and the rest of the list stays. *)
FlagsReplaced(kac, type, allow_debug) ==
    LET set == SetProgramInfoFlags(type, allow_debug, kac)
        got == GetProgramInfoFlags(set)
    IN  /\ got.types = IF Of("ApplicationType", kac) = {} THEN {} ELSE {type}
        /\ got.allow_debug = (allow_debug /\ Of("DebugFlags", kac) # {})
        /\ \A n \in DOMAIN kac :
              kac[n].id \notin {"ApplicationType", "DebugFlags"} => set[n] = kac[n]
=============================================================================
