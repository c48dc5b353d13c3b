------------------------------ MODULE CoreBoot ------------------------------
(***************************************************************************)
(* How exosphere starts and stops the cores (cpu_context.c, sc7.c, the     *)
(* boot critical section of synchronization.h): a core that CPU_ON powers, *)
(* or that wakes the system up, runs the warmboot code in the critical     *)
(* section all cores share, takes the entry point that was left for it in  *)
(* its context and jumps to the kernel.                                    *)
(*                                                                         *)
(* The kernel is the environment: it powers cores on and off, and calls    *)
(* CPU_SUSPEND on core 0 once the others are off.  Memory is sequentially  *)
(* consistent: the cache maintenance of the code is not modelled.          *)
(***************************************************************************)
EXTENDS Integers, FiniteSets

CONSTANTS
    NumCores,       \* NUM_CPU_CORES
    TicketLimit,    \* a ticket_number has 7 bits: 128 in the source
    MaxRequests,    \* bound: entry points handed out (CPU_ON, CPU_SUSPEND, boot)
    Firmware400     \* target firmware 4.0.0 or later: CPU_ON resets the core

ASSUME CoreAssumption ==
    /\ NumCores \in Nat \ {0}
    /\ TicketLimit \in Nat /\ TicketLimit > 1
    /\ MaxRequests \in Nat \ {0}
    /\ Firmware400 \in BOOLEAN

Cores == 0..(NumCores - 1)

VARIABLES
    customers,      \* g_boot_critical_section
    contexts,       \* g_cpu_contexts: ELR_EL3 (0: none; else the request it is of), is_active
    pc,             \* where each core is
    my_ticket,      \* my_ticket_number of a core in critical_section_enter
    turn,           \* the customer it waits for
    running,        \* the entry point each core was last sent to
    requests        \* the entry points handed out so far

section == <<customers, my_ticket, turn>>
coreVars == <<customers, contexts, pc, my_ticket, turn, running, requests>>

(* The places of a core: at the kernel's exception level, on its way off,  *)
(* powered off, asleep; in critical_section_enter; in the section.         *)
Waiting   == {"wait_entering", "wait_ticket"}
InSection == {"main", "use", "leave"}
Booting   == {"start", "ticket", "door"} \cup Waiting \cup InSection
Places    == {"kernel", "cpu_off", "stopping", "off", "asleep", "panic"} \cup Booting

Goto(c, place) == pc' = [pc EXCEPT ![c] = place]

(* Core 0 boots the system, as if it had entered the critical section;     *)
(* package2_startup left its entry point.                                  *)
CoreInit ==
    /\ customers = [c \in Cores |->
            [is_entering |-> FALSE, ticket_number |-> IF c = 0 THEN 1 ELSE 0]]
    /\ contexts = [c \in Cores |->
            [entrypoint |-> IF c = 0 THEN 1 ELSE 0, is_active |-> FALSE]]
    /\ pc = [c \in Cores |-> IF c = 0 THEN "use" ELSE "off"]
    /\ my_ticket = [c \in Cores |-> 0]
    /\ turn = [c \in Cores |-> 0]
    /\ running = [c \in Cores |-> 0]
    /\ requests = 1

---------------------------------------------------------------------------
(* critical_section_enter, by a core that starts.                          *)

StartEntering(c) ==
    /\ pc[c] = "start"
    /\ customers' = [customers EXCEPT ![c].is_entering = TRUE]
    /\ Goto(c, "ticket")
    /\ UNCHANGED <<contexts, my_ticket, turn, running, requests>>

(* The loop that looks for the highest ticket reads the core's own each    *)
(* time.                                                                   *)
HighestTicket(c) == customers[c].ticket_number

TakeTicket(c) ==
    /\ pc[c] = "ticket"
    /\ my_ticket' = [my_ticket EXCEPT ![c] = HighestTicket(c) + 1]
    /\ customers' = [customers EXCEPT ![c].ticket_number = (HighestTicket(c) + 1) % TicketLimit]
    /\ Goto(c, "door")
    /\ UNCHANGED <<contexts, turn, running, requests>>

(* Mutant: the core is never done entering.                                *)
EndEnteringNever(c) ==
    /\ pc[c] = "door"
    /\ turn' = [turn EXCEPT ![c] = 0]
    /\ Goto(c, "wait_entering")
    /\ UNCHANGED <<customers, contexts, my_ticket, running, requests>>

EndEntering(c) ==
    /\ pc[c] = "door"
    /\ customers' = [customers EXCEPT ![c].is_entering = FALSE]
    /\ turn' = [turn EXCEPT ![c] = 0]
    /\ Goto(c, "wait_entering")
    /\ UNCHANGED <<contexts, my_ticket, running, requests>>

WaitEntering(c) ==
    /\ pc[c] = "wait_entering"
    /\ ~customers[turn[c]].is_entering
    /\ Goto(c, "wait_ticket")
    /\ UNCHANGED <<section, contexts, running, requests>>

(* Must core c wait for the ticket of core i?                              *)
GoesBefore(i, c) ==
    LET tmp == customers[i].ticket_number
    IN  /\ tmp # 0
        /\ tmp < my_ticket[c] \/ (tmp = my_ticket[c] /\ i < c)

(* Mutant: the loop goes on past the last customer.                        *)
LastCustomerOffByOne == NumCores

LastCustomer == NumCores - 1

WaitTicket(c) ==
    /\ pc[c] = "wait_ticket"
    /\ ~GoesBefore(turn[c], c)
    /\ IF turn[c] = LastCustomer
       THEN Goto(c, "main") /\ UNCHANGED turn
       ELSE Goto(c, "wait_entering") /\ turn' = [turn EXCEPT ![c] = @ + 1]
    /\ UNCHANGED <<customers, my_ticket, contexts, running, requests>>

---------------------------------------------------------------------------
(* warmboot_main and core_jump_to_lower_el, in the critical section.       *)

WarmbootMain(c) ==
    /\ pc[c] = "main"
    /\ Goto(c, IF contexts[c].is_active THEN "panic" ELSE "use")
    /\ UNCHANGED <<section, contexts, running, requests>>

(* Mutant: the entry point stays in the context.                           *)
ActiveKeepingEntrypoint(ctx) == [ctx EXCEPT !.is_active = TRUE]

Active(ctx) == [entrypoint |-> 0, is_active |-> TRUE]

UseCoreEntrypoint(c) ==
    /\ pc[c] = "use"
    /\ IF contexts[c].entrypoint = 0 \/ contexts[c].is_active
       THEN Goto(c, "panic") /\ UNCHANGED <<contexts, running>>
       ELSE /\ running' = [running EXCEPT ![c] = contexts[c].entrypoint]
            /\ contexts' = [contexts EXCEPT ![c] = Active(@)]
            /\ Goto(c, "leave")
    /\ UNCHANGED <<section, requests>>

(* critical_section_leave, and the jump to the kernel.                     *)
Leave(c) ==
    /\ pc[c] = "leave"
    /\ customers' = [customers EXCEPT ![c].ticket_number = 0]
    /\ Goto(c, "kernel")
    /\ UNCHANGED <<contexts, my_ticket, turn, running, requests>>

---------------------------------------------------------------------------
(* The SMCs of the kernel.                                                 *)

SetCoreEntrypoint(c) ==
    /\ requests < MaxRequests
    /\ requests' = requests + 1
    /\ contexts' = [contexts EXCEPT ![c].entrypoint = requests + 1]

(* Mutant: a core that is already on is given an entry point.              *)
IsOnNever(c) == FALSE

IsOn(c) == contexts[c].is_active

(* The power gate of c is open.                                            *)
IsPowered(c) == pc[c] \notin {"off", "asleep"}

(* A powered core only starts if it is reset, which is new in 4.0.0.       *)
Powers(c) == Firmware400 \/ ~IsPowered(c)

(* CPU_ON.  The kernel asks for a core that runs, which it is refused, or  *)
(* for one that it stopped.                                                *)
CpuOn(caller, c) ==
    /\ pc[caller] = "kernel"
    /\ pc[c] \in {"kernel", "cpu_off", "stopping", "off"}
    /\ ~IsOn(c)
    /\ SetCoreEntrypoint(c)
    /\ IF Powers(c) THEN Goto(c, "start") ELSE UNCHANGED pc
    /\ UNCHANGED <<section, running>>

(* CPU_OFF: the core has saved its context, is no longer active, and then  *)
(* is powered down.                                                        *)
CpuOff(c) ==
    /\ pc[c] = "kernel"
    /\ Goto(c, "cpu_off")
    /\ UNCHANGED <<section, contexts, running, requests>>

PowerDownCurrentCore(c) ==
    /\ pc[c] = "cpu_off"
    /\ contexts' = [contexts EXCEPT ![c].is_active = FALSE]
    /\ Goto(c, "stopping")
    /\ UNCHANGED <<section, running, requests>>

FinalizePowerdown(c) ==
    /\ pc[c] = "stopping"
    /\ Goto(c, "off")
    /\ UNCHANGED <<section, contexts, running, requests>>

(* CPU_SUSPEND, which checks that the power gates of cores 1 to 3 are off. *)
SuspendCore(c) ==
    /\ pc[c] = "kernel"
    /\ c = 0 /\ \A d \in Cores \ {c} : pc[d] = "off"        \* the kernel's part
    /\ requests < MaxRequests
    /\ requests' = requests + 1
    /\ contexts' = [contexts EXCEPT ![c] = [entrypoint |-> requests + 1, is_active |-> FALSE]]
    /\ Goto(c, IF \E d \in Cores \ {0} : IsPowered(d) THEN "panic" ELSE "asleep")
    /\ UNCHANGED <<section, running>>

(* The system wakes up where it went to sleep: warmboot.                   *)
WakeUp(c) ==
    /\ pc[c] = "asleep"
    /\ Goto(c, "start")
    /\ UNCHANGED <<section, contexts, running, requests>>

---------------------------------------------------------------------------
(* A step of the warmboot code on core c.                                  *)
BootStep(c) ==
    \/ StartEntering(c) \/ TakeTicket(c) \/ EndEntering(c)
    \/ WaitEntering(c) \/ WaitTicket(c)
    \/ WarmbootMain(c) \/ UseCoreEntrypoint(c) \/ Leave(c)

CoreNext ==
    \E c \in Cores :
        \/ BootStep(c)
        \/ \E caller \in Cores : CpuOn(caller, c)
        \/ CpuOff(c) \/ PowerDownCurrentCore(c) \/ FinalizePowerdown(c)
        \/ SuspendCore(c) \/ WakeUp(c)

CoreSpec == CoreInit /\ [][CoreNext]_coreVars

(* The processor runs every core that is powered.                          *)
CoreFairSpec == CoreSpec /\ \A c \in Cores : WF_coreVars(BootStep(c))

---------------------------------------------------------------------------
(* Properties.                                                             *)

(* The state keeps its types; in particular a stored ticket has 7 bits.    *)
CoreTypeOK ==
    /\ customers \in [Cores -> [is_entering : BOOLEAN, ticket_number : 0..(TicketLimit - 1)]]
    /\ contexts \in [Cores -> [entrypoint : 0..MaxRequests, is_active : BOOLEAN]]
    /\ pc \in [Cores -> Places]
    /\ my_ticket \in [Cores -> Nat]
    /\ turn \in [Cores -> Cores]
    /\ running \in [Cores -> 0..MaxRequests]
    /\ requests \in 1..MaxRequests

(* No core finds its context invalid: whatever cores are started, stopped, *)
(* suspended and woken up meanwhile, a core that boots is not active and   *)
(* has an entry point (the panics of warmboot_main and                     *)
(* use_core_entrypoint_and_argument are never taken).                      *)
NoPanic == \A c \in Cores : pc[c] # "panic"

(* A ticket never counts up: a core that enters the section has given its  *)
(* ticket back, so that 7 bits are enough for any number of boots.         *)
TicketsFit == \A c \in Cores : customers[c].ticket_number < 2

(* A core that was given an entry point and does not run it is on its way  *)
(* to it, or was not powered by CPU_ON before 4.0.0: no entry point stays  *)
(* behind in the context of a core that is off or runs another one.        *)
EntryPointTaken ==
    \A c \in Cores : contexts[c].entrypoint # 0 =>
        pc[c] \in Booting \cup {"asleep"} \/ (~Firmware400 /\ pc[c] \in {"stopping", "off"})
=============================================================================
