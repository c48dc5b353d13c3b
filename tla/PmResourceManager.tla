------------------------ MODULE PmResourceManager -------------------------
(***************************************************************************)
(* The memory limits pm moves between the application and the system       *)
(* (pm/source/impl/pm_resource_manager.cpp): BoostSystemMemoryResourceLimit*)
(* sets two kernel limits, one after the other, and either set may fail.   *)
(* Sizes are abstract units.  From 5.0.0 on the system's share is the      *)
(* "unsafe" limit, 0 without a boost, and before it is the system limit.   *)
(***************************************************************************)
EXTENDS Naturals

CONSTANTS
    ApplicationSize, \* g_memory_resource_limits of the application group
    SystemShare      \* of the system group before 5.0.0

ASSUME ResourceAssumption ==
    /\ ApplicationSize \in Nat
    /\ SystemShare \in Nat

VARIABLES
    version5,          \* is the firmware 5.0.0 or later?  Never changes
    application_limit, \* the kernel's limit of the application group
    system_limit,      \* of the system group, or the unsafe limit
    boost_size,        \* g_system_memory_boost_size
    call,              \* the size a call that has done one set goes on with, or NoCall
    aborted            \* R_ABORT_UNLESS failed

vars == <<version5, application_limit, system_limit, boost_size, call, aborted>>

NoCall == [size |-> 0, next |-> "none"]

BoostSizes == 0..ApplicationSize    \* others are ResultInvalidSize

(* The system's limit without a boost.                                     *)
SystemSize == IF version5 THEN 0 ELSE SystemShare

Total == ApplicationSize + SystemSize

(* Mutant: the application's limit always moves first.                     *)
ApplicationAlwaysFirst(size) == TRUE

(* Which of the limits a boost sets first: the one that becomes smaller.   *)
ApplicationFirst(size) == size >= boost_size

SetApplicationLimit(size) ==
    /\ application_limit' = ApplicationSize - size
    /\ UNCHANGED system_limit

SetSystemLimit(size) ==
    /\ system_limit' = SystemSize + size
    /\ UNCHANGED application_limit

(* The first set.  If it fails nothing has happened.                       *)
BoostSystemMemoryResourceLimit(size) ==
    /\ call = NoCall /\ ~aborted
    /\ IF ApplicationFirst(size)
       THEN SetApplicationLimit(size) /\ call' = [size |-> size, next |-> "system"]
       ELSE SetSystemLimit(size) /\ call' = [size |-> size, next |-> "application"]
    /\ UNCHANGED <<version5, boost_size, aborted>>

(* The second set succeeds: the boost is recorded.                         *)
SecondSet ==
    /\ call # NoCall
    /\ IF call.next = "system" THEN SetSystemLimit(call.size) ELSE SetApplicationLimit(call.size)
    /\ boost_size' = call.size
    /\ call' = NoCall
    /\ UNCHANGED <<version5, aborted>>

(* Mutant: the failure is returned, as before 5.0.0.                       *)
AlwaysReturn == aborted' = FALSE

OnSecondFailure == aborted' = version5

(* The second set fails: pm aborts from 5.0.0 on, and returns before.      *)
SecondSetFails ==
    /\ call # NoCall
    /\ OnSecondFailure
    /\ call' = NoCall
    /\ UNCHANGED <<version5, application_limit, system_limit, boost_size>>

Init ==
    /\ version5 \in BOOLEAN
    /\ application_limit = ApplicationSize
    /\ system_limit = SystemSize
    /\ boost_size = 0
    /\ call = NoCall
    /\ aborted = FALSE

Next ==
    \/ \E size \in BoostSizes : BoostSystemMemoryResourceLimit(size)
    \/ SecondSet \/ SecondSetFails

Spec == Init /\ [][Next]_vars

---------------------------------------------------------------------------
(* Properties.                                                             *)

(* The two limits never promise more memory than there is, not even        *)
(* between the two sets nor, before 5.0.0, after a call that failed        *)
(* half-way and left g_system_memory_boost_size behind.                    *)
NeverOvercommitted == application_limit + system_limit <= Total

(* pm_resource_manager.cpp:292: from 5.0.0 on "PM does not allow for only  *)
(* one of the sets to fail": between calls the limits are those of the     *)
(* recorded boost.                                                         *)
BoostIsWhole ==
    version5 /\ ~aborted /\ call = NoCall =>
        /\ application_limit = ApplicationSize - boost_size
        /\ system_limit = SystemSize + boost_size

(* Whatever kernel call fails, and on every firmware.                      *)
LimitsKept == NeverOvercommitted /\ BoostIsWhole
===========================================================================
