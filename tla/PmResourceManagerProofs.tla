--------------------- MODULE PmResourceManagerProofs ----------------------
(***************************************************************************)
(* For every split of the memory: the limits pm sets never promise more    *)
(* than there is, and from 5.0.0 on a boost happens as a whole.            *)
(***************************************************************************)
EXTENDS PmResourceManager, TLAPS

(* In the middle of a call the limit that shrinks is the one already set;  *)
(* between calls neither limit is above that of the recorded boost.        *)
FirstSetShrinks ==
    /\ call.next = "system" =>
        /\ application_limit = ApplicationSize - call.size
        /\ boost_size <= call.size
    /\ call.next = "application" =>
        /\ system_limit = SystemSize + call.size
        /\ call.size <= boost_size

WithinBoost ==
    /\ application_limit <= ApplicationSize - boost_size
    /\ system_limit <= SystemSize + boost_size

Types ==
    /\ application_limit \in Nat /\ system_limit \in Nat
    /\ boost_size \in BoostSizes
    /\ call \in {NoCall} \cup [size : BoostSizes, next : {"system", "application"}]
    /\ aborted \in BOOLEAN /\ version5 \in BOOLEAN

IInv == Types /\ FirstSetShrinks /\ WithinBoost /\ BoostIsWhole

(* The limits pm sets at boot are those of no boost                        *)
(* (InitializeResourceManager).                                            *)
LEMMA InitIInv == Init => IInv
<1> SUFFICES ASSUME Init PROVE IInv
    OBVIOUS
<1> USE ResourceAssumption DEF Init, SystemSize
<1>1. Types
    <2>1. call \in {NoCall} \cup [size : BoostSizes, next : {"system", "application"}]
        BY Zenon
    <2>2. boost_size \in BoostSizes BY DEF BoostSizes
    <2> QED BY <2>1, <2>2 DEF Types
<1>2. FirstSetShrinks
    <2>1. call.next = "none" BY DEF NoCall
    <2> QED BY <2>1 DEF FirstSetShrinks
<1>3. WithinBoost /\ BoostIsWhole
    BY DEF WithinBoost, BoostIsWhole
<1> QED BY <1>1, <1>2, <1>3 DEF IInv

(* The first set moves the limit that becomes smaller, so that both stay   *)
(* within the recorded boost (BoostSystemMemoryResourceLimit).             *)
LEMMA FirstSetIInv ==
    ASSUME IInv, NEW size \in BoostSizes, BoostSystemMemoryResourceLimit(size)
    PROVE  IInv'
<1> USE ResourceAssumption
        DEF IInv, Types, FirstSetShrinks, WithinBoost, BoostIsWhole, NoCall, BoostSizes,
            SystemSize, BoostSystemMemoryResourceLimit
<1>1. CASE size >= boost_size
    BY <1>1 DEF ApplicationFirst, SetApplicationLimit
<1>2. CASE ~(size >= boost_size)
    BY <1>2 DEF ApplicationFirst, SetSystemLimit
<1> QED BY <1>1, <1>2

(* The second set completes the boost.                                     *)
LEMMA SecondSetIInv == IInv /\ SecondSet => IInv'
<1> USE ResourceAssumption
        DEF IInv, Types, FirstSetShrinks, WithinBoost, BoostIsWhole, NoCall, BoostSizes, SystemSize,
            SecondSet
<1> SUFFICES ASSUME IInv, SecondSet PROVE IInv'
    OBVIOUS
<1>1. CASE call.next = "system"
    BY <1>1 DEF SetSystemLimit
<1>2. CASE call.next = "application"
    BY <1>2 DEF SetApplicationLimit
<1> QED BY <1>1, <1>2

(* A second set that fails leaves the limits smaller than they might be;   *)
(* from 5.0.0 on pm aborts.                                                *)
LEMMA SecondSetFailsIInv == IInv /\ SecondSetFails => IInv'
BY ResourceAssumption
   DEF IInv, Types, FirstSetShrinks, WithinBoost, BoostIsWhole, NoCall, BoostSizes,
       SystemSize, SecondSetFails, OnSecondFailure

(* Every call of BoostSystemMemoryResourceLimit keeps the invariant.       *)
LEMMA NextIInv == IInv /\ [Next]_vars => IInv'
<1> SUFFICES ASSUME IInv, [Next]_vars PROVE IInv'
    OBVIOUS
<1>1. CASE UNCHANGED vars
    BY <1>1 DEF IInv, Types, FirstSetShrinks, WithinBoost, BoostIsWhole, SystemSize, vars
<1>2. CASE Next
    BY <1>2, FirstSetIInv, SecondSetIInv, SecondSetFailsIInv DEF Next
<1> QED BY <1>1, <1>2

(* The invariant bounds the sum of the limits (NeverOvercommitted).        *)
LEMMA IInvNeverOvercommitted == IInv => NeverOvercommitted
BY ResourceAssumption DEF IInv, Types, WithinBoost, NeverOvercommitted, Total, SystemSize, BoostSizes

(* The application's and the system's limit never promise more than there  *)
(* is, on every firmware, whichever of the two kernel calls of             *)
(* BoostSystemMemoryResourceLimit fails, and from 5.0.0 on the limits      *)
(* between calls are those of the recorded boost: it aborts rather than    *)
(* fail half-way.                                                          *)
THEOREM LimitsAreKept == Spec => []LimitsKept
<1>1. IInv => LimitsKept
  BY IInvNeverOvercommitted DEF LimitsKept, IInv
<1> QED BY <1>1, InitIInv, NextIInv, PTL DEF Spec
===========================================================================
