---------------------------- MODULE RandomCache ----------------------------
(***************************************************************************)
(* The cache of random bytes exosphere keeps for the kernel (randomcache.c)*)
(* and the SMC that uses it (smc_get_random_bytes_for_priv): while a user  *)
(* SMC is in progress the Security Engine is not available and the bytes   *)
(* come from the cache, which is otherwise refilled.                       *)
(*                                                                         *)
(* A byte is a position of the ring; what matters is whether it has been   *)
(* served since it was generated.                                          *)
(***************************************************************************)
EXTENDS Integers

CONSTANTS
    CacheSize,      \* of the cache: 0x400
    MaxRequest      \* bytes a request can ask for: 0x38

ASSUME CacheAssumption ==
    /\ CacheSize \in Nat /\ MaxRequest \in Nat
    /\ 0 < MaxRequest /\ MaxRequest < CacheSize

VARIABLES
    low, high,                  \* g_random_cache_low, g_random_cache_high
    served,                     \* the positions whose byte has been served
    smc_in_progress,            \* the lock of the user SMCs
    drained                     \* history: the reads have reached high once

cacheVars == <<low, high, served, smc_in_progress, drained>>

Positions == 0..(CacheSize - 1)

(* randomcache_init *)
CacheInit ==
    /\ low = 0 /\ high = CacheSize - 1
    /\ served = {}
    /\ smc_in_progress = FALSE
    /\ drained = FALSE

(* Mutant: the sum is not wrapped.                                         *)
NoWrap(x) == x

(* x & 0x3FF, for the sums that occur.                                     *)
Wrap(x) == IF x >= CacheSize THEN x - CacheSize ELSE x

(* Mutant: the last byte is not generated.                                 *)
SegmentShort(offset, size) == offset..(offset + size - 2)

(* The bytes randomcache_refill_segment generates.                         *)
Segment(offset, size) ==
    offset..(IF offset + size >= CacheSize THEN CacheSize - 1 ELSE offset + size - 1)

(* randomcache_refill: the bytes from high + 1 up to low, around the end   *)
(* of the ring if need be.                                                 *)
Refilled ==
    LET high_plus_one == Wrap(high + 1)
        tail == IF high # CacheSize - 1 THEN Segment(high_plus_one, CacheSize - high_plus_one) ELSE {}
        head == IF low > 0 THEN Segment(0, low) ELSE {}
    IN  CASE low = high_plus_one -> {}
          [] low < high_plus_one -> tail \cup head
          [] low > high_plus_one -> Segment(high_plus_one, low - high_plus_one)

HighAfterRefill ==
    LET high_plus_one == Wrap(high + 1)
        tail_end == IF high # CacheSize - 1 THEN Wrap(high + CacheSize - high_plus_one) ELSE high
    IN  CASE low = high_plus_one -> high
          [] low < high_plus_one -> IF low > 0 THEN Wrap(tail_end + low) ELSE tail_end
          [] low > high_plus_one -> low - 1

(* The SMC while no user SMC is in progress: fresh bytes are generated for *)
(* the kernel, and the cache is refilled.                                  *)
Refill ==
    /\ ~smc_in_progress
    /\ served' = served \ Refilled
    /\ high' = HighAfterRefill
    /\ UNCHANGED <<low, smc_in_progress, drained>>

(* Mutant: only the reads that end outside are moved to the start.         *)
WrapsTooLate(new_low) == new_low > CacheSize - 1

(* Another request might not fit behind new_low.                           *)
WrapsAround(new_low) == new_low + MaxRequest > CacheSize - 1

(* The SMC while a user SMC is in progress: randomcache_getbytes.          *)
GetBytes(num_bytes) ==
    /\ smc_in_progress
    /\ served' = served \cup (low..(low + num_bytes - 1))
    /\ low' = IF WrapsAround(low + num_bytes) THEN 0 ELSE low + num_bytes
    /\ drained' = \/ drained
                  \/ low <= high /\ (WrapsAround(low + num_bytes) \/ high < low + num_bytes)
    /\ UNCHANGED <<high, smc_in_progress>>

(* A user SMC begins, or ends.                                             *)
OtherSmc ==
    /\ smc_in_progress' = ~smc_in_progress
    /\ UNCHANGED <<low, high, served, drained>>

CacheNext == Refill \/ OtherSmc \/ \E n \in 1..MaxRequest : GetBytes(n)

CacheSpec == CacheInit /\ [][CacheNext]_cacheVars

---------------------------------------------------------------------------
(* Properties.                                                             *)

(* The bytes from low to high, around the end of the ring.                 *)
Available ==
    {p \in Positions : IF low <= high THEN low <= p /\ p <= high ELSE low <= p \/ p <= high}

CacheTypeOK ==
    /\ low \in Positions /\ high \in Positions
    /\ served \subseteq Positions
    /\ smc_in_progress \in BOOLEAN /\ drained \in BOOLEAN

(* The largest request fits behind low: randomcache_getbytes never copies  *)
(* beyond the end of the cache, whatever requests and refills came before. *)
ReadsStayInside == low + MaxRequest <= CacheSize - 1

(* No byte is served twice, as long as the reads never caught up with high:*)
(* the ring's two indices then describe what is left, through every wrap   *)
(* and partial refill.                                                     *)
NoByteServedTwice == ~drained => Available \cap served = {}

(* What a ring promises.                                                   *)
RingKept == ReadsStayInside /\ NoByteServedTwice

(* A refill has something to do when bytes were served: "only refill if    *)
(* there's data to refill", and the cache is refilled "while we have the   *)
(* chance".  It does not hold once the cache was drained: the indices of a *)
(* ring that was read up to its end are those of a full one.               *)
RefillRenews == ~smc_in_progress /\ served # {} => Refilled # {}

=============================================================================
