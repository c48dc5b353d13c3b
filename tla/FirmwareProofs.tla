--------------------------- MODULE FirmwareProofs ---------------------------
(***************************************************************************)
(* Proofs about the machines of the firmware, each with the inductive      *)
(* invariant it needs: the asynchronous SMCs (SecureMonitor), for every    *)
(* number of operations and every set of exponents; the random cache, for  *)
(* a cache and requests of any size; the starting and stopping of cores    *)
(* (CoreBoot), for any number of cores, ticket width and requests; and     *)
(* boot's battery and charger (BootBattery), for every measurement and     *)
(* however many transfers fail and power losses happen.                    *)
(***************************************************************************)
EXTENDS SecureMonitor, RandomCache, CoreBoot, BootBattery, SequenceTheorems, TLAPS

---------------------------------------------------------------------------
(* SecureMonitor.                                                          *)

(* What the engine does, what spl waits for and what the caller may be     *)
(* told go together: the engine works for the operation of the key, which  *)
(* is the last one started, and is done with it when spl is interrupted.   *)
Coherent ==
    /\ operation # NoOperation => callback_key = ops
    /\ operation # NoOperation => (se_callback = "none" <=> se_event = TRUE)
    /\ operation = NoOperation => se_event = FALSE

Working ==
    operation # NoOperation /\ se_callback # "none" =>
        /\ operation.kind = "crypt_aes" => se_callback = "crypt_aes_done" /\ ~crypt_aes_done
        /\ operation.kind # "crypt_aes" => se_callback # "crypt_aes_done" /\ exp_mod_result = 3

Done ==
    operation # NoOperation /\ operation.kind # "crypt_aes" /\ exp_mod_result = 0 =>
        se_output = callback_key

Tested ==
    /\ se_callback = "test_exp_mod_done" =>
           operation.kind = "secure_exp_mod" /\ operation.exponent \in Exponents
    /\ VerifiedFits

IInv == TypeOK /\ SeExclusive /\ Coherent /\ Working /\ Done /\ Tested

---------------------------------------------------------------------------
(* The first request waits for nothing: the invariant holds initially.     *)
LEMMA InitIInv == Init => IInv
<1>1. Init => TypeOK
  <2>1. Init => keypairs \in [Exponents -> Keypair]
    BY DEF Init, Keypair
  <2>2. Init => ops \in 0..MaxOps /\ callback_key \in 0..ops /\ se_output \in 0..ops
    BY MonitorAssumption DEF Init
  <2> QED  BY <2>1, <2>2 DEF Init, TypeOK
<1>2. Init => SeExclusive /\ Coherent /\ Working /\ Done
  BY DEF Init, SeExclusive, Coherent, Working, Done
<1>3. Init => Tested
  BY DEF Init, Tested, VerifiedFits
<1> QED  BY <1>1, <1>2, <1>3 DEF IInv

(* What the kinds of request have in common.                               *)
LEMMA RequestKinds ==
    ASSUME NEW request \in Requests
    PROVE  /\ request # NoOperation
           /\ request.kind \in {"crypt_aes", "unwrap_titlekey", "exp_mod", "secure_exp_mod"}
           /\ request.kind = "secure_exp_mod" => request.exponent \in Exponents /\ request.fits \in BOOLEAN
<1>1. CASE request \in [kind : {"crypt_aes", "unwrap_titlekey"}]
  BY <1>1 DEF NoOperation
<1>2. CASE request \in [kind : {"exp_mod"}, size : OutSizes]
  BY <1>2 DEF NoOperation
<1>3. CASE request \in [kind : {"secure_exp_mod"}, size : OutSizes, exponent : Exponents, fits : BOOLEAN]
  BY <1>3 DEF NoOperation
<1> QED  BY <1>1, <1>2, <1>3 DEF Requests

(* Starting an operation: nothing was running, and the old result is gone. *)
LEMMA SmcAsyncIInv ==
    ASSUME IInv, NEW request \in Requests, SmcAsync(request)
    PROVE  IInv'
<1> USE MonitorAssumption, RequestKinds
<1>0. /\ TypeOK /\ SeExclusive /\ Coherent /\ Tested
      /\ operation = NoOperation /\ kernel = "idle" /\ se_callback = "none"
  BY DEF IInv, SmcAsync, SeExclusive, Acquire, TypeOK
<1>1. ops' = ops + 1 /\ ops' \in 0..MaxOps /\ callback_key' = ops' /\ operation' = request
  BY <1>0 DEF SmcAsync, TypeOK
<1>2. StartEngine(request) /\ UNCHANGED <<se_output, se_event, kernel>> /\ user_smc_in_progress' = TRUE
  BY DEF SmcAsync, Acquire
<1>3. /\ exp_mod_result' = IF request.kind = "crypt_aes" THEN exp_mod_result ELSE 3
      /\ request.kind = "crypt_aes" => crypt_aes_done' = FALSE
      /\ crypt_aes_done' \in BOOLEAN /\ test_in_progress' \in BOOLEAN
      /\ se_callback' \in {"crypt_aes_done", "exp_mod_done", "test_exp_mod_done"}
      /\ se_callback' = "crypt_aes_done" <=> request.kind = "crypt_aes"
      /\ se_callback' = "test_exp_mod_done" => request.kind = "secure_exp_mod"
      /\ keypairs' \in [Exponents -> Keypair] /\ VerifiedFits'
  <2>1. CASE request.kind = "crypt_aes"
    BY <1>0, <1>2, <2>1 DEF StartEngine, user_crypt_aes, TypeOK, Tested, VerifiedFits
  <2>2. CASE request.kind = "exp_mod"
    BY <1>0, <1>2, <2>2 DEF StartEngine, user_exp_mod, StartExpMod, TypeOK, Tested, VerifiedFits
  <2>3. CASE request.kind = "unwrap_titlekey"
    BY <1>0, <1>2, <2>3
    DEF StartEngine, user_unwrap_rsa_oaep_wrapped_titlekey, StartExpMod, TypeOK, Tested, VerifiedFits
  <2>4. CASE request.kind = "secure_exp_mod"
    <3>1. user_secure_exp_mod(request)
      BY <1>2, <2>4 DEF StartEngine
    <3>2. CASE MustTest(request)
      <4>1. keypairs' = [keypairs EXCEPT ![request.exponent].fits = request.fits]
        BY <3>1, <3>2 DEF user_secure_exp_mod
      <4>2. keypairs' \in [Exponents -> Keypair]
        BY <1>0, <2>4, <4>1 DEF TypeOK, Keypair
      <4>3. VerifiedFits'
        BY <1>0, <2>4, <3>2, <4>1 DEF MustTest, TypeOK, Keypair, Tested, VerifiedFits
      <4> QED  BY <1>0, <2>4, <3>1, <3>2, <4>2, <4>3 DEF user_secure_exp_mod, StartExpMod, TypeOK
    <3>3. CASE ~MustTest(request)
      BY <1>0, <2>4, <3>1, <3>3 DEF user_secure_exp_mod, StartExpMod, TypeOK, Tested, VerifiedFits
    <3> QED  BY <3>2, <3>3
  <2> QED  BY <2>1, <2>2, <2>3, <2>4
<1>4. TypeOK'
  BY <1>0, <1>1, <1>2, <1>3 DEF TypeOK
<1>5. SeExclusive'
  BY <1>0, <1>1, <1>2, <1>3 DEF SeExclusive, TypeOK
<1>6. Coherent'
  BY <1>0, <1>1, <1>2, <1>3 DEF Coherent
<1>7. Working' /\ Done'
  BY <1>1, <1>3 DEF Working, Done
<1> QED  BY <1>1, <1>3, <1>4, <1>5, <1>6, <1>7 DEF IInv, Tested

(* The engine's interrupts.                                                *)
LEMMA EngineIInv ==
    ASSUME IInv, Engine
    PROVE  IInv'
<1> USE MonitorAssumption DEF IInv
<1>0. operation \in Requests /\ operation # NoOperation /\ callback_key = ops
  BY DEF Engine, CryptAesDone, ExpModDone, TestPublicDone, TestPrivateDone, SeExclusive, TypeOK, Coherent
<1>1. CASE CryptAesDone
  BY <1>0, <1>1 DEF CryptAesDone, Interrupts, TypeOK, SeExclusive, Coherent, Working, Done, Tested, VerifiedFits
<1>2. CASE ExpModDone
  BY <1>0, <1>2 DEF ExpModDone, Interrupts, TypeOK, SeExclusive, Coherent, Working, Done, Tested, VerifiedFits
<1>3. CASE TestPublicDone
  BY <1>0, <1>3 DEF TestPublicDone, TypeOK, SeExclusive, Coherent, Working, Done, Tested, VerifiedFits
<1>4. CASE TestPrivateDone
  <2>1. operation.kind = "secure_exp_mod" /\ operation.exponent \in Exponents
    BY <1>4 DEF TestPrivateDone, Tested
  <2>2. CASE keypairs[operation.exponent].fits
    <3>1. keypairs' \in [Exponents -> Keypair] /\ VerifiedFits'
      <4>1. keypairs' = [keypairs EXCEPT ![operation.exponent].verified = TRUE]
        BY <1>4, <2>2 DEF TestPrivateDone
      <4>2. \A e \in Exponents : keypairs[e] \in Keypair
        BY DEF TypeOK
      <4>3. keypairs' \in [Exponents -> Keypair]
        BY <2>1, <4>1, <4>2 DEF TypeOK, Keypair
      <4>4. VerifiedFits'
        BY <2>1, <2>2, <4>1, <4>2 DEF TypeOK, Keypair, Tested, VerifiedFits
      <4> QED  BY <4>3, <4>4
    <3> QED  BY <1>0, <1>4, <2>1, <2>2, <3>1
             DEF TestPrivateDone, TypeOK, SeExclusive, Coherent, Working, Done, Tested
  <2>3. CASE ~keypairs[operation.exponent].fits
    BY <1>0, <1>4, <2>1, <2>3
    DEF TestPrivateDone, FailTest, Interrupts, TypeOK, SeExclusive, Coherent, Working, Done, Tested, VerifiedFits
  <2> QED  BY <2>2, <2>3
<1> QED  BY <1>1, <1>2, <1>3, <1>4 DEF Engine

(* Every step keeps the invariant.                                         *)
LEMMA NextIInv == IInv /\ [Next]_vars => IInv'
<1> SUFFICES ASSUME IInv, [Next]_vars PROVE IInv'
  OBVIOUS
<1>1. ASSUME NEW request \in Requests, SmcAsync(request) PROVE IInv'
  BY <1>1, SmcAsyncIInv
<1>2. ASSUME NEW e \in Exponents, ImportKey(e) PROVE IInv'
  <2>1. keypairs' \in [Exponents -> Keypair] /\ VerifiedFits'
    BY <1>2, MonitorAssumption DEF IInv, ImportKey, Imported, TypeOK, Keypair, Tested, VerifiedFits
  <2> QED  BY <1>2, <2>1 DEF IInv, ImportKey, TypeOK, SeExclusive, Coherent, Working, Done, Tested
<1>3. CASE Engine
  BY <1>3, EngineIInv
<1>4. CASE Answer
  <2>1. /\ UNCHANGED <<se_callback, crypt_aes_done, exp_mod_result, keypairs, test_in_progress,
                       se_output, kernel, ops>>
        /\ se_event' = FALSE /\ operation' = NoOperation
    BY <1>4 DEF Answer, seVars
  <2>2. se_callback = "none" /\ callback_key # 0 /\ user_smc_in_progress = TRUE /\ kernel = "idle"
    BY <1>4 DEF IInv, Answer, Coherent, TypeOK, SeExclusive
  <2>3. /\ callback_key' = 0 /\ user_smc_in_progress' \in BOOLEAN
        \/ UNCHANGED <<callback_key, user_smc_in_progress>>
    BY <1>4, <2>2 DEF Answer, CheckStatus, GetResult, Release
  <2>4. TypeOK'
    <3>1. ops \in 0..MaxOps /\ 0 \in 0..ops
      BY MonitorAssumption DEF IInv, TypeOK
    <3> QED  BY <2>1, <2>3, <3>1 DEF IInv, TypeOK
  <2>5. SeExclusive'
    BY <2>1, <2>2, <2>3 DEF IInv, SeExclusive
  <2>6. Coherent' /\ Working' /\ Done' /\ Tested'
    BY <2>1, <2>2 DEF IInv, Coherent, Working, Done, Tested, VerifiedFits
  <2> QED  BY <2>4, <2>5, <2>6 DEF IInv
<1>5. CASE KernelRandom \/ CpuSuspend \/ KernelRandomDone \/ Warmboot
  <2>1. UNCHANGED <<callback_key, seVars, operation, se_event, ops>>
    BY <1>5 DEF KernelRandom, CpuSuspend, KernelRandomDone, Warmboot
  <2>2. TypeOK'
    BY <1>5, <2>1 DEF IInv, KernelRandom, CpuSuspend, KernelRandomDone, Warmboot, Acquire, Release, seVars, TypeOK
  <2>3. SeExclusive'
    BY <1>5, <2>1
    DEF IInv, KernelRandom, CpuSuspend, KernelRandomDone, Warmboot, Acquire, Release, seVars, SeExclusive, Coherent
  <2> QED  BY <2>1, <2>2, <2>3 DEF IInv, seVars, Coherent, Working, Done, Tested, VerifiedFits
<1>6. CASE UNCHANGED vars
  BY <1>6 DEF IInv, vars, seVars, TypeOK, SeExclusive, Coherent, Working, Done, Tested, VerifiedFits
<1> QED  BY <1>1, <1>2, <1>3, <1>4, <1>5, <1>6 DEF Next

(* The invariant is one of the specification.                              *)
LEMMA AlwaysIInv == Spec => []IInv
  BY InitIInv, NextIInv, PTL DEF Spec

(* The lock of the user SMCs gives the Security Engine one user, and a     *)
(* free lock means that no status is left to check.                        *)
THEOREM EngineHasOneUser == Spec => []SeExclusive
<1>1. IInv => SeExclusive
  BY DEF IInv
<1> QED  BY <1>1, AlwaysIInv, PTL

(* A caller is handed the result of its own operation.                     *)
THEOREM ResultsAreOnesOwn == Spec => []ResultReady
<1>1. IInv => ResultReady
  BY DEF IInv, Coherent, Working, Done, ResultReady
<1> QED  BY <1>1, AlwaysIInv, PTL

(* Only a modulus that fits its exponent counts as verified.               *)
THEOREM VerifiedModuliFit == Spec => []VerifiedFits
<1>1. IInv => VerifiedFits
  BY DEF IInv, Tested
<1> QED  BY <1>1, AlwaysIInv, PTL

(* The types, of the lock, the engine, the key pairs and the clients.      *)
THEOREM MonitorTypesCorrect == Spec => []TypeOK
<1>1. IInv => TypeOK
  BY DEF IInv
<1> QED  BY <1>1, AlwaysIInv, PTL

---------------------------------------------------------------------------
(* RandomCache.                                                            *)

CacheInv == CacheTypeOK /\ ReadsStayInside /\ NoByteServedTwice

(* The ring of randomcache_init is full.                                   *)
LEMMA CacheInvInit == CacheInit => CacheInv
  <1> SUFFICES ASSUME CacheInit PROVE CacheInv
    OBVIOUS
  <1>1. low \in Positions /\ high \in Positions /\ ReadsStayInside
    BY CacheAssumption DEF CacheInit, ReadsStayInside, Positions
  <1> served \subseteq Positions
    BY DEF CacheInit
  <1> CacheTypeOK
    BY <1>1 DEF CacheInit, CacheTypeOK
  <1>2. NoByteServedTwice
    BY DEF CacheInit, NoByteServedTwice
  <1> QED
    BY <1>1, <1>2 DEF CacheInv

(* After randomcache_refill the bytes between the indices are those that   *)
(* were there, or fresh ones.                                              *)
LEMMA RefillKeepsInv == ASSUME CacheInv, Refill PROVE CacheInv'
  <1> USE CacheAssumption DEF CacheInv, Refill, CacheTypeOK, Positions
  <1>1. high' \in Positions
    BY DEF HighAfterRefill, Wrap, ReadsStayInside
  <1>2. CacheTypeOK' /\ ReadsStayInside'
    BY <1>1 DEF ReadsStayInside
  <1>3. ASSUME ~drained, NEW p \in Available' PROVE p \notin served'
    <2>1. p \in 0..(CacheSize - 1)
      BY <1>3 DEF Available
    <2>2. CASE p \in Available
      BY <2>2, <1>3 DEF NoByteServedTwice
    <2>3. CASE p \notin Available
      <3>1. p \in Refilled
        BY <2>1, <2>3, <1>3
           DEF Available, Refilled, Segment, HighAfterRefill, Wrap, ReadsStayInside
      <3> QED
        BY <3>1
    <2> QED
      BY <2>2, <2>3
  <1> QED
    BY <1>2, <1>3 DEF NoByteServedTwice

(* randomcache_getbytes takes the bytes it serves out of the ring, unless  *)
(* the reads reach high.                                                   *)
LEMMA GetBytesKeepsInv == ASSUME CacheInv, NEW n \in 1..MaxRequest, GetBytes(n) PROVE CacheInv'
  <1> USE CacheAssumption DEF CacheInv, GetBytes, CacheTypeOK, Positions, ReadsStayInside
  <1>1. CacheTypeOK' /\ ReadsStayInside'
    BY DEF WrapsAround
  <1>2. ASSUME ~drained', NEW p \in Available' PROVE p \notin served'
    <2>1. p \in Available /\ p \notin low..(low + n - 1)
      BY <1>2 DEF Available, WrapsAround
    <2> QED
      BY <2>1, <1>2 DEF NoByteServedTwice
  <1> QED
    BY <1>1, <1>2 DEF NoByteServedTwice

(* Every call of randomcache.c keeps the indices and the bytes as CacheInv has  *)
(* them: reads and refills by the lemmas above; OtherSmc touches neither.   *)
LEMMA CacheInvAlways == CacheSpec => []CacheInv
  <1>1. CacheInv /\ [CacheNext]_cacheVars => CacheInv'
    <2> SUFFICES ASSUME CacheInv, [CacheNext]_cacheVars PROVE CacheInv'
      OBVIOUS
    <2>1. CASE OtherSmc \/ UNCHANGED cacheVars
      BY <2>1 DEF CacheInv, OtherSmc, cacheVars, CacheTypeOK, ReadsStayInside, NoByteServedTwice, Available
    <2> QED
      BY <2>1, RefillKeepsInv, GetBytesKeepsInv DEF CacheNext
  <1> QED
    BY <1>1, CacheInvInit, PTL DEF CacheSpec

(* randomcache_getbytes never copies beyond the end of the cache, and      *)
(* until the ring is drained no byte of it is served twice, whatever the   *)
(* sizes of the cache and of the requests.                                 *)
THEOREM RingIsKept == CacheSpec => []RingKept
  <1>1. CacheInv => RingKept
    BY DEF CacheInv, RingKept
  <1> QED
    BY <1>1, CacheInvAlways, PTL

---------------------------------------------------------------------------
(* CoreBoot.                                                               *)

(* What holds of core c at each place of it: whether it is active, whether *)
(* an entry point waits for it, and whether it may hold a ticket.          *)
CoreInv(c) ==
    LET ctx    == contexts[c]
        ticket == customers[c].ticket_number
    IN  /\ pc[c] # "panic"
        /\ pc[c] \in {"kernel", "cpu_off"} =>
               ctx.is_active /\ ctx.entrypoint = 0 /\ ticket = 0
        /\ pc[c] \in {"stopping", "off"} =>
               ~ctx.is_active /\ (Firmware400 => ctx.entrypoint = 0) /\ ticket = 0
        /\ pc[c] \in {"asleep", "start", "ticket"} =>
               ~ctx.is_active /\ ctx.entrypoint # 0 /\ ticket = 0
        /\ pc[c] \in {"door", "main", "use"} \cup Waiting =>
               ~ctx.is_active /\ ctx.entrypoint # 0 /\ ticket < 2
        /\ pc[c] = "leave" => ctx.is_active /\ ctx.entrypoint = 0 /\ ticket < 2

CoresInv == CoreTypeOK /\ \A c \in Cores : CoreInv(c)

(* The first ticket is ticket 1, in any number of bits.                    *)
LEMMA FirstTicket == ASSUME NEW T \in Nat, T > 1 PROVE 1 % T = 1
  OBVIOUS

(* Core 0 boots with a ticket and an entry point, the others are off.      *)
LEMMA CoresInvInit == CoreInit => CoresInv
  <1> SUFFICES ASSUME CoreInit PROVE CoresInv
    OBVIOUS
  <1>1. 0 \in Cores
    BY CoreAssumption DEF Cores
  <1>2. CoreTypeOK
    BY <1>1, CoreAssumption DEF CoreInit, CoreTypeOK, Places, Booting, InSection, Waiting
  <1>3. \A c \in Cores : CoreInv(c)
    BY DEF CoreInit, CoreInv, Waiting
  <1> QED
    BY <1>2, <1>3 DEF CoresInv

(* A step of core c that changes only its own entries keeps the invariant  *)
(* of the others.                                                          *)
LEMMA OthersKeepInv ==
  ASSUME CoresInv, NEW c \in Cores, NEW d \in Cores, d # c,
         customers'[d] = customers[d], contexts'[d] = contexts[d], pc'[d] = pc[d]
  PROVE  CoreInv(d)'
  BY DEF CoresInv, CoreInv

(* critical_section_enter.                                                 *)
LEMMA EnterKeepsInv ==
  ASSUME CoresInv, NEW c \in Cores,
         \/ StartEntering(c) \/ TakeTicket(c) \/ EndEntering(c)
         \/ WaitEntering(c) \/ WaitTicket(c)
  PROVE  CoresInv'
  <1> USE DEF CoresInv, Goto, section
  <1>0. NumCores \in Nat /\ CoreInv(c)
    BY CoreAssumption
  <1>1. CASE StartEntering(c)
    <2>1. CoreTypeOK'
      BY <1>1 DEF StartEntering, CoreTypeOK, Places, Booting
    <2>2. CoreInv(c)'
      BY <1>0, <1>1 DEF StartEntering, CoreInv, CoreTypeOK, Waiting
    <2>3. \A d \in Cores \ {c} : CoreInv(d)'
      BY <1>1, OthersKeepInv DEF StartEntering, CoreTypeOK
    <2> QED
      BY <2>1, <2>2, <2>3
  <1>2. CASE TakeTicket(c)
    <2>1. HighestTicket(c) = 0
      BY <1>0, <1>2 DEF TakeTicket, CoreInv, HighestTicket
    <2>2. /\ customers' = [customers EXCEPT ![c].ticket_number = 1]
          /\ my_ticket' = [my_ticket EXCEPT ![c] = 1]
      <3>1. TicketLimit \in Nat /\ TicketLimit > 1
        BY CoreAssumption
      <3>2. 1 % TicketLimit = 1
        BY <3>1, FirstTicket
      <3>3. HighestTicket(c) + 1 = 1 /\ (HighestTicket(c) + 1) % TicketLimit = 1
        BY <2>1, <3>2
      <3> QED
        BY <1>2, <3>3, Zenon DEF TakeTicket
    <2>3. CoreTypeOK'
      BY <2>2, <1>2, CoreAssumption DEF TakeTicket, CoreTypeOK, Places, Booting
    <2>4. CoreInv(c)'
      BY <2>2, <1>0, <1>2 DEF TakeTicket, CoreInv, CoreTypeOK, Waiting
    <2>5. \A d \in Cores \ {c} : CoreInv(d)'
      BY <2>2, <1>2, OthersKeepInv DEF TakeTicket, CoreTypeOK
    <2> QED
      BY <2>3, <2>4, <2>5
  <1>3. CASE EndEntering(c)
    <2>1. 0 \in Cores
      BY CoreAssumption DEF Cores
    <2>2. CoreTypeOK'
      BY <2>1, <1>3 DEF EndEntering, CoreTypeOK, Places, Booting, Waiting
    <2>3. CoreInv(c)'
      BY <1>0, <1>3 DEF EndEntering, CoreInv, CoreTypeOK, Waiting
    <2>4. \A d \in Cores \ {c} : CoreInv(d)'
      BY <1>3, OthersKeepInv DEF EndEntering, CoreTypeOK
    <2> QED
      BY <2>2, <2>3, <2>4
  <1>4. CASE WaitEntering(c)
    <2>1. CoreTypeOK'
      BY <1>4 DEF WaitEntering, CoreTypeOK, Places, Booting, Waiting
    <2>2. CoreInv(c)'
      BY <1>0, <1>4 DEF WaitEntering, CoreInv, CoreTypeOK, Waiting
    <2>3. \A d \in Cores \ {c} : CoreInv(d)'
      BY <1>4, OthersKeepInv DEF WaitEntering, CoreTypeOK
    <2> QED
      BY <2>1, <2>2, <2>3
  <1>5. CASE WaitTicket(c)
    <2>1. turn' \in [Cores -> Cores]
      <3>1. turn[c] \in Cores
        BY DEF CoreTypeOK
      <3>2. turn[c] # LastCustomer => turn[c] + 1 \in Cores
        BY <3>1, <1>0 DEF Cores, LastCustomer
      <3> QED
        BY <3>2, <1>5 DEF WaitTicket, CoreTypeOK
    <2>2. CoreTypeOK'
      BY <2>1, <1>5 DEF WaitTicket, CoreTypeOK, Places, Booting, Waiting, InSection
    <2>3. CoreInv(c)'
      BY <1>0, <1>5 DEF WaitTicket, CoreInv, CoreTypeOK, Waiting
    <2>4. \A d \in Cores \ {c} : CoreInv(d)'
      BY <1>5, OthersKeepInv DEF WaitTicket, CoreTypeOK
    <2> QED
      BY <2>2, <2>3, <2>4
  <1> QED
    BY <1>1, <1>2, <1>3, <1>4, <1>5

(* warmboot_main and core_jump_to_lower_el.                                *)
LEMMA WarmbootKeepsInv ==
  ASSUME CoresInv, NEW c \in Cores, WarmbootMain(c) \/ UseCoreEntrypoint(c) \/ Leave(c)
  PROVE  CoresInv'
  <1> USE DEF CoresInv, Goto, section
  <1>0. CoreInv(c)
    OBVIOUS
  <1>1. CASE WarmbootMain(c)
    <2>1. CoreTypeOK'
      BY <1>1 DEF WarmbootMain, CoreTypeOK, Places, Booting, InSection
    <2>2. CoreInv(c)'
      BY <1>0, <1>1 DEF WarmbootMain, CoreInv, CoreTypeOK, Waiting
    <2>3. \A d \in Cores \ {c} : CoreInv(d)'
      BY <1>1, OthersKeepInv DEF WarmbootMain, CoreTypeOK
    <2> QED
      BY <2>1, <2>2, <2>3
  <1>2. CASE UseCoreEntrypoint(c)
    <2>1. contexts[c].entrypoint # 0 /\ ~contexts[c].is_active
      BY <1>0, <1>2 DEF UseCoreEntrypoint, CoreInv
    <2>2. CoreTypeOK'
      <3>1. /\ contexts' \in [Cores -> [entrypoint : 0..MaxRequests, is_active : BOOLEAN]]
            /\ running' \in [Cores -> 0..MaxRequests]
        <4>1. 0 \in 0..MaxRequests
          BY CoreAssumption
        <4>2. contexts' = [contexts EXCEPT ![c] = [entrypoint |-> 0, is_active |-> TRUE]]
          BY <2>1, <1>2 DEF UseCoreEntrypoint, Active
        <4>3. running' = [running EXCEPT ![c] = contexts[c].entrypoint]
          BY <2>1, <1>2 DEF UseCoreEntrypoint, Active
        <4> QED
          BY <4>1, <4>2, <4>3 DEF CoreTypeOK
      <3> QED
        BY <3>1, <2>1, <1>2 DEF UseCoreEntrypoint, CoreTypeOK, Places, Booting, InSection
    <2>3. CoreInv(c)'
      BY <2>1, <1>0, <1>2 DEF UseCoreEntrypoint, Active, CoreInv, CoreTypeOK, Waiting
    <2>4. \A d \in Cores \ {c} : CoreInv(d)'
      BY <2>1, <1>2, OthersKeepInv DEF UseCoreEntrypoint, CoreTypeOK
    <2> QED
      BY <2>2, <2>3, <2>4
  <1>3. CASE Leave(c)
    <2>1. CoreTypeOK'
      BY <1>3, CoreAssumption DEF Leave, CoreTypeOK, Places
    <2>2. CoreInv(c)'
      BY <1>0, <1>3 DEF Leave, CoreInv, CoreTypeOK, Waiting
    <2>3. \A d \in Cores \ {c} : CoreInv(d)'
      BY <1>3, OthersKeepInv DEF Leave, CoreTypeOK
    <2> QED
      BY <2>1, <2>2, <2>3
  <1> QED
    BY <1>1, <1>2, <1>3

(* CPU_ON: a core that it gives an entry point is not active, so it is off *)
(* or stopping.                                                            *)
LEMMA CpuOnKeepsInv ==
  ASSUME CoresInv, NEW c \in Cores, NEW caller \in Cores, CpuOn(caller, c)
  PROVE  CoresInv'
  <1> USE DEF CoresInv, Goto, section
  <1>1. pc[c] \in {"stopping", "off"}
    BY DEF CpuOn, IsOn, CoreInv
  <1>2. requests + 1 \in 1..MaxRequests
    BY CoreAssumption DEF CpuOn, SetCoreEntrypoint, CoreTypeOK
  <1>3. CoreTypeOK'
    <2>1. contexts' \in [Cores -> [entrypoint : 0..MaxRequests, is_active : BOOLEAN]]
      <3>1. requests + 1 \in 0..MaxRequests
        BY <1>2
      <3>2. contexts' = [contexts EXCEPT ![c].entrypoint = requests + 1]
        BY DEF CpuOn, SetCoreEntrypoint
      <3> QED
        BY <3>1, <3>2 DEF CoreTypeOK
    <2>2. pc' \in [Cores -> Places]
      BY DEF CpuOn, CoreTypeOK, Places, Booting
    <2> QED
      BY <1>2, <2>1, <2>2 DEF CpuOn, SetCoreEntrypoint, CoreTypeOK
  <1>4. CoreInv(c)'
    BY <1>1, <1>2 DEF CpuOn, SetCoreEntrypoint, IsOn, Powers, CoreInv, CoreTypeOK, Waiting
  <1>5. \A d \in Cores \ {c} : CoreInv(d)'
    BY OthersKeepInv DEF CpuOn, SetCoreEntrypoint, CoreTypeOK
  <1> QED
    BY <1>3, <1>4, <1>5

(* CPU_OFF, CPU_SUSPEND and waking up.                                     *)
LEMMA StopKeepsInv ==
  ASSUME CoresInv, NEW c \in Cores,
         \/ CpuOff(c) \/ PowerDownCurrentCore(c) \/ FinalizePowerdown(c)
         \/ SuspendCore(c) \/ WakeUp(c)
  PROVE  CoresInv'
  <1> USE DEF CoresInv, Goto, section
  <1>0. CoreInv(c)
    OBVIOUS
  <1>1. CASE CpuOff(c)
    <2>1. CoreTypeOK' /\ CoreInv(c)'
      BY <1>0, <1>1 DEF CpuOff, CoreTypeOK, Places, CoreInv, Waiting
    <2>2. \A d \in Cores \ {c} : CoreInv(d)'
      BY <1>1, OthersKeepInv DEF CpuOff, CoreTypeOK
    <2> QED
      BY <2>1, <2>2
  <1>2. CASE PowerDownCurrentCore(c)
    <2>1. CoreTypeOK' /\ CoreInv(c)'
      BY <1>0, <1>2 DEF PowerDownCurrentCore, CoreTypeOK, Places, CoreInv, Waiting
    <2>2. \A d \in Cores \ {c} : CoreInv(d)'
      BY <1>2, OthersKeepInv DEF PowerDownCurrentCore, CoreTypeOK
    <2> QED
      BY <2>1, <2>2
  <1>3. CASE FinalizePowerdown(c)
    <2>1. CoreTypeOK' /\ CoreInv(c)'
      BY <1>0, <1>3 DEF FinalizePowerdown, CoreTypeOK, Places, CoreInv, Waiting
    <2>2. \A d \in Cores \ {c} : CoreInv(d)'
      BY <1>3, OthersKeepInv DEF FinalizePowerdown, CoreTypeOK
    <2> QED
      BY <2>1, <2>2
  <1>4. CASE SuspendCore(c)
    <2>1. Goto(c, "asleep")
      BY <1>4 DEF SuspendCore, IsPowered
    <2>2. requests + 1 \in 1..MaxRequests
      BY <1>4, CoreAssumption DEF SuspendCore, CoreTypeOK
    <2>3. CoreTypeOK' /\ CoreInv(c)'
      BY <2>1, <2>2, <1>0, <1>4 DEF SuspendCore, CoreTypeOK, Places, CoreInv, Waiting
    <2>4. \A d \in Cores \ {c} : CoreInv(d)'
      BY <2>1, <1>4, OthersKeepInv DEF SuspendCore, CoreTypeOK
    <2> QED
      BY <2>3, <2>4
  <1>5. CASE WakeUp(c)
    <2>1. CoreTypeOK' /\ CoreInv(c)'
      BY <1>0, <1>5 DEF WakeUp, CoreTypeOK, Places, Booting, CoreInv, Waiting
    <2>2. \A d \in Cores \ {c} : CoreInv(d)'
      BY <1>5, OthersKeepInv DEF WakeUp, CoreTypeOK
    <2> QED
      BY <2>1, <2>2
  <1> QED
    BY <1>1, <1>2, <1>3, <1>4, <1>5

(* CoresInv is an invariant of the specification.                               *)
LEMMA CoresInvAlways == CoreSpec => []CoresInv
  <1>1. CoresInv /\ [CoreNext]_coreVars => CoresInv'
    <2> SUFFICES ASSUME CoresInv, [CoreNext]_coreVars PROVE CoresInv'
      OBVIOUS
    <2>1. CASE UNCHANGED coreVars
      BY <2>1 DEF CoresInv, CoreTypeOK, CoreInv, coreVars
    <2>2. CASE CoreNext
      BY <2>2, EnterKeepsInv, WarmbootKeepsInv, CpuOnKeepsInv, StopKeepsInv
         DEF CoreNext, BootStep
    <2> QED
      BY <2>1, <2>2
  <1> QED
    BY <1>1, CoresInvInit, PTL DEF CoreSpec

(* No core ever panics over its context, however many cores there are and  *)
(* however often they are started, stopped, suspended and woken up         *)
(* (warmboot_main, use_core_entrypoint_and_argument).                      *)
THEOREM CoresNeverPanic == CoreSpec => []NoPanic
  <1>1. CoresInv => NoPanic
    BY DEF CoresInv, CoreInv, NoPanic
  <1> QED
    BY <1>1, CoresInvAlways, PTL

(* Tickets do not count up: critical_section_leave always precedes the     *)
(* next critical_section_enter of the core.                                *)
THEOREM TicketsAlwaysFit == CoreSpec => []TicketsFit
  <1>1. CoresInv => TicketsFit
    BY DEF CoresInv, CoreInv, TicketsFit, CoreTypeOK, Places, Booting, InSection, Waiting
  <1> QED
    BY <1>1, CoresInvAlways, PTL

(* No entry point is left behind in the context of a core that does not    *)
(* boot (cpu_on, use_core_entrypoint_and_argument).                        *)
THEOREM EntryPointsAreTaken == CoreSpec => []EntryPointTaken
  <1>1. CoresInv => EntryPointTaken
    BY DEF CoresInv, CoreInv, EntryPointTaken, CoreTypeOK, Places, Booting, InSection, Waiting
  <1> QED
    BY <1>1, CoresInvAlways, PTL

(* The types, of customers, contexts and the places of the cores.          *)
THEOREM CoreTypesCorrect == CoreSpec => []CoreTypeOK
  <1>1. CoresInv => CoreTypeOK
    BY DEF CoresInv, CoreInv
  <1> QED
    BY <1>1, CoresInvAlways, PTL

(***************************************************************************)
(* BootBattery.                                                            *)
(***************************************************************************)
Registers ==
    {"MiscCfg", "Config", "FilterCfg", "RelaxCfg", "LearnCfg", "FullSocThr", "IAvgEmpty",
     "ModelChrTbl", "ModelAccess", "RComp0", "TempCo", "IChgTerm", "TGain", "TOff", "VEmpty",
     "QResidual00", "QResidual10", "QResidual20", "QResidual30", "FullCap", "DesignCap",
     "FullCapNom", "SocVfAccess", "SocVf0", "Qh0", "Cycles", "RemCapMix", "RemCapRep", "DPAcc",
     "DQAcc", "SocRep", "Status", "CGain"}
GaugeStep == [op : {"write", "validate", "set model table", "lock model table", "unlock VFSOC",
                    "lock VFSOC", "clear POR"},
              reg : Registers]

(* The steps of GaugeProgram that are not plain writes, by their numbers.  *)
SetModel == 8
LockModel == 9
UnlockVfsoc == 23
LockVfsoc == 26
ClearPor == 36
LastStep == 37
Special == {SetModel, LockModel, UnlockVfsoc, LockVfsoc, ClearPor}
Plain(s) == s.op \in {"write", "validate"}

(* A sequence of writes is a program of plain steps as long as its         *)
(* registers.                                                              *)
LEMMA WritesPlain ==
    ASSUME NEW regs \in Seq(Registers)
    PROVE  /\ Each(Write, regs) \in Seq(GaugeStep) /\ Len(Each(Write, regs)) = Len(regs)
           /\ \A i \in 1..Len(regs) : /\ Plain(Each(Write, regs)[i])
                                      /\ Each(Write, regs)[i].reg = regs[i]
<1> DEFINE e == Each(Write, regs)
<1>1. e = [i \in 1..Len(regs) |-> Write(regs[i])] /\ Len(regs) \in Nat
  BY DEF Each
<1>2. \A r \in Registers : Write(r) \in GaugeStep /\ Plain(Write(r)) /\ Write(r).reg = r
  BY DEF Write, GaugeStep, Plain
<1>3. \A i \in 1..Len(regs) : regs[i] \in Registers
  OBVIOUS
<1>4. e \in [1..Len(regs) -> GaugeStep]
  BY <1>1, <1>2, <1>3
<1> HIDE DEF e
<1> QED  BY <1>1, <1>2, <1>3, <1>4 DEF e

(* And so is one of validated writes.                                      *)
LEMMA ValidatesPlain ==
    ASSUME NEW regs \in Seq(Registers)
    PROVE  /\ Each(Validate, regs) \in Seq(GaugeStep) /\ Len(Each(Validate, regs)) = Len(regs)
           /\ \A i \in 1..Len(regs) : /\ Plain(Each(Validate, regs)[i])
                                      /\ Each(Validate, regs)[i].reg = regs[i]
<1> DEFINE e == Each(Validate, regs)
<1>1. e = [i \in 1..Len(regs) |-> Validate(regs[i])] /\ Len(regs) \in Nat
  BY DEF Each
<1>2. \A r \in Registers : Validate(r) \in GaugeStep /\ Plain(Validate(r)) /\ Validate(r).reg = r
  BY DEF Validate, GaugeStep, Plain
<1>3. \A i \in 1..Len(regs) : regs[i] \in Registers
  OBVIOUS
<1>4. e \in [1..Len(regs) -> GaugeStep]
  BY <1>1, <1>2, <1>3
<1> HIDE DEF e
<1> QED  BY <1>1, <1>2, <1>3, <1>4 DEF e

(* The steps of two programs, one after the other: which step is which.    *)
LEMMA Joined ==
    ASSUME NEW s \in Seq(GaugeStep), NEW t \in Seq(GaugeStep), NEW n \in Nat, NEW m \in Nat,
           Len(s) = n, Len(t) = m
    PROVE  /\ s \o t \in Seq(GaugeStep) /\ Len(s \o t) = n + m
           /\ \A i \in 1..n : (s \o t)[i] = s[i]
           /\ \A i \in 1..m : (s \o t)[n + i] = t[i]
<1>1. /\ s \o t \in Seq(GaugeStep) /\ Len(s \o t) = n + m
      /\ \A i \in 1..(n + m) : (s \o t)[i] = IF i <= n THEN s[i] ELSE t[i - n]
  BY ConcatProperties
<1> QED  BY <1>1

(* Every register the program names is one of the registers.               *)
LEMMA RegistersKnown ==
    /\ "DesignCap" \in Registers /\ "FullCapNom" \in Registers /\ "SocVfAccess" \in Registers
    /\ "SocVf0" \in Registers /\ "Qh0" \in Registers /\ "Cycles" \in Registers
    /\ "ModelChrTbl" \in Registers /\ "ModelAccess" \in Registers /\ "SocRep" \in Registers
    /\ "Status" \in Registers /\ "CGain" \in Registers
  BY DEF Registers

(* Every single step.                                                      *)
LEMMA StepIsStep ==
    /\ \A r \in Registers : /\ Write(r) \in GaugeStep /\ Plain(Write(r))
                            /\ Validate(r) \in GaugeStep /\ Plain(Validate(r))
    /\ \A op \in {"set model table", "lock model table", "unlock VFSOC", "lock VFSOC", "clear POR"},
          r \in Registers : [op |-> op, reg |-> r] \in GaugeStep
  BY DEF Write, Validate, GaugeStep, Plain

(* The eight capacity steps are plain.                                     *)
LEMMA CapacityProgramSteps ==
    /\ CapacityProgram \in Seq(GaugeStep) /\ Len(CapacityProgram) = 8
    /\ \A i \in 1..8 : Plain(CapacityProgram[i])
<1> DEFINE a == <<"RemCapMix", "RemCapRep", "DPAcc", "DQAcc", "FullCap">>
           e == Each(Validate, a)
           b == <<Write("DesignCap"), Validate("FullCapNom"), Write("SocRep")>>
<1>1. a \in Seq(Registers) /\ Len(a) = 5
  BY DEF Registers
<1>2. CapacityProgram = e \o b
  BY DEF CapacityProgram
<1>3. /\ Write("DesignCap") \in GaugeStep /\ Plain(Write("DesignCap"))
      /\ Validate("FullCapNom") \in GaugeStep /\ Plain(Validate("FullCapNom"))
      /\ Write("SocRep") \in GaugeStep /\ Plain(Write("SocRep"))
  BY RegistersKnown, StepIsStep
<1>4. b \in Seq(GaugeStep) /\ Len(b) = 3 /\ \A i \in 1..3 : Plain(b[i])
  BY <1>3
<1> HIDE DEF a
<1>5. e \in Seq(GaugeStep) /\ Len(e) = 5 /\ \A i \in 1..5 : Plain(e[i])
  BY <1>1, ValidatesPlain
<1> HIDE DEF b, e
<1>6. /\ e \o b \in Seq(GaugeStep) /\ Len(e \o b) = 5 + 3
      /\ \A i \in 1..5 : (e \o b)[i] = e[i]
      /\ \A i \in 1..3 : (e \o b)[5 + i] = b[i]
  <2>1. 5 \in Nat /\ 3 \in Nat
    OBVIOUS
  <2> QED  BY <1>4, <1>5, <2>1, Joined
<1>7. /\ CapacityProgram \in Seq(GaugeStep) /\ Len(CapacityProgram) = 5 + 3
      /\ \A i \in 1..5 : CapacityProgram[i] = e[i]
      /\ \A i \in 1..3 : CapacityProgram[5 + i] = b[i]
  BY <1>2, <1>6
<1>8. \A i \in 1..8 : i \in 1..5 \/ (i - 5 \in 1..3 /\ i = 5 + (i - 5))
  OBVIOUS
<1> QED  BY <1>4, <1>5, <1>7, <1>8

(* GaugeProgram: 37 steps, the status among the last two.                  *)
LEMMA GaugeProgramSteps ==
    /\ GaugeProgram \in Seq(GaugeStep) /\ Len(GaugeProgram) = LastStep
    /\ \A i \in 1..LastStep : i \notin Special => Plain(GaugeProgram[i])
    /\ GaugeProgram[SetModel] = [op |-> "set model table", reg |-> "ModelChrTbl"]
    /\ GaugeProgram[LockModel] = [op |-> "lock model table", reg |-> "ModelAccess"]
    /\ GaugeProgram[UnlockVfsoc] = [op |-> "unlock VFSOC", reg |-> "SocVfAccess"]
    /\ GaugeProgram[LockVfsoc] = [op |-> "lock VFSOC", reg |-> "SocVfAccess"]
    /\ GaugeProgram[ClearPor] = [op |-> "clear POR", reg |-> "Status"]
    /\ GaugeProgram[LastStep] = Write("CGain")
<1> DEFINE r1 == <<"MiscCfg", "Config", "FilterCfg", "RelaxCfg", "LearnCfg", "FullSocThr",
                   "IAvgEmpty">>
           m1 == [op |-> "set model table", reg |-> "ModelChrTbl"]
           m2 == [op |-> "lock model table", reg |-> "ModelAccess"]
           v1 == [op |-> "unlock VFSOC", reg |-> "SocVfAccess"]
           v2 == [op |-> "lock VFSOC", reg |-> "SocVfAccess"]
           c1 == [op |-> "clear POR", reg |-> "Status"]
           t2 == <<m1, m2>>
           r3 == <<"RComp0", "TempCo">>
           r4 == <<"IChgTerm", "TGain", "TOff">>
           r5 == <<"VEmpty", "QResidual00", "QResidual10", "QResidual20", "QResidual30", "FullCap">>
           t6 == <<Write("DesignCap"), Validate("FullCapNom"), v1, Write("SocVf0"), Write("Qh0"),
                   v2, Validate("Cycles")>>
           t8 == <<c1, Write("CGain")>>
           e1 == Each(Write, r1)
           e3 == Each(Validate, r3)
           e4 == Each(Write, r4)
           e5 == Each(Validate, r5)
           s2 == e1 \o t2
           s3 == s2 \o e3
           s4 == s3 \o e4
           s5 == s4 \o e5
           s6 == s5 \o t6
           s7 == s6 \o CapacityProgram
<1>1. /\ r1 \in Seq(Registers) /\ Len(r1) = 7
      /\ r3 \in Seq(Registers) /\ Len(r3) = 2
      /\ r4 \in Seq(Registers) /\ Len(r4) = 3
      /\ r5 \in Seq(Registers) /\ Len(r5) = 6
  BY DEF Registers
<1>2. GaugeProgram = s7 \o t8
  BY DEF GaugeProgram
<1>3. /\ m1 \in GaugeStep /\ m2 \in GaugeStep /\ v1 \in GaugeStep /\ v2 \in GaugeStep
      /\ c1 \in GaugeStep
  BY RegistersKnown, StepIsStep
<1>4. \A r \in {"DesignCap", "FullCapNom", "SocVf0", "Qh0", "Cycles", "CGain"} :
        Write(r) \in GaugeStep /\ Plain(Write(r)) /\ Validate(r) \in GaugeStep /\ Plain(Validate(r))
  BY RegistersKnown, StepIsStep
<1> HIDE DEF m1, m2, v1, v2, c1
<1>5. t2 \in Seq(GaugeStep) /\ Len(t2) = 2 /\ t2[1] = m1 /\ t2[2] = m2
  BY <1>3
<1>6. /\ t6 \in Seq(GaugeStep) /\ Len(t6) = 7
      /\ t6[3] = v1 /\ t6[6] = v2
      /\ Plain(t6[1]) /\ Plain(t6[2]) /\ Plain(t6[4]) /\ Plain(t6[5]) /\ Plain(t6[7])
  BY <1>3, <1>4
<1>7. t8 \in Seq(GaugeStep) /\ Len(t8) = 2 /\ t8[1] = c1 /\ t8[2] = Write("CGain") /\ Plain(t8[2])
  BY <1>3, <1>4
<1> HIDE DEF r1, r3, r4, r5, t2, t6, t8
<1>8. e1 \in Seq(GaugeStep) /\ Len(e1) = 7 /\ \A i \in 1..7 : Plain(e1[i])
  BY <1>1, WritesPlain
<1>9. e3 \in Seq(GaugeStep) /\ Len(e3) = 2 /\ \A i \in 1..2 : Plain(e3[i])
  BY <1>1, ValidatesPlain
<1>10. e4 \in Seq(GaugeStep) /\ Len(e4) = 3 /\ \A i \in 1..3 : Plain(e4[i])
  BY <1>1, WritesPlain
<1>11. e5 \in Seq(GaugeStep) /\ Len(e5) = 6 /\ \A i \in 1..6 : Plain(e5[i])
  BY <1>1, ValidatesPlain
<1> HIDE DEF e1, e3, e4, e5
<1>12. /\ s2 \in Seq(GaugeStep) /\ Len(s2) = 9
       /\ \A i \in 1..9 : i # 8 /\ i # 9 => Plain(s2[i])
       /\ s2[8] = m1 /\ s2[9] = m2
  <2>1. s2 = e1 \o t2
    OBVIOUS
  <2> HIDE DEF s2
  <2>2. 7 \in Nat /\ 2 \in Nat
    OBVIOUS
  <2>3. /\ e1 \o t2 \in Seq(GaugeStep) /\ Len(e1 \o t2) = 7 + 2
        /\ \A i \in 1..7 : (e1 \o t2)[i] = e1[i]
        /\ \A i \in 1..2 : (e1 \o t2)[7 + i] = t2[i]
    BY <2>2, <1>8, <1>5, Joined
  <2>4. /\ s2 \in Seq(GaugeStep) /\ Len(s2) = 7 + 2
        /\ \A i \in 1..7 : s2[i] = e1[i]
        /\ \A i \in 1..2 : s2[7 + i] = t2[i]
    BY <2>1, <2>3
  <2>5. \A i \in 1..9 : i \in 1..7 \/ (i - 7 \in 1..2 /\ i = 7 + (i - 7))
    OBVIOUS
  <2>6. 8 = 7 + 1 /\ 9 = 7 + 2
    OBVIOUS
  <2> QED  BY <2>4, <2>5, <2>6, <1>8, <1>5
<1> HIDE DEF s2
<1>13. /\ s3 \in Seq(GaugeStep) /\ Len(s3) = 11
       /\ \A i \in 1..11 : i # 8 /\ i # 9 => Plain(s3[i])
       /\ s3[8] = m1 /\ s3[9] = m2
  <2>1. s3 = s2 \o e3
    OBVIOUS
  <2> HIDE DEF s3
  <2>2. 9 \in Nat /\ 2 \in Nat
    OBVIOUS
  <2>3. /\ s2 \o e3 \in Seq(GaugeStep) /\ Len(s2 \o e3) = 9 + 2
        /\ \A i \in 1..9 : (s2 \o e3)[i] = s2[i]
        /\ \A i \in 1..2 : (s2 \o e3)[9 + i] = e3[i]
    BY <2>2, <1>12, <1>9, Joined
  <2>4. /\ s3 \in Seq(GaugeStep) /\ Len(s3) = 9 + 2
        /\ \A i \in 1..9 : s3[i] = s2[i]
        /\ \A i \in 1..2 : s3[9 + i] = e3[i]
    BY <2>1, <2>3
  <2>5. \A i \in 1..11 : i \in 1..9 \/ (i - 9 \in 1..2 /\ i = 9 + (i - 9))
    OBVIOUS
  <2> QED  BY <2>4, <2>5, <1>12, <1>9
<1> HIDE DEF s3
<1>14. /\ s4 \in Seq(GaugeStep) /\ Len(s4) = 14
       /\ \A i \in 1..14 : i # 8 /\ i # 9 => Plain(s4[i])
       /\ s4[8] = m1 /\ s4[9] = m2
  <2>1. s4 = s3 \o e4
    OBVIOUS
  <2> HIDE DEF s4
  <2>2. 11 \in Nat /\ 3 \in Nat
    OBVIOUS
  <2>3. /\ s3 \o e4 \in Seq(GaugeStep) /\ Len(s3 \o e4) = 11 + 3
        /\ \A i \in 1..11 : (s3 \o e4)[i] = s3[i]
        /\ \A i \in 1..3 : (s3 \o e4)[11 + i] = e4[i]
    BY <2>2, <1>13, <1>10, Joined
  <2>4. /\ s4 \in Seq(GaugeStep) /\ Len(s4) = 11 + 3
        /\ \A i \in 1..11 : s4[i] = s3[i]
        /\ \A i \in 1..3 : s4[11 + i] = e4[i]
    BY <2>1, <2>3
  <2>5. \A i \in 1..14 : i \in 1..11 \/ (i - 11 \in 1..3 /\ i = 11 + (i - 11))
    OBVIOUS
  <2> QED  BY <2>4, <2>5, <1>13, <1>10
<1> HIDE DEF s4
<1>15. /\ s5 \in Seq(GaugeStep) /\ Len(s5) = 20
       /\ \A i \in 1..20 : i # 8 /\ i # 9 => Plain(s5[i])
       /\ s5[8] = m1 /\ s5[9] = m2
  <2>1. s5 = s4 \o e5
    OBVIOUS
  <2> HIDE DEF s5
  <2>2. 14 \in Nat /\ 6 \in Nat
    OBVIOUS
  <2>3. /\ s4 \o e5 \in Seq(GaugeStep) /\ Len(s4 \o e5) = 14 + 6
        /\ \A i \in 1..14 : (s4 \o e5)[i] = s4[i]
        /\ \A i \in 1..6 : (s4 \o e5)[14 + i] = e5[i]
    BY <2>2, <1>14, <1>11, Joined
  <2>4. /\ s5 \in Seq(GaugeStep) /\ Len(s5) = 14 + 6
        /\ \A i \in 1..14 : s5[i] = s4[i]
        /\ \A i \in 1..6 : s5[14 + i] = e5[i]
    BY <2>1, <2>3
  <2>5. \A i \in 1..20 : i \in 1..14 \/ (i - 14 \in 1..6 /\ i = 14 + (i - 14))
    OBVIOUS
  <2> QED  BY <2>4, <2>5, <1>14, <1>11
<1> HIDE DEF s5
<1>16. /\ s6 \in Seq(GaugeStep) /\ Len(s6) = 27
       /\ \A i \in 1..27 : i # 8 /\ i # 9 /\ i # 23 /\ i # 26 => Plain(s6[i])
       /\ s6[8] = m1 /\ s6[9] = m2
       /\ s6[23] = v1 /\ s6[26] = v2
  <2>1. s6 = s5 \o t6
    OBVIOUS
  <2> HIDE DEF s6
  <2>2. 20 \in Nat /\ 7 \in Nat
    OBVIOUS
  <2>3. /\ s5 \o t6 \in Seq(GaugeStep) /\ Len(s5 \o t6) = 20 + 7
        /\ \A i \in 1..20 : (s5 \o t6)[i] = s5[i]
        /\ \A i \in 1..7 : (s5 \o t6)[20 + i] = t6[i]
    BY <2>2, <1>15, <1>6, Joined
  <2>4. /\ s6 \in Seq(GaugeStep) /\ Len(s6) = 20 + 7
        /\ \A i \in 1..20 : s6[i] = s5[i]
        /\ \A i \in 1..7 : s6[20 + i] = t6[i]
    BY <2>1, <2>3
  <2>5. \A i \in 1..27 : i \in 1..20 \/ (i - 20 \in 1..7 /\ i = 20 + (i - 20))
    OBVIOUS
  <2>6. \A i \in 1..7 : i = 1 \/ i = 2 \/ i = 3 \/ i = 4 \/ i = 5 \/ i = 6 \/ i = 7
    OBVIOUS
  <2> QED  BY <2>4, <2>5, <2>6, <1>15, <1>6
<1> HIDE DEF s6
<1>17. /\ s7 \in Seq(GaugeStep) /\ Len(s7) = 35
       /\ \A i \in 1..35 : i # 8 /\ i # 9 /\ i # 23 /\ i # 26 => Plain(s7[i])
       /\ s7[8] = m1 /\ s7[9] = m2
       /\ s7[23] = v1 /\ s7[26] = v2
  <2>1. s7 = s6 \o CapacityProgram
    OBVIOUS
  <2> HIDE DEF s7
  <2>2. 27 \in Nat /\ 8 \in Nat
    OBVIOUS
  <2>3. /\ s6 \o CapacityProgram \in Seq(GaugeStep) /\ Len(s6 \o CapacityProgram) = 27 + 8
        /\ \A i \in 1..27 : (s6 \o CapacityProgram)[i] = s6[i]
        /\ \A i \in 1..8 : (s6 \o CapacityProgram)[27 + i] = CapacityProgram[i]
    BY <2>2, <1>16, CapacityProgramSteps, Joined
  <2>4. /\ s7 \in Seq(GaugeStep) /\ Len(s7) = 27 + 8
        /\ \A i \in 1..27 : s7[i] = s6[i]
        /\ \A i \in 1..8 : s7[27 + i] = CapacityProgram[i]
    BY <2>1, <2>3
  <2>5. \A i \in 1..35 : i \in 1..27 \/ (i - 27 \in 1..8 /\ i = 27 + (i - 27))
    OBVIOUS
  <2> QED  BY <2>4, <2>5, <1>16, CapacityProgramSteps
<1> HIDE DEF s7
<1>18. /\ GaugeProgram \in Seq(GaugeStep) /\ Len(GaugeProgram) = 37
       /\ \A i \in 1..37 : i # 8 /\ i # 9 /\ i # 23 /\ i # 26 /\ i # 36 => Plain(GaugeProgram[i])
       /\ GaugeProgram[8] = m1 /\ GaugeProgram[9] = m2
       /\ GaugeProgram[23] = v1 /\ GaugeProgram[26] = v2
       /\ GaugeProgram[36] = c1 /\ GaugeProgram[37] = Write("CGain")
  <2>1. GaugeProgram = s7 \o t8
    BY <1>2
  <2>2. 35 \in Nat /\ 2 \in Nat
    OBVIOUS
  <2>3. /\ s7 \o t8 \in Seq(GaugeStep) /\ Len(s7 \o t8) = 35 + 2
        /\ \A i \in 1..35 : (s7 \o t8)[i] = s7[i]
        /\ \A i \in 1..2 : (s7 \o t8)[35 + i] = t8[i]
    BY <2>2, <1>17, <1>7, Joined
  <2>4. /\ GaugeProgram \in Seq(GaugeStep) /\ Len(GaugeProgram) = 35 + 2
        /\ \A i \in 1..35 : GaugeProgram[i] = s7[i]
        /\ \A i \in 1..2 : GaugeProgram[35 + i] = t8[i]
    BY <2>1, <2>3
  <2>5. \A i \in 1..37 : i \in 1..35 \/ (i - 35 \in 1..2 /\ i = 35 + (i - 35))
    OBVIOUS
  <2>6. \A i \in 1..2 : i = 1 \/ i = 2
    OBVIOUS
  <2> QED  BY <2>4, <2>5, <2>6, <1>17, <1>7
<1> QED  BY <1>18 DEF m1, m2, v1, v2, c1, SetModel, LockModel, UnlockVfsoc, LockVfsoc, ClearPor,
                       LastStep, Special

BatteryPlaces == {"detect", "gauge", "removed", "charger", "first update", "start loop", "loop",
                  "sleep", "booted", "reboot", "shutdown", "encode abort", "off", "pmic abort"}
Gauge == [por : BOOLEAN, holds : SUBSET Registers, model_unlocked : BOOLEAN,
          vfsoc_unlocked : BOOLEAN, removed : BOOLEAN, shutdown_enabled : BOOLEAN]
Charger == [hi_z : BOOLEAN, vindpm : Int, input : Int, config : {"ChargeBattery", "ChargeDisable"},
            voltage : Int, current : Int, pin : {"Low", "High"}]

(* The types.                                                              *)
BatteryTypeOK ==
    /\ version \in BatteryVersions /\ hw_type \in HardwareTypes
    /\ gauge \in Gauge /\ charger \in Charger
    /\ place \in BatteryPlaces /\ step \in 1..LastStep /\ lock_i \in 0..7
    /\ boot_reason \in 0..4 /\ charge_voltage_limit \in Int /\ showing \in BOOLEAN
    /\ felt \in [t : Int, v : Int]
    /\ seen \in [soc : Nat, ac : BOOLEAN, v : Int]
    /\ failures \in Nat /\ losses \in Nat

(* What the first steps of GaugeProgram leave the gauge with.              *)
Unregistered == {LockModel, UnlockVfsoc, LockVfsoc, ClearPor}
StepsDone(g, upto, failed) ==
    /\ \A i \in 1..upto : i \notin Unregistered => GaugeProgram[i].reg \in g.holds
    /\ upto >= LockModel => (g.model_unlocked => failed > 0)
    /\ upto >= LockVfsoc => ~g.vfsoc_unlocked

(* The gauge has the steps before the one boot is at, and all but the last *)
(* of them once its power-on bit is clear.                                 *)
GaugeProgress ==
    /\ gauge.por /\ place = "gauge" => step <= ClearPor /\ StepsDone(gauge, step - 1, failures)
    /\ ~gauge.por => StepsDone(gauge, ClearPor - 1, failures)

(* Past IsBatteryRemoved the battery is in place.                          *)
BatteryInPlace ==
    place \in {"charger", "first update", "start loop", "loop", "sleep", "booted", "reboot"} =>
        ~gauge.removed

BatteryInv == /\ BatteryTypeOK /\ GaugeProgress /\ BatteryInPlace
              /\ ChargerSafe /\ StartsCharged /\ GaugeStaysOn

(* The invariant holds at the first start.                                 *)
LEMMA BatteryInitInv == ASSUME BatteryInit PROVE BatteryInv
<1>1. gauge = FreshGauge /\ charger = FreshCharger /\ place = "detect" /\ gauge.por
  BY DEF BatteryInit, FreshGauge
<1>2. FreshGauge \in Gauge /\ FreshCharger \in Charger
  BY DEF FreshGauge, FreshCharger, Gauge, Charger, EncodeChargeVoltageLimit, ChargeVoltageLimitMin
<1>3. Nothing \in [t : Int, v : Int] /\ [soc |-> 0, ac |-> FALSE, v |-> 0] \in [soc : Nat, ac : BOOLEAN, v : Int]
  BY DEF Nothing
<1>5. "detect" \in BatteryPlaces /\ 1 \in 1..LastStep
  BY DEF BatteryPlaces, LastStep
<1>6. /\ version \in BatteryVersions /\ hw_type \in HardwareTypes
      /\ gauge \in Gauge /\ charger \in Charger /\ place \in BatteryPlaces
  BY <1>1, <1>2, <1>5 DEF BatteryInit
<1>7. /\ step \in 1..LastStep /\ lock_i \in 0..7 /\ boot_reason \in 0..4
      /\ charge_voltage_limit \in Int /\ failures \in Nat /\ losses \in Nat
  BY <1>5 DEF BatteryInit
<1>8. showing \in BOOLEAN
  BY DEF BatteryInit
<1>9. felt \in [t : Int, v : Int] /\ seen \in [soc : Nat, ac : BOOLEAN, v : Int]
  BY <1>3 DEF BatteryInit
<1>10. BatteryTypeOK
  BY <1>6, <1>7, <1>8, <1>9 DEF BatteryTypeOK
<1>4. GaugeProgress /\ BatteryInPlace /\ ChargerSafe /\ StartsCharged /\ GaugeStaysOn
  BY <1>1 DEF GaugeProgress, BatteryInPlace, ChargerSafe, StartsCharged, GaugeStaysOn
<1> QED  BY <1>4, <1>10 DEF BatteryInv

(* More of a register written, nothing unlocked: the steps stay done.      *)
LEMMA StepsStayDone ==
    ASSUME NEW g, NEW h, NEW upto \in Int, NEW m \in Int, NEW n \in Int,
           StepsDone(g, upto, m), n >= m, g.holds \subseteq h.holds,
           h.model_unlocked => g.model_unlocked \/ n > 0, h.vfsoc_unlocked => g.vfsoc_unlocked
    PROVE  StepsDone(h, upto, n)
<1>1. \A i \in 1..upto : i \notin Unregistered => GaugeProgram[i].reg \in h.holds
  BY DEF StepsDone
<1>2. upto >= LockModel => (h.model_unlocked => n > 0)
  BY DEF StepsDone
<1>3. upto >= LockVfsoc => ~h.vfsoc_unlocked
  BY DEF StepsDone
<1> QED  BY <1>1, <1>2, <1>3 DEF StepsDone

(* A transfer fails or not: the count of failures never falls.             *)
LEMMA FailuresGrow == ASSUME BatteryTypeOK, Fail \/ Ok
                      PROVE  failures' \in Nat /\ failures' >= failures /\ (Fail => failures' > 0)
  BY DEF BatteryTypeOK, Fail, Ok

(* What a write does to the gauge, by what it is of.                       *)
LEMMA WrittenGauge ==
    ASSUME NEW g \in Gauge, NEW s \in GaugeStep
    PROVE  /\ Written(g, s) \in Gauge
           /\ g.holds \subseteq Written(g, s).holds
           /\ Written(g, s).por = (g.por /\ s.op # "clear POR")
           /\ s.op \in {"write", "validate", "set model table"} => s.reg \in Written(g, s).holds
           /\ s.op # "set model table" => (Written(g, s).model_unlocked => g.model_unlocked)
           /\ s.op # "unlock VFSOC" => (Written(g, s).vfsoc_unlocked => g.vfsoc_unlocked)
           /\ s.op = "lock model table" => ~Written(g, s).model_unlocked
           /\ s.op = "lock VFSOC" => ~Written(g, s).vfsoc_unlocked
<1>1. s.reg \in Registers
  BY DEF GaugeStep
<1>2. CASE s.op \in {"write", "validate"}
  <2> DEFINE more == g.holds \cup {s.reg}
  <2>1. Written(g, s) = [g EXCEPT !.holds = more]
    BY <1>2 DEF Written
  <2>2. more \in SUBSET Registers /\ g.holds \subseteq more /\ s.reg \in more
    BY <1>1 DEF Gauge
  <2> HIDE DEF more
  <2> QED  BY <1>2, <2>1, <2>2 DEF Gauge
<1>3. CASE s.op = "set model table"
  <2> DEFINE more == g.holds \cup {s.reg}
  <2>1. Written(g, s) = [g EXCEPT !.holds = more, !.model_unlocked = TRUE]
    BY <1>3 DEF Written
  <2>2. more \in SUBSET Registers /\ g.holds \subseteq more /\ s.reg \in more
    BY <1>1 DEF Gauge
  <2> HIDE DEF more
  <2> QED  BY <1>3, <2>1, <2>2 DEF Gauge
<1>4. CASE s.op = "lock model table"
  <2>1. Written(g, s) = [g EXCEPT !.model_unlocked = FALSE]
    BY <1>4 DEF Written
  <2> QED  BY <1>4, <2>1 DEF Gauge
<1>5. CASE s.op = "unlock VFSOC"
  <2>1. Written(g, s) = [g EXCEPT !.vfsoc_unlocked = TRUE]
    BY <1>5 DEF Written
  <2> QED  BY <1>5, <2>1 DEF Gauge
<1>6. CASE s.op = "lock VFSOC"
  <2>1. Written(g, s) = [g EXCEPT !.vfsoc_unlocked = FALSE]
    BY <1>6 DEF Written
  <2> QED  BY <1>6, <2>1 DEF Gauge
<1>7. CASE s.op = "clear POR"
  <2>1. Written(g, s) = [g EXCEPT !.por = FALSE]
    BY <1>7 DEF Written
  <2> QED  BY <1>7, <2>1 DEF Gauge
<1> QED  BY <1>2, <1>3, <1>4, <1>5, <1>6, <1>7 DEF GaugeStep

(* Which step of the program is which special operation.                   *)
LEMMA StepAt ==
    ASSUME NEW i \in 1..LastStep
    PROVE  /\ GaugeProgram[i] \in GaugeStep
           /\ GaugeProgram[i].op = "set model table" <=> i = SetModel
           /\ GaugeProgram[i].op = "lock model table" <=> i = LockModel
           /\ GaugeProgram[i].op = "unlock VFSOC" <=> i = UnlockVfsoc
           /\ GaugeProgram[i].op = "lock VFSOC" <=> i = LockVfsoc
           /\ GaugeProgram[i].op = "clear POR" <=> i = ClearPor
<1>1. GaugeProgram[i] \in GaugeStep
  <2>1. GaugeProgram \in Seq(GaugeStep) /\ i \in 1..Len(GaugeProgram)
    BY GaugeProgramSteps
  <2> QED  BY <2>1
<1>2. /\ GaugeProgram[SetModel].op = "set model table"
      /\ GaugeProgram[LockModel].op = "lock model table"
      /\ GaugeProgram[UnlockVfsoc].op = "unlock VFSOC"
      /\ GaugeProgram[LockVfsoc].op = "lock VFSOC"
      /\ GaugeProgram[ClearPor].op = "clear POR"
  <2>1. \A o, r : [op |-> o, reg |-> r].op = o
    OBVIOUS
  <2> QED  BY <2>1, GaugeProgramSteps, Zenon
<1>3. i \notin Special => GaugeProgram[i].op \in {"write", "validate"}
  BY GaugeProgramSteps DEF Plain
<1> QED  BY <1>1, <1>2, <1>3 DEF Special

(* What a step of the configuration that reached the gauge adds to the     *)
(* steps done.                                                             *)
LEMMA StepDone ==
    ASSUME NEW g \in Gauge, NEW i \in 1..(ClearPor - 1), NEW m \in Nat, StepsDone(g, i - 1, m)
    PROVE  /\ StepsDone(Written(g, GaugeProgram[i]), i, m)
           /\ StepsDone(Written(g, GaugeProgram[i]), i - 1, m)
           /\ Written(g, GaugeProgram[i]).por = g.por
           /\ Written(g, GaugeProgram[i]) \in Gauge
<1> DEFINE s == GaugeProgram[i]
           h == Written(g, s)
<1>1. /\ s \in GaugeStep /\ s.op # "clear POR"
      /\ s.op = "set model table" <=> i = SetModel
      /\ s.op = "lock model table" <=> i = LockModel
      /\ s.op = "unlock VFSOC" <=> i = UnlockVfsoc
      /\ s.op = "lock VFSOC" <=> i = LockVfsoc
  <2>1. i \in 1..LastStep /\ i # ClearPor
    BY DEF ClearPor, LastStep
  <2> QED  BY <2>1, StepAt
<1>2. i \notin Unregistered => s.op \in {"write", "validate", "set model table"}
  BY <1>1 DEF Unregistered, GaugeStep
<1> HIDE DEF s
<1>3. /\ h \in Gauge /\ g.holds \subseteq h.holds /\ h.por = g.por
      /\ i \notin Unregistered => s.reg \in h.holds
      /\ i # SetModel => (h.model_unlocked => g.model_unlocked)
      /\ i # UnlockVfsoc => (h.vfsoc_unlocked => g.vfsoc_unlocked)
      /\ i = LockModel => ~h.model_unlocked
      /\ i = LockVfsoc => ~h.vfsoc_unlocked
  <2>1. h.por = (g.por /\ s.op # "clear POR") /\ g.por \in BOOLEAN /\ h.por \in BOOLEAN
    BY <1>1, WrittenGauge DEF Gauge
  <2> QED  BY <1>1, <1>2, <2>1, WrittenGauge
<1> HIDE DEF h
<1>4. \A j \in 1..i : j \notin Unregistered => GaugeProgram[j].reg \in h.holds
  <2>1. \A j \in 1..i : j \in 1..(i - 1) \/ j = i
    OBVIOUS
  <2> QED  BY <1>3, <2>1 DEF StepsDone, s
<1>5. i >= LockModel => (h.model_unlocked => m > 0)
  BY <1>3 DEF StepsDone, LockModel, SetModel
<1>6. i >= LockVfsoc => ~h.vfsoc_unlocked
  BY <1>3 DEF StepsDone, LockVfsoc, UnlockVfsoc
<1>7. StepsDone(h, i, m)
  BY <1>4, <1>5, <1>6 DEF StepsDone
<1>8. StepsDone(h, i - 1, m)
  <2>1. 1..(i - 1) \subseteq 1..i /\ \A k \in Int : i - 1 >= k => i >= k
    OBVIOUS
  <2>2. LockModel \in Int /\ LockVfsoc \in Int
    BY DEF LockModel, LockVfsoc
  <2> QED  BY <1>4, <1>5, <1>6, <2>1, <2>2 DEF StepsDone
<1> QED  BY <1>3, <1>7, <1>8 DEF h, s

(* Clearing the power-on bit undoes no step that was done.                 *)
LEMMA PorCleared ==
    ASSUME NEW g \in Gauge, NEW m \in Nat, StepsDone(g, ClearPor - 1, m)
    PROVE  /\ StepsDone(Written(g, GaugeProgram[ClearPor]), ClearPor - 1, m)
           /\ Written(g, GaugeProgram[ClearPor]) \in Gauge
<1>1. GaugeProgram[ClearPor] \in GaugeStep /\ GaugeProgram[ClearPor].op = "clear POR"
  <2>1. ClearPor \in 1..LastStep
    BY DEF ClearPor, LastStep
  <2> QED  BY <2>1, StepAt
<1>2. /\ Written(g, GaugeProgram[ClearPor]) \in Gauge
      /\ g.holds \subseteq Written(g, GaugeProgram[ClearPor]).holds
      /\ Written(g, GaugeProgram[ClearPor]).model_unlocked => g.model_unlocked
      /\ Written(g, GaugeProgram[ClearPor]).vfsoc_unlocked => g.vfsoc_unlocked
  BY <1>1, WrittenGauge
<1>3. ClearPor - 1 \in Int /\ m \in Int /\ m >= m
  BY DEF ClearPor
<1> QED  BY <1>2, <1>3, StepsStayDone

(* The steps of the configuration leave everything but the gauge alone.    *)
LEMMA GaugeActionInv ==
    ASSUME BatteryInv, UNCHANGED gaugeUnchanged, Fail \/ Ok, gauge' \in Gauge,
           place' \in {"gauge", "removed", "shutdown"}, step' \in 1..LastStep, lock_i' \in 0..7,
           GaugeProgress'
    PROVE  BatteryInv'
<1>1. BatteryTypeOK
  BY DEF BatteryInv
<1>2. UNCHANGED <<version, hw_type, charger, boot_reason, charge_voltage_limit, showing, felt, seen, losses>>
  BY DEF gaugeUnchanged, console
<1>3. place' \in BatteryPlaces
  BY DEF BatteryPlaces
<1>4. BatteryTypeOK'
  BY <1>1, <1>2, <1>3, FailuresGrow DEF BatteryTypeOK
<1>5. BatteryInPlace' /\ ChargerSafe' /\ StartsCharged' /\ GaugeStaysOn'
  BY DEF BatteryInPlace, ChargerSafe, StartsCharged, GaugeStaysOn
<1> QED  BY <1>4, <1>5 DEF BatteryInv

(* How far the configuration is after a step, the failures of the step     *)
(* aside.                                                                  *)
Progressed ==
    \/ gauge'.por /\ place' # "gauge"
    \/ gauge'.por /\ step' <= ClearPor /\ StepsDone(gauge', step' - 1, failures)
    \/ ~gauge'.por /\ StepsDone(gauge', ClearPor - 1, failures)

(* An action that touches only the configuration keeps the invariant when  *)
(* the configuration has progressed.                                       *)
LEMMA ProgressedInv ==
    ASSUME BatteryInv, UNCHANGED gaugeUnchanged, Fail \/ Ok, gauge' \in Gauge,
           place' \in {"gauge", "removed", "shutdown"}, step' \in 1..LastStep, lock_i' \in 0..7,
           Progressed
    PROVE  BatteryInv'
<1>1. failures \in Nat /\ failures' \in Nat /\ failures' >= failures
  BY FailuresGrow DEF BatteryInv, BatteryTypeOK
<1>2. \A upto \in Int : StepsDone(gauge', upto, failures) => StepsDone(gauge', upto, failures')
  <2>1. SUFFICES ASSUME NEW upto \in Int, StepsDone(gauge', upto, failures)
                 PROVE  StepsDone(gauge', upto, failures')
    OBVIOUS
  <2>2. /\ gauge'.holds \subseteq gauge'.holds
        /\ gauge'.model_unlocked => gauge'.model_unlocked \/ failures' > 0
        /\ gauge'.vfsoc_unlocked => gauge'.vfsoc_unlocked
    OBVIOUS
  <2>3. failures \in Int /\ failures' \in Int
    BY <1>1
  <2> QED  BY <1>1, <2>1, <2>2, <2>3, StepsStayDone
<1>3. step' - 1 \in Int /\ ClearPor - 1 \in Int
  BY DEF ClearPor, LastStep
<1>4. GaugeProgress'
  BY <1>2, <1>3 DEF Progressed, GaugeProgress
<1> QED  BY <1>4, GaugeActionInv

(* A gauge that passes for configured.                                     *)
LEMMA SkipConfigurationInv == ASSUME BatteryInv, SkipConfiguration PROVE BatteryInv'
<1>1. /\ gauge \in Gauge /\ step \in 1..LastStep /\ lock_i \in 0..7
      /\ ~gauge.por => StepsDone(gauge, ClearPor - 1, failures)
  BY DEF BatteryInv, BatteryTypeOK, GaugeProgress
<1>2. /\ UNCHANGED gaugeUnchanged /\ UNCHANGED <<gauge, step, lock_i>> /\ (Fail \/ Ok)
      /\ place' = "removed"
  BY DEF SkipConfiguration, GoTo
<1>3. Progressed
  BY <1>1, <1>2 DEF Progressed
<1> QED  BY <1>1, <1>2, <1>3, ProgressedInv

(* The program has 37 steps.                                               *)
LEMMA ProgramLength == Len(GaugeProgram) = LastStep /\ LastStep = 37
  BY GaugeProgramSteps, Zenon DEF LastStep

(* The next step, or the end of the program.                               *)
LEMMA NextStepGoes ==
    ASSUME NextStep, step \in 1..LastStep
    PROVE  /\ place' \in {"gauge", "removed"} /\ step' \in 1..LastStep
           /\ step # LastStep => place' = "gauge" /\ step' = step + 1 /\ step' - 1 = step
<1>1. CASE step = LastStep
  BY <1>1, ProgramLength DEF NextStep, GoTo
<1>2. CASE step # LastStep
  BY <1>2, ProgramLength DEF NextStep, GoTo
<1> QED  BY <1>1, <1>2

(* A register written, read back, or given up.                             *)
LEMMA ConfigureInv == ASSUME BatteryInv, Configure PROVE BatteryInv'
<1> DEFINE w == Written(gauge, GaugeProgram[step])
<1>1. /\ gauge \in Gauge /\ step \in 1..LastStep /\ lock_i \in 0..7 /\ failures \in Nat
      /\ gauge.por /\ place = "gauge" /\ step <= ClearPor
      /\ StepsDone(gauge, step - 1, failures)
  BY DEF BatteryInv, BatteryTypeOK, GaugeProgress, Configure
<1>2. /\ UNCHANGED gaugeUnchanged /\ UNCHANGED lock_i
      /\ \/ Ok /\ gauge' = w /\ NextStep
         \/ Fail /\ gauge' \in {gauge, w} /\ UNCHANGED <<place, step>>
         \/ /\ GaugeProgram[step].op # "clear POR" /\ Fail /\ gauge' \in {gauge, w}
            /\ place' = "shutdown" /\ UNCHANGED step
         \/ Fail /\ place' = "shutdown" /\ UNCHANGED <<gauge, step>>
  BY DEF Configure, GoTo, ReadBack
<1>3. step # LastStep /\ (step = ClearPor \/ step \in 1..(ClearPor - 1))
  BY <1>1 DEF ClearPor, LastStep
<1>4. GaugeProgram[step].op = "clear POR" <=> step = ClearPor
  BY <1>1, StepAt
<1>5. CASE step = ClearPor
  <2>1. w \in Gauge /\ StepsDone(w, ClearPor - 1, failures)
    BY <1>1, <1>5, PorCleared
  <2>2. ~w.por
    BY <1>1, <1>4, <1>5, StepAt, WrittenGauge
  <2>3. step \in 1..LastStep /\ step + 1 \in 1..LastStep
    BY <1>5 DEF ClearPor, LastStep
  <2> HIDE DEF w
  <2>4. /\ gauge' \in Gauge /\ place' \in {"gauge", "removed", "shutdown"} /\ step' \in 1..LastStep
        /\ (Fail \/ Ok) /\ lock_i' \in 0..7
    BY <1>1, <1>2, <1>4, <1>5, <2>1, <2>3, NextStepGoes
  <2>5. Progressed
    BY <1>1, <1>2, <1>4, <1>5, <2>1, <2>2 DEF Progressed
  <2> QED  BY <1>2, <2>4, <2>5, ProgressedInv
<1>6. CASE step \in 1..(ClearPor - 1)
  <2>1. /\ w \in Gauge /\ w.por = gauge.por
        /\ StepsDone(w, step, failures) /\ StepsDone(w, step - 1, failures)
    BY <1>1, <1>6, StepDone
  <2> HIDE DEF w
  <2>2. step + 1 - 1 = step /\ step + 1 <= ClearPor /\ step + 1 \in 1..LastStep
    BY <1>6 DEF ClearPor, LastStep
  <2>3. /\ gauge' \in Gauge /\ place' \in {"gauge", "removed", "shutdown"} /\ step' \in 1..LastStep
        /\ (Fail \/ Ok) /\ lock_i' \in 0..7
    BY <1>1, <1>2, <2>1, <2>2, NextStepGoes
  <2>4. NextStep => step' - 1 = step /\ step' <= ClearPor
    BY <1>1, <1>3, <2>2, NextStepGoes
  <2>5. Progressed
    BY <1>1, <1>2, <1>3, <1>4, <1>6, <2>1, <2>4 DEF Progressed, ClearPor
  <2> QED  BY <1>2, <2>3, <2>5, ProgressedInv
<1> QED  BY <1>3, <1>5, <1>6

(* The model table unlocked and written.                                   *)
LEMMA SetModelTableInv == ASSUME BatteryInv, SetModelTable PROVE BatteryInv'
<1> DEFINE w == Written(gauge, GaugeProgram[step])
           unlocked == [gauge EXCEPT !.model_unlocked = TRUE]
<1>1. /\ gauge \in Gauge /\ step \in 1..LastStep /\ lock_i \in 0..7 /\ failures \in Nat
      /\ gauge.por /\ place = "gauge" /\ step <= ClearPor
      /\ StepsDone(gauge, step - 1, failures)
  BY DEF BatteryInv, BatteryTypeOK, GaugeProgress, SetModelTable
<1>2. /\ UNCHANGED gaugeUnchanged /\ UNCHANGED lock_i /\ (Fail \/ Ok)
      /\ \/ gauge' = w /\ (NextStep \/ UNCHANGED <<place, step>>)
         \/ gauge' \in {gauge, unlocked} /\ place' = "shutdown" /\ UNCHANGED step
  BY DEF SetModelTable, GoTo
<1>3. step = SetModel
  BY <1>1, StepAt DEF SetModelTable
<1>4. /\ step \in 1..(ClearPor - 1) /\ step # LastStep
      /\ step + 1 - 1 = step /\ step + 1 <= ClearPor /\ step + 1 \in 1..LastStep
  BY <1>3 DEF ClearPor, LastStep, SetModel
<1>5. /\ w \in Gauge /\ w.por = gauge.por
      /\ StepsDone(w, step, failures) /\ StepsDone(w, step - 1, failures)
  BY <1>1, <1>4, StepDone
<1>6. unlocked \in Gauge /\ unlocked.por = gauge.por
  BY <1>1 DEF Gauge
<1> HIDE DEF w, unlocked
<1>7. /\ gauge' \in Gauge /\ place' \in {"gauge", "removed", "shutdown"} /\ step' \in 1..LastStep
      /\ lock_i' \in 0..7
  BY <1>1, <1>2, <1>4, <1>5, <1>6, NextStepGoes
<1>8. Progressed
  <2>1. NextStep => step' - 1 = step /\ step' <= ClearPor
    BY <1>1, <1>4, NextStepGoes
  <2> QED  BY <1>1, <1>2, <1>5, <1>6, <2>1 DEF Progressed
<1> QED  BY <1>2, <1>7, <1>8, ProgressedInv

(* The model table locked, tried again, or given up after eight tries.     *)
LEMMA LockModelTableInv == ASSUME BatteryInv, LockModelTable PROVE BatteryInv'
<1> DEFINE w == Written(gauge, GaugeProgram[step])
<1>1. /\ gauge \in Gauge /\ step \in 1..LastStep /\ lock_i \in 0..7 /\ failures \in Nat
      /\ gauge.por /\ place = "gauge" /\ step <= ClearPor
      /\ StepsDone(gauge, step - 1, failures)
  BY DEF BatteryInv, BatteryTypeOK, GaugeProgress, LockModelTable
<1>2. step = LockModel
  BY <1>1, StepAt DEF LockModelTable
<1>3. /\ step \in 1..(ClearPor - 1) /\ step # LastStep
      /\ step + 1 - 1 = step /\ step + 1 <= ClearPor /\ step + 1 \in 1..LastStep
  BY <1>2 DEF ClearPor, LastStep, LockModel
<1>4. /\ w \in Gauge /\ w.por = gauge.por /\ StepsDone(w, step, failures)
  BY <1>1, <1>3, StepDone
<1>5. /\ UNCHANGED gaugeUnchanged
      /\ \/ Ok /\ gauge' = w /\ lock_i' = 0 /\ NextStep
         \/ Fail /\ gauge' = gauge /\ lock_i' = 0 /\ NextStep
         \/ /\ Fail /\ gauge' = gauge /\ step' = step /\ place' \in {"shutdown", "removed", "gauge"}
            /\ lock_i' = 0 \/ (lock_i + 1 < 8 /\ lock_i' = lock_i + 1)
  <2>1. UNCHANGED gaugeUnchanged
    BY DEF LockModelTable
  <2>2. lock_i + 1 >= 8 \/ lock_i + 1 < 8
    BY <1>1
  <2>3. \/ Ok /\ gauge' = w /\ lock_i' = 0 /\ NextStep
        \/ Fail /\ gauge' = gauge /\ GoTo("shutdown") /\ lock_i' = 0 /\ step' = step
        \/ Fail /\ gauge' = gauge /\ NextStep /\ lock_i' = 0
        \/ /\ Fail /\ gauge' = gauge /\ step' = step
           /\ IF lock_i + 1 >= 8 THEN GoTo("removed") /\ lock_i' = 0
                                 ELSE GoTo("gauge") /\ lock_i' = lock_i + 1
    BY Zenon DEF LockModelTable
  <2> HIDE DEF w
  <2>4. \A p : GoTo(p) => place' = p
    BY DEF GoTo
  <2> QED  BY <2>1, <2>2, <2>3, <2>4
<1>6. NextStep => place' = "gauge" /\ step' - 1 = step /\ step' <= ClearPor /\ step' \in 1..LastStep
  BY <1>1, <1>3, NextStepGoes
<1> HIDE DEF w
<1>7. lock_i' \in 0..7 /\ gauge' \in Gauge /\ (Fail \/ Ok)
  BY <1>1, <1>4, <1>5
<1>8. CASE Ok /\ gauge' = w /\ NextStep
  <2>1. Progressed
    BY <1>1, <1>4, <1>6, <1>8 DEF Progressed
  <2> QED  BY <1>5, <1>6, <1>7, <1>8, <2>1, ProgressedInv
<1>9. CASE Fail /\ gauge' = gauge /\ step' = step /\ place' \in {"shutdown", "removed", "gauge"}
  <2>1. Progressed
    BY <1>1, <1>9 DEF Progressed
  <2> QED  BY <1>1, <1>5, <1>7, <1>9, <2>1, ProgressedInv
<1>10. CASE Fail /\ gauge' = gauge /\ NextStep
  <2>1. failures' > 0
    BY <1>10, FailuresGrow DEF BatteryInv
  <2>2. \A i \in 1..step : i \notin Unregistered => i \in 1..(step - 1)
    BY <1>1, <1>2 DEF Unregistered
  <2>3. StepsDone(gauge, step, failures')
    BY <1>1, <1>2, <2>1, <2>2 DEF StepsDone, LockModel, LockVfsoc
  <2>4. GaugeProgress'
    BY <1>1, <1>6, <1>10, <2>3 DEF GaugeProgress
  <2> QED  BY <1>5, <1>6, <1>7, <1>10, <2>4, GaugeActionInv
<1> QED  BY <1>5, <1>8, <1>9, <1>10

(* What follows the power-on bit: CGain, or the status once more.          *)
LEMMA AfterPorInv == ASSUME BatteryInv, ConfigureGain \/ RepeatStatus PROVE BatteryInv'
<1> DEFINE w == Written(gauge, GaugeProgram[step])
<1>1. /\ gauge \in Gauge /\ step \in 1..LastStep /\ lock_i \in 0..7 /\ failures \in Nat
      /\ ~gauge.por /\ StepsDone(gauge, ClearPor - 1, failures) /\ Len(GaugeProgram) = LastStep
      /\ place = "gauge"
  BY GaugeProgramSteps DEF BatteryInv, BatteryTypeOK, GaugeProgress, ConfigureGain, RepeatStatus
<1>2. /\ UNCHANGED gaugeUnchanged /\ UNCHANGED lock_i /\ (Fail \/ Ok)
      /\ \/ gauge' = gauge
         \/ gauge' = w /\ step = LastStep
      /\ \/ NextStep
         \/ place' \in {"gauge", "removed", "shutdown"} /\ UNCHANGED step
  BY <1>1 DEF ConfigureGain, RepeatStatus, GoTo
<1>3. step = LastStep => w \in Gauge /\ ~w.por /\ StepsDone(w, ClearPor - 1, failures)
  <2>1. SUFFICES ASSUME step = LastStep
                 PROVE  w \in Gauge /\ ~w.por /\ StepsDone(w, ClearPor - 1, failures)
    OBVIOUS
  <2>2. /\ GaugeProgram[step] \in GaugeStep /\ GaugeProgram[step].op # "set model table"
        /\ GaugeProgram[step].op # "unlock VFSOC"
    <3>1. step # SetModel /\ step # UnlockVfsoc
      BY <2>1 DEF LastStep, SetModel, UnlockVfsoc
    <3> QED  BY <1>1, <3>1, StepAt
  <2>3. /\ w \in Gauge /\ gauge.holds \subseteq w.holds /\ ~w.por
        /\ w.model_unlocked => gauge.model_unlocked
        /\ w.vfsoc_unlocked => gauge.vfsoc_unlocked
    BY <1>1, <2>2, WrittenGauge
  <2> HIDE DEF w
  <2>4. failures \in Int /\ failures >= failures /\ ClearPor - 1 \in Int
    BY <1>1 DEF ClearPor
  <2> QED  BY <1>1, <2>3, <2>4, StepsStayDone
<1> HIDE DEF w
<1>4. /\ gauge' \in Gauge /\ place' \in {"gauge", "removed", "shutdown"} /\ step' \in 1..LastStep
      /\ lock_i' \in 0..7
  BY <1>1, <1>2, <1>3, NextStepGoes
<1>5. Progressed
  BY <1>1, <1>2, <1>3 DEF Progressed
<1> QED  BY <1>2, <1>4, <1>5, ProgressedInv

(* The other steps, while the gauge keeps its parameters and its locks.    *)
LEMMA GaugeKept ==
    ASSUME BatteryInv, failures' \in Nat, failures' >= failures, place' # "gauge",
           gauge'.por = gauge.por, gauge'.holds = gauge.holds,
           gauge'.model_unlocked = gauge.model_unlocked,
           gauge'.vfsoc_unlocked = gauge.vfsoc_unlocked
    PROVE  GaugeProgress'
<1>1. failures \in Int /\ failures' \in Int /\ ClearPor - 1 \in Int
  BY DEF BatteryInv, BatteryTypeOK, ClearPor
<1>2. ASSUME ~gauge.por PROVE StepsDone(gauge', ClearPor - 1, failures')
  <2>1. StepsDone(gauge, ClearPor - 1, failures)
    BY <1>2 DEF BatteryInv, GaugeProgress
  <2>2. /\ gauge.holds \subseteq gauge'.holds
        /\ gauge'.model_unlocked => gauge.model_unlocked \/ failures' > 0
        /\ gauge'.vfsoc_unlocked => gauge.vfsoc_unlocked
    OBVIOUS
  <2> QED  BY <1>1, <2>1, <2>2, StepsStayDone
<1> QED  BY <1>2 DEF GaugeProgress

(* The boot reason is one of five.                                         *)
LEMMA DetectBootReasonInv == ASSUME BatteryInv, DetectBootReason PROVE BatteryInv'
<1>1. BatteryTypeOK /\ GaugeProgress
  BY DEF BatteryInv
<1>2. /\ place' = "gauge" /\ step' = 1 /\ boot_reason' \in 0..4
      /\ UNCHANGED <<version, hw_type, gauge, charger, lock_i, charge_voltage_limit, showing, felt,
                     seen, failures, losses>>
  <2>1. PICK power_button \in BOOLEAN, rtc_2 \in BOOLEAN, ac_inserted \in BOOLEAN,
             rtc_4 \in BOOLEAN, ac_ok \in BOOLEAN, recovery \in BOOLEAN,
             nv_erc \in {"Is0x80", "Has0x40", "other"} :
             boot_reason' = MakeBootReason(power_button, rtc_2, ac_inserted, rtc_4, nv_erc, ac_ok,
                                           recovery)
    BY DEF DetectBootReason
  <2>2. MakeBootReason(power_button, rtc_2, ac_inserted, rtc_4, nv_erc, ac_ok, recovery) \in 0..4
    BY DEF MakeBootReason
  <2>3. boot_reason' \in 0..4
    BY <2>1, <2>2
  <2>4. UNCHANGED <<console, gauge, charger, lock_i, charge_voltage_limit, showing, felt, seen,
                    failures, losses>> /\ place' = "gauge" /\ step' = 1
    BY Zenon DEF DetectBootReason, GoTo
  <2> QED  BY <2>3, <2>4 DEF console
<1>3. BatteryTypeOK'
  <2>1. place' \in BatteryPlaces /\ step' \in 1..LastStep
    BY <1>2 DEF BatteryPlaces, LastStep
  <2> QED  BY <1>1, <1>2, <2>1 DEF BatteryTypeOK
<1>4. GaugeProgress'
  <2>1. 1..0 = {} /\ 1 - 1 = 0 /\ 1 <= ClearPor /\ ~(0 >= LockModel) /\ ~(0 >= LockVfsoc)
    BY DEF ClearPor, LockModel, LockVfsoc
  <2>2. StepsDone(gauge, 0, failures)
    BY <2>1 DEF StepsDone
  <2> QED  BY <1>1, <1>2, <2>1, <2>2 DEF GaugeProgress
<1>5. BatteryInPlace' /\ ChargerSafe' /\ StartsCharged' /\ GaugeStaysOn'
  BY <1>2 DEF BatteryInPlace, ChargerSafe, StartsCharged, GaugeStaysOn
<1> QED  BY <1>3, <1>4, <1>5 DEF BatteryInv

(* The battery was removed or not.                                         *)
LEMMA CheckRemovedInv == ASSUME BatteryInv, CheckRemoved PROVE BatteryInv'
<1>1. BatteryTypeOK
  BY DEF BatteryInv
<1>2. /\ UNCHANGED <<version, hw_type, step, lock_i, boot_reason, losses, gauge, charger,
                     charge_voltage_limit, showing, felt, seen>>
      /\ place' \in {"shutdown", "charger"} /\ (Fail \/ Ok)
      /\ place' = "charger" => ~gauge.removed
  BY DEF CheckRemoved, checkUnchanged, console, GoTo
<1>3. failures' \in Nat /\ failures' >= failures
  BY <1>1, <1>2, FailuresGrow
<1>4. BatteryTypeOK'
  BY <1>1, <1>2, <1>3 DEF BatteryTypeOK, BatteryPlaces
<1>5. GaugeProgress'
  BY <1>2, <1>3, GaugeKept
<1>6. BatteryInPlace' /\ ChargerSafe' /\ StartsCharged' /\ GaugeStaysOn'
  BY <1>2 DEF BatteryInPlace, ChargerSafe, StartsCharged, GaugeStaysOn
<1> QED  BY <1>4, <1>5, <1>6 DEF BatteryInv

(* The charger's registers: encodings are integers and never round up.     *)
LEMMA EncodingsRoundDown ==
    ASSUME NEW x \in Int
    PROVE  /\ EncodeChargeVoltageLimit(x) \in Int /\ EncodeFastChargeCurrentLimit(x) \in Int
           /\ DecodeChargeVoltageLimit(EncodeChargeVoltageLimit(x)) <= x
           /\ DecodeFastChargeCurrentLimit(EncodeFastChargeCurrentLimit(x)) <= x
           /\ DecodeChargeVoltageLimit(x) \in Int
<1>1. ASSUME NEW k \in Int PROVE (k * 4) \div 4 = k
  BY <1>1
<1>2. PICK k \in Int : k = (x - 3504) \div 16
  OBVIOUS
<1>3. PICK m \in Int : m = (x - 512) \div 64
  OBVIOUS
<1>4. k * 16 <= x - 3504 /\ m * 64 <= x - 512
  BY <1>2, <1>3
<1>5. EncodeChargeVoltageLimit(x) = k * 4 /\ EncodeFastChargeCurrentLimit(x) = m * 4
  BY <1>2, <1>3 DEF EncodeChargeVoltageLimit, EncodeFastChargeCurrentLimit, ChargeVoltageLimitMin
<1>6. DecodeChargeVoltageLimit(k * 4) = 3504 + k * 16 /\ DecodeFastChargeCurrentLimit(m * 4) = 512 + m * 64
  BY <1>1 DEF DecodeChargeVoltageLimit, DecodeFastChargeCurrentLimit, ChargeVoltageLimitMin
<1> QED  BY <1>4, <1>5, <1>6 DEF DecodeChargeVoltageLimit, ChargeVoltageLimitMin

(* The three versions of the parameters are numbers.                       *)
LEMMA ParametersAreNumbers ==
    ASSUME version \in BatteryVersions
    PROVE  /\ parameters.temp_max \in Int
           /\ parameters.allow_high_temp_charge_max_voltage \in Int
           /\ parameters.charge_voltage_limit_default \in Int
           /\ parameters.charge_voltage_limit_high_temp \in Int
           /\ parameters.allow_fast_charge_min_voltage \in Int
           /\ parameters.fast_charge_current_limit_default \in Int
           /\ parameters.fast_charge_current_limit_low_temp \in Int
           /\ parameters.fast_charge_current_limit_low_voltage \in Int
<1>1. version = 0 \/ version = 1 \/ version = 2
  BY BatteryNumbers
<1> QED  BY <1>1 DEF parameters, BatteryChargeParameters

(* The charger initialised, as far as its transfers went.                  *)
LEMMA InitializeChargerInv ==
    ASSUME BatteryInv, InitializeCharger PROVE BatteryInv'
<1>1. BatteryTypeOK
  BY DEF BatteryInv
<1>2. \A upto \in 0..4 : InitializedCharger(upto) \in Charger
  <2>1. EncodeChargeVoltageLimit(4208) \in Int /\ EncodeFastChargeCurrentLimit(512) \in Int
    BY EncodingsRoundDown
  <2>2. ASSUME NEW upto \in 0..4 PROVE InitializedCharger(upto) \in Charger
    <3>1. charger \in Charger
      BY <1>1 DEF BatteryTypeOK
    <3>2. PICK a \in Int, b \in Int, c \in Int, d \in BOOLEAN :
            InitializedCharger(upto)
              = [charger EXCEPT !.input = a, !.voltage = b, !.current = c, !.hi_z = d]
      <4> DEFINE a == IF boot_reason # 4 /\ upto > 0 THEN 2 ELSE charger.input
                 b == IF upto > 1 THEN EncodeChargeVoltageLimit(4208) ELSE charger.voltage
                 c == IF upto > 2 THEN EncodeFastChargeCurrentLimit(512) ELSE charger.current
                 d == IF upto > 3 THEN FALSE ELSE charger.hi_z
      <4>1. a \in Int /\ b \in Int /\ c \in Int
        BY <2>1, <3>1 DEF Charger
      <4>2. d \in BOOLEAN
        BY <3>1 DEF Charger
      <4>3. InitializedCharger(upto)
              = [charger EXCEPT !.input = a, !.voltage = b, !.current = c, !.hi_z = d]
        BY DEF InitializedCharger
      <4> HIDE DEF a, b, c, d
      <4> QED  BY <4>1, <4>2, <4>3
    <3> QED  BY <3>1, <3>2 DEF Charger
  <2> QED  BY <2>2
<1>3. /\ UNCHANGED <<version, hw_type, step, lock_i, boot_reason, losses, gauge, showing, felt, seen>>
      /\ place' \in {"shutdown", "first update"} /\ (Fail \/ Ok)
      /\ \/ \E upto \in 0..4 : charger' = InitializedCharger(upto)
         \/ charger' = [InitializedCharger(4) EXCEPT !.config = "ChargeDisable"]
      /\ charge_voltage_limit' \in {charge_voltage_limit, parameters.charge_voltage_limit_default,
                                    DecodeChargeVoltageLimit(charger'.voltage)}
      /\ place = "charger"
  <2>1. UNCHANGED <<checkUnchanged, gauge, showing, felt, seen>> /\ place = "charger"
    BY DEF InitializeCharger
  <2>2. \/ /\ Ok /\ charger' = InitializedCharger(4)
           /\ IF boot_reason = 4
              THEN charge_voltage_limit' = DecodeChargeVoltageLimit(charger'.voltage)
              ELSE charge_voltage_limit' = parameters.charge_voltage_limit_default
           /\ GoTo("first update")
        \/ /\ Ok /\ charger' = [InitializedCharger(4) EXCEPT !.config = "ChargeDisable"]
           /\ GoTo("shutdown") /\ UNCHANGED charge_voltage_limit
        \/ /\ Fail /\ \E upto \in 0..4 : charger' = InitializedCharger(upto)
           /\ GoTo("shutdown") /\ UNCHANGED charge_voltage_limit
    BY Zenon DEF InitializeCharger
  <2>3. 4 \in 0..4
    OBVIOUS
  <2>4. \A p : GoTo(p) => place' = p
    BY DEF GoTo
  <2> QED  BY <2>1, <2>2, <2>3, <2>4 DEF checkUnchanged, console
<1>4. failures' \in Nat /\ failures' >= failures
  BY <1>1, <1>3, FailuresGrow
<1>5. charger' \in Charger
  <2>1. \A c \in Charger : [c EXCEPT !.config = "ChargeDisable"] \in Charger
    BY DEF Charger
  <2>2. InitializedCharger(4) \in Charger
    BY <1>2
  <2> QED  BY <1>2, <1>3, <2>1, <2>2
<1>6. charge_voltage_limit' \in Int
  <2>1. charger'.voltage \in Int
    BY <1>5 DEF Charger
  <2> QED  BY <1>1, <1>3, <2>1, ParametersAreNumbers, EncodingsRoundDown DEF BatteryTypeOK
<1>7. BatteryTypeOK'
  BY <1>1, <1>3, <1>4, <1>5, <1>6 DEF BatteryTypeOK, BatteryPlaces
<1>8. GaugeProgress'
  BY <1>3, <1>4, GaugeKept
<1>9. BatteryInPlace' /\ ChargerSafe' /\ StartsCharged' /\ GaugeStaysOn'
  BY <1>3 DEF BatteryInv, BatteryInPlace, ChargerSafe, StartsCharged, GaugeStaysOn
<1> QED  BY <1>7, <1>8, <1>9 DEF BatteryInv

(* UpdateCharger: what the charger is set to for what was measured.        *)
LEMMA ChargerUpdated ==
    ASSUME BatteryTypeOK, NEW t \in Int, NEW v \in Int
    PROVE  /\ Enabled(t, v) \in Charger /\ Limited(t, v) \in Charger /\ Updated(t, v) \in Charger
           /\ [Enabled(t, v) EXCEPT !.config = charger.config] \in Charger
           /\ Updated(t, v).pin = (IF ChargeEnabled(t, v) THEN "Low" ELSE "High")
           /\ Updated(t, v).voltage = EncodeChargeVoltageLimit(VoltageLimit(t, v))
           /\ Updated(t, v).current = EncodeFastChargeCurrentLimit(CurrentLimit(t, v))
           /\ VoltageLimit(t, v) \in Int /\ CurrentLimit(t, v) \in Int
<1>1. charger \in Charger /\ charge_voltage_limit \in Int /\ version \in BatteryVersions
  BY DEF BatteryTypeOK
<1>2. VoltageLimit(t, v) \in Int /\ CurrentLimit(t, v) \in Int
  BY <1>1, ParametersAreNumbers DEF VoltageLimit, CurrentLimit, Lower
<1> DEFINE pin == IF ChargeEnabled(t, v) THEN "Low" ELSE "High"
           volts == EncodeChargeVoltageLimit(VoltageLimit(t, v))
           amps == EncodeFastChargeCurrentLimit(CurrentLimit(t, v))
<1>3. pin \in {"Low", "High"} /\ volts \in Int /\ amps \in Int
  BY <1>2, EncodingsRoundDown
<1>4. /\ Enabled(t, v) = [charger EXCEPT !.pin = pin, !.config = "ChargeBattery"]
      /\ Limited(t, v) = [Enabled(t, v) EXCEPT !.voltage = volts]
      /\ Updated(t, v) = [Limited(t, v) EXCEPT !.current = amps]
  BY DEF Enabled, Limited, Updated
<1> HIDE DEF pin, volts, amps
<1>5. Enabled(t, v) \in Charger /\ Enabled(t, v).pin = pin
  BY <1>1, <1>3, <1>4 DEF Charger
<1>6. Limited(t, v) \in Charger /\ Limited(t, v).pin = pin /\ Limited(t, v).voltage = volts
  BY <1>3, <1>4, <1>5 DEF Charger
<1>7. /\ Updated(t, v) \in Charger /\ Updated(t, v).pin = pin /\ Updated(t, v).voltage = volts
      /\ Updated(t, v).current = amps
  BY <1>3, <1>4, <1>6 DEF Charger
<1>8. [Enabled(t, v) EXCEPT !.config = charger.config] \in Charger
  BY <1>1, <1>5 DEF Charger
<1> QED  BY <1>2, <1>5, <1>6, <1>7, <1>8 DEF pin, volts, amps

(* A charger updated for a temperature and a voltage is safe for them.     *)
LEMMA UpdatedIsSafe ==
    ASSUME BatteryTypeOK, NEW t \in Int, NEW v \in Int,
           charger' = Updated(t, v), felt' = [t |-> t, v |-> v], UNCHANGED version
    PROVE  ChargerSafe'
<1>1. charge_voltage_limit \in Int /\ version \in BatteryVersions
  BY DEF BatteryTypeOK
<1>2. /\ felt'.t = t /\ felt'.v = v
      /\ charger'.pin = (IF ChargeEnabled(t, v) THEN "Low" ELSE "High")
      /\ charger'.voltage = EncodeChargeVoltageLimit(VoltageLimit(t, v))
      /\ charger'.current = EncodeFastChargeCurrentLimit(CurrentLimit(t, v))
  BY ChargerUpdated
<1>3. parameters' = parameters
  BY DEF parameters
<1>4. /\ DecodeChargeVoltageLimit(charger'.voltage) <= VoltageLimit(t, v)
      /\ DecodeFastChargeCurrentLimit(charger'.current) <= CurrentLimit(t, v)
      /\ DecodeChargeVoltageLimit(charger'.voltage) \in Int
      /\ DecodeFastChargeCurrentLimit(charger'.current) \in Int
      /\ VoltageLimit(t, v) \in Int /\ CurrentLimit(t, v) \in Int
  <2>1. charger'.voltage \in Int /\ charger'.current \in Int
    <3>1. VoltageLimit(t, v) \in Int /\ CurrentLimit(t, v) \in Int
      BY ChargerUpdated
    <3> QED  BY <1>2, <3>1, EncodingsRoundDown
  <2>2. DecodeFastChargeCurrentLimit(charger'.current) \in Int
    BY <2>1 DEF DecodeFastChargeCurrentLimit
  <2> QED  BY <1>2, <2>1, <2>2, ChargerUpdated, EncodingsRoundDown
<1>5. charger'.pin = "Low" => ChargeEnabled(t, v)
  BY <1>2
<1>6. charger'.pin = "Low" => TempMin <= t /\ t < parameters.temp_max
  BY <1>5 DEF ChargeEnabled, TempMin
<1>7. ASSUME charger'.pin = "Low", t >= TempHigh
      PROVE  /\ v < parameters.allow_high_temp_charge_max_voltage
             /\ VoltageLimit(t, v) <= parameters.charge_voltage_limit_high_temp
  BY <1>1, <1>5, <1>7, ParametersAreNumbers DEF ChargeEnabled, VoltageLimit, Lower
<1>8. t < TempLow => CurrentLimit(t, v) <= parameters.fast_charge_current_limit_low_temp
  BY <1>1, ParametersAreNumbers DEF CurrentLimit, Lower
<1>9. v < parameters.allow_fast_charge_min_voltage =>
        CurrentLimit(t, v) <= parameters.fast_charge_current_limit_low_voltage
  BY <1>1, ParametersAreNumbers DEF CurrentLimit, Lower
<1> HIDE DEF parameters
<1>10. /\ charger'.pin = "Low" /\ t >= TempHigh =>
            DecodeChargeVoltageLimit(charger'.voltage) <= parameters.charge_voltage_limit_high_temp
       /\ t < TempLow => DecodeFastChargeCurrentLimit(charger'.current)
                            <= parameters.fast_charge_current_limit_low_temp
       /\ v < parameters.allow_fast_charge_min_voltage =>
            DecodeFastChargeCurrentLimit(charger'.current)
               <= parameters.fast_charge_current_limit_low_voltage
  BY <1>1, <1>4, <1>7, <1>8, <1>9, ParametersAreNumbers
<1> QED  BY <1>2, <1>3, <1>6, <1>7, <1>10 DEF ChargerSafe

(* The charger updated, in whole or in part.                               *)
LEMMA UpdateChargerInv == ASSUME BatteryInv, UpdateCharger PROVE BatteryInv'
<1>1. BatteryTypeOK
  BY DEF BatteryInv
<1>2. PICK t \in Temperatures, v \in Voltages :
          \/ /\ EncodableVoltage(VoltageLimit(t, v)) /\ Ok
             /\ charger' = Updated(t, v) /\ felt' = [t |-> t, v |-> v]
             /\ GoTo(IF place = "sleep" THEN "loop" ELSE "start loop")
          \/ /\ ~EncodableVoltage(VoltageLimit(t, v)) /\ Ok
             /\ charger' = Enabled(t, v) /\ GoTo("encode abort") /\ UNCHANGED felt
          \/ /\ Fail /\ GoTo("shutdown") /\ UNCHANGED felt
             /\ \/ UNCHANGED charger
                \/ charger' = [Enabled(t, v) EXCEPT !.config = charger.config]
                \/ charger' = Enabled(t, v)
                \/ EncodableVoltage(VoltageLimit(t, v)) /\ charger' = Limited(t, v)
  BY Zenon DEF UpdateCharger
<1>3. t \in Int /\ v \in Int
  BY BatteryNumbers
<1>4. /\ UNCHANGED <<version, hw_type, step, lock_i, boot_reason, losses, gauge,
                     charge_voltage_limit, showing, seen>>
      /\ place \in {"first update", "sleep"}
  BY DEF UpdateCharger, checkUnchanged, console
<1>5. /\ place' \in {"loop", "start loop", "encode abort", "shutdown"} /\ (Fail \/ Ok)
      /\ \/ charger' = Updated(t, v) /\ felt' = [t |-> t, v |-> v]
         \/ /\ charger' \in {charger, Enabled(t, v), Limited(t, v),
                             [Enabled(t, v) EXCEPT !.config = charger.config]}
            /\ felt' = felt /\ place' \in {"encode abort", "shutdown"}
  <2>1. \A p : GoTo(p) => place' = p
    BY DEF GoTo
  <2> QED  BY <1>2, <2>1
<1>6. failures' \in Nat /\ failures' >= failures
  BY <1>1, <1>5, FailuresGrow
<1>7. charger' \in Charger /\ felt' \in [t : Int, v : Int]
  <2>1. charger \in Charger /\ felt \in [t : Int, v : Int] /\ [t |-> t, v |-> v] \in [t : Int, v : Int]
    BY <1>1, <1>3 DEF BatteryTypeOK
  <2>2. /\ Enabled(t, v) \in Charger /\ Limited(t, v) \in Charger /\ Updated(t, v) \in Charger
        /\ [Enabled(t, v) EXCEPT !.config = charger.config] \in Charger
    BY <1>1, <1>3, ChargerUpdated
  <2> QED  BY <1>5, <2>1, <2>2, Zenon
<1>8. place' \in BatteryPlaces
  BY <1>5 DEF BatteryPlaces
<1>9. BatteryTypeOK'
  BY <1>1, <1>4, <1>6, <1>7, <1>8 DEF BatteryTypeOK
<1>10. GaugeProgress'
  BY <1>4, <1>5, <1>6, GaugeKept
<1>11. ChargerSafe'
  <2>1. CASE charger' = Updated(t, v) /\ felt' = [t |-> t, v |-> v]
    BY <1>1, <1>3, <1>4, <2>1, UpdatedIsSafe
  <2>2. CASE place' \in {"encode abort", "shutdown"}
    BY <2>2 DEF ChargerSafe
  <2> QED  BY <1>5, <2>1, <2>2
<1>12. BatteryInPlace' /\ StartsCharged' /\ GaugeStaysOn'
  BY <1>4, <1>5 DEF BatteryInv, BatteryInPlace, StartsCharged, GaugeStaysOn
<1> QED  BY <1>9, <1>10, <1>11, <1>12 DEF BatteryInv

(* The loop starts, its icon shown or not.                                 *)
LEMMA StartLoopInv == ASSUME BatteryInv, StartLoop PROVE BatteryInv'
<1>1. BatteryTypeOK
  BY DEF BatteryInv
<1>2. /\ UNCHANGED <<version, hw_type, step, lock_i, boot_reason, losses, gauge, charger,
                     charge_voltage_limit, felt, seen>>
      /\ place = "start loop" /\ place' \in {"loop", "shutdown"} /\ (Fail \/ Ok)
  BY DEF StartLoop, checkUnchanged, console, GoTo
<1>3. showing' \in BOOLEAN
  BY <1>1 DEF StartLoop, ShowIconFirst, BatteryTypeOK
<1>4. failures' \in Nat /\ failures' >= failures
  BY <1>1, <1>2, FailuresGrow
<1>5. BatteryTypeOK'
  BY <1>1, <1>2, <1>3, <1>4 DEF BatteryTypeOK, BatteryPlaces
<1>6. GaugeProgress'
  BY <1>2, <1>4, GaugeKept
<1>7. ChargerSafe'
  <2>1. parameters' = parameters
    BY <1>2 DEF parameters
  <2> QED  BY <1>2, <2>1 DEF BatteryInv, ChargerSafe
<1>8. BatteryInPlace' /\ StartsCharged' /\ GaugeStaysOn'
  BY <1>2 DEF BatteryInv, BatteryInPlace, StartsCharged, GaugeStaysOn
<1> QED  BY <1>5, <1>6, <1>7, <1>8 DEF BatteryInv

(* A round that starts the console found it charged or the battery         *)
(* sufficient, and was not the loop of a console that only charges.        *)
LEMMA CheckBatteryInv == ASSUME BatteryInv, CheckBattery PROVE BatteryInv'
<1>1. BatteryTypeOK
  BY DEF BatteryInv
<1>2. /\ UNCHANGED <<version, hw_type, step, lock_i, boot_reason, losses, gauge, charger,
                     charge_voltage_limit, felt>>
      /\ place = "loop" /\ (Fail \/ Ok)
  BY DEF CheckBattery, checkUnchanged, console
<1>3. \/ \E soc \in Charges, v \in Voltages, ac \in BOOLEAN, button \in BOOLEAN :
            /\ place' = CheckOutcome(soc, ac, v, button)
            /\ seen' = IF place' = "booted" THEN [soc |-> soc, ac |-> ac, v |-> v] ELSE seen
            /\ showing' = (place' = "sleep" /\ (showing \/ ShowBatteryIcon))
      \/ place' = "shutdown" /\ showing' = FALSE /\ seen' = seen
  BY DEF CheckBattery, GoTo
<1>4. failures' \in Nat /\ failures' >= failures
  BY <1>1, <1>2, FailuresGrow
<1> DEFINE Checked ==
             /\ place' \in {"booted", "shutdown", "reboot", "sleep"} /\ showing' \in BOOLEAN
             /\ seen' \in [soc : Nat, ac : BOOLEAN, v : Int]
             /\ place' = "booted" => /\ boot_reason # 4 /\ ~showing'
                                     /\ seen'.soc >= 3 \/ IsSufficientBattery(seen'.v, seen'.ac)
<1>5. Checked
  <2>1. CASE place' = "shutdown" /\ showing' = FALSE /\ seen' = seen
    BY <1>1, <2>1 DEF BatteryTypeOK
  <2>2. ASSUME NEW soc \in Charges, NEW v \in Voltages, NEW ac \in BOOLEAN, NEW button \in BOOLEAN,
               place' = CheckOutcome(soc, ac, v, button),
               seen' = IF place' = "booted" THEN [soc |-> soc, ac |-> ac, v |-> v] ELSE seen,
               showing' = (place' = "sleep" /\ (showing \/ ShowBatteryIcon))
        PROVE  Checked
    <3>1. place' \in {"booted", "shutdown", "reboot", "sleep"}
      BY <2>2 DEF CheckOutcome
    <3>2. showing' \in BOOLEAN /\ (place' = "booted" => ~showing')
      BY <2>2
    <3>3. [soc |-> soc, ac |-> ac, v |-> v] \in [soc : Nat, ac : BOOLEAN, v : Int]
      BY BatteryNumbers
    <3>4. seen' \in [soc : Nat, ac : BOOLEAN, v : Int]
      BY <1>1, <2>2, <3>3 DEF BatteryTypeOK
    <3>5. ASSUME place' = "booted"
          PROVE  boot_reason # 4 /\ (seen'.soc >= 3 \/ IsSufficientBattery(seen'.v, seen'.ac))
      <4>1. seen'.soc = soc /\ seen'.v = v /\ seen'.ac = ac
        BY <2>2, <3>5
      <4>2. SucceedOnSufficient /\ (soc >= 3 \/ IsSufficientBattery(v, ac))
        BY <2>2, <3>5 DEF CheckOutcome
      <4> QED  BY <4>1, <4>2 DEF SucceedOnSufficient
    <3> QED  BY <3>1, <3>2, <3>4, <3>5
  <2> QED  BY <1>3, <2>1, <2>2
<1>6. BatteryTypeOK'
  BY <1>1, <1>2, <1>4, <1>5 DEF BatteryTypeOK, BatteryPlaces
<1>7. GaugeProgress'
  BY <1>2, <1>4, <1>5, GaugeKept
<1>8. ChargerSafe'
  <2>1. parameters' = parameters
    BY <1>2 DEF parameters
  <2> QED  BY <1>2, <2>1 DEF BatteryInv, ChargerSafe
<1>9. BatteryInPlace'
  BY <1>2 DEF BatteryInv, BatteryInPlace
<1>10. StartsCharged' /\ GaugeStaysOn'
  BY <1>2, <1>5 DEF BatteryInv, BatteryInPlace, StartsCharged, GaugeStaysOn
<1> QED  BY <1>6, <1>7, <1>8, <1>9, <1>10 DEF BatteryInv

(* The console shut down: only without an adapter is the gauge told to go  *)
(* with it.                                                                *)
LEMMA ShutdownSystemInv == ASSUME BatteryInv, ShutdownSystem PROVE BatteryInv'
<1>1. BatteryTypeOK
  BY DEF BatteryInv
<1>2. /\ UNCHANGED <<version, hw_type, step, lock_i, boot_reason, losses, charger,
                     charge_voltage_limit, showing, felt>>
      /\ place' \in {"off", "pmic abort"} /\ (Fail \/ Ok)
  BY DEF ShutdownSystem, checkUnchanged, console, GoTo
<1>3. \/ /\ Ok
         /\ \E soc \in Charges, ac \in BOOLEAN :
               /\ gauge' = [gauge EXCEPT !.shutdown_enabled = ~ac /\ UseDesiredShutdown(soc)]
               /\ seen' = [seen EXCEPT !.ac = ac, !.soc = soc]
      \/ Fail /\ seen' = seen /\ gauge' \in {gauge, [gauge EXCEPT !.shutdown_enabled = FALSE]}
  BY DEF ShutdownSystem
<1>4. failures' \in Nat /\ failures' >= failures /\ (Fail => failures' > 0)
  BY <1>1, <1>2, FailuresGrow
<1> DEFINE Told ==
             /\ gauge' \in Gauge /\ seen' \in [soc : Nat, ac : BOOLEAN, v : Int]
             /\ gauge'.por = gauge.por /\ gauge'.holds = gauge.holds
             /\ gauge'.model_unlocked = gauge.model_unlocked
             /\ gauge'.vfsoc_unlocked = gauge.vfsoc_unlocked
             /\ failures' = 0 /\ seen'.ac => ~gauge'.shutdown_enabled
<1>5. Told
  <2>1. gauge \in Gauge /\ seen \in [soc : Nat, ac : BOOLEAN, v : Int]
    BY <1>1 DEF BatteryTypeOK
  <2>2. CASE Fail /\ seen' = seen /\ gauge' \in {gauge, [gauge EXCEPT !.shutdown_enabled = FALSE]}
    <3> DEFINE off == [gauge EXCEPT !.shutdown_enabled = FALSE]
    <3>1. /\ off \in Gauge /\ off.por = gauge.por /\ off.holds = gauge.holds
          /\ off.model_unlocked = gauge.model_unlocked
          /\ off.vfsoc_unlocked = gauge.vfsoc_unlocked
      BY <2>1 DEF Gauge
    <3>2. seen' = seen /\ gauge' \in {gauge, off} /\ failures' # 0
      BY <1>4, <2>2
    <3> HIDE DEF off
    <3>3. seen' \in [soc : Nat, ac : BOOLEAN, v : Int]
      BY <2>1, <3>2
    <3>4. CASE gauge' = gauge
      BY <2>1, <3>2, <3>3, <3>4
    <3>5. CASE gauge' = off
      BY <3>1, <3>2, <3>3, <3>5
    <3> QED  BY <3>2, <3>4, <3>5
  <2>3. ASSUME NEW soc \in Charges, NEW ac \in BOOLEAN,
               gauge' = [gauge EXCEPT !.shutdown_enabled = ~ac /\ UseDesiredShutdown(soc)],
               seen' = [seen EXCEPT !.ac = ac, !.soc = soc]
        PROVE  Told
    <3> DEFINE enabled == ~ac /\ UseDesiredShutdown(soc)
    <3>1. enabled \in BOOLEAN /\ (ac => ~enabled) /\ soc \in Nat
      BY BatteryNumbers
    <3>2. gauge' = [gauge EXCEPT !.shutdown_enabled = enabled]
      BY <2>3
    <3> HIDE DEF enabled
    <3>3. /\ gauge' \in Gauge /\ gauge'.por = gauge.por /\ gauge'.holds = gauge.holds
          /\ gauge'.model_unlocked = gauge.model_unlocked
          /\ gauge'.vfsoc_unlocked = gauge.vfsoc_unlocked /\ gauge'.shutdown_enabled = enabled
      BY <2>1, <3>1, <3>2 DEF Gauge
    <3>4. seen' \in [soc : Nat, ac : BOOLEAN, v : Int] /\ seen'.ac = ac
      BY <2>1, <2>3, <3>1
    <3> QED  BY <3>1, <3>3, <3>4
  <2> QED  BY <1>3, <2>2, <2>3
<1>6. BatteryTypeOK'
  BY <1>1, <1>2, <1>4, <1>5 DEF BatteryTypeOK, BatteryPlaces
<1>7. GaugeProgress'
  BY <1>2, <1>4, <1>5, GaugeKept
<1>8. BatteryInPlace' /\ ChargerSafe' /\ StartsCharged' /\ GaugeStaysOn'
  BY <1>2, <1>5 DEF BatteryInPlace, ChargerSafe, StartsCharged, GaugeStaysOn
<1> QED  BY <1>6, <1>7, <1>8 DEF BatteryInv

(* The power that is lost and comes back: the gauge keeps what it has, or  *)
(* has lost it with the battery, its power-on bit with it.                 *)
LEMMA StartAgainInv == ASSUME BatteryInv, StartAgain PROVE BatteryInv'
<1>1. BatteryTypeOK
  BY DEF BatteryInv
<1>2. /\ UNCHANGED <<version, hw_type, failures>> /\ losses' = losses + 1
      /\ place' = "detect" /\ step' = 1 /\ lock_i' = 0 /\ boot_reason' = 0
      /\ charge_voltage_limit' = 0 /\ showing' = FALSE /\ felt' = Nothing
      /\ seen' = [soc |-> 0, ac |-> FALSE, v |-> 0]
      /\ gauge' \in {gauge, FreshGauge, [gauge EXCEPT !.removed = TRUE]}
      /\ charger' \in {charger, [charger EXCEPT !.vindpm = 0, !.input = 1]}
  BY DEF StartAgain, console
<1>3. gauge \in Gauge /\ charger \in Charger /\ failures \in Nat /\ losses \in Nat
  BY <1>1 DEF BatteryTypeOK
<1>4. FreshGauge \in Gauge /\ FreshGauge.por = TRUE
  BY DEF FreshGauge, Gauge
<1>5. /\ gauge' \in Gauge
      /\ \/ gauge' = FreshGauge
         \/ /\ gauge'.por = gauge.por /\ gauge'.holds = gauge.holds
            /\ gauge'.model_unlocked = gauge.model_unlocked
            /\ gauge'.vfsoc_unlocked = gauge.vfsoc_unlocked
  BY <1>2, <1>3, <1>4 DEF Gauge
<1>6. charger' \in Charger
  <2> DEFINE cleared == [charger EXCEPT !.vindpm = 0]
  <2>1. cleared \in Charger
    BY <1>3 DEF Charger
  <2>2. [charger EXCEPT !.vindpm = 0, !.input = 1] = [cleared EXCEPT !.input = 1]
    OBVIOUS
  <2> HIDE DEF cleared
  <2>3. [cleared EXCEPT !.input = 1] \in Charger
    BY <2>1 DEF Charger
  <2> QED  BY <1>2, <1>3, <2>2, <2>3
<1>7. /\ Nothing \in [t : Int, v : Int]
      /\ [soc |-> 0, ac |-> FALSE, v |-> 0] \in [soc : Nat, ac : BOOLEAN, v : Int]
      /\ "detect" \in BatteryPlaces /\ 1 \in 1..LastStep
  BY DEF Nothing, BatteryPlaces, LastStep
<1>8. BatteryTypeOK'
  <2>1. /\ version' \in BatteryVersions /\ hw_type' \in HardwareTypes /\ place' \in BatteryPlaces
        /\ step' \in 1..LastStep /\ lock_i' \in 0..7 /\ boot_reason' \in 0..4
        /\ charge_voltage_limit' \in Int /\ failures' \in Nat /\ losses' \in Nat
    BY <1>1, <1>2, <1>3, <1>7 DEF BatteryTypeOK
  <2>2. showing' \in BOOLEAN
    BY <1>2
  <2>3. felt' \in [t : Int, v : Int] /\ seen' \in [soc : Nat, ac : BOOLEAN, v : Int]
    BY <1>2, <1>7
  <2> QED  BY <1>5, <1>6, <2>1, <2>2, <2>3 DEF BatteryTypeOK
<1>9. GaugeProgress'
  <2>1. CASE gauge' = FreshGauge
    BY <1>2, <1>4, <2>1 DEF GaugeProgress
  <2>2. CASE gauge' # FreshGauge
    <3>1. failures' \in Nat /\ failures' >= failures /\ place' # "gauge"
      BY <1>2, <1>3
    <3> QED  BY <1>5, <2>2, <3>1, GaugeKept
  <2> QED  BY <2>1, <2>2
<1>10. BatteryInPlace' /\ ChargerSafe' /\ StartsCharged' /\ GaugeStaysOn'
  BY <1>2 DEF BatteryInPlace, ChargerSafe, StartsCharged, GaugeStaysOn
<1> QED  BY <1>8, <1>9, <1>10 DEF BatteryInv

(* Every step keeps the invariant.                                         *)
LEMMA BatteryNextInv ==
    ASSUME BatteryInv, [BatteryNext]_batteryVars PROVE BatteryInv'
<1>1. CASE UNCHANGED batteryVars
  <2>1. UNCHANGED <<version, hw_type, gauge, charger, place, step, lock_i, boot_reason,
                    charge_voltage_limit, showing, felt, seen, failures, losses>>
    BY <1>1 DEF batteryVars
  <2>2. parameters' = parameters
    BY <2>1 DEF parameters
  <2>3. BatteryTypeOK' /\ BatteryInPlace' /\ StartsCharged' /\ GaugeStaysOn'
    BY <2>1 DEF BatteryInv, BatteryTypeOK, BatteryInPlace, StartsCharged, GaugeStaysOn
  <2>4. ChargerSafe'
    BY <2>1, <2>2 DEF BatteryInv, ChargerSafe
  <2>5. GaugeProgress'
    BY <2>1 DEF BatteryInv, GaugeProgress
  <2> QED  BY <2>3, <2>4, <2>5 DEF BatteryInv
<1> QED  BY <1>1, DetectBootReasonInv, SkipConfigurationInv, ConfigureInv, SetModelTableInv,
            AfterPorInv, LockModelTableInv, CheckRemovedInv, InitializeChargerInv, UpdateChargerInv,
            StartLoopInv, CheckBatteryInv, ShutdownSystemInv, StartAgainInv DEF BatteryNext

(* The invariant implies the property: the steps done before the power-on  *)
(* bit is cleared are all the registers it names.                          *)
LEMMA GaugeIsConfigured == ASSUME BatteryInv PROVE GaugeConfigured
<1>1. SUFFICES ASSUME ~gauge.por PROVE GaugeConfigured
  BY DEF GaugeConfigured
<1>2. /\ \A i \in 1..(ClearPor - 1) : i \notin Unregistered => GaugeProgram[i].reg \in gauge.holds
      /\ gauge.model_unlocked => failures > 0
      /\ ~gauge.vfsoc_unlocked
  BY <1>1 DEF BatteryInv, GaugeProgress, StepsDone, ClearPor, LockModel, LockVfsoc
<1>3. DOMAIN GaugeProgram = 1..LastStep
  <2>1. GaugeProgram \in Seq(GaugeStep) /\ Len(GaugeProgram) = LastStep
    BY GaugeProgramSteps, Zenon
  <2> QED  BY <2>1
<1>4. /\ GaugeProgram[LockModel].reg = "ModelAccess" /\ GaugeProgram[UnlockVfsoc].reg = "SocVfAccess"
      /\ GaugeProgram[LockVfsoc].reg = "SocVfAccess" /\ GaugeProgram[ClearPor].reg = "Status"
      /\ GaugeProgram[LastStep].reg = "CGain"
  <2>1. GaugeProgram[LastStep] = Write("CGain") /\ Write("CGain").reg = "CGain"
    <3>1. GaugeProgram[LastStep] = Write("CGain")
      BY GaugeProgramSteps, Zenon
    <3>2. Write("CGain").reg = "CGain"
      BY DEF Write
    <3> QED  BY <3>1, <3>2
  <2>2. /\ GaugeProgram[LockModel].reg = "ModelAccess"
        /\ GaugeProgram[UnlockVfsoc].reg = "SocVfAccess"
        /\ GaugeProgram[LockVfsoc].reg = "SocVfAccess" /\ GaugeProgram[ClearPor].reg = "Status"
    <3>1. \A x, o, r : x = [op |-> o, reg |-> r] => x.reg = r
      OBVIOUS
    <3>2. GaugeProgram[LockModel].reg = "ModelAccess"
      <4>1. GaugeProgram[LockModel] = [op |-> "lock model table", reg |-> "ModelAccess"]
        BY GaugeProgramSteps, Zenon
      <4> QED  BY <3>1, <4>1, Zenon
    <3>3. GaugeProgram[UnlockVfsoc].reg = "SocVfAccess"
      <4>1. GaugeProgram[UnlockVfsoc] = [op |-> "unlock VFSOC", reg |-> "SocVfAccess"]
        BY GaugeProgramSteps, Zenon
      <4> QED  BY <3>1, <4>1, Zenon
    <3>4. GaugeProgram[LockVfsoc].reg = "SocVfAccess"
      <4>1. GaugeProgram[LockVfsoc] = [op |-> "lock VFSOC", reg |-> "SocVfAccess"]
        BY GaugeProgramSteps, Zenon
      <4> QED  BY <3>1, <4>1, Zenon
    <3>5. GaugeProgram[ClearPor].reg = "Status"
      <4>1. GaugeProgram[ClearPor] = [op |-> "clear POR", reg |-> "Status"]
        BY GaugeProgramSteps, Zenon
      <4> QED  BY <3>1, <4>1, Zenon
    <3> QED  BY <3>2, <3>3, <3>4, <3>5
  <2> QED  BY <2>1, <2>2
<1>5. ASSUME NEW i \in 1..LastStep,
             GaugeProgram[i].reg \notin {"ModelAccess", "SocVfAccess", "Status", "CGain"}
      PROVE  GaugeProgram[i].reg \in gauge.holds
  <2>1. i \notin Unregistered /\ i # LastStep
    BY <1>4, <1>5 DEF Unregistered
  <2>2. i \in 1..(ClearPor - 1)
    BY <2>1 DEF Unregistered, ClearPor, LastStep
  <2> QED  BY <1>2, <2>1, <2>2
<1> QED  BY <1>2, <1>3, <1>5 DEF GaugeConfigured

(* Whatever transfers fail and wherever the power is lost: a gauge that    *)
(* passes for configured holds its parameters, the charger is set for what *)
(* was measured, the console only starts on a battery that carries it, and *)
(* a shutdown on the adapter leaves the gauge on (boot_main.cpp).          *)
THEOREM BatteryIsHandled == BatterySpec => []BatteryHandled
<1>1. BatteryInit => BatteryInv
  BY BatteryInitInv
<1>2. BatteryInv /\ [BatteryNext]_batteryVars => BatteryInv'
  BY BatteryNextInv
<1>3. BatteryInv => BatteryHandled
  BY GaugeIsConfigured DEF BatteryInv, BatteryHandled
<1> QED  BY <1>1, <1>2, <1>3, PTL DEF BatterySpec

(* The types of the gauge, the charger and where boot is.                  *)
THEOREM BatteryTypesCorrect == BatterySpec => []BatteryTypeOK
<1>1. BatteryInit => BatteryInv
  BY BatteryInitInv
<1>2. BatteryInv /\ [BatteryNext]_batteryVars => BatteryInv'
  BY BatteryNextInv
<1>3. BatteryInv => BatteryTypeOK
  BY DEF BatteryInv
<1> QED  BY <1>1, <1>2, <1>3, PTL DEF BatterySpec
=============================================================================
