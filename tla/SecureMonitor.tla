--------------------------- MODULE SecureMonitor ---------------------------
(***************************************************************************)
(* The user SMCs of exosphere (smc_api.c, smc_user.c) and spl, which calls *)
(* them.  The Security Engine works for one caller at a time, which holds  *)
(* the lock g_is_user_smc_in_progress: an asynchronous SMC returns with    *)
(* the lock held, the engine's interrupt (a FIQ on core 3) finishes the    *)
(* operation and interrupts spl, and spl's smcCheckStatus or smcGetResult, *)
(* with the key it was given, releases the lock.  The kernel, on the other *)
(* cores, tries the same lock for its random bytes and to suspend.         *)
(*                                                                         *)
(* An SMC or a FIQ on core 3 is one step: interrupts are masked in the     *)
(* monitor, and spl, which has one thread, is the only caller there.       *)
(***************************************************************************)
EXTENDS Integers

CONSTANTS
    MaxOps,         \* bound: asynchronous operations that spl starts
    Exponents,      \* the imported RSA exponents of SecureExpMod
    WithModulus,    \* those that are imported together with their modulus
    Firmware1000,   \* target firmware 10.0.0 or later: moduli are verified
    OutSizes        \* the sizes spl's clients ask of a result

ASSUME MonitorAssumption ==
    /\ MaxOps \in Nat
    /\ WithModulus \subseteq Exponents
    /\ Firmware1000 \in BOOLEAN
    /\ OutSizes \subseteq {"right", "other", "too_large"}

VARIABLES
    user_smc_in_progress,   \* the lock
    callback_key,           \* g_smc_callback_key: 0, or the operation it is of
    se_callback,            \* g_se_callback: what the engine's interrupt will do
    crypt_aes_done, exp_mod_result,
    keypairs,               \* imported keys: verified, and does the modulus fit?
    test_in_progress,       \* g_test_exp_mod_in_progress
    se_output,              \* history: the operation the engine's result is of
    operation,              \* what spl waits for
    se_event,               \* spl's interrupt event
    kernel,                 \* what the kernel does in the monitor
    ops                     \* operations started so far

seVars == <<se_callback, crypt_aes_done, exp_mod_result, keypairs, test_in_progress, se_output>>
vars == <<user_smc_in_progress, callback_key, seVars, operation, se_event, kernel, ops>>

NoOperation == [kind |-> "none"]

(* The asynchronous requests of spl: SecureExpMod names an exponent and    *)
(* brings a modulus, which fits the exponent or does not.  The size of an  *)
(* RSA result is the client's: the right one, another, or too large to     *)
(* copy out of the monitor.                                                *)
Requests ==
    [kind : {"crypt_aes", "unwrap_titlekey"}]
    \cup [kind : {"exp_mod"}, size : OutSizes]
    \cup [kind : {"secure_exp_mod"}, size : OutSizes, exponent : Exponents, fits : BOOLEAN]

Init ==
    /\ user_smc_in_progress = FALSE
    /\ callback_key = 0
    /\ se_callback = "none"
    /\ crypt_aes_done = FALSE /\ exp_mod_result = 0
    /\ keypairs = [e \in Exponents |-> [verified |-> FALSE, fits |-> FALSE]]
    /\ test_in_progress = FALSE
    /\ se_output = 0
    /\ operation = NoOperation
    /\ se_event = FALSE
    /\ kernel = "idle"
    /\ ops = 0

(* Mutant: the lock is taken whoever holds it.                             *)
AcquireAnyway == user_smc_in_progress' = TRUE

Acquire == ~user_smc_in_progress /\ user_smc_in_progress' = TRUE
Release == user_smc_in_progress' = FALSE

---------------------------------------------------------------------------
(* Starting an asynchronous operation.                                     *)

user_crypt_aes ==
    /\ crypt_aes_done' = FALSE
    /\ se_callback' = "crypt_aes_done"
    /\ UNCHANGED <<exp_mod_result, keypairs, test_in_progress>>

(* Mutant: the result of the last operation is left.                       *)
StartWithOldResult(callback) ==
    /\ se_callback' = callback
    /\ UNCHANGED <<exp_mod_result, crypt_aes_done>>

(* An RSA operation starts with the result "in progress".                  *)
StartExpMod(callback) ==
    /\ exp_mod_result' = 3
    /\ se_callback' = callback
    /\ UNCHANGED crypt_aes_done

user_exp_mod ==
    StartExpMod("exp_mod_done") /\ UNCHANGED <<keypairs, test_in_progress>>

user_unwrap_rsa_oaep_wrapped_titlekey ==
    StartExpMod("exp_mod_done") /\ UNCHANGED <<keypairs, test_in_progress>>

(* From 10.0.0 on SecureExpMod only uses an imported key whose modulus was *)
(* verified.                                                               *)
MustTest(request) == Firmware1000 /\ ~keypairs[request.exponent].verified

user_secure_exp_mod(request) ==
    IF MustTest(request)
    THEN /\ StartExpMod("test_exp_mod_done")
         /\ test_in_progress' = TRUE
         /\ keypairs' = [keypairs EXCEPT ![request.exponent].fits = request.fits]
    ELSE StartExpMod("exp_mod_done") /\ UNCHANGED <<keypairs, test_in_progress>>

(* The handler of the request, when it finds its arguments valid.          *)
StartEngine(request) ==
    CASE request.kind = "crypt_aes" -> user_crypt_aes
      [] request.kind = "exp_mod" -> user_exp_mod
      [] request.kind = "unwrap_titlekey" -> user_unwrap_rsa_oaep_wrapped_titlekey
      [] request.kind = "secure_exp_mod" -> user_secure_exp_mod(request)

(* smc_wrapper_async: the lock stays taken.  (A request the lock refuses,  *)
(* or whose arguments the handler refuses, changes nothing.)               *)
SmcAsync(request) ==
    /\ operation = NoOperation /\ kernel # "asleep"
    /\ ops < MaxOps
    /\ Acquire
    /\ callback_key = 0
    /\ StartEngine(request)
    /\ ops' = ops + 1
    /\ callback_key' = ops + 1
    /\ operation' = request
    /\ UNCHANGED <<se_output, se_event, kernel>>

(* Mutant: the key stays verified.                                         *)
ImportedKeepingVerified(e) == [keypairs[e] EXCEPT !.fits = Firmware1000 /\ e \in WithModulus]

(* A synchronous SMC that imports an RSA key: import_rsa_exponent, which   *)
(* zeroes the modulus, and from 10.0.0 on import_rsa_modulus for some.     *)
Imported(e) ==
    LET whole == Firmware1000 /\ e \in WithModulus
    IN  [verified |-> whole, fits |-> whole]

ImportKey(e) ==
    /\ operation = NoOperation /\ kernel # "asleep"
    /\ ~user_smc_in_progress        \* taken and released in the same step
    /\ keypairs' = [keypairs EXCEPT ![e] = Imported(e)]
    /\ UNCHANGED <<user_smc_in_progress, callback_key, se_callback, crypt_aes_done,
                   exp_mod_result, test_in_progress, se_output, operation, se_event, kernel, ops>>

---------------------------------------------------------------------------
(* The engine's interrupt: se_operation_completed.                         *)

Interrupts == se_event' = TRUE

CryptAesDone ==
    /\ se_callback = "crypt_aes_done"
    /\ se_callback' = "none"
    /\ crypt_aes_done' = TRUE
    /\ Interrupts
    /\ UNCHANGED <<user_smc_in_progress, callback_key, exp_mod_result, keypairs,
                   test_in_progress, se_output, operation, kernel, ops>>

ExpModDone ==
    /\ se_callback = "exp_mod_done"
    /\ se_callback' = "none"
    /\ exp_mod_result' = 0
    /\ se_output' = ops
    /\ Interrupts
    /\ UNCHANGED <<user_smc_in_progress, callback_key, crypt_aes_done, keypairs,
                   test_in_progress, operation, kernel, ops>>

(* test_exp_mod_done_handler, first: the public exponentiation of the test *)
(* vector is followed by the private one.                                  *)
TestPublicDone ==
    /\ se_callback = "test_exp_mod_done" /\ test_in_progress
    /\ test_in_progress' = FALSE
    /\ UNCHANGED <<user_smc_in_progress, callback_key, se_callback, crypt_aes_done,
                   exp_mod_result, keypairs, se_output, operation, se_event, kernel, ops>>

(* Mutant: the failure of the test is not signalled.                       *)
FailTestSilently == exp_mod_result' = 2 /\ UNCHANGED se_event

(* Mutant: the failure has a code of its own.                              *)
FailTestOtherwise == exp_mod_result' = 1 /\ Interrupts

FailTest == exp_mod_result' = 2 /\ Interrupts

(* Then: if the test vector came back the key is verified, and used.       *)
TestPrivateDone ==
    /\ se_callback = "test_exp_mod_done" /\ ~test_in_progress
    /\ IF keypairs[operation.exponent].fits
       THEN /\ keypairs' = [keypairs EXCEPT ![operation.exponent].verified = TRUE]
            /\ se_callback' = "exp_mod_done"
            /\ UNCHANGED <<exp_mod_result, se_event>>
       ELSE /\ se_callback' = "none"
            /\ FailTest
            /\ UNCHANGED keypairs
    /\ UNCHANGED <<user_smc_in_progress, callback_key, crypt_aes_done, test_in_progress,
                   se_output, operation, kernel, ops>>

Engine == CryptAesDone \/ ExpModDone \/ TestPublicDone \/ TestPrivateDone

---------------------------------------------------------------------------
(* spl asks for the result once it was interrupted.                        *)

(* smc_crypt_aes_status_check                                              *)
AesReleases == crypt_aes_done

(* smc_exp_mod_get_result                                                  *)
ExpModReleases == exp_mod_result = 0 /\ operation.size = "right"

(* smc_unwrap_rsa_oaep_wrapped_titlekey_get_result, which is always asked  *)
(* for the size of a sealed key: also if the title key cannot be unwrapped.*)
UnwrapReleases == exp_mod_result = 0

(* The callbacks release the lock when the operation is done, but not when *)
(* it failed or its result is of another size.                             *)
CallbackReleases ==
    CASE operation.kind = "crypt_aes" -> AesReleases
      [] operation.kind = "unwrap_titlekey" -> UnwrapReleases
      [] OTHER -> ExpModReleases

(* WaitCheckStatus: smc_check_status.                                      *)
CheckStatus ==
    /\ callback_key' = 0
    /\ IF CallbackReleases THEN Release ELSE UNCHANGED user_smc_in_progress

(* WaitGetResult: smc_get_result, which refuses a size that is too large   *)
(* before it calls the callback.                                           *)
GetResult ==
    IF operation.kind # "unwrap_titlekey" /\ operation.size = "too_large"
    THEN UNCHANGED <<callback_key, user_smc_in_progress>>
    ELSE /\ callback_key' = 0
         /\ IF CallbackReleases THEN Release ELSE UNCHANGED user_smc_in_progress

Answer ==
    /\ operation # NoOperation /\ kernel # "asleep"
    /\ se_event
    /\ se_event' = FALSE
    /\ IF operation.kind = "crypt_aes" THEN CheckStatus ELSE GetResult
    /\ operation' = NoOperation
    /\ UNCHANGED <<seVars, kernel, ops>>

---------------------------------------------------------------------------
(* The kernel, on another core.                                            *)

(* smc_get_random_bytes_for_priv with the lock: it uses the engine.        *)
KernelRandom ==
    /\ kernel = "idle"
    /\ Acquire
    /\ kernel' = "random"
    /\ UNCHANGED <<callback_key, seVars, operation, se_event, ops>>

KernelRandomDone ==
    /\ kernel = "random"
    /\ Release
    /\ kernel' = "idle"
    /\ UNCHANGED <<callback_key, seVars, operation, se_event, ops>>

(* smc_cpu_suspend does not return, and warmboot_main releases the lock.   *)
CpuSuspend ==
    /\ kernel = "idle"
    /\ Acquire
    /\ kernel' = "asleep"
    /\ UNCHANGED <<callback_key, seVars, operation, se_event, ops>>

Warmboot ==
    /\ kernel = "asleep"
    /\ Release
    /\ kernel' = "idle"
    /\ UNCHANGED <<callback_key, seVars, operation, se_event, ops>>

---------------------------------------------------------------------------
Next ==
    \/ \E request \in Requests : SmcAsync(request)
    \/ \E e \in Exponents : ImportKey(e)
    \/ Engine \/ Answer
    \/ KernelRandom \/ KernelRandomDone \/ CpuSuspend \/ Warmboot

Spec == Init /\ [][Next]_vars

(* The engine finishes, spl's thread runs, and the kernel's SMCs return.   *)
FairSpec ==
    Spec /\ WF_vars(Engine) /\ WF_vars(Answer) /\ WF_vars(KernelRandomDone)
         /\ WF_vars(Warmboot)

---------------------------------------------------------------------------
(* Properties.                                                             *)

Keypair == [verified : BOOLEAN, fits : BOOLEAN]

(* The globals of smc_api.c and smc_user.c keep their types: results are   *)
(* those the callbacks write, and a key is that of an operation made.      *)
TypeOK ==
    /\ user_smc_in_progress \in BOOLEAN
    /\ ops \in 0..MaxOps /\ callback_key \in 0..ops /\ se_output \in 0..ops
    /\ se_callback \in {"none", "crypt_aes_done", "exp_mod_done", "test_exp_mod_done"}
    /\ crypt_aes_done \in BOOLEAN /\ exp_mod_result \in {0, 2, 3}
    /\ keypairs \in [Exponents -> Keypair]
    /\ test_in_progress \in BOOLEAN
    /\ operation \in Requests \cup {NoOperation}
    /\ se_event \in BOOLEAN
    /\ kernel \in {"idle", "random", "asleep"}

(* The engine has one user: it never works for spl while the kernel uses   *)
(* it or the system sleeps.  When the lock is free, nobody uses it and no  *)
(* status is left to check: the branch of smc_wrapper_async that answers   *)
(* "smcCheckStatus needs to be called" is never taken.                     *)
SeExclusive ==
    /\ se_callback # "none" => operation # NoOperation
    /\ operation # NoOperation => callback_key # 0
    /\ callback_key # 0 => user_smc_in_progress /\ kernel = "idle"
    /\ kernel # "idle" => user_smc_in_progress

(* A caller that asks for a result and is told that there is one gets that *)
(* of its own operation, whatever ran before: the engine is done with it,  *)
(* and its output is that operation's.                                     *)
ResultReady ==
    operation # NoOperation =>
        /\ operation.kind = "crypt_aes" /\ crypt_aes_done => se_callback = "none"
        /\ operation.kind # "crypt_aes" /\ exp_mod_result = 0 =>
               se_callback = "none" /\ se_output = callback_key

(* A keypair that counts as verified has a modulus that fits its exponent, *)
(* through imports, tests that fail and tests that succeed.                *)
VerifiedFits == \A e \in Exponents : keypairs[e].verified => keypairs[e].fits

(* A busy answer (3) means that there is a status to check: while the lock *)
(* is taken, and not by the kernel, the key of an operation is known.  It  *)
(* does not hold when smc_exp_mod_get_result answers that the operation    *)
(* failed, or refuses a size: the key is cleared and the lock stays taken. *)
BusyMeansCheckable == user_smc_in_progress /\ kernel = "idle" => callback_key # 0

(* spl never waits forever for the interrupt of an operation it started:   *)
(* one that succeeds, or whose modulus fails the test.                     *)
OpAnswered == operation # NoOperation ~> operation = NoOperation

=============================================================================
