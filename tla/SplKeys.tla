-------------------------------- MODULE SplKeys --------------------------------
(***************************************************************************)
(* spl: key slots, imported RSA keys and title keys of its clients, kept by *)
(* exosphere (src/spl/source).  spl has one thread, so a call of a client   *)
(* ends before the next begins; but each SMC it makes takes the monitor's   *)
(* lock, which the kernel also takes, and between two of them the console  *)
(* may sleep.  The machine of the slots and that of the secrets are        *)
(* explored each on its own.                                               *)
(***************************************************************************)
EXTENDS UserSmcs, FiniteSets

CONSTANTS
    MaxSplCalls,    \* bound: calls of clients
    MaxSplSleeps    \* bound: times the console sleeps

VARIABLES
    monitor,            \* exosphere, as in UserSmcs
    user_lock,          \* g_is_user_smc_in_progress: "free", or who has it
    keyslot_owners, keyslot_available,   \* spl's table and its event
    clients,            \* session -> "open", "waits" for a slot, "awake", "closed"
    call,               \* the call in progress, if it has more than one SMC
    in_slot,            \* history: slot -> whose key it has, and which
    uncleared,          \* history: slots freed while the lock was taken
    imports,            \* history: use -> the exponent its client imported last
    answer,             \* the last call and what it was answered
    spl_calls, spl_sleeps

slotVars == <<keyslot_owners, keyslot_available, clients, in_slot, uncleared>>
splVars  == <<monitor, user_lock, slotVars, call, imports, answer, spl_calls, spl_sleeps>>

NoCall   == [kind |-> "none"]
NoAnswer == [to |-> NoCall, result |-> "none", value |-> Zero]
Nobody   == "nobody"
Holder   == "a call's ScopedAesKeyslot"
Sessions == {"spl:mig", "spl:fs", "others"}
fw       == monitor.fw

MaxKeyslots == IF fw >= 600 THEN 6 ELSE 4
Keyslots    == 0..(MaxKeyslots - 1)

-----------------------------------------------------------------------------
(* The services.  Before 4.0.0 every session is one of "spl:".             *)
CryptoCommands == {"GenerateAesKek", "LoadAesKey", "GenerateAesKey", "CryptAesCtr", "ComputeCmac"}
                  \cup IF fw >= 200 THEN {"AllocateAesKeyslot", "FreeAesKeyslot"} ELSE {}
FsCommands == CryptoCommands \cup {"DecryptLotusMessage", "GenerateSpecificAesKey", "LoadTitleKey",
                                   "ImportLotusKey"}
EsCommands == CryptoCommands \cup {"DecryptRsaPrivateKey", "ImportEsKey", "UnwrapTitleKey",
                                   "UnwrapCommonTitleKey"}
              \cup (IF fw >= 500 THEN {"ImportDrmKey", "DrmExpMod"} ELSE {})
              \cup (IF fw >= 600 THEN {"UnwrapElicenseKey", "LoadElicenseKey"} ELSE {})
SslCommands == CryptoCommands \cup {"DecryptRsaPrivateKey"}
               \cup IF fw >= 500 THEN {"ImportSslKey", "SslExpMod"} ELSE {}
DeprecatedCommands ==
    CryptoCommands \cup {"DecryptLotusMessage", "GenerateSpecificAesKey", "LoadTitleKey",
                         "ImportLotusKey", "DecryptRsaPrivateKey", "ImportEsKey", "UnwrapTitleKey"}
    \cup IF fw >= 200 THEN {"UnwrapCommonTitleKey"} ELSE {}

Commands(s) == IF fw < 400 THEN DeprecatedCommands
               ELSE CASE s \in {"spl:fs", "others"} -> FsCommands
                      [] s = "spl:mig" -> CryptoCommands
                      [] s = "spl:es" -> EsCommands
                      [] s = "spl:ssl" -> SslCommands

Calls(s, command) ==
    /\ call = NoCall /\ spl_calls < MaxSplCalls
    /\ s \in Sessions => clients[s] \in {"open", "awake"}
    /\ command \in Commands(s)
    /\ spl_calls' = spl_calls + 1

-----------------------------------------------------------------------------
(* A console that has booted.                                              *)
Booted(unit, retail, recovery) ==
    LET se == setup_se(EngineAtReset(KeysAtReset(unit)), unit.fw)
    IN  [engine |-> ClearForUse(se.engine), keys |-> se.keys,
         exponents |-> [i \in 0..3 |-> <<"none">>], title |-> [rev |-> 0, type |-> 0],
         fw |-> unit.fw, retail |-> retail, recovery |-> recovery]

(* What spl's clients have: keys sealed for them by the monitor, each with  *)
(* what is sealed.                                                         *)
SealKey(m, use) == AesDecrypt(m.engine.key[SESSIONKEY], SealSource(use))
TitleSealKey(m) == AesDecrypt(m.engine.key[SESSIONKEY], TitlekeySealSource)
KekOf(s)       == <<"kek of", s>>
AccessKey(s)   == Encrypted(SealKey(monitor, CRYPTOUSECASE_AES), KekOf(s))
TitleKeyOf(s)  == <<"title key of", s>>
SealedTitle(s) == Encrypted(TitleSealKey(monitor), TitleKeyOf(s))
KeySource      == Source("client", 0)
GenerateAesKeySource == Source("generate_aes_key", 0)

(* An SMC: another's lock refuses it (3).                                  *)
Smc(handled) == IF user_lock = "free" THEN handled ELSE Answer(monitor, "busy", Zero)

-----------------------------------------------------------------------------
(* Slots.  The sessions of others own all but two, from the start.         *)
SplStarts ==
    /\ user_lock = "free"
    /\ keyslot_owners = [i \in 0..5 |-> IF 2 <= i /\ fw > 100 THEN "others" ELSE Nobody]
    /\ keyslot_available = TRUE
    /\ clients = [s \in Sessions |-> "open"]
    /\ call = NoCall
    /\ in_slot = [i \in 0..5 |-> [by |-> Nobody, key |-> Zero]]
    /\ uncleared = {}
    /\ imports = [use \in {"lotus", "es", "ssl", "drm"} |-> <<"none">>]
    /\ answer = NoAnswer
    /\ spl_sleeps = 0

SplInit == SplStarts /\ spl_calls = 0

(* Mutant: nobody's ownership is checked.                                  *)
ValidateAesKeyslotOfAnyone(slot, owner) == slot < MaxKeyslots

ValidateAesKeyslot(slot, owner) ==
    slot < MaxKeyslots /\ (keyslot_owners[slot] = owner \/ fw = 100)

FreeSlots == {i \in Keyslots : keyslot_owners[i] = Nobody}

(* With no slot left the event is cleared; clients then wait for it.       *)
AllocateAesKeyslot(s) ==
    /\ Calls(s, "AllocateAesKeyslot")
    /\ IF FreeSlots = {}
       THEN /\ keyslot_available' = FALSE /\ clients' = [clients EXCEPT ![s] = "waits"]
            /\ UNCHANGED keyslot_owners
       ELSE /\ clients' = [clients EXCEPT ![s] = "open"]
            /\ \E i \in FreeSlots : (\A j \in FreeSlots : i <= j)
                                    /\ keyslot_owners' = [keyslot_owners EXCEPT ![i] = s]
            /\ UNCHANGED keyslot_available
    /\ answer' = NoAnswer
    /\ UNCHANGED <<monitor, user_lock, in_slot, uncleared, call, imports, spl_sleeps>>

(* The event clears itself when it wakes a client.                         *)
KeyslotEventWakes(s) ==
    /\ clients[s] = "waits" /\ keyslot_available
    /\ clients' = [clients EXCEPT ![s] = "awake"] /\ keyslot_available' = FALSE
    /\ answer' = NoAnswer
    /\ UNCHANGED <<monitor, user_lock, keyslot_owners, in_slot, uncleared, call, imports, spl_calls, spl_sleeps>>

(* What SMCs leave in slots, and what they answer to whom.                 *)
Loads(loaded, slot, by, key) ==
    /\ monitor' = loaded.monitor
    /\ IF loaded.result = "success"
       THEN in_slot' = [in_slot EXCEPT ![slot] = [by |-> by, key |-> key]]
            /\ uncleared' = uncleared \ {slot}
       ELSE UNCHANGED <<in_slot, uncleared>>

LoadAesKey(s, slot) ==
    LET loaded == Smc(user_load_aes_key(monitor, slot, AccessKey(s), KeySource))
    IN  /\ Calls(s, "LoadAesKey") /\ ValidateAesKeyslot(slot, s)
        /\ Loads(loaded, slot, s, AesDecrypt(KekOf(s), KeySource))
        /\ answer' = NoAnswer
        /\ UNCHANGED <<user_lock, keyslot_owners, keyslot_available, clients, call, imports, spl_sleeps>>

LoadTitleKey(s, slot) ==
    LET loaded == Smc(user_load_titlekey(monitor, slot, SealedTitle(s)))
    IN  /\ Calls(s, "LoadTitleKey") /\ ValidateAesKeyslot(slot, s)
        /\ Loads(loaded, slot, s, TitleKeyOf(s))
        /\ answer' = NoAnswer
        /\ UNCHANGED <<user_lock, keyslot_owners, keyslot_available, clients, call, imports, spl_sleeps>>

(* A slot is given back; its key is cleared by loading the key that zeroes *)
(* unseal to, unless the lock refuses.                                     *)
ClearedBy(m, slot) == user_load_aes_key(m, slot, Zero, Zero)

Freed(slots) ==
    LET after[n \in Nat] ==
            IF n = 0 THEN monitor
            ELSE IF n - 1 \in slots THEN ClearedBy(after[n - 1], n - 1).monitor ELSE after[n - 1]
        cleared == after[MaxKeyslots]
    IN  /\ keyslot_owners' = [i \in 0..5 |-> IF i \in slots THEN Nobody ELSE keyslot_owners[i]]
        /\ keyslot_available' = (keyslot_available \/ slots # {})
        /\ IF user_lock = "free"
           THEN /\ monitor' = IF slots = {} THEN monitor ELSE cleared
                /\ in_slot' = [i \in 0..5 |->
                       IF i \in slots THEN [by |-> Nobody, key |-> cleared.engine.key[i]]
                       ELSE in_slot[i]]
                /\ uncleared' = uncleared \ slots
           ELSE UNCHANGED <<monitor, in_slot>> /\ uncleared' = uncleared \cup slots

FreeAesKeyslot(s, slot) ==
    /\ Calls(s, "FreeAesKeyslot") /\ ValidateAesKeyslot(slot, s)
    /\ IF fw = 100 THEN UNCHANGED <<keyslot_owners, keyslot_available, monitor, in_slot, uncleared>>
       ELSE Freed({slot})
    /\ answer' = NoAnswer /\ UNCHANGED <<user_lock, clients, call, imports, spl_sleeps>>

(* Mutant: the slots of a session that ends stay its own.                  *)
FreeAesKeyslotsNever(s) == {}

(* A session ends: services from 4.0.0 on free its slots.  A client that   *)
(* was woken takes a slot before it ends.                                  *)
FreeAesKeyslots(s) == IF fw >= 400 THEN {i \in Keyslots : keyslot_owners[i] = s} ELSE {}

CloseSession(s) ==
    /\ call = NoCall /\ clients[s] \in {"open", "waits"}
    /\ clients' = [clients EXCEPT ![s] = "closed"]
    /\ Freed(FreeAesKeyslots(s))
    /\ answer' = NoAnswer /\ UNCHANGED <<user_lock, call, imports, spl_calls, spl_sleeps>>

-----------------------------------------------------------------------------
(* Calls of two SMCs or more.  CryptAesCtr encrypts with a slot's key as it *)
(* is when the engine is started, and waits for its interrupt.             *)
CryptAesCtr(s, slot) ==
    /\ Calls(s, "CryptAesCtr") /\ ValidateAesKeyslot(slot, s)
    /\ IF user_lock = "free"
       THEN /\ user_lock' = "spl"
            /\ call' = [kind |-> "CryptAesCtr", by |-> s, slot |-> slot,
                        dirty |-> slot \in uncleared,
                        with |-> monitor.engine.key[slot]]
            /\ answer' = NoAnswer
       ELSE /\ answer' = [to |-> NoCall, result |-> "busy", value |-> Zero]
            /\ UNCHANGED <<user_lock, call>>
    /\ UNCHANGED <<monitor, slotVars, imports, spl_sleeps>>

CryptAesCtrDone ==
    /\ call.kind = "CryptAesCtr" /\ user_lock' = "free" /\ call' = NoCall
    /\ answer' = [to |-> call, result |-> "success", value |-> Zero]
    /\ UNCHANGED <<monitor, slotVars, imports, spl_calls, spl_sleeps>>

ComputeCmac(s, slot) ==
    LET computed == Smc(user_compute_cmac(monitor, slot, KeySource, 1024))
    IN  /\ Calls(s, "ComputeCmac") /\ ValidateAesKeyslot(slot, s)
        /\ monitor' = computed.monitor
        /\ answer' = [to |-> [kind |-> "ComputeCmac", by |-> s, slot |-> slot,
                              dirty |-> slot \in uncleared, with |-> monitor.engine.key[slot]],
                      result |-> computed.result, value |-> computed.value]
        /\ UNCHANGED <<user_lock, slotVars, call, imports, spl_sleeps>>

(* A key in a slot of the call's own, a block decrypted, the slot freed.   *)
GenerateAesKey(s) ==
    /\ Calls(s, "GenerateAesKey")
    /\ IF fw > 100 /\ FreeSlots = {}
       THEN /\ keyslot_available' = FALSE
            /\ answer' = [to |-> NoCall, result |-> "out of keyslots", value |-> Zero]
            /\ UNCHANGED <<monitor, call, keyslot_owners, in_slot, uncleared>>
       ELSE \E slot \in Keyslots :
              LET loaded == Smc(user_load_aes_key(monitor, slot, AccessKey(s),
                                                  GenerateAesKeySource))
              IN  /\ IF fw = 100 THEN slot = 0 /\ UNCHANGED keyslot_owners
                     ELSE /\ slot \in FreeSlots /\ \A j \in FreeSlots : slot <= j
                          /\ keyslot_owners' = [keyslot_owners EXCEPT ![slot] = Holder]
                  /\ Loads(loaded, slot, Holder, AesDecrypt(KekOf(s), GenerateAesKeySource))
                  /\ call' = [kind |-> "GenerateAesKey", by |-> s, slot |-> slot, wiped |-> FALSE,
                              at |-> IF loaded.result = "success" THEN "loaded" ELSE "ending",
                              with |-> Zero, result |-> loaded.result]
                  /\ answer' = NoAnswer /\ UNCHANGED keyslot_available
    /\ UNCHANGED <<user_lock, clients, imports, spl_sleeps>>

DecryptAesBlock ==
    /\ call.kind = "GenerateAesKey" /\ call.at = "loaded"
    /\ IF user_lock = "free"
       THEN /\ user_lock' = "spl"
            /\ call' = [call EXCEPT !.at = "crypting", !.with = monitor.engine.key[call.slot],
                                    !.wiped = in_slot[call.slot].by = "wiped"]
       ELSE call' = [call EXCEPT !.at = "ending", !.result = "busy"] /\ UNCHANGED user_lock
    /\ answer' = NoAnswer /\ UNCHANGED <<monitor, slotVars, imports, spl_calls, spl_sleeps>>

DecryptAesBlockDone ==
    /\ call.kind = "GenerateAesKey" /\ call.at = "crypting"
    /\ user_lock' = "free" /\ call' = [call EXCEPT !.at = "ending"]
    /\ answer' = NoAnswer /\ UNCHANGED <<monitor, slotVars, imports, spl_calls, spl_sleeps>>

ScopedAesKeyslotEnds ==
    /\ call.kind = "GenerateAesKey" /\ call.at = "ending"
    /\ call' = NoCall
    /\ answer' = [to |-> call, result |-> call.result, value |-> Decrypted(call.with, KeySource)]
    /\ IF fw = 100 THEN UNCHANGED <<keyslot_owners, keyslot_available, monitor, in_slot, uncleared>>
       ELSE Freed({call.slot})
    /\ UNCHANGED <<user_lock, clients, imports, spl_calls, spl_sleeps>>

(* The kernel draws random bytes, and puts the console to sleep when nobody *)
(* has the lock (SecureMonitor, SecureBoot); waking clears the slots.      *)
KernelTakes ==
    /\ user_lock = "free" /\ user_lock' = "kernel"
    /\ answer' = NoAnswer
    /\ UNCHANGED <<monitor, slotVars, call, imports, spl_calls, spl_sleeps>>

KernelReleases ==
    /\ user_lock = "kernel" /\ user_lock' = "free"
    /\ answer' = NoAnswer
    /\ UNCHANGED <<monitor, slotVars, call, imports, spl_calls, spl_sleeps>>

SleepAndWake ==
    /\ user_lock = "free" /\ spl_sleeps < MaxSplSleeps
    /\ spl_sleeps' = spl_sleeps + 1
    /\ monitor' = Engine(monitor, ClearForUse(monitor.engine))
    /\ in_slot' = [i \in 0..5 |-> [by |-> "wiped", key |-> Zero]]
    /\ uncleared' = {}
    /\ answer' = NoAnswer
    /\ UNCHANGED <<user_lock, keyslot_owners, keyslot_available, clients, call, imports, spl_calls>>

SlotsNext ==
    \/ \E s \in Sessions \ {"others"} :
          \/ AllocateAesKeyslot(s) \/ GenerateAesKey(s)
          \/ \E slot \in 0..1 : \/ LoadAesKey(s, slot) \/ LoadTitleKey(s, slot)
                                \/ FreeAesKeyslot(s, slot)
                                \/ CryptAesCtr(s, slot) \/ ComputeCmac(s, slot)
    \/ \E s \in Sessions : CloseSession(s) \/ KeyslotEventWakes(s)
    \/ CryptAesCtrDone \/ DecryptAesBlock \/ DecryptAesBlockDone \/ ScopedAesKeyslotEnds
    \/ KernelTakes \/ KernelReleases \/ SleepAndWake

-----------------------------------------------------------------------------
(* Imports: each use has its key and its exponent in the monitor.          *)
Blob(use, device, exponent) ==
    [key |-> AesDecrypt(KekOf(use), KeySource), size |-> 576, device |-> device,
     data |-> <<"exponent", use, exponent>>]

SealedFor(use) ==
    Encrypted(SealKey(monitor, CASE use = "lotus" -> CRYPTOUSECASE_SECUREEXPMOD
                                 [] use = "es" -> CRYPTOUSECASE_RSAOAEP
                                 [] use = "ssl" -> CRYPTOUSECASE_UNK5
                                 [] use = "drm" -> CRYPTOUSECASE_UNK6), KekOf(use))

(* The service of a use, its command, and the SMC spl makes of it.         *)
ImportCommand(use) == CASE use = "lotus" -> "ImportLotusKey" [] use = "es" -> "ImportEsKey"
                        [] use = "ssl" -> "ImportSslKey" [] use = "drm" -> "ImportDrmKey"

ImportSecureExpModKey(use, blob, sealed) ==
    IF blob.size > 48 + 2 * 256 + 16 THEN Invalid(monitor)
    ELSE IF fw >= 500
    THEN user_decrypt_or_import_rsa_key(monitor, blob, sealed, KeySource,
             CASE use = "lotus" -> IMPORT_LOTUS [] use = "es" -> IMPORT_ES
               [] use = "ssl" -> IMPORT_SSL [] use = "drm" -> IMPORT_DRM)
    ELSE IF use = "es" THEN user_load_rsa_oaep_key(monitor, blob, sealed, KeySource, 1)
    ELSE user_load_secure_exp_mod_key(monitor, blob, sealed, KeySource, 1)

(* A client may give the blob of another use, or another device's.         *)
ImportKey(s, use, under, device, exponent) ==
    LET blob == [Blob(under, device, exponent) EXCEPT
                     !.size = IF use = "lotus" /\ fw < 500 THEN 304 ELSE 576]
        imported == Smc(ImportSecureExpModKey(use, blob, SealedFor(under)))
    IN  /\ Calls(s, ImportCommand(use))
        /\ monitor' = imported.monitor
        /\ imports' = IF imported.result = "success"
                      THEN [imports EXCEPT ![use] = blob.data] ELSE imports
        /\ answer' = [to |-> [kind |-> "ImportKey", by |-> s,
                              right |-> device = ThisDevice /\ under = use],
                      result |-> imported.result, value |-> Zero]
        /\ UNCHANGED <<user_lock, slotVars, call, spl_sleeps>>

(* Exponentiations, and title keys unwrapped with one: the engine is left  *)
(* with the lock, and a result of a size that is not its own keeps it so.  *)
ExpModMode(command) == CASE command = "DecryptLotusMessage" -> 0 [] command = "SslExpMod" -> 1
                         [] command = "DrmExpMod" -> 2
ExpModUse(command) == CASE command = "DecryptLotusMessage" -> "lotus"
                        [] command = "SslExpMod" -> "ssl" [] command = "DrmExpMod" -> "drm"

Starts(started, next) ==
    IF started.result = "success"
    THEN /\ monitor' = started.monitor /\ user_lock' = "spl"
         /\ call' = next /\ answer' = NoAnswer
    ELSE /\ answer' = [to |-> NoCall, result |-> started.result, value |-> Zero]
         /\ UNCHANGED <<monitor, user_lock, call>>

(* The sizes of an SSL or DRM result are the client's.                     *)
SecureExpMod(s, command, size, verified) ==
    LET started == Smc(user_secure_exp_mod(monitor, ExpModMode(command), verified))
    IN  /\ Calls(s, command)
        /\ command = "DecryptLotusMessage" => size = 256
        /\ Starts(started, [kind |-> "SecureExpMod", by |-> s, use |-> ExpModUse(command),
                            size |-> size, with |-> started.value])
        /\ UNCHANGED <<slotVars, imports, spl_sleeps>>

SecureExpModDone ==
    /\ call.kind = "SecureExpMod"
    /\ user_lock' = IF call.size = 256 THEN "free" ELSE "spl"
    /\ call' = NoCall
    /\ answer' = [to |-> call, result |-> IF call.size = 256 THEN "success" ELSE "invalid",
                  value |-> call.with]
    /\ UNCHANGED <<monitor, slotVars, imports, spl_calls, spl_sleeps>>

UnwrapTitleKey(s, generation, command) ==
    LET type == IF command = "UnwrapElicenseKey" THEN 1 ELSE 0
        started == Smc(user_unwrap_rsa_oaep_wrapped_titlekey(monitor,
                           IF fw < 300 THEN 0 ELSE generation, type))
    IN  /\ Calls(s, command)
        /\ Starts(started, [kind |-> "UnwrapTitleKey", by |-> s, generation |-> generation,
                            type |-> type, with |-> started.value])
        /\ UNCHANGED <<slotVars, imports, spl_sleeps>>

(* What the exponentiation left is a wrapped key, or nothing like it.      *)
UnwrapTitleKeyDone(whole) ==
    LET sealed == SealedTitlekey(monitor, Source("title", 0))
    IN  /\ call.kind = "UnwrapTitleKey" /\ call' = NoCall
        /\ user_lock' = "free"
        /\ monitor' = IF whole THEN sealed.monitor ELSE monitor
        /\ answer' = IF whole THEN [to |-> call, result |-> sealed.result, value |-> sealed.value]
                     ELSE [to |-> call, result |-> "invalid", value |-> Zero]
        /\ UNCHANGED <<slotVars, imports, spl_calls, spl_sleeps>>

UnwrapCommonTitleKey(s, generation) ==
    LET unwrapped == Smc(user_unwrap_aes_wrapped_titlekey(monitor, Source("title", 0),
                             IF fw < 300 THEN 0 ELSE generation))
    IN  /\ Calls(s, "UnwrapCommonTitleKey")
        /\ monitor' = unwrapped.monitor
        /\ answer' = [to |-> [kind |-> "UnwrapTitleKey", by |-> s, generation |-> generation,
                              type |-> 0, with |-> Zero],
                      result |-> unwrapped.result, value |-> unwrapped.value]
        /\ UNCHANGED <<user_lock, slotVars, call, imports, spl_sleeps>>

SecretsNext ==
    \/ \E s \in {"spl:fs", "spl:es", "spl:ssl"} :
          \/ \E use \in DOMAIN imports, exponent \in 1..2 :
                \/ ImportKey(s, use, use, ThisDevice, exponent)
                \/ ImportKey(s, use, use, "another", exponent)
                \/ \E under \in DOMAIN imports \ {use} :
                      fw >= 500 /\ ImportKey(s, use, under, ThisDevice, exponent)
          \/ \E command \in {"DecryptLotusMessage", "SslExpMod", "DrmExpMod"}, size \in {256, 16},
                verified \in BOOLEAN : SecureExpMod(s, command, size, verified)
          \/ \E generation \in {0, 1, monitor.keys.rev + 1} :
                \/ UnwrapCommonTitleKey(s, generation)
                \/ \E command \in {"UnwrapTitleKey", "UnwrapElicenseKey"} :
                      UnwrapTitleKey(s, generation, command)
    \/ SecureExpModDone \/ \E whole \in BOOLEAN : UnwrapTitleKeyDone(whole)
    \/ KernelTakes \/ KernelReleases \/ SleepAndWake

-----------------------------------------------------------------------------
(* What spl promises its clients.                                          *)
(* A slot holds what was last loaded into it, or nothing after a sleep;    *)
(* and that is its owner's, were the slot cleared when it was freed.       *)
SlotsHold == \A i \in Keyslots : monitor.engine.key[i] = in_slot[i].key

SlotsOwn ==
    fw > 100 => \A i \in Keyslots \ uncleared :
                    in_slot[i].by \in {Nobody, "wiped", keyslot_owners[i]}

(* From 4.0.0 on no session that ended owns a slot.                        *)
SlotsReturned ==
    fw >= 400 => \A i \in Keyslots :
        keyslot_owners[i] \in Sessions => clients[keyslot_owners[i]] # "closed"

(* Nobody waits for a slot that is free unless somebody who was woken, or  *)
(* owns a slot, is to wake it.                                             *)
NoLostKeyslot ==
    (\E s \in Sessions : clients[s] = "waits") /\ FreeSlots # {} =>
        \/ keyslot_available
        \/ \E s \in Sessions : clients[s] = "awake"
        \/ \E i \in Keyslots : keyslot_owners[i] # Nobody

(* Clients get what their own keys give.                                   *)
KeyLoadedBy(s) == {AesDecrypt(KekOf(s), KeySource), TitleKeyOf(s)}
Answered(kind) == answer.to.kind = kind /\ answer.result = "success"

AnswersOwn ==
    /\ fw > 100 /\ (Answered("CryptAesCtr") \/ Answered("ComputeCmac"))
          /\ ~answer.to.dirty =>
          \A s \in Sessions \ {answer.to.by} : answer.to.with \notin KeyLoadedBy(s)
    /\ Answered("GenerateAesKey") /\ ~answer.to.wiped =>
          answer.value = AesDecrypt(AesDecrypt(KekOf(answer.to.by), GenerateAesKeySource),
                                    KeySource)

(* An exponentiation is done with what was last imported for its use.      *)
ExponentsOwn ==
    /\ \A use \in DOMAIN imports : imports[use] # <<"none">> => imports[use][2] = use
    /\ answer.to.kind = "ImportKey" => (answer.result = "success") <=>
                                          (answer.to.right /\ answer.result # "busy")
    /\ Answered("SecureExpMod") => answer.value = imports[answer.to.use]

(* A title key is sealed for slots, under the key asked for it.            *)
TitleKeysOwn ==
    Answered("UnwrapTitleKey") =>
        answer.value = Encrypted(TitleSealKey(monitor),
            AesDecrypt(AesDecrypt(MasterKey(TitleRevision(fw, answer.to.generation)),
                                  TitlekekSource(IF fw >= 600 THEN answer.to.type ELSE 0)),
                       Source("title", 0)))

SlotsGuarded   == SlotsHold /\ SlotsOwn /\ SlotsReturned /\ NoLostKeyslot /\ AnswersOwn
SecretsKept    == ExponentsOwn /\ TitleKeysOwn
=============================================================================
