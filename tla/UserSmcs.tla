------------------------------- MODULE UserSmcs -------------------------------
(***************************************************************************)
(* What exosphere does for spl with the keys of the Security Engine        *)
(* (smc_user.c, sealedkeys.c, titlekey.c, gcm.c): each handler takes the   *)
(* monitor's state m to an answer, its state after it included.            *)
(*                                                                         *)
(* A monitor m has the engine, the keys kept in memory, the imported       *)
(* exponents, the title key being unwrapped, and the unit it runs on.      *)
(* Ciphers are symbolic, as in SecurityEngine; a wrapped RSA key (a blob)  *)
(* names the key and the device it is for, its size and what it holds.     *)
(***************************************************************************)
EXTENDS SecurityEngine

(* Uses a key is sealed for (sealedkeys.h).                                *)
CRYPTOUSECASE_AES        == 0
CRYPTOUSECASE_RSAPRIVATE == 1
CRYPTOUSECASE_SECUREEXPMOD == 2
CRYPTOUSECASE_RSAOAEP      == 3
CRYPTOUSECASE_RSAIMPORT == 4
CRYPTOUSECASE_UNK5      == 5
CRYPTOUSECASE_UNK6 == 6
CRYPTOUSECASE_MAX    == 4
CRYPTOUSECASE_MAX_5X == 7
REVISION_300 == 1

Answer(m, result, value) == [monitor |-> m, result |-> result, value |-> value]
Invalid(m)               == Answer(m, "invalid", Zero)
Panics(m)                == Answer(m, "panic", Zero)
Engine(m, e)             == [m EXCEPT !.engine = e]

is_user_keyslot_valid(fw, slot) == slot <= (IF fw >= 600 THEN 5 ELSE 3)

-----------------------------------------------------------------------------
(* Sealed keys: every use has a key of its own, of the session.            *)
usecase_is_invalid(fw, use) ==
    use >= (IF fw >= 500 THEN CRYPTOUSECASE_MAX_5X ELSE CRYPTOUSECASE_MAX)

SealSource(use) == Source("seal key", use)
TitlekeySealSource == Source("titlekey seal key", 0)

seal_key_internal(e, key, source) ==
    LET sealing == decrypt_data_into_keyslot(e, TEMPKEY, SESSIONKEY, source)
    IN  [engine |-> sealing, sealed |-> Encrypted(sealing.key[TEMPKEY], key)]

unseal_key_internal(e, slot, sealed, source) ==
    decrypt_data_into_keyslot(decrypt_data_into_keyslot(e, TEMPKEY, SESSIONKEY, source),
                              slot, TEMPKEY, sealed)

-----------------------------------------------------------------------------
(* Keys of the unit and its generation.                                    *)
(* The slot of the device key: from 5.0.0 on of the generation asked.      *)
UniqueKeyslot(m, rev) ==
    IF m.fw >= 500 THEN devkey_get_keyslot(m.engine, m.keys, rev)
    ELSE [engine |-> m.engine,
          slot   |-> IF m.fw = 400 /\ rev = 0 THEN OLDDEVICEKEY_4X ELSE DEVICEKEY]

(* Generations count from one, and zero is the first too.                  *)
Revision(generation) == IF generation > 0 THEN generation - 1 ELSE 0

MaskId(options)     == (options \div 2) % 4
Use(fw, options)    == (options \div 32) % (IF fw >= 500 THEN 8 ELSE 4)
IsPersonalized(options) == options % 2 = 1
KekSource(use, mask) == Source("kek source", 4 * use + mask)

KekAllowed(m, rev, options) ==
    LET use == Use(m.fw, options)
    IN  /\ options <= 255
        /\ rev < REVISION_MAX /\ rev <= m.keys.rev
        /\ m.fw >= 500 =>
              IF IsPersonalized(options)
              THEN ~(REVISION_300 <= rev /\ rev < REVISION_400) /\ use < CRYPTOUSECASE_MAX_5X
              ELSE use < CRYPTOUSECASE_UNK6
        /\ MaskId(options) = 2 => m.recovery
        /\ MaskId(options) = 1 => ~m.recovery

(* Mutant: a key of an older master key is decrypted in the newest's slot. *)
user_generate_aes_kek_newest(m, wrapped, generation, options) ==
    LET rev == Revision(generation)
        use == Use(m.fw, options)
        of  == IF IsPersonalized(options) THEN UniqueKeyslot(m, rev)
               ELSE [engine |-> m.engine, slot |-> MASTERKEY]
        kek == decrypt_data_into_keyslot(of.engine, TEMPKEY, of.slot,
                                         KekSource(use, MaskId(options)))
        sealed == seal_key_internal(kek, AesDecrypt(kek.key[TEMPKEY], wrapped), SealSource(use))
    IN  IF ~KekAllowed(m, rev, options) THEN Invalid(m)
        ELSE IF usecase_is_invalid(m.fw, use) THEN Panics(m)
        ELSE Answer(Engine(m, sealed.engine), "success", sealed.sealed)

user_generate_aes_kek(m, wrapped, generation, options) ==
    LET rev == Revision(generation)
        use == Use(m.fw, options)
        of  == IF IsPersonalized(options) THEN UniqueKeyslot(m, rev)
               ELSE mkey_get_keyslot(m.engine, m.keys, rev)
        kek == decrypt_data_into_keyslot(of.engine, TEMPKEY, of.slot,
                                         KekSource(use, MaskId(options)))
        sealed == seal_key_internal(kek, AesDecrypt(kek.key[TEMPKEY], wrapped), SealSource(use))
    IN  IF ~KekAllowed(m, rev, options) THEN Invalid(m)
        ELSE IF usecase_is_invalid(m.fw, use) THEN Panics(m)
        ELSE Answer(Engine(m, sealed.engine), "success", sealed.sealed)

user_load_aes_key(m, slot, sealed, wrapped) ==
    IF ~is_user_keyslot_valid(m.fw, slot) THEN Invalid(m)
    ELSE LET kek == unseal_key_internal(m.engine, TEMPKEY, sealed, SealSource(CRYPTOUSECASE_AES))
         IN  Answer(Engine(m, decrypt_data_into_keyslot(kek, slot, TEMPKEY, wrapped)),
                    "success", Zero)

(* Development units take a fixed source in counter mode.                  *)
user_generate_specific_aes_key(m, wrapped, generation, which) ==
    LET rev == IF m.fw < 400 THEN 0 ELSE Revision(generation)
        of  == UniqueKeyslot(m, rev)
        kek == decrypt_data_into_keyslot(of.engine, TEMPKEY, of.slot, Source("specific", 0))
    IN  IF rev >= REVISION_MAX \/ which > 1 THEN Invalid(m)
        ELSE IF m.fw >= 500 /\ rev > m.keys.rev THEN Panics(m)
        ELSE IF ~m.retail
        THEN Answer(Engine(m, of.engine), "success",
                    <<"ctr", of.engine.key[of.slot], Source("mask", which)>>)
        ELSE Answer(Engine(m, kek), "success", AesDecrypt(kek.key[TEMPKEY], wrapped))

user_compute_cmac(m, slot, data, size) ==
    IF ~is_user_keyslot_valid(m.fw, slot) \/ size > 1024 THEN Invalid(m)
    ELSE Answer(m, "success", <<"cmac", m.engine.key[slot], data>>)

-----------------------------------------------------------------------------
(* Title keys.                                                             *)
TitlekekSource(type) == Source("titlekek", type)

(* What both unwrapping calls note before they do; 3.0.0 brought revisions,*)
(* and 6.0.0 types, to the one that asks the RSA engine.                   *)
TitleRevision(fw, generation) == IF fw >= 300 THEN Revision(generation) ELSE 0

TitleAsked(m, generation, type) ==
    [rev |-> TitleRevision(m.fw, generation), type |-> IF m.fw >= 600 THEN type ELSE 0]

tkey_aes_unwrap(m, wrapped) ==
    LET of  == mkey_get_keyslot(m.engine, m.keys, m.title.rev)
        kek == decrypt_data_into_keyslot(of.engine, TEMPKEY, of.slot, TitlekekSource(m.title.type))
    IN  [engine |-> kek, titlekey |-> AesDecrypt(kek.key[TEMPKEY], wrapped)]

(* The title key, under the key the revision and the type name, is sealed  *)
(* for a slot only.                                                        *)
SealedTitlekey(m, wrapped) ==
    LET unwrapped == tkey_aes_unwrap(m, wrapped)
        sealed    == seal_key_internal(unwrapped.engine, unwrapped.titlekey, TitlekeySealSource)
    IN  IF m.title.rev > m.keys.rev THEN Panics(m)
        ELSE Answer(Engine(m, sealed.engine), "success", sealed.sealed)

user_unwrap_aes_wrapped_titlekey(m, wrapped, generation) ==
    IF TitleRevision(m.fw, generation) >= REVISION_MAX THEN Invalid(m)
    ELSE SealedTitlekey([m EXCEPT !.title = [TitleAsked(m, generation, 0) EXCEPT !.type = 0]],
                        wrapped)

user_load_titlekey(m, slot, sealed) ==
    IF ~is_user_keyslot_valid(m.fw, slot) THEN Invalid(m)
    ELSE Answer(Engine(m, unseal_key_internal(m.engine, slot, sealed, TitlekeySealSource)),
                "success", Zero)

-----------------------------------------------------------------------------
(* RSA keys.  The key a blob is under is a key unwrapped with a sealed one.*)
ThisDevice == "this device"

UnsealedForRsa(e, sealed, wrapped, use) ==
    decrypt_data_into_keyslot(unseal_key_internal(e, TEMPKEY, sealed, SealSource(use)),
                              TEMPKEY, TEMPKEY, wrapped)

(* Zero bytes came out of a blob whose code or device is wrong.  What is   *)
(* not personalized has neither.                                           *)
gcm_decrypt_key(m, blob, sealed, wrapped, use, personalized) ==
    LET e     == UnsealedForRsa(m.engine, sealed, wrapped, use)
        right == e.key[TEMPKEY] = blob.key
    IN  [panics |-> \/ usecase_is_invalid(m.fw, use)
                    \/ blob.size <= (IF personalized THEN 48 ELSE 16),
         engine |-> e,
         data   |-> IF right THEN blob.data ELSE <<"garbled">>,
         out_size |-> IF ~personalized THEN blob.size - 16
                      ELSE IF right /\ blob.device = ThisDevice THEN blob.size - 48 ELSE 0]

gcm_encrypt_key(e, data, size, sealed, wrapped, use) ==
    LET unsealed == UnsealedForRsa(e, sealed, wrapped, use)
    IN  [engine |-> Drawn(unsealed),
         blob   |-> [key |-> unsealed.key[TEMPKEY], size |-> size + 48,
                     device |-> ThisDevice, data |-> data]]

(* The 256 bytes of an exponent, if so many were decrypted.                *)
Exponent(decrypted) ==
    IF decrypted.out_size >= 256 THEN decrypted.data ELSE <<"cut", decrypted.data>>

(* Up to 4.x: an exponent is loaded for one of two uses.                   *)
LoadedExponent(m, blob, sealed, wrapped, use, personalized, id) ==
    LET decrypted == gcm_decrypt_key(m, blob, sealed, wrapped, use, personalized)
        after     == Engine(m, decrypted.engine)
    IN  IF decrypted.panics THEN Panics(m)
        ELSE IF decrypted.out_size < (IF id = 0 THEN 256 ELSE 1) THEN Invalid(after)
        ELSE Answer([after EXCEPT !.exponents[id] = Exponent(decrypted)], "success", Zero)

(* A size for personalized keys, and one for those of development units.   *)
LoadSizeRight(m, blob, personalized, sizes) ==
    IF personalized THEN blob.size = sizes[1] ELSE blob.size = sizes[2] /\ ~m.retail

user_load_rsa_oaep_key(m, blob, sealed, wrapped, option) ==
    IF m.fw >= 500 THEN Panics(m)
    ELSE IF option > 1 \/ ~LoadSizeRight(m, blob, option = 1, <<576, 544>>) THEN Invalid(m)
    ELSE LoadedExponent(m, blob, sealed, wrapped, CRYPTOUSECASE_RSAOAEP, option = 1, 0)

user_load_secure_exp_mod_key(m, blob, sealed, wrapped, option) ==
    IF m.fw >= 500 THEN Panics(m)
    ELSE IF option > 1 \/ ~LoadSizeRight(m, blob, option = 1, <<304, 272>>) THEN Invalid(m)
    ELSE LoadedExponent(m, blob, sealed, wrapped, CRYPTOUSECASE_SECUREEXPMOD, option = 1, 1)

user_decrypt_rsa_private_key(m, blob, sealed, wrapped, option) ==
    LET decrypted == gcm_decrypt_key(m, blob, sealed, wrapped, CRYPTOUSECASE_RSAPRIVATE, option = 1)
    IN  IF m.fw >= 500 THEN Panics(m)
        ELSE IF \/ option > 1 \/ blob.size > 576
                \/ option = 1 /\ blob.size < 49
                \/ option = 0 /\ (blob.size < 17 \/ m.retail)
        THEN Invalid(m)
        ELSE IF decrypted.panics THEN Panics(m)
        ELSE IF decrypted.out_size = 0 THEN Invalid(Engine(m, decrypted.engine))
        ELSE Answer(Engine(m, decrypted.engine), "success", decrypted.data)

(* From 5.0.0 on.  The five uses, and what keys of each are sealed for.    *)
DECRYPT_PRIVATE == 0
IMPORT_LOTUS    == 1
IMPORT_ES       == 2
IMPORT_SSL      == 3
IMPORT_DRM      == 4

g_rsausecase_to_cryptousecase ==
    [use \in 0..4 |-> CASE use = DECRYPT_PRIVATE -> CRYPTOUSECASE_RSAPRIVATE
                        [] use = IMPORT_LOTUS -> CRYPTOUSECASE_SECUREEXPMOD
                        [] use = IMPORT_ES -> CRYPTOUSECASE_RSAOAEP
                        [] use = IMPORT_SSL -> CRYPTOUSECASE_UNK5
                        [] use = IMPORT_DRM -> CRYPTOUSECASE_UNK6]

RsaSizeRight(use, size) == size >= (IF use = DECRYPT_PRIVATE THEN 49 ELSE 304) /\ size <= 576

(* Mutant: the exponents of SSL and DRM are swapped.                       *)
ExponentIdSwapped(use) == CASE use = IMPORT_LOTUS -> 1 [] use = IMPORT_ES -> 0
                            [] use = IMPORT_SSL -> 3 [] use = IMPORT_DRM -> 2

ExponentId(use) == CASE use = IMPORT_LOTUS -> 1 [] use = IMPORT_ES -> 0
                     [] use = IMPORT_SSL -> 2 [] use = IMPORT_DRM -> 3

user_decrypt_or_import_rsa_key(m, blob, sealed, wrapped, option) ==
    LET use == option % 8
        decrypted == gcm_decrypt_key(m, blob, sealed, wrapped,
                                     g_rsausecase_to_cryptousecase[use], TRUE)
        after     == Engine(m, decrypted.engine)
    IN  IF m.fw < 500 THEN Panics(m)
        ELSE IF use > 4 \/ ~RsaSizeRight(use, blob.size) THEN Invalid(m)
        ELSE IF decrypted.panics THEN Panics(m)
        ELSE IF decrypted.out_size = 0 THEN Invalid(after)
        ELSE IF use = DECRYPT_PRIVATE THEN Answer(after, "success", decrypted.data)
        ELSE Answer([after EXCEPT !.exponents[ExponentId(use)] = Exponent(decrypted)],
                    "success", Zero)

(* A key for import is put under the key of its use.                       *)
user_encrypt_rsa_key_for_import(m, blob, in_sealed, in_wrapped, out_sealed, out_wrapped, option) ==
    LET use == option % 8
        decrypted == gcm_decrypt_key(m, blob, in_sealed, in_wrapped, CRYPTOUSECASE_RSAIMPORT, TRUE)
        encrypted == gcm_encrypt_key(decrypted.engine, decrypted.data, blob.size - 48,
                                     out_sealed, out_wrapped, g_rsausecase_to_cryptousecase[use])
    IN  IF use > 4 \/ ~RsaSizeRight(use, blob.size) THEN Invalid(m)
        ELSE IF decrypted.panics THEN Panics(m)
        ELSE IF decrypted.out_size = 0 THEN Invalid(Engine(m, decrypted.engine))
        ELSE Answer(Engine(m, encrypted.engine), "success", encrypted.blob)

-----------------------------------------------------------------------------
(* Exponentiations: the exponent each is done with.                        *)
SecureExponentId(fw, mode) == IF fw < 500 THEN 1 ELSE mode + 1

(* The test of a modulus that was not verified (10.0.0) keeps the input in *)
(* memory it shares with the title key's revision and type.                *)
user_secure_exp_mod(m, mode, verified) ==
    IF m.fw >= 500 /\ mode > 2 THEN Invalid(m)
    ELSE Answer(IF m.fw >= 1000 /\ ~verified
                THEN [m EXCEPT !.title = [rev |-> REVISION_MAX, type |-> 0]] ELSE m,
                "success", m.exponents[SecureExponentId(m.fw, mode)])

user_unwrap_rsa_oaep_wrapped_titlekey(m, generation, type) ==
    IF TitleRevision(m.fw, generation) >= REVISION_MAX THEN Invalid(m)
    ELSE Answer([m EXCEPT !.title = TitleAsked(m, generation, type)], "success", m.exponents[0])
=============================================================================
