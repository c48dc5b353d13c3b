------------------------------ MODULE SplRequests ------------------------------
(***************************************************************************)
(* What single requests of spl's clients are answered, whatever the engine *)
(* was used for before: keys generated, blobs of every size, random bytes, *)
(* and the buffers CryptAesCtr maps for the engine (spl_api_impl.cpp,      *)
(* spl_ctr_drbg.cpp).  Operators only; m is a monitor of UserSmcs.         *)
(***************************************************************************)
EXTENDS UserSmcs

SealedKey(m, use, key) ==
    Encrypted(AesDecrypt(m.engine.key[SESSIONKEY], SealSource(use)), key)
Kek       == <<"kek", "of a client">>
KeySource == Source("client", 0)

(* The device key of a revision, as the keys in the console's fuses and    *)
(* boot loader give it.                                                    *)
DeviceKeyOf(m, rev) ==
    IF m.fw < 400 \/ (m.fw >= 500 /\ rev < REVISION_400) \/ (m.fw = 400 /\ rev = 0)
    THEN OldDeviceKey
    ELSE NewDeviceKey(IF m.fw = 400 THEN m.keys.rev ELSE rev)

(* Keks: of the revision asked, sealed for the use asked and no other; the *)
(* slots of clients and of the monitor stay as they are.                   *)
KekRight(m, generation, options) ==
    LET rev  == Revision(generation)
        use  == Use(m.fw, options)
        kek  == user_generate_aes_kek(m, KeySource, generation, options)
        root == IF IsPersonalized(options) THEN DeviceKeyOf(m, rev) ELSE MasterKey(rev)
        key  == AesDecrypt(AesDecrypt(root, KekSource(use, MaskId(options))), KeySource)
        loaded == user_load_aes_key(kek.monitor, 0, kek.value, KeySource)
    IN  /\ kek.result # "panic"
        /\ \A slot \in AesSlots \ {TEMPKEY} :
              kek.monitor.engine.key[slot] = m.engine.key[slot]
        /\ kek.result = "success" =>
              /\ kek.value = SealedKey(m, use, key)
              /\ (loaded.monitor.engine.key[0] = AesDecrypt(key, KeySource))
                    <=> (use = CRYPTOUSECASE_AES)

(* Keys of a revision past the console's are refused; from 5.0.0 on their  *)
(* device keys make exosphere panic instead.                               *)
SpecificRight(m, generation, which) ==
    LET rev == IF m.fw < 400 THEN 0 ELSE Revision(generation)
        key == user_generate_specific_aes_key(m, KeySource, generation, which)
        of  == DeviceKeyOf(m, rev)
    IN  /\ key.result = "panic" => m.fw >= 500 /\ rev > m.keys.rev
        /\ key.result = "success" =>
              key.value = IF m.retail THEN AesDecrypt(AesDecrypt(of, Source("specific", 0)), KeySource)
                          ELSE <<"ctr", of, Source("mask", which)>>

CommonTitleRight(m, generation) ==
    LET rev == TitleRevision(m.fw, generation)
        key == user_unwrap_aes_wrapped_titlekey(m, KeySource, generation)
        loaded == user_load_titlekey(key.monitor, 0, key.value)
    IN  /\ key.result = "panic" => rev > m.keys.rev
        /\ key.result = "success" =>
              loaded.monitor.engine.key[0] =
                  AesDecrypt(AesDecrypt(MasterKey(rev), TitlekekSource(0)), KeySource)

-----------------------------------------------------------------------------
(* Blobs.  spl bounds their sizes, and the monitor once more.              *)
ImportSecureExpModKeySize == 48 + 2 * 256 + 16
DecryptRsaPrivateKeySize  == 256 + 48
ReEncryptRsaPrivateKeySize == 48 + 2 * 256 + 16 + 4 * 16    \* with the keys behind it

(* What is decrypted: without what is before and behind it in the blob.    *)
PersonalizedKey(m, option) == m.fw >= 500 \/ option = 1
DecryptedSize(m, size, option) == size - (IF PersonalizedKey(m, option) THEN 48 ELSE 16)

(* Mutant: what is copied out is as long as the blob.                      *)
CopySizeOfBlob(dst, size) == IF dst <= size + 48 THEN dst ELSE size + 48

CopySize(dst, size) == IF dst <= size THEN dst ELSE size

DecryptRsaPrivateKey(m, dst, blob, sealed, option) ==
    LET smc == IF m.fw >= 500
               THEN user_decrypt_or_import_rsa_key(m, blob, sealed, KeySource, DECRYPT_PRIVATE)
               ELSE user_decrypt_rsa_private_key(m, blob, sealed, KeySource, option)
    IN  IF ~(48 <= blob.size /\ blob.size <= DecryptRsaPrivateKeySize)
        THEN [smc |-> Invalid(m), copied |-> 0]
        ELSE [smc |-> smc,
              copied |-> IF smc.result = "success"
                         THEN CopySize(dst, DecryptedSize(m, blob.size, option)) ELSE 0]

ReEncryptRsaPrivateKey(m, blob, use, sealed) ==
    IF ~(48 <= blob.size /\ blob.size <= ReEncryptRsaPrivateKeySize) THEN Invalid(m)
    ELSE user_encrypt_rsa_key_for_import(m, blob, SealedKey(m, CRYPTOUSECASE_RSAIMPORT, Kek),
                                         KeySource, sealed, KeySource, use)

BlobOf(size, device) ==
    [key |-> AesDecrypt(Kek, KeySource), size |-> size, device |-> device, data |-> <<"exponent", size>>]

(* An import, from 5.0.0 on, for a use.                                    *)
ImportSecureExpModKey(m, blob, sealed, use) ==
    IF blob.size > ImportSecureExpModKeySize THEN Invalid(m)
    ELSE user_decrypt_or_import_rsa_key(m, blob, sealed, KeySource, use)

(* No size panics, only what was decrypted is copied out, and another      *)
(* console's key is refused, as is one of none but by development units.   *)
PrivateKeysRight(m, size, dst, device, option) ==
    LET blob      == BlobOf(size, device)
        decrypted == DecryptRsaPrivateKey(m, dst, blob,
                         SealedKey(m, CRYPTOUSECASE_RSAPRIVATE, Kek), option)
    IN  /\ decrypted.smc.result # "panic"
        /\ decrypted.smc.result = "success" =>
              /\ IF PersonalizedKey(m, option) THEN device = ThisDevice ELSE ~m.retail
              /\ decrypted.smc.value = blob.data
              /\ decrypted.copied <= DecryptedSize(m, size, option)

(* A key put under another for a use, from 5.0.0 on, can be imported for it *)
(* whole, and for no other; all there is in an exponent was decrypted.     *)
ReEncryptedRight(m, size, use, as) ==
    LET sealed == SealedKey(m, g_rsausecase_to_cryptousecase[use], Kek)
        made   == ReEncryptRsaPrivateKey(m, BlobOf(size, ThisDevice), use, sealed)
        used   == IF as = DECRYPT_PRIVATE
                  THEN user_decrypt_or_import_rsa_key(made.monitor, made.value, sealed, KeySource, as)
                  ELSE ImportSecureExpModKey(made.monitor, made.value, sealed, as)
    IN  /\ made.result # "panic"
        /\ made.result = "success" =>
              /\ used.result # "panic"
              /\ (used.result = "success") => (use = as)
              /\ use = as => used.result = "success"
              /\ use = as /\ as # DECRYPT_PRIVATE =>
                    used.monitor.exponents[ExponentId(use)] = <<"exponent", size>>

(* Up to 4.x: exponents of development units may be without a device.      *)
LoadedRight(m, size, oaep, option, device) ==
    LET blob == BlobOf(size, device)
        loaded == IF oaep THEN user_load_rsa_oaep_key(m, blob,
                                   SealedKey(m, CRYPTOUSECASE_RSAOAEP, Kek), KeySource, option)
                  ELSE user_load_secure_exp_mod_key(m, blob,
                                   SealedKey(m, CRYPTOUSECASE_SECUREEXPMOD, Kek), KeySource, option)
    IN  /\ (loaded.result = "panic") <=> (m.fw >= 500)
        /\ loaded.result = "success" =>
              /\ m.retail => option = 1
              /\ option = 1 => device = ThisDevice
              /\ loaded.monitor.exponents[IF oaep THEN 0 ELSE 1] = blob.data

-----------------------------------------------------------------------------
(* The random generator: d counts requests since it was seeded.            *)
MaxRequestSize == 65536
ReseedInterval == 2147483632

(* CtrDrbg: refuses too large requests, and all from some number on.       *)
DrbgServes(d, size) == size <= MaxRequestSize /\ d.reseed_counter <= ReseedInterval
Generated(d, size) == [d EXCEPT !.reseed_counter = @ + 1]
Reseed(d)          == [d EXCEPT !.reseed_counter = 1, !.seeds = @ + 1]

(* After a reseed the answer of the second try is not looked at.           *)
GenerateRandomBytesInternal(d, size, seeded) ==
    IF DrbgServes(d, size) THEN [drbg |-> Generated(d, size), ok |-> TRUE, written |-> size]
    ELSE IF ~seeded THEN [drbg |-> d, ok |-> FALSE, written |-> 0]
    ELSE LET again == Reseed(d)
         IN  IF DrbgServes(again, size)
             THEN [drbg |-> Generated(again, size), ok |-> TRUE, written |-> size]
             ELSE [drbg |-> again, ok |-> TRUE, written |-> 0]

(* A chunk is asked for with the whole size.                               *)
GenerateRandomBytes(d, size, seeded) ==
    LET chunks == (size + MaxRequestSize - 1) \div MaxRequestSize
        after[n \in 0..chunks] ==
            IF n = 0 THEN [drbg |-> d, ok |-> TRUE, written |-> 0]
            ELSE IF ~after[n - 1].ok THEN after[n - 1]
            ELSE LET chunk == GenerateRandomBytesInternal(after[n - 1].drbg, size, seeded)
                 IN  [chunk EXCEPT !.written = IF @ > 0 THEN (n - 1) * MaxRequestSize + @
                                               ELSE after[n - 1].written]
    IN  after[chunks]

(* A request as large as a chunk is filled, or refused; no request is      *)
(* served by a generator that was used too often.  (A larger one succeeds  *)
(* and is not written at all.)                                             *)
RandomRight(d, size, seeded) ==
    LET made == GenerateRandomBytes(d, size, seeded)
    IN  /\ size <= MaxRequestSize /\ made.ok => made.written = size
        /\ ~made.ok => ~seeded
        /\ made.drbg.reseed_counter <= ReseedInterval + 1
        /\ made.ok /\ d.reseed_counter > ReseedInterval /\ size > 0 => made.drbg.seeds > d.seeds

-----------------------------------------------------------------------------
(* The engine's address space, in pages of 4 KiB: buffers of clients are   *)
(* mapped as they lie in 4 MiB.                                            *)
DeviceAddressSpaceAlign == 1024
WorkBufferMapBase  == 524288
CryptAesInMapBase  == 589824
CryptAesOutMapBase == 786432
CryptAesSizeMax    == CryptAesOutMapBase - CryptAesInMapBase

Pages(addr, size) == ((addr % 4096) + size + 4095) \div 4096

MapsFor(src, dst) ==
    [ok  |-> src.pages <= CryptAesSizeMax /\ dst.pages <= CryptAesSizeMax,
     in  |-> [first |-> CryptAesInMapBase + src.offset, pages |-> src.pages],
     out |-> [first |-> CryptAesOutMapBase + dst.offset, pages |-> dst.pages]]

Ends(map) == map.first + map.pages

(* Neither map meets the other or the work buffer's (which would abort     *)
(* spl), but for an input within 4 MiB of the largest; and the entries the *)
(* engine is given lie in them.                                            *)
MapsApart(src, dst) ==
    LET maps == MapsFor(src, dst)
    IN  maps.ok =>
            /\ WorkBufferMapBase + DeviceAddressSpaceAlign <= maps.in.first
            /\ src.pages <= CryptAesSizeMax - DeviceAddressSpaceAlign
                  => Ends(maps.in) <= maps.out.first
            /\ Ends(maps.out) <= 1048576

(* A buffer at addr of so many bytes lies in the pages mapped for it.      *)
PagesHold(addr, size) == (addr % 4096) + size <= 4096 * Pages(addr, size)
=============================================================================
