---------------------------- MODULE SecurityEngine ----------------------------
(***************************************************************************)
(* The key table of the Security Engine and the keys exosphere derives in  *)
(* it (src/Common/exosphere/src/se.c, masterkey.c, package2.c).  Ciphers   *)
(* are symbolic: the decryption of a source with a key is the term of      *)
(* both.  A slot whose flags are all set takes no other key.               *)
(***************************************************************************)
EXTENDS Naturals, Sequences

LP0TZRAMKEY == 2
SRKGENKEY   == 8
PACKAGE2KEY == 8
TEMPKEY     == 9
SESSIONKEY == 10
RNGKEY     == 11
MASTERKEY  == 12
DEVICEKEY  == 13
NEWDEVICEKEYGENKEY_4X == 13
NEWDEVICEKEYGENKEY_5X == 10
OLDDEVICEKEY_4X == 15

AesSlots == 0..15
REVISION_MAX == 11
REVISION_400 == 3

Zero        == <<"zero">>
MasterKey(r) == <<"master key", r>>
Source(name, r) == <<"source", name, r>>
Random(n)   == <<"random", n>>
Decrypted(key, data) == <<"decrypted", key, data>>
Encrypted(key, data) == <<"encrypted", key, data>>

(* The vector of a revision is the master key before it under this one's   *)
(* (masterkey.c:51-63), and the first is zeroes.                           *)
AesDecrypt(key, data) ==
    IF /\ key[1] = "master key" /\ data[1] = "source"
       /\ data[2] = "mkey_vector" /\ data[3] = key[2]
    THEN IF key[2] = 0 THEN Zero ELSE MasterKey(key[2] - 1)
    ELSE IF data[1] = "encrypted" /\ data[2] = key THEN data[3]
    ELSE Decrypted(key, data)

-----------------------------------------------------------------------------
(* The engine: what its slots hold, which of them are closed to updates,   *)
(* the key of its saved context, and how many random blocks it has drawn.  *)
EngineAtReset(keys) ==
    [key |-> keys, closed |-> {}, srk |-> Zero, drawn |-> 0]

set_aes_keyslot(e, slot, key) ==
    IF slot \in e.closed THEN e ELSE [e EXCEPT !.key[slot] = key]

clear_aes_keyslot(e, slot) == set_aes_keyslot(e, slot, Zero)

clear_aes_keyslots(e, S) ==
    [e EXCEPT !.key = [s \in AesSlots |-> IF s \in S \ e.closed THEN Zero ELSE @[s]]]

set_aes_keyslot_flags(e, slot, flags) ==
    IF flags = 255 THEN [e EXCEPT !.closed = @ \cup {slot}] ELSE e

decrypt_data_into_keyslot(e, dst, src, data) ==
    set_aes_keyslot(e, dst, AesDecrypt(e.key[src], data))

Drawn(e) == [e EXCEPT !.drawn = @ + 1]

(* Two halves of the key are drawn.                                        *)
se_generate_random_key(e, slot) ==
    set_aes_keyslot(Drawn(e), slot, Random(e.drawn))

se_generate_srk(e) == [Drawn(e) EXCEPT !.srk = Random(e.drawn)]

(* What the engine writes to memory under the key it puts into the PMC.    *)
se_save_context(e) ==
    LET keyed == se_generate_srk(se_generate_random_key(e, SRKGENKEY))
        drawn == Drawn(keyed)
    IN  [engine |-> drawn,
         context |-> [under |-> drawn.srk, key |-> drawn.key, closed |-> drawn.closed]]

-----------------------------------------------------------------------------
(* The master keys before the one in the slot, were it of revision rev.    *)
MasterKeyChain(e, rev) ==
    LET chain[i \in 0..rev] ==
            IF i = rev THEN e.key[MASTERKEY]
            ELSE AesDecrypt(chain[i + 1], Source("mkey_vector", i + 1))
    IN  chain

check_mkey_revision(e, rev) ==
    AesDecrypt(MasterKeyChain(e, rev)[0], Source("mkey_vector", 0)) = Zero

(* Revisions are tried in order; every try leaves its oldest key behind.   *)
mkey_detect_revision(e) ==
    LET found == {r \in 0..(REVISION_MAX - 1) : check_mkey_revision(e, r)}
        rev   == CHOOSE r \in found : \A s \in found : r <= s
    IN  IF found = {} THEN [panics |-> TRUE, engine |-> e, rev |-> 0, old |-> <<>>]
        ELSE [panics |-> FALSE, rev |-> rev,
              engine |-> IF rev = 0 THEN e
                         ELSE set_aes_keyslot(e, TEMPKEY, MasterKeyChain(e, rev)[0]),
              old |-> [r \in 0..(rev - 1) |-> MasterKeyChain(e, rev)[r]]]

(* The master key of a revision is in its own slot or put into a spare one.*)
mkey_get_keyslot(e, keys, r) ==
    IF r = keys.rev THEN [engine |-> e, slot |-> MASTERKEY]
    ELSE [engine |-> set_aes_keyslot(e, TEMPKEY, keys.old[r]), slot |-> TEMPKEY]

devkey_get_keyslot(e, keys, r) ==
    IF r < REVISION_400 THEN [engine |-> e, slot |-> OLDDEVICEKEY_4X]
    ELSE IF r < keys.rev
         THEN [engine |-> set_aes_keyslot(e, TEMPKEY, keys.olddev[r]), slot |-> TEMPKEY]
         ELSE [engine |-> e, slot |-> DEVICEKEY]

(* One revision of the loop: the slot's own key is derived in place, before *)
(* 7.0.0; older ones are kept in memory; one past the last one ends it.    *)
DeriveDeviceKey(st, keygen, fw, r) ==
    LET work   == AesDecrypt(st.engine.key[keygen], Source("new_device_key", r))
        master == mkey_get_keyslot(st.engine, st.keys, 0)
        temp   == decrypt_data_into_keyslot(master.engine, TEMPKEY, master.slot,
                                            Source("new_device_keygen", r))
    IN  IF r > st.keys.rev THEN [st EXCEPT !.engine = temp, !.ended = TRUE]
        ELSE IF r = st.keys.rev
        THEN [st EXCEPT !.engine = IF fw < 700
                                   THEN decrypt_data_into_keyslot(temp, DEVICEKEY, TEMPKEY, work)
                                   ELSE temp]
        ELSE [st EXCEPT !.engine = temp,
                        !.keys.olddev[r] = AesDecrypt(temp.key[TEMPKEY], work)]

(* Mutant: the slot is cleared before it is closed.                        *)
derive_new_device_keys_cleared(e, keys, keygen, fw) ==
    LET after[r \in REVISION_400..REVISION_MAX] ==
            IF r = REVISION_400 THEN [engine |-> e, keys |-> keys, ended |-> FALSE]
            ELSE LET st == after[r - 1]
                 IN  IF st.ended THEN st ELSE DeriveDeviceKey(st, keygen, fw, r - 1)
        derived == after[REVISION_MAX]
    IN  [engine |-> set_aes_keyslot_flags(
                       clear_aes_keyslot(derived.engine, keygen), DEVICEKEY, 255),
         keys   |-> derived.keys]

derive_new_device_keys(e, keys, keygen, fw) ==
    LET after[r \in REVISION_400..REVISION_MAX] ==
            IF r = REVISION_400 THEN [engine |-> e, keys |-> keys, ended |-> FALSE]
            ELSE LET st == after[r - 1]
                 IN  IF st.ended THEN st ELSE DeriveDeviceKey(st, keygen, fw, r - 1)
        derived == after[REVISION_MAX]
    IN  [engine |-> clear_aes_keyslot(
                       set_aes_keyslot_flags(derived.engine, DEVICEKEY, 255), keygen),
         keys   |-> derived.keys]

(* A key made of a random block and the device key.                        *)
DeriveSessionKey(e, slot) ==
    set_aes_keyslot_flags(
        decrypt_data_into_keyslot(Drawn(e), slot, DEVICEKEY, Random(e.drawn)), slot, 255)

(* The key table of a cold boot, and the keys kept in memory.              *)
setup_se(e, fw) ==
    LET found   == mkey_detect_revision(e)
        keys    == [rev |-> found.rev, old |-> found.old,
                    olddev |-> [r \in REVISION_400..(REVISION_MAX - 1) |-> Zero]]
        derived == IF fw < 400 THEN [engine |-> found.engine, keys |-> keys]
                   ELSE derive_new_device_keys(found.engine, keys,
                            IF fw = 400 THEN NEWDEVICEKEYGENKEY_4X
                                        ELSE NEWDEVICEKEYGENKEY_5X, fw)
        drawn   == Drawn(derived.engine)              \* se_initialize_rng
    IN  [panics |-> found.panics, keys |-> derived.keys,
         engine |-> DeriveSessionKey(DeriveSessionKey(drawn, RNGKEY), SESSIONKEY)]

(* Before a kernel runs, cold or warm, the slots it may use are cleared and *)
(* the key of saved contexts is drawn anew (bootup.c:69-84).               *)
ClearForUse(e) ==
    se_generate_srk(se_generate_random_key(Drawn(
        clear_aes_keyslots(e, 0..(SESSIONKEY - 1))), SRKGENKEY))

-----------------------------------------------------------------------------
(* Keys the boot loader of a firmware leaves in the engine (external).     *)
OldDeviceKey == <<"device key", "old">>
Keygen       == <<"device key", "generates others">>
NewDeviceKey(r) == Decrypted(Decrypted(MasterKey(0), Source("new_device_keygen", r)),
                             Decrypted(Keygen, Source("new_device_key", r)))
DeviceKey(u) == IF u.fw < 400 THEN OldDeviceKey ELSE NewDeviceKey(u.revision)

KeysAtReset(u) ==
    [s \in AesSlots |->
        IF s = MASTERKEY THEN MasterKey(u.revision)
        ELSE IF s = DEVICEKEY
        THEN IF u.fw = 400 THEN Keygen
             ELSE IF u.fw < 400 \/ u.fw >= 700 THEN DeviceKey(u) ELSE <<"stale", s>>
        ELSE IF s = NEWDEVICEKEYGENKEY_5X /\ u.fw >= 500 THEN Keygen
        ELSE IF s = OLDDEVICEKEY_4X /\ u.fw >= 400 THEN OldDeviceKey
        ELSE <<"stale", s>>]
=============================================================================
