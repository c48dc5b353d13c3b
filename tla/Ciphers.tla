------------------------------- MODULE Ciphers -------------------------------
(***************************************************************************)
(* What exosphere builds from single operations of the Security Engine:    *)
(* AES-CTR and CMAC of any size, GHASH and the product of GF(2^128) below  *)
(* it, RSA with the byte order of the engine, and the PSS and OAEP         *)
(* paddings (src/Common/exosphere/src/se.c, gcm.c, titlekey.c).  AES,      *)
(* SHA-256 and RSA themselves are symbolic: a byte is the set of the       *)
(* unknown terms whose sum (exclusive or) it is, its high bit apart from   *)
(* the others, and the empty set is the byte zero.                         *)
(***************************************************************************)
EXTENDS Integers, Sequences, FiniteSets, SequencesExt

CONSTANTS HashBytes, RsaBytes     \* 0x20 and 0x100 in the code

ByteOf(term) == {<<"high", term>>, <<"low", term>>}
Const(n) == IF n = 0 THEN {} ELSE {<<"low", <<"const", n>>>>}
Xor(a, b) == (a \ b) \cup (b \ a)
Xored(a, b) == [i \in DOMAIN a |-> Xor(a[i], b[i])]
Zeroes(n) == [i \in 1..n |-> {}]
Bytes(name, n) == [i \in 1..n |-> ByteOf(<<name, i>>)]
(* memcpy to an offset; what is written past the end makes it longer.      *)
Written(memory, offset, bytes) ==
    [k \in 1..Max({Len(memory), offset + Len(bytes)}) |->
        IF k - offset \in DOMAIN bytes THEN bytes[k - offset] ELSE memory[k]]

------------------------------------------------------------------------------
(* AES-CTR.  The engine adds a stream to its input, whose blocks it counts,*)
(* and writes no more than its output list has room for.                   *)
StreamByte(ctr, i) == ByteOf(<<"stream", ctr, i>>)

trigger_se_blocking_op(ctr, blocks, dst_size, src) ==
    [ctr |-> ctr + blocks,
     out |-> [k \in 1..Min({dst_size, 16 * blocks}) |->
                 Xor(src[k], StreamByte(ctr + ((k - 1) \div 16), (k - 1) % 16))]]

se_perform_aes_block_operation(ctr, dst_size, src) ==
    LET block == Written(Zeroes(16), 0, src)
    IN  SubSeq(trigger_se_blocking_op(ctr, 1, 16, block).out, 1, dst_size)

(* Mutant: the last block is as long as the source has it.                 *)
SourceTail(dst_size, src_size, aligned_size) == src_size - aligned_size

LastBlockSize(dst_size, src_size, aligned_size) ==
    IF src_size < dst_size THEN src_size - aligned_size ELSE dst_size - aligned_size

se_aes_ctr_crypt(dst, src) ==
    LET num_blocks   == Len(src) \div 16
        aligned_size == 16 * num_blocks
        aligned      == trigger_se_blocking_op(0, num_blocks, Len(dst), src)
        last_size    == LastBlockSize(Len(dst), Len(src), aligned_size)
        tail         == SubSeq(src, aligned_size + 1, Len(src))
        written      == Written(dst, 0, aligned.out)
    IN  IF aligned_size < Len(dst) /\ aligned_size < Len(src)
        THEN Written(written, aligned_size,
                     se_perform_aes_block_operation(aligned.ctr, last_size, tail))
        ELSE written

(* Every byte there is a source and room for is added to its own byte of   *)
(* the stream, and the others stay (se_aes_ctr_crypt).                     *)
CtrRight(sizes) ==
    \A d, s \in sizes :
        LET src == Bytes("source", s)
            old == Bytes("old", d)
        IN  se_aes_ctr_crypt(old, src) =
                [k \in 1..d |-> IF k <= s THEN Xor(src[k], StreamByte((k - 1) \div 16, (k - 1) % 16))
                                ELSE old[k]]

(* ALG_RNG: no input, and the blocks that come out are random.             *)
se_generate_random(size) ==
    LET num_blocks   == size \div 16
        aligned_size == 16 * num_blocks
        aligned == trigger_se_blocking_op(0, num_blocks, aligned_size, Zeroes(aligned_size))
    IN  IF size > aligned_size
        THEN aligned.out \o se_perform_aes_block_operation(aligned.ctr, size - aligned_size, <<>>)
        ELSE aligned.out

(* Every byte asked for is random, and none is another (se_generate_random).*)
RandomRight(sizes) ==
    \A s \in sizes : LET bytes == se_generate_random(s)
                    IN  Len(bytes) = s /\ IsInjective(bytes) /\ {} \notin ToSet(bytes)

------------------------------------------------------------------------------
(* CMAC.  Doubling a block, byte by byte from the last.                    *)
XorByte(a, b) ==
    LET bit(x, i) == (x \div 2^i) % 2
        parity(i) == (bit(a, i) + bit(b, i)) % 2
    IN  parity(0) + 2 * parity(1) + 4 * parity(2) + 8 * parity(3) + 16 * parity(4)
            + 32 * parity(5) + 64 * parity(6) + 128 * parity(7)

shift_left_xor_rb(key) ==
    LET high(i)    == IF i = 16 THEN 0 ELSE key[i + 1] \div 128
        shifted(i) == ((key[i] * 2) % 256) + high(i)
    IN  [i \in 1..16 |-> IF i = 16 /\ key[1] >= 128 THEN XorByte(shifted(16), 135) ELSE shifted(i)]

(* It is the product with x in GF(2^128): bit c of the result is the one   *)
(* after it, and what falls off comes back at the bits of 0x87.            *)
DoublingRight(keys) ==
    LET bitOf(key, c) == (key[(c \div 8) + 1] \div 2^(7 - (c % 8))) % 2
        next(key, c)  == IF c = 127 THEN 0 ELSE bitOf(key, c + 1)
        carry(key, c) == IF c \in {120, 125, 126, 127} THEN bitOf(key, 0) ELSE 0
    IN  \A key \in keys : \A c \in 0..127 :
            bitOf(shift_left_xor_rb(key), c) = (next(key, c) + carry(key, c)) % 2

Cipher(block)  == [i \in 1..16 |-> ByteOf(<<"aes", block, i>>)]
Doubled(block) == [i \in 1..16 |-> ByteOf(<<"doubled", block, i>>)]
BlockOf(data, n) == SubSeq(data, 16 * n - 15, 16 * n)

(* The engine with DST_HASHREG: the last block of a CBC chain from iv.     *)
Chained(iv, data, blocks) ==
    LET chain[n \in 0..blocks] ==
            IF n = 0 THEN iv ELSE Cipher(Xored(BlockOf(data, n), chain[n - 1]))
    IN  chain[blocks]

Pad(size) == <<{<<"high", <<"const", 128>>>>}>> \o Zeroes(15 - (size % 16))

se_compute_aes_cmac(data) ==
    LET size        == Len(data)
        once        == Doubled(Cipher(Zeroes(16)))
        derived_key == IF size % 16 = 0 THEN once ELSE Doubled(once)
        num_blocks  == (size + 15) \div 16
        chained     == IF num_blocks > 1 THEN Chained(Zeroes(16), data, num_blocks - 1)
                       ELSE Zeroes(16)
        last_block  == IF size % 16 # 0
                       THEN SubSeq(data, size - (size % 16) + 1, size) \o Pad(size)
                       ELSE IF size >= 16 THEN SubSeq(data, size - 15, size) ELSE Zeroes(16)
    IN  Chained(chained, Xored(last_block, derived_key), 1)

(* RFC 4493, whole message first: the padded message, its last block under *)
(* one of the two derived keys, and one chain over all of it.              *)
Rfc4493(data) ==
    LET once     == Doubled(Cipher(Zeroes(16)))
        complete == Len(data) > 0 /\ Len(data) % 16 = 0
        padded   == IF complete THEN data ELSE data \o Pad(Len(data))
        start    == Len(padded) - 16
        masked   == [k \in DOMAIN padded |->
                        IF k <= start THEN padded[k]
                        ELSE Xor(padded[k], IF complete THEN once[k - start]
                                            ELSE Doubled(once)[k - start])]
    IN  Chained(Zeroes(16), masked, Len(padded) \div 16)

(* The code computes the CMAC of every message but the empty one, whose    *)
(* single block it takes for a whole one of zeroes (se_compute_aes_cmac).  *)
CmacRight(sizes) ==
    \A s \in sizes : (se_compute_aes_cmac(Bytes("data", s)) = Rfc4493(Bytes("data", s))) <=> s > 0

------------------------------------------------------------------------------
(* GCM.  A block is the set of its bits, bit b of byte i of the memory     *)
(* being 8i + b; gf128_mul turns the bytes around to shift 128-bit values. *)
Turned(block) == {8 * (15 - (p \div 8)) + (p % 8) : p \in block}

shr_128(val) == {p - 1 : p \in val \ {0}}
shl_128(val) == {p + 1 : p \in val \ {127}}

RECURSIVE Rounds(_, _, _, _)
Rounds(n, x, y, dst) ==
    IF n = 0 THEN dst
    ELSE Rounds(n - 1,
                IF 0 \in x THEN Xor(shr_128(x), {120, 125, 126, 127}) ELSE shr_128(x),
                shl_128(y),
                IF 127 \in y THEN Xor(dst, x) ELSE dst)

gf128_mul(x, y) == Turned(Rounds(128, Turned(x), Turned(y), {}))

(* The product of polynomials modulo x^128 + x^7 + x^2 + x + 1, where the  *)
(* coefficients of a block are its bits from the top of its first byte.    *)
Coefficients(block) == {8 * (p \div 8) + 7 - (p % 8) : p \in block}

RECURSIVE Reduced(_)
Reduced(e) ==
    IF e < 128 THEN {e}
    ELSE Xor(Xor(Reduced(e - 128), Reduced(e - 127)), Xor(Reduced(e - 126), Reduced(e - 121)))

ProductRight(blocks, others) ==
    \A x \in blocks, y \in others :
        LET terms == Coefficients(x) \X Coefficients(y)
        IN  Coefficients(gf128_mul(x, y)) =
                {c \in 0..127 : Cardinality({t \in terms : c \in Reduced(t[1] + t[2])}) % 2 = 1}

(* ghash: a value is a sum of quadwords, each times a power of H.          *)
TimesH(x) == {<<t[1], t[2], t[3] + 1>> : t \in x}
Quadwords(name) == {<<name, 0, 0>>, <<name, 1, 0>>}

RECURSIVE GhashBlocks(_, _)
GhashBlocks(x, blocks) ==
    IF blocks = <<>> THEN x
    ELSE GhashBlocks(TimesH(Xor(x, Quadwords(Head(blocks)))), Tail(blocks))

ghash(data_size, encrypt) ==
    LET whole  == GhashBlocks({}, [i \in 1..(data_size \div 16) |-> <<"block", i>>])
        padded == IF data_size % 16 = 0 THEN whole ELSE TimesH(whole)
        sized  == Xor(padded, {<<<<"size", data_size>>, IF encrypt THEN 0 ELSE 1, 0>>})
    IN  IF encrypt THEN Xor(TimesH(sized), Quadwords(<<"J">>)) ELSE TimesH(sized)

(* GHASH of the blocks and of their length, as a polynomial in H, with the *)
(* two differences gcm.c tells of: what is left over counts as zeroes, and *)
(* in the final form the length is in the other quadword.                  *)
GhashRight(sizes) ==
    \A s \in sizes, encrypt \in BOOLEAN :
        LET blocks == (s + 15) \div 16
        IN  ghash(s, encrypt) =
                {<<<<"block", i>>, q, blocks - i + 2>> : i \in 1..(s \div 16), q \in {0, 1}}
                \cup {<<<<"size", s>>, IF encrypt THEN 0 ELSE 1, 1>>}
                \cup (IF encrypt THEN Quadwords(<<"J">>) ELSE {})

------------------------------------------------------------------------------
(* RSA.  The key table has the least significant word first, and the       *)
(* engine reads and writes numbers from their least significant byte.      *)
set_rsa_keyslot(modulus, exponent) ==
    LET words(n) == [w \in 1..(Len(n) \div 4) |-> SubSeq(n, Len(n) - 4 * w + 1, Len(n) - 4 * w + 4)]
    IN  [modulus |-> words(modulus), exponent |-> words(exponent)]

Number(words) == FlattenSeq(Reverse(words))

Signature(message, modulus) == [i \in 1..RsaBytes |-> {<<"signature", message, modulus, i>>}]
PublicExponent == <<Const(0), Const(1), Const(0), Const(1)>>

(* The engine: what was signed, if the exponent is the public one.         *)
Recovered(modulus, exponent, number) ==
    LET term == CHOOSE t \in number[1] : TRUE
    IN  IF /\ term[1] = "signature" /\ number = Signature(term[2], modulus)
           /\ exponent = PublicExponent
        THEN term[2] ELSE Bytes("garbage", RsaBytes)

se_get_exp_mod_output(output, size) ==
    LET num_dwords == size \div 4
        from(k) == 4 * (num_dwords - 1 - ((k - 1) \div 4)) + 4 - ((k - 1) % 4)
    IN  [k \in 1..(4 * num_dwords) |-> output[from(k)]]

se_synchronous_exp_mod(slot, dst_size, src) ==
    LET stack_buf == [i \in 1..Len(src) |-> src[Len(src) + 1 - i]]
        result    == Recovered(Number(slot.modulus), Number(slot.exponent), Reverse(stack_buf))
    IN  se_get_exp_mod_output(Reverse(result), dst_size)

se_calculate_sha256(message) == [i \in 1..HashBytes |-> ByteOf(<<"sha", message, i>>)]

calculate_mgf1_and_xor(masked, seed) ==
    LET cur_hash(round) == se_calculate_sha256(seed \o <<{}, {}, {}, Const(round)>>)
        hashes == [r \in 0..(Len(masked) \div HashBytes) |-> cur_hash(r)]
    IN  [i \in DOMAIN masked |->
            Xor(masked[i], hashes[(i - 1) \div HashBytes][((i - 1) % HashBytes) + 1])]

(* PSS: maskedDB, the hash and 0xBC; the high bit of all is not looked at. *)
DbBytes == RsaBytes - HashBytes - 1

WithoutHigh(byte) == {part \in byte : part[1] = "low"}
Cleared(db) == [db EXCEPT ![1] = WithoutHigh(@)]

PssHash(data, salt) == se_calculate_sha256(Zeroes(8) \o se_calculate_sha256(data) \o salt)

se_rsa2048_pss_verify(signature, modulus, data) ==
    LET slot    == set_rsa_keyslot(modulus, PublicExponent)
        message == se_synchronous_exp_mod(slot, RsaBytes, signature)
        h_buf   == SubSeq(message, DbBytes + 1, DbBytes + HashBytes)
        db      == Cleared(calculate_mgf1_and_xor(SubSeq(message, 1, DbBytes), h_buf))
        zeroes  == DbBytes - HashBytes - 1
    IN  /\ message[RsaBytes] = Const(188)
        /\ \A i \in 1..zeroes : db[i] = {}
        /\ db[zeroes + 1] = Const(1)
        /\ h_buf = PssHash(data, SubSeq(db, zeroes + 2, DbBytes))

PssEncoded(data, salt) ==
    LET hash == PssHash(data, salt)
        db   == Zeroes(DbBytes - HashBytes - 1) \o <<Const(1)>> \o salt
    IN  Cleared(calculate_mgf1_and_xor(db, hash)) \o hash \o <<Const(188)>>

(* A signature of the data under the modulus is verified; a signature of   *)
(* other data, by another modulus, or of a message that differs anywhere   *)
(* but in its high bit is not (se_rsa2048_pss_verify).                     *)
PssRight ==
    LET modulus == Bytes("modulus", RsaBytes)
        data    == Bytes("data", 3)
        encoded == PssEncoded(data, Bytes("salt", HashBytes))
        verify(message, key, of) == se_rsa2048_pss_verify(Signature(message, key), modulus, of)
    IN  /\ verify(encoded, modulus, data)
        /\ ~verify(encoded, modulus, Bytes("other", 3))
        /\ ~verify(encoded, Bytes("other", RsaBytes), data)
        /\ \A i \in 1..RsaBytes, part \in {"high", "low"} :
               verify([encoded EXCEPT ![i] = Xor(@, {<<part, <<"changed">>>>})], modulus, data)
                   <=> i = 1 /\ part = "high"

(* OAEP: zero, the masked salt and the masked DB of label hash, zeroes,    *)
(* one and the key; the result is the key, or nothing.                     *)
tkey_rsa_oaep_unwrap(message, dst_size, expected_label_hash) ==
    LET masked_salt == SubSeq(message, 2, HashBytes + 1)
        masked_db   == SubSeq(message, HashBytes + 2, RsaBytes)
        salt == calculate_mgf1_and_xor(masked_salt, masked_db)
        db   == calculate_mgf1_and_xor(masked_db, salt)
        rest == SubSeq(db, HashBytes + 1, DbBytes)
        past == SelectInSeq(rest, LAMBDA byte : byte # {})
        key  == SubSeq(rest, past + 1, Len(rest))
    IN  IF /\ message[1] = {}
           /\ SubSeq(db, 1, HashBytes) = expected_label_hash
           /\ past > 1 /\ rest[past] = Const(1)
           /\ Len(key) \in 1..dst_size
        THEN key ELSE <<>>

OaepEncoded(key, label) ==
    LET salt == Bytes("salt", HashBytes)
        db   == label \o Zeroes(DbBytes - HashBytes - 1 - Len(key)) \o <<Const(1)>> \o key
        masked_db == calculate_mgf1_and_xor(db, salt)
    IN  <<{}>> \o calculate_mgf1_and_xor(salt, masked_db) \o masked_db

(* A key that fits is unwrapped from its encoding; nothing is from that of *)
(* another label, from one without a zero before the one, or from a message*)
(* changed anywhere (tkey_rsa_oaep_unwrap).                                *)
OaepRight(sizes) ==
    LET label   == Bytes("label", HashBytes)
        room    == DbBytes - HashBytes - 1
        encoded(n) == OaepEncoded(Bytes("key", n), label)
    IN  /\ \A n \in 0..room, dst_size \in sizes :
               tkey_rsa_oaep_unwrap(encoded(n), dst_size, label) =
                   IF n \in 1..dst_size /\ n < room THEN Bytes("key", n) ELSE <<>>
        /\ \A i \in 1..RsaBytes, part \in {"high", "low"} :
               tkey_rsa_oaep_unwrap([encoded(5) EXCEPT ![i] = Xor(@, {<<part, <<"changed">>>>})],
                                    room, label) = <<>>
        /\ tkey_rsa_oaep_unwrap(encoded(5), room, Bytes("other", HashBytes)) = <<>>

------------------------------------------------------------------------------
(* What the monitor computes is what the standards say, where it is meant  *)
(* to be: samples of all sizes around one, two and three blocks; for the   *)
(* product, which is linear in both, single bits with single bits.         *)
Samples == {0, 1, 4, 15, 16, 17, 31, 32, 33, 40}
SingleBits == {{p} : p \in 0..127}

CiphersRight ==
    /\ CtrRight(Samples) /\ RandomRight(Samples)
    /\ CmacRight(Samples) /\ GhashRight(Samples)
    /\ DoublingRight({[i \in 1..16 |-> IF i = b THEN 2^k ELSE 0] : b \in 1..16, k \in 0..7}
                     \cup {[i \in 1..16 |-> 255 - 8 * i], [i \in 1..16 |-> 9 * i]})
    /\ ProductRight(SingleBits, {{0}, {6}, {7}, {61}, {64}, {120}, {127}})
    /\ ProductRight({{0, 3, 64, 77, 126}}, {{7, 15, 80, 120}})
    /\ PssRight /\ OaepRight({0, 5, 13, 16})
=============================================================================
