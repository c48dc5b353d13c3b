------------------------------ MODULE SecureBoot ------------------------------
(***************************************************************************)
(* exosphere from reset to the kernel and through sleep: load_package2     *)
(* beside the boot loader that feeds it, cpu_suspend, the warm boot        *)
(* firmware and warmboot_main (src/Common/exosphere).  Memory is counted   *)
(* in units of an eighth of PACKAGE2_SIZE_MAX; ciphers and hashes are      *)
(* symbolic.  EXOSPHERE_LOOSEN_PACKAGE2_RESTRICTIONS_FOR_DEBUG is set in   *)
(* the build, so signatures and the hashes of sections are not checked.    *)
(***************************************************************************)
EXTENDS SecurityEngine, Integers, FiniteSets

CONSTANTS
    MaxCalls,      \* bound on the kernel's calls that change the monitor
    Units          \* the consoles a run looks at

VARIABLES
    unit,      \* the console: firmware, fuses, configuration, the image it boots
    nx,        \* the state the boot loader has reached (its mailbox)
    at,        \* where exosphere stands
    se,        \* the Security Engine
    tz,        \* exosphere's memory, by segment of TZRAM
    dram,      \* the words of DRAM that hold something
    guard,     \* the hardware's protections, lost in sleep
    board,     \* the processor beside it, the charger and the PMC
    slept      \* what was true when the kernel put the console to sleep

secureVars == <<unit, nx, at, se, tz, dram, guard, board, slept>>

-----------------------------------------------------------------------------
(* Fuses: the bits of reserved ODM word 4, and one spare bit beyond them.  *)
SpareBit9 == 32
fuse_get_retail_type(odm4) ==
    LET retail_type == (IF 9 \in odm4 THEN 4 ELSE 0) + (IF 1 \in odm4 THEN 2 ELSE 0)
                         + (IF 0 \in odm4 THEN 1 ELSE 0)
    IN  IF retail_type = 4 THEN 1 ELSE IF retail_type = 3 THEN 0 ELSE 2

fuse_get_hardware_type(fw, odm4) ==
    LET bit(b, v) == IF b \in odm4 THEN v ELSE 0
        low  == bit(8, 2) + bit(2, 1)
        type == low + bit(16, 4) + bit(17, 8) + bit(18, 16) + bit(19, 32)
    IN  IF fw < 400
        THEN IF low >= 1 THEN (IF low > 2 THEN 3 ELSE low - 1)
             ELSE IF SpareBit9 \in odm4 THEN 3 ELSE 0
        ELSE IF fw < 700
        THEN IF type \in 1..4 THEN <<0, 1, 4, 3>>[type] ELSE 4
        ELSE 0

is_retail(u) == fuse_get_retail_type(u.odm4) # 0
HardwareType(u) == fuse_get_hardware_type(u.fw, u.odm4)

-----------------------------------------------------------------------------
(* The boot configuration of developer units.                              *)
ClearConfig == [package2 |-> {}, noverify |-> FALSE, d10 |-> {}, d11 |-> 0, d21 |-> 0, d23 |-> 0]

(* The signed part is cleared when its signature is good: the test of      *)
(* bootconfig.c:58 has the sense of verify_header_signature's turned round.*)
bootconfig_load_and_verify(u) ==
    IF is_retail(u) \/ u.signature_good \/ ~u.matches_hardware
    THEN [u.bootconfig EXCEPT !.package2 = {}, !.noverify = FALSE] ELSE u.bootconfig

setup_boot_config(u) == IF is_retail(u) THEN ClearConfig ELSE bootconfig_load_and_verify(u)

bootconfig_is_debug_mode(cfg) == 1 \in cfg.d10
bootconfig_take_extabt_serror_to_el3(cfg) == ~({1, 2} \subseteq cfg.d10)

(* The byte is two bits of size over two bits of kind.                     *)
bootconfig_get_memory_arrangement(cfg, dram_id) ==
    IF ~bootconfig_is_debug_mode(cfg) THEN 1
    ELSE IF dram_id = 4 THEN (IF cfg.d23 # 0 THEN cfg.d23 ELSE 17)
    ELSE IF cfg.d23 # 0 /\ (cfg.d23 \div 16) % 4 = 0 THEN cfg.d23 ELSE 1

bootconfig_get_kernel_configuration(cfg, dram_id) ==
    IF ~bootconfig_is_debug_mode(cfg) THEN <<0, 0, 0>>
    ELSE <<IF dram_id # 4 THEN 0 ELSE IF cfg.d23 # 0 THEN (cfg.d23 \div 16) % 4 ELSE 1,
           cfg.d21, cfg.d11>>

-----------------------------------------------------------------------------
(* TZRAM: sixteen pages, placed anew on 5.0.0.                             *)
PageSegment(fw, p) ==
    IF fw < 500
    THEN CASE p = 0 -> "evt" [] p = 1 -> "l2" [] p = 2 -> "l3" [] p \in 3..13 -> "main"
           [] p = 14 -> "core012 stack" [] p = 15 -> "core3 stack"
    ELSE CASE p = 0 -> "core012 stack" [] p = 1 -> "core3 stack" [] p = 2 -> "evt"
           [] p \in 3..13 -> "main" [] p = 14 -> "l2" [] p = 15 -> "l3"

Segments == {"evt", "l2", "l3", "main", "core012 stack", "core3 stack"}
SavedPages == 14                          \* LP0_TZRAM_SAVE_SIZE
FirstSaved(fw) == IF fw >= 500 THEN 2 ELSE 0

(* Mutant: TZRAM is restored to where it was before 5.0.0.                 *)
RestoredAtBefore(fw) == 0
RestoredAt(fw) == IF fw >= 500 THEN 2 ELSE 0

(* A page with the content of its segment.                                 *)
PageOf(u, memory, p) == [segment |-> PageSegment(u.fw, p), holds |-> memory[PageSegment(u.fw, p)]]

SavedImage(u, memory) ==
    [i \in 0..(SavedPages - 1) |-> PageOf(u, memory, FirstSaved(u.fw) + i)]

(* A segment is back when every page of it is at its place.                *)
RestoredMemory(u, image) ==
    [s \in Segments |->
        LET pages == {p \in 0..15 : PageSegment(u.fw, p) = s}
            from(p) == p - RestoredAt(u.fw)
        IN  IF \A p \in pages : from(p) \in DOMAIN image /\ image[from(p)].segment = s
            THEN image[from(CHOOSE p \in pages : TRUE)].holds ELSE <<"lost">>]

Main == tz["main"][2]
Config == tz["evt"][2]

-----------------------------------------------------------------------------
(* Protections.                                                            *)
Carveout(address, size, clients) == [address |-> address, size |-> size, clients |-> clients]
NoCarveout == Carveout(0, 0, "none")

KernelClients(fw, id) ==
    <<IF fw >= 810 THEN "8.1.0" ELSE IF fw >= 800 THEN "8.0.0" ELSE "2.0.0",
      IF fw >= 400 /\ id = 4 THEN "not bpmp" ELSE "all">>

configure_gpu_ucode_carveout(g, fw) ==
    [g EXCEPT !.carveouts[2] = Carveout("ucode", 2, IF fw >= 600 THEN "gpu and tsec" ELSE "gpu")]

(* Mutant: the kernel's carveouts are given their defaults again.          *)
configure_default_carveouts_anew(g, fw, saved) ==
    LET first == [g EXCEPT !.carveouts[1] = NoCarveout, !.carveouts[3] = Carveout(0, 0, "gpu")]
        second == IF fw < 600 THEN configure_gpu_ucode_carveout(first, fw) ELSE first
    IN  [second EXCEPT
            !.carveouts[4] = IF fw >= 200 THEN Carveout(6, 4, KernelClients(fw, 4)) ELSE NoCarveout,
            !.carveouts[5] = IF fw >= 200 THEN Carveout(0, 0, KernelClients(fw, 5)) ELSE NoCarveout]

configure_default_carveouts(g, fw, saved) ==
    LET first  == [g EXCEPT !.carveouts[1] = NoCarveout]
        second == IF fw < 600 THEN configure_gpu_ucode_carveout(first, fw) ELSE first
        third  == [second EXCEPT !.carveouts[3] = Carveout(0, 0, "gpu")]
        kernel(id) == Carveout(saved[id].address, saved[id].size, KernelClients(fw, id))
    IN  [third EXCEPT !.carveouts[4] = IF fw >= 200 THEN kernel(4) ELSE NoCarveout,
                      !.carveouts[5] = IF fw >= 200 THEN kernel(5) ELSE NoCarveout]

SecureDevices(u) ==
    IF u.fw = 100
    THEN {"SATA_AUX", "DTV", "QSPI", "SATA", "LA", "SPI1", "SPI2", "SPI3", "SPI5", "SPI6",
          "I2C4", "I2C6", "DDS"}
    ELSE {"SATA_AUX", "DTV", "QSPI", "SE", "SATA", "LA", "SPI1", "SPI2", "SPI3", "SPI5", "SPI6",
          "I2C6", "SDMMC3", "DDS", "DP2"}
         \cup (IF HardwareType(u) # 1 THEN {"I2C4"} ELSE {})
         \cup (IF HardwareType(u) # 0 /\ u.fw >= 400
               THEN {"UARTB", "UARTC", "SPI4", "I2C3", "SDMMC1"} ELSE {})

secure_additional_devices(g, fw) ==
    [g EXCEPT !.devices = @ \cup (IF fw >= 200 THEN {"PMC"} ELSE {})
                            \cup (IF fw >= 400 THEN {"MC0", "MC1", "MCB"} ELSE {})]

GuardAtReset == [devices |-> {}, carveouts |-> [id \in 1..5 |-> NoCarveout], smmu |-> "off",
                 vector |-> 0, ahb |-> "open", cfg3 |-> 0, bpmp_watch |-> FALSE,
                 extabt |-> FALSE]

(* The registers bootup_misc_mmio writes; the AHB redirect of the first    *)
(* firmwares goes on the second time.                                      *)
GuardByBootup(g, u, saved, again) ==
    [configure_default_carveouts(g, u.fw, saved) EXCEPT
        !.cfg3 = 3, !.devices = SecureDevices(u),
        !.smmu = IF u.fw >= 400 THEN "closed to asids" ELSE "on",
        !.vector = IF u.fw >= 500 THEN 5 ELSE 3,
        !.ahb = IF again /\ u.fw < 400 THEN "closed" ELSE @]

setup_4x_mmio(g, u) ==
    [(IF u.fw >= 600 THEN configure_gpu_ucode_carveout(g, u.fw) ELSE g) EXCEPT
        !.ahb = "closed", !.smmu = "bpmp to tzram", !.bpmp_watch = ~u.debugging]

-----------------------------------------------------------------------------
(* The image.                                                              *)
W == 4096             \* 2^32, in units
PACKAGE2_SIZE_MAX == 8
LoadAddress == 80
Warmboot == 0         \* the unit of DRAM that takes the warm boot binary

overlaps(as, ae, bs, be) == (as <= bs /\ bs < ae) \/ (bs <= as /\ as < be)

SectionStart(meta, s) == meta.offsets[s]
SectionEnd(meta, s)   == meta.offsets[s] + meta.sizes[s]
cur_section_offset(meta, s) ==
    (IF s > 1 THEN meta.sizes[1] ELSE 0) + (IF s > 2 THEN meta.sizes[2] ELSE 0)

validate_package2_metadata(meta) ==
    /\ meta.magic
    /\ meta.size > 1 /\ meta.size <= PACKAGE2_SIZE_MAX
    /\ meta.header_version <= REVISION_MAX
    /\ meta.entry_aligned
    /\ (meta.sizes[1] + meta.sizes[2] + meta.sizes[3] + 1) % W = meta.size
    /\ \A s \in 1..3 :
          /\ SectionEnd(meta, s) < W
          /\ meta.sizes[s] # 0 =>
                \A later \in (s + 1)..3 : meta.sizes[later] # 0 =>
                    ~overlaps(SectionStart(meta, s), SectionEnd(meta, s),
                              SectionStart(meta, later), SectionEnd(meta, later))
    /\ \E s \in 1..3 : SectionStart(meta, s) <= meta.entry /\ meta.entry < SectionEnd(meta, s)
    /\ meta.version_max >= 0 /\ meta.version_min < 14

Package2Key(key) == AesDecrypt(key, Source("package2", 0))

(* Counter mode: the same key takes off what it put on.                    *)
package2_crypt_ctr(key, word) ==
    IF word[1] = "crypted" /\ word[2] = key THEN word[3] ELSE <<"crypted", key, word>>

Unreadable(meta) == [meta EXCEPT !.magic = FALSE]
DecryptedHeader(key, header) ==
    IF header.under = key THEN header.meta ELSE Unreadable(header.meta)
PlainHeader(header) == DecryptedHeader(Zero, header)

(* Every master key is tried, the oldest first.                            *)
decrypt_and_validate_header(e, keys, header, plaintext) ==
    LET chain == MasterKeyChain(e, keys.rev)
        fits  == {r \in 0..keys.rev :
                    validate_package2_metadata(DecryptedHeader(Package2Key(chain[r]), header))}
        rev   == CHOOSE r \in fits : \A s \in fits : r <= s
    IN  IF plaintext
        THEN [valid |-> validate_package2_metadata(PlainHeader(header)), rev |-> 0,
              meta  |-> PlainHeader(header)]
        ELSE IF fits = {} THEN [valid |-> FALSE, rev |-> 0, meta |-> header.meta]
        ELSE [valid |-> TRUE, rev |-> rev, meta |-> DecryptedHeader(Package2Key(chain[rev]), header)]

(* DRAM holds words at some places and nothing of interest elsewhere.      *)
Words(memory, from, n) == [i \in {a \in from..(from + n - 1) : a \in DOMAIN memory} |-> memory[i]]
Without(memory, from, n) ==
    [a \in DOMAIN memory \ (from..(from + n - 1)) |-> memory[a]]
Written(memory, words) ==
    [a \in DOMAIN memory \cup DOMAIN words |-> IF a \in DOMAIN words THEN words[a] ELSE memory[a]]
Moved(words, by) == [a \in {x + by : x \in DOMAIN words} |-> words[a - by]]

(* Mutant: only the kernel's section is compared with the load address.    *)
needs_relocation_of_kernel(meta) ==
    overlaps(SectionStart(meta, 1), SectionEnd(meta, 1),
             LoadAddress, LoadAddress + PACKAGE2_SIZE_MAX)

needs_relocation(meta) ==
    \E s \in 1..3 : overlaps(SectionStart(meta, s), SectionEnd(meta, s),
                             LoadAddress, LoadAddress + PACKAGE2_SIZE_MAX)

(* Mutant: half as many carveouts are tried.                               *)
SafeCarveoutsOfFour(meta) ==
    {i \in 0..3 :
        \A s \in 1..3 : ~overlaps(SectionStart(meta, s), SectionEnd(meta, s),
                                  PACKAGE2_SIZE_MAX * i, PACKAGE2_SIZE_MAX * (i + 1))}

Tries == 8
SafeCarveouts(meta) ==
    {i \in 0..(Tries - 1) :
        \A s \in 1..3 : ~overlaps(SectionStart(meta, s), SectionEnd(meta, s),
                                  PACKAGE2_SIZE_MAX * i, PACKAGE2_SIZE_MAX * (i + 1))}

(* Where the sections are copied from.                                     *)
LoadBuffer(meta) ==
    IF needs_relocation(meta)
    THEN PACKAGE2_SIZE_MAX *
            (CHOOSE i \in SafeCarveouts(meta) : \A j \in SafeCarveouts(meta) : i <= j)
    ELSE LoadAddress

Relocated(memory, meta) ==
    IF needs_relocation(meta)
    THEN Without(Written(memory,
                     Moved(Words(memory, LoadAddress, PACKAGE2_SIZE_MAX), LoadBuffer(meta) - LoadAddress)),
                 LoadAddress, PACKAGE2_SIZE_MAX)
    ELSE memory

CopySection(memory, meta, s, plaintext, key) ==
    LET words == Words(memory, LoadBuffer(meta) + 1 + cur_section_offset(meta, s), meta.sizes[s])
        moved == Moved(words, meta.offsets[s] - LoadBuffer(meta) - 1 - cur_section_offset(meta, s))
    IN  Written(memory, [a \in DOMAIN moved |->
                            IF plaintext THEN moved[a] ELSE package2_crypt_ctr(key, moved[a])])

load_package2_sections(memory, meta, plaintext, key) ==
    LET copied[s \in 0..3] ==
            IF s = 0 THEN Relocated(memory, meta)
            ELSE CopySection(copied[s - 1], meta, s, plaintext, key)
    IN  Without(copied[3], LoadBuffer(meta), PACKAGE2_SIZE_MAX)

(* What the boot loader puts into DRAM: the header and the sections' words.*)
StoredWord(u, i) ==
    LET s == CHOOSE x \in 1..3 : i - 1 >= cur_section_offset(u.image.meta, x)
                              /\ i - 1 < cur_section_offset(u.image.meta, x) + u.image.meta.sizes[x]
        word == <<"word", s, i - 1 - cur_section_offset(u.image.meta, s)>>
    IN  IF u.image.under = Zero THEN word ELSE <<"crypted", u.image.under, word>>

StoredImage(u) ==
    [a \in LoadAddress..(LoadAddress + u.image.stored - 1) |->
        IF a = LoadAddress THEN <<"header">> ELSE StoredWord(u, a - LoadAddress)]

-----------------------------------------------------------------------------
KERNEL_CARVEOUT_SIZE_MAX == 4
MainAtBoot(u, keys) ==
    [core_active |-> TRUE, entry |-> <<"none">>, user_busy |-> FALSE, priv_busy |-> FALSE,
     has_suspended |-> FALSE, recovery |-> u.recovery, hash |-> <<"none">>, keys |-> keys,
     debug_priv |-> "debug priv" \in u.flags, debug_user |-> "debug user" \in u.flags,
     handlers |-> "no handlers" \notin u.flags, pmu |-> "pmu" \in u.flags, hiz |-> FALSE,
     carveouts |-> [id \in 4..5 |-> IF id = 4 THEN [address |-> 6, size |-> KERNEL_CARVEOUT_SIZE_MAX]
                                              ELSE [address |-> 0, size |-> 0]],
     configured |-> {}]

(* bootup.c of the first half of load_package2.                            *)
SetUp ==
    LET derived == setup_se(EngineAtReset(KeysAtReset(unit)), unit.fw)
        main    == MainAtBoot(unit, derived.keys)
    IN  /\ at = "reset"
        /\ IF derived.panics THEN at' = "panic" /\ UNCHANGED <<se, tz, guard>>
           ELSE /\ at' = "bootconfig"
                /\ se' = ClearForUse(derived.engine)
                /\ tz' = [tz EXCEPT !["main"] = <<"holds", main>>, !["evt"] = <<"holds", ClearConfig>>]
                /\ guard' = GuardByBootup(guard, unit, main.carveouts, FALSE)
        /\ UNCHANGED <<unit, nx, dram, board, slept>>

(* The states of the boot loader that each wait of load_package2 is for.   *)
LOADED(fw)   == IF fw >= 400 THEN 3 ELSE 2
FINISHED(fw) == IF fw >= 400 THEN 4 ELSE 3
(* Mutant: the states of 4.0.0 are awaited on every firmware.              *)
AwaitedStateOf4x(fw, place) ==
    CASE place = "bootconfig" -> 1 [] place = "warmboot" -> 2
      [] place = "package2" -> 3 [] place = "finishing" -> 4 [] OTHER -> 0

AwaitedState(fw, place) ==
    CASE place = "bootconfig" -> 1 [] place = "warmboot" -> 2
      [] place = "package2" -> LOADED(fw) [] place = "finishing" -> FINISHED(fw) [] OTHER -> 0
sync_with_nx_bootloader == nx >= AwaitedState(unit.fw, at)

LoadBootconfig ==
    /\ at = "bootconfig" /\ sync_with_nx_bootloader
    /\ at' = IF unit.fw >= 400 THEN "warmboot" ELSE "package2"
    /\ tz' = [tz EXCEPT !["evt"] = <<"holds", setup_boot_config(unit)>>]
    /\ UNCHANGED <<unit, nx, se, dram, guard, board, slept>>

copy_warmboot_bin_to_dram ==
    /\ at = "warmboot" /\ sync_with_nx_bootloader
    /\ at' = "package2"
    /\ dram' = Written(dram, [a \in {Warmboot} |-> <<"warmboot binary">>])
    /\ UNCHANGED <<unit, nx, se, tz, guard, board, slept>>

(* An all-zero signature before a readable header stands for an image that *)
(* is neither signed nor encrypted.                                        *)
ConfigForImage(config, image) ==
    IF image.zero_signature /\ PlainHeader(image).magic
    THEN [config EXCEPT !.package2 = {"plaintext", "unsigned"}] ELSE config

(* After the header every section is decrypted with the key that fitted it.*)
load_package2 ==
    LET config    == ConfigForImage(Config, unit.image)
        plaintext == "plaintext" \in config.package2
        header    == decrypt_and_validate_header(se, Main.keys, unit.image, plaintext)
        key       == Package2Key(MasterKeyChain(se, Main.keys.rev)[header.rev])
        tried     == mkey_get_keyslot(se, Main.keys, header.rev)
        main      == [Main EXCEPT
                        !.hash = IF Main.recovery
                                 THEN <<"hash", Words(dram, LoadAddress, header.meta.size)>> ELSE @,
                        !.entry = <<"package2", header.meta.entry>>]
    IN  /\ at = "package2" /\ sync_with_nx_bootloader
        /\ guard' = secure_additional_devices(guard, unit.fw)
        /\ IF /\ header.valid
              /\ needs_relocation(header.meta) => SafeCarveouts(header.meta) # {}
           THEN /\ at' = "finishing"
                /\ dram' = load_package2_sections(dram, header.meta, plaintext, key)
                /\ se' = IF plaintext THEN se
                         ELSE decrypt_data_into_keyslot(tried.engine, PACKAGE2KEY, tried.slot,
                                                        Source("package2", 0))
                /\ tz' = [tz EXCEPT !["main"] = <<"holds", main>>, !["evt"] = <<"holds", config>>]
           ELSE at' = "panic" /\ UNCHANGED <<dram, se, tz>>
        /\ UNCHANGED <<unit, nx, board, slept>>

(* On 4.0.0 the rest waits until the other processor has halted.           *)
FinishBoot ==
    /\ at = "finishing" /\ sync_with_nx_bootloader
    /\ unit.fw >= 400 => board.bpmp = "halted"
    /\ at' = "kernel"
    /\ guard' = [(IF unit.fw >= 400 THEN setup_4x_mmio(guard, unit) ELSE guard) EXCEPT
                    !.extabt = bootconfig_take_extabt_serror_to_el3(Config)]
    /\ UNCHANGED <<unit, nx, se, tz, dram, board, slept>>

-----------------------------------------------------------------------------
(* The boot loader counts its own states and halts at the end (external).  *)
LoaderLoads(fw) == IF fw >= 400 THEN 3 ELSE 2
LoaderEnds(fw)  == LoaderLoads(fw) + 1

NxBootloader ==
    /\ board.bpmp = "loader"
    /\ IF nx = LoaderEnds(unit.fw)
       THEN board' = [board EXCEPT !.bpmp = "halted"] /\ UNCHANGED <<nx, dram>>
       ELSE /\ nx' = nx + 1
            /\ dram' = IF nx' = LoaderLoads(unit.fw) THEN Written(dram, StoredImage(unit)) ELSE dram
            /\ UNCHANGED board
    /\ UNCHANGED <<unit, at, se, tz, guard, slept>>

(* The warm boot firmware halts after it has powered the cores.            *)
HaltBpmp ==
    /\ board.bpmp = "lp0" /\ board' = [board EXCEPT !.bpmp = "halted"]
    /\ UNCHANGED <<unit, nx, at, se, tz, dram, guard, slept>>

-----------------------------------------------------------------------------
(* Configuration items.                                                    *)
Answer(v) == [result |-> 0, value |-> v]
NoItem    == [result |-> 2, value |-> 0]
Since(first, v) == IF unit.fw >= first THEN Answer(v) ELSE NoItem

fuse_get_dram_id(odm4) == (IF 5 \in odm4 THEN 4 ELSE 0) + (IF 4 \in odm4 THEN 2 ELSE 0)
                            + (IF 3 \in odm4 THEN 1 ELSE 0)

fuse_get_expected_fuse_version(u) ==
    IF ~is_retail(u) THEN (IF u.fw > 200 THEN 1 ELSE 0)
    ELSE CASE u.fw = 100 -> 1 [] u.fw = 300 -> 3 [] u.fw = 400 -> 5 [] u.fw = 500 -> 6
           [] u.fw = 620 -> 8 [] u.fw = 700 -> 9 [] u.fw = 1000 -> 13

ConfigItems == {"DISABLEPROGRAMVERIFICATION", "DRAMID", "VERSION", "HARDWARETYPE", "ISRETAIL",
                "ISRECOVERYBOOT", "BOOTREASON", "MEMORYARRANGE", "ISDEBUGMODE",
                "KERNELCONFIGURATION", "HIZMODE", "NEWHARDWARETYPE_5X", "PACKAGE2HASH_5X",
                "EXOSPHERE_VERSION", "SHOULD_BLANK_PRODINFO", "ALLOW_CAL_WRITES"}

configitem_get(privileged, item) ==
    CASE item = "DISABLEPROGRAMVERIFICATION" -> Answer(Config.noverify)
      [] item = "DRAMID"        -> Answer(fuse_get_dram_id(unit.odm4))
      [] item = "VERSION"       -> Answer(fuse_get_expected_fuse_version(unit))
      [] item = "HARDWARETYPE"  -> Answer(HardwareType(unit))
      [] item = "ISRETAIL"      -> Answer(fuse_get_retail_type(unit.odm4))
      [] item = "ISRECOVERYBOOT" -> Answer(Main.recovery)
      [] item = "BOOTREASON"    -> IF unit.fw < 400 THEN Answer("boot reason") ELSE NoItem
      [] item = "MEMORYARRANGE" ->
            Answer(bootconfig_get_memory_arrangement(Config, fuse_get_dram_id(unit.odm4)))
      [] item = "ISDEBUGMODE"   ->
            Answer((IF privileged THEN Main.debug_priv ELSE Main.debug_user)
                     \/ bootconfig_is_debug_mode(Config))
      [] item = "KERNELCONFIGURATION" ->
            Answer(<<bootconfig_get_kernel_configuration(Config, fuse_get_dram_id(unit.odm4)),
                     Main.handlers, Main.pmu>>)
      [] item = "HIZMODE"            -> Answer(Main.hiz)
      [] item = "NEWHARDWARETYPE_5X" -> Since(500, 0)
      [] item = "PACKAGE2HASH_5X"    -> IF Main.recovery THEN Since(500, Main.hash) ELSE NoItem
      [] item = "EXOSPHERE_VERSION"  -> Answer(<<unit.fw, Main.keys.rev>>)
      [] item = "SHOULD_BLANK_PRODINFO" -> Answer("blank prodinfo" \in unit.flags)
      [] item = "ALLOW_CAL_WRITES"      -> Answer("emummc" \in unit.flags \/ "cal writes" \in unit.flags)

Items == [privileged \in BOOLEAN |-> [item \in ConfigItems |-> configitem_get(privileged, item)]]

-----------------------------------------------------------------------------
(* Privileged calls of the kernel.                                         *)
KernelRuns == at \in {"kernel", "resumed"}
SetMain(main) == tz' = [tz EXCEPT !["main"] = <<"holds", main>>]
Counted == board.calls < MaxCalls /\ board' = [board EXCEPT !.calls = @ + 1]

smc_configure_carveout(id, address, size) ==
    /\ KernelRuns /\ Counted
    /\ unit.fw >= 200                                    \* set_version_specific_smcs
    /\ size <= KERNEL_CARVEOUT_SIZE_MAX /\ id <= 1
    /\ unit.fw < 300 => id \notin Main.configured
    /\ SetMain([Main EXCEPT !.carveouts[id + 4] = [address |-> address, size |-> size],
                            !.configured = @ \cup {id}])
    /\ guard' = [guard EXCEPT !.carveouts[id + 4] =
                    Carveout(address, size, KernelClients(unit.fw, id + 4))]
    /\ at' = "kernel"
    /\ UNCHANGED <<unit, nx, se, dram, slept>>

configitem_set_hizmode(v) ==
    /\ KernelRuns /\ Counted /\ Main.hiz # v
    /\ SetMain([Main EXCEPT !.hiz = v]) /\ at' = "kernel"
    /\ UNCHANGED <<unit, nx, se, dram, guard, slept>>

(* The payload that reboots or shuts down is left where the boot ROM looks.*)
configitem_set_reboot(kind) ==
    /\ KernelRuns
    /\ at' = "off"
    /\ board' = [board EXCEPT !.stub = IF kind = "rcm" THEN "none" ELSE kind]
    /\ UNCHANGED <<unit, nx, se, tz, dram, guard, slept>>

(* A user call that the Security Engine works on.                          *)
UserCall ==
    /\ KernelRuns /\ Counted /\ ~Main.user_busy
    /\ SetMain([Main EXCEPT !.user_busy = TRUE]) /\ at' = "kernel"
    /\ UNCHANGED <<unit, nx, se, dram, guard, slept>>

(* What is saved is encrypted first; the code that is part of no saved     *)
(* page goes on using its stack, and then the image is authenticated.      *)
AfterEncryption(u, memory) ==
    [memory EXCEPT ![IF u.fw >= 200 THEN "core012 stack" ELSE "core3 stack"] = <<"stack", "in use">>]

(* Mutant: the lock of privileged calls is cleared after the save.         *)
ForSleepLocked(main, entry) ==
    [main EXCEPT !.core_active = FALSE, !.entry = entry, !.has_suspended = TRUE]

ForSleep(main, entry) ==
    [main EXCEPT !.core_active = FALSE, !.entry = entry, !.has_suspended = TRUE, !.priv_busy = FALSE]

save_tzram_state(e, memory) ==
    LET keyed == se_generate_random_key(e, LP0TZRAMKEY)
    IN  [engine |-> keyed,
         image  |-> SavedImage(unit, memory),
         under  |-> keyed.key[LP0TZRAMKEY],
         cmac   |-> <<"cmac", keyed.key[LP0TZRAMKEY], SavedImage(unit, AfterEncryption(unit, memory))>>]

(* A console does not go to sleep while another core runs: it panics.      *)
mitigate_jamais_vu ==
    /\ KernelRuns /\ at' = "off"
    /\ UNCHANGED <<unit, nx, se, tz, dram, guard, board, slept>>

cpu_suspend(entry) ==
    LET called == [Main EXCEPT !.priv_busy = TRUE]
        memory == [tz EXCEPT !["main"] = <<"holds", ForSleep(called, entry)>>]
        stored == save_tzram_state(se, memory)
        saved  == se_save_context(stored.engine)
    IN  /\ KernelRuns /\ board.calls < MaxCalls /\ board.bpmp = "halted"
        /\ at' = "asleep"
        /\ board' = [board EXCEPT !.calls = @ + 1, !.hiz = @ \/ Main.hiz,
                                  !.bpmp = "sc7", !.image = stored.image, !.cmac = stored.cmac,
                                  !.context = <<saved.context>>]
        /\ slept' = <<[items |-> Items, main |-> Main, guard |-> guard, keys |-> se.key,
                       closed |-> se.closed, entry |-> entry]>>
        /\ se' = [EngineAtReset([s \in AesSlots |-> <<"lost">>]) EXCEPT !.drawn = saved.engine.drawn]
        /\ tz' = [s \in Segments |-> <<"lost">>]
        /\ guard' = GuardAtReset
        /\ UNCHANGED <<unit, nx, dram>>

-----------------------------------------------------------------------------
(* The boot ROM gives the engine its saved context back and runs the warm  *)
(* boot firmware, which restores TZRAM.                                    *)
EngineRestored(context, drawn) ==
    [EngineAtReset(context.key) EXCEPT !.closed = context.closed, !.drawn = drawn]

SavedSlots == {LP0TZRAMKEY, SESSIONKEY, RNGKEY, MASTERKEY, DEVICEKEY, OLDDEVICEKEY_4X}

(* A slot closed to updates stays even when it is cleared.                 *)
secmon_clear_unused_keyslots(e, fw) ==
    IF fw >= 500 THEN clear_aes_keyslots(e, AesSlots \ SavedSlots) ELSE e

secmon_decrypt_saved_image(e, image) == <<"cmac", e.key[LP0TZRAMKEY], image>>

disable_bpmp_access_to_dram(g) ==
    [g EXCEPT !.carveouts[4] = Carveout(0, 1, "not bpmp")]

lp0_entry_main ==
    LET woken == secmon_clear_unused_keyslots(
                    EngineRestored(Head(board.context), se.drawn), unit.fw)
    IN  /\ at = "asleep"
        /\ IF secmon_decrypt_saved_image(woken, board.image) # board.cmac
           THEN at' = "panic" /\ UNCHANGED <<se, tz, guard, board>>
           ELSE /\ at' = "woken"
                /\ se' = clear_aes_keyslot(woken, LP0TZRAMKEY)
                /\ tz' = RestoredMemory(unit, board.image)
                /\ guard' = IF unit.fw >= 400 THEN disable_bpmp_access_to_dram(guard) ELSE guard
                /\ board' = [board EXCEPT !.bpmp = "lp0", !.image = <<>>, !.cmac = <<>>]
        /\ UNCHANGED <<unit, nx, dram, slept>>

ClearsHiz == unit.fw < 400 \/ (unit.fw < 800 /\ HardwareType(unit) = 0) \/ Main.hiz

(* The core runs secured again; its first code is what the kernel named.   *)
warmboot_main ==
    /\ at = "woken"
    /\ IF tz["main"][1] # "holds" \/ tz["evt"][1] # "holds"
       THEN at' = "panic" /\ UNCHANGED <<se, tz, guard, board>>
       ELSE IF Main.core_active THEN at' = "panic" /\ UNCHANGED <<se, tz, guard, board>>
       ELSE LET booted  == GuardByBootup(guard, unit, Main.carveouts, TRUE)
                secured == secure_additional_devices(booted, unit.fw)
            IN  /\ unit.fw >= 400 => board.bpmp = "halted"     \* setup_4x_mmio waits
                /\ at' = "resumed"
                /\ se' = ClearForUse(se)
                /\ SetMain([Main EXCEPT !.user_busy = FALSE, !.core_active = TRUE])
                /\ guard' = [(IF unit.fw >= 400 THEN setup_4x_mmio(secured, unit) ELSE secured)
                                EXCEPT !.extabt = bootconfig_take_extabt_serror_to_el3(Config)]
                /\ board' = [board EXCEPT !.hiz = @ /\ ~ClearsHiz]
    /\ UNCHANGED <<unit, nx, dram, slept>>

-----------------------------------------------------------------------------
SecureBootInit ==
    /\ unit \in Units
    /\ nx = 0 /\ at = "reset" /\ dram = <<>> /\ guard = GuardAtReset /\ slept = <<>>
    /\ se = EngineAtReset([s \in AesSlots |-> <<"stale", s>>])
    /\ tz = [s \in Segments |-> <<"stack", "at rest">>]
    /\ board = [bpmp |-> "loader", hiz |-> FALSE, stub |-> "none", calls |-> 0,
                image |-> <<>>, cmac |-> <<>>, context |-> <<>>]

SecureBootNext ==
    \/ SetUp \/ LoadBootconfig \/ copy_warmboot_bin_to_dram \/ load_package2 \/ FinishBoot
    \/ NxBootloader \/ HaltBpmp
    \/ \E id \in 0..1 : smc_configure_carveout(id, 7, 3)
    \/ \E v \in BOOLEAN : configitem_set_hizmode(v)
    \/ \E kind \in {"rcm", "reboot", "shutdown"} : configitem_set_reboot(kind)
    \/ UserCall \/ mitigate_jamais_vu
    \/ cpu_suspend(<<"kernel", "resume">>)
    \/ lp0_entry_main \/ warmboot_main

-----------------------------------------------------------------------------
(* What package2 has to be, by sets of units.                              *)
SectionUnits(meta, s) == meta.offsets[s]..(meta.offsets[s] + meta.sizes[s] - 1)

WellFormed(meta) ==
    /\ meta.magic /\ meta.entry_aligned /\ meta.header_version <= 11 /\ meta.version_min < 14
    /\ meta.size \in 2..PACKAGE2_SIZE_MAX
    /\ meta.size = 1 + meta.sizes[1] + meta.sizes[2] + meta.sizes[3]
    /\ \A s, t \in 1..3 : s # t => SectionUnits(meta, s) \cap SectionUnits(meta, t) = {}
    /\ \A s \in 1..3 : meta.offsets[s] + meta.sizes[s] < W
    /\ meta.entry \in UNION {SectionUnits(meta, s) : s \in 1..3}

(* Plain with an empty signature, or under a key not newer than the unit's;*)
(* a developer's configuration may ask for plain ones.                     *)
MayBoot(u) ==
    LET asked == ~is_retail(u) /\ ~u.signature_good /\ u.matches_hardware
                    /\ "plaintext" \in u.bootconfig.package2
    IN  /\ WellFormed(u.image.meta)
        /\ IF u.image.under = Zero THEN asked \/ u.image.zero_signature
           ELSE ~asked /\ \E r \in 0..u.revision : u.image.under = Package2Key(MasterKey(r))

Booted == at \in {"finishing", "kernel", "resumed", "asleep", "woken", "off"}

(* An image is started exactly when it may be.                             *)
ImagesJudged == /\ Booted => MayBoot(unit)
                /\ at = "panic" => ~MayBoot(unit)

(* Its sections are whole and in the clear where the header wants them,    *)
(* the warm boot binary has survived the moving about, and no other word   *)
(* of the image is left.                                                   *)
ImageInPlace ==
    LET meta == unit.image.meta
        places == UNION {SectionUnits(meta, s) : s \in 1..3}
    IN  Booted =>
          /\ DOMAIN dram = places \cup (IF unit.fw >= 400 THEN {Warmboot} ELSE {})
          /\ \A s \in 1..3 : \A i \in 0..(meta.sizes[s] - 1) :
                dram[meta.offsets[s] + i] = <<"word", s, i>>
          /\ unit.fw >= 400 => dram[Warmboot] = <<"warmboot binary">>

(* Whatever calls borrowed slots, the keys of every revision are found,    *)
(* the random and session keys hang on the unit's device key, and the key  *)
(* the others were generated with is gone.                                 *)
KeyOf(found) == found.engine.key[found.slot]
KeysInPlace ==
    at \in {"kernel", "resumed", "finishing"} =>
        /\ \A r \in 0..unit.revision :
              /\ KeyOf(mkey_get_keyslot(se, Main.keys, r)) = MasterKey(r)
              /\ unit.fw >= 400 =>
                    KeyOf(devkey_get_keyslot(se, Main.keys, r)) =
                        IF r < REVISION_400 THEN OldDeviceKey ELSE NewDeviceKey(r)
        /\ se.key[DEVICEKEY] = DeviceKey(unit)
        /\ se.key[SESSIONKEY] # se.key[RNGKEY]
        /\ \A slot \in {SESSIONKEY, RNGKEY} :
              slot \in se.closed /\ \E n \in 0..se.drawn :
                 se.key[slot] = Decrypted(DeviceKey(unit), Random(n))
        /\ \A slot \in AesSlots : se.key[slot] # Keygen

(* No wait is for a state the boot loader never reaches.                   *)
NoWaitForever == AwaitedState(unit.fw, at) <= LoaderEnds(unit.fw)

(* A console that wakes is as protected, as configured and as keyed as it  *)
(* was, has none of its calls under way, and its core goes where the       *)
(* kernel told it to.                                                      *)
AwakeAsBefore ==
    at = "resumed" =>
        LET s == slept[1]
        IN  /\ Items = s.items
            /\ Main = [s.main EXCEPT !.entry = s.entry, !.has_suspended = TRUE, !.user_busy = FALSE]
            /\ s.guard.devices \subseteq guard.devices
            /\ guard = [s.guard EXCEPT !.devices = guard.devices, !.ahb = "closed"]
            /\ \A slot \in {SESSIONKEY, RNGKEY, MASTERKEY, DEVICEKEY} : se.key[slot] = s.keys[slot]
            /\ unit.fw >= 400 => se.key[OLDDEVICEKEY_4X] = s.keys[OLDDEVICEKEY_4X]
            /\ se.closed = s.closed /\ ~board.hiz

SecureBoots ==
    ImagesJudged /\ ImageInPlace /\ KeysInPlace /\ NoWaitForever /\ AwakeAsBefore
=============================================================================
