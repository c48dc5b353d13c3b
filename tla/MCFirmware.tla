---------------------------- MODULE MCFirmware ----------------------------
(***************************************************************************)
(* The smaller machines of exosphere and of the boot sysmodule, in one     *)
(* run.  Each is a program of its own: the variable firmware names the one *)
(* a behaviour is of, and the others stay idle.                            *)
(***************************************************************************)
EXTENDS SecureMonitor, RandomCache, CoreBoot, BootBattery

CONSTANTS
    MaxDriverSessions, FifoDepth, RegisterIds, MaxRetries, MaxTries,  \* of I2cDriver
    MaxCalls, ImageOffsets,                                           \* of SecureBoot
    MaxSplCalls, MaxSplSleeps,                                        \* of SplKeys
    SmcCores,                                                         \* of MonitorCalls
    HashBytes, RsaBytes                                               \* of Ciphers

VARIABLES
    firmware,
    shows, display, powered, initialized, mapped, vendor,
    ref_cnt, sessions, open_sessions, configured, drivers, icon,
    bus, request, phase, stage, words, attempt, tries, ctl, wire, device,
    unit, nx, at, se, tz, dram, guard, board, slept,
    monitor, user_lock, keyslot_owners, keyslot_available, clients, call, in_slot, uncleared,
    imports, answer, spl_calls, spl_sleeps,
    smc_fw, smc_at, smc_call, old_value, priv_smc, user_smc, ams_pages, register, written, stopped,
    soc_rep               \* what the gauge reads when the charging icon is drawn

displayVars  == <<shows, display, powered, initialized, mapped, vendor>>
sessionVars  == <<ref_cnt, sessions, open_sessions, configured, drivers, icon>>
transferVars == <<bus, request, phase, stage, words, attempt, tries, ctl, wire, device>>
secureVars   == <<unit, nx, at, se, tz, dram, guard, board, slept>>
splVars      == <<monitor, user_lock, keyslot_owners, keyslot_available, clients, call, in_slot,
                  uncleared, imports, answer, spl_calls, spl_sleeps>>
callVars     == <<smc_fw, smc_at, smc_call, old_value, priv_smc, user_smc, ams_pages,
                  register, written, stopped>>
bootVars     == <<batteryVars, displayVars, sessionVars, transferVars>>
exosphereVars == <<vars, cacheVars, coreVars, secureVars, splVars, callVars>>

Display == INSTANCE BootDisplay
I2c     == INSTANCE I2cDriver

(* Consoles: every firmware with its newest key, retail and developer fuses *)
(* and all kinds of configuration, with an image each that is old, plain   *)
(* (marked so or not) or too new; and one firmware with the images whose   *)
(* sections lie anywhere, of all sizes, right or wrong.                    *)
SeKeys  == INSTANCE SecurityEngine
Firmwares == <<100, 300, 400, 500, 620, 700, 1000>>
NewestKey == [fw \in {Firmwares[i] : i \in 1..7} |->
                <<0, 2, 3, 4, 6, 7, 10>>[CHOOSE i \in 1..7 : Firmwares[i] = fw]]
ImageKey(r) == SeKeys!AesDecrypt(SeKeys!MasterKey(r), SeKeys!Source("package2", 0))
ImageMeta(size, sizes, offsets, entry) ==
    [magic |-> TRUE, size |-> size, header_version |-> 2, entry_aligned |-> TRUE,
     sizes |-> sizes, offsets |-> offsets, entry |-> entry, version_min |-> 3, version_max |-> 3]
Image(under, meta, zero_signature) ==
    [under |-> under, meta |-> meta, zero_signature |-> zero_signature,
     stored |-> LET whole == 1 + meta.sizes[1] + meta.sizes[2] + meta.sizes[3]
                IN  IF whole < 8 THEN whole ELSE 8]
Console(fw, odm4, signature_good, recovery, debugging, image) ==
    [fw |-> fw, odm4 |-> odm4, revision |-> NewestKey[fw], signature_good |-> signature_good,
     matches_hardware |-> TRUE, recovery |-> recovery, debugging |-> debugging,
     flags |-> {"pmu", "debug user"}, image |-> image,
     bootconfig |-> [package2 |-> {"plaintext"}, noverify |-> TRUE, d10 |-> {1}, d11 |-> 3,
                     d21 |-> 5, d23 |-> 33]]
VendorMeta == ImageMeta(7, <<2, 3, 1>>, <<1, 90, 20>>, 1)
ScatteredImages ==
    {Image(ImageKey(4), ImageMeta(z[1], z[2], <<a, b, c>>, e), FALSE) :
        z \in {<<7, <<2, 3, 1>> >>, <<8, <<2, 0, 5>> >>, <<6, <<2, 3, 1>> >>,
               <<8, <<2, 2, 3>> >>, <<5, <<2, 4090, 4>> >>},
        a \in {1, 7}, b \in ImageOffsets, c \in ImageOffsets \cup {4093}, e \in {1, 26}}
Units ==
    {Console(500, {9, 2}, FALSE, FALSE, FALSE, image) : image \in ScatteredImages}
    \cup {Console(fw, odm4, k = "recovery", k = "recovery", k = "debugging", image) :
            fw \in DOMAIN NewestKey, odm4 \in {{9, 2}, {9, 8, 16}, {0, 1}},
            k \in {"plain", "recovery", "debugging"},
            image \in {Image(ImageKey(0), VendorMeta, FALSE), Image(ImageKey(5), VendorMeta, FALSE),
                       Image(SeKeys!Zero, VendorMeta, FALSE), Image(SeKeys!Zero, VendorMeta, TRUE)}}
Secure  == INSTANCE SecureBoot
Spl     == INSTANCE SplKeys
SplAsks == INSTANCE SplRequests
Smcs    == INSTANCE MonitorCalls
Pins    == INSTANCE BootPins
CiphersOf == INSTANCE Ciphers

(* The console's monitor as spl finds it.                                  *)
MonitorOf(f, retail, recovery) == Spl!Booted([fw |-> f, revision |-> NewestKey[f]], retail, recovery)

(* One state of each machine of boot for the behaviours of another.        *)
BatteryIdle  == /\ BatteryInit
                /\ version = CHOOSE v \in BatteryVersions : TRUE
                /\ hw_type = CHOOSE h \in HardwareTypes : TRUE
DisplayIdle  == Display!DisplayInit /\ vendor = "unknown" /\ shows = <<"splash">>
TransferIdle == /\ I2c!TransferInit /\ bus = "I2C1"
                /\ request = CHOOSE r \in I2c!Requests : TRUE
                /\ device.selected = CHOOSE r \in RegisterIds : TRUE
SecureIdle   == /\ unit = 0 /\ nx = 0 /\ at = 0 /\ se = 0 /\ tz = 0
                /\ dram = 0 /\ guard = 0 /\ board = 0 /\ slept = 0
SplIdle      == /\ monitor = 0 /\ user_lock = 0 /\ keyslot_owners = 0 /\ keyslot_available = 0
                /\ clients = 0 /\ call = 0 /\ in_slot = 0 /\ uncleared = 0 /\ imports = 0
                /\ answer = 0 /\ spl_calls = 0 /\ spl_sleeps = 0

(* What a gauge may read: 256ths of a percent, every quarter.              *)
SocReps == {64 * i : i \in 0..1019}

Machines == {"monitor", "random cache", "cores", "secure boot", "spl slots", "spl secrets", "spl requests",
             "calls", "call tables", "ciphers", "pins",
             "battery", "display", "i2c sessions", "i2c transfers", "icons"}

FirmwareInit ==
    /\ firmware \in Machines
    /\ Init /\ CacheInit /\ CoreInit /\ I2c!SessionInit
    /\ IF firmware = "battery" THEN BatteryInit ELSE BatteryIdle
    /\ IF firmware = "display" THEN Display!DisplayInit ELSE DisplayIdle
    /\ IF firmware = "i2c transfers" THEN I2c!TransferInit ELSE TransferIdle
    /\ IF firmware = "secure boot" THEN Secure!SecureBootInit ELSE SecureIdle
    /\ IF firmware = "icons" THEN soc_rep \in SocReps ELSE soc_rep = 0
    /\ CASE firmware = "spl slots" ->
               \E f \in {100, 300, 620} : monitor = MonitorOf(f, TRUE, FALSE) /\ Spl!SplInit
         [] firmware = "spl secrets" ->
               \E f \in {400, 1000} : monitor = MonitorOf(f, TRUE, FALSE) /\ Spl!SplInit
         [] firmware = "spl requests" ->
               \E f \in DOMAIN NewestKey, retail, recovery \in BOOLEAN :
                  /\ monitor = MonitorOf(f, retail, recovery) /\ Spl!SplStarts
                  /\ spl_calls \in 0..13
         [] OTHER -> SplIdle
    /\ Smcs!CallsInit
    /\ IF firmware \in {"call tables", "pins"} THEN smc_fw \in DOMAIN NewestKey ELSE smc_fw = 500

ExosphereNext ==
    \/ firmware = "monitor" /\ Next /\ UNCHANGED <<cacheVars, coreVars, secureVars, splVars, callVars>>
    \/ /\ firmware = "random cache" /\ CacheNext
       /\ UNCHANGED <<vars, coreVars, secureVars, splVars, callVars>>
    \/ /\ firmware = "cores" /\ CoreNext
       /\ UNCHANGED <<vars, cacheVars, secureVars, splVars, callVars>>
    \/ /\ firmware = "secure boot" /\ Secure!SecureBootNext
       /\ UNCHANGED <<vars, cacheVars, coreVars, splVars, callVars>>
    \/ /\ UNCHANGED <<vars, cacheVars, coreVars, secureVars>>
       /\ \/ firmware = "spl slots" /\ Spl!SlotsNext /\ UNCHANGED callVars
          \/ firmware = "spl secrets" /\ Spl!SecretsNext /\ UNCHANGED callVars
          \/ firmware = "calls" /\ Smcs!CallsNext /\ UNCHANGED splVars

BootNext ==
    \/ /\ firmware = "battery" /\ BatteryNext
       /\ UNCHANGED <<displayVars, sessionVars, transferVars>>
    \/ /\ firmware = "display" /\ Display!DisplayNext
       /\ UNCHANGED <<batteryVars, sessionVars, transferVars>>
    \/ /\ firmware = "i2c sessions" /\ I2c!SessionNext
       /\ UNCHANGED <<batteryVars, displayVars, transferVars>>
    \/ /\ firmware = "i2c transfers" /\ I2c!TransferNext
       /\ UNCHANGED <<batteryVars, displayVars, sessionVars>>

FirmwareNext ==
    /\ UNCHANGED <<firmware, soc_rep>>
    /\ \/ ExosphereNext /\ UNCHANGED bootVars
       \/ BootNext /\ UNCHANGED exosphereVars

CoreStep(c) == firmware = "cores" /\ BootStep(c)
               /\ UNCHANGED <<vars, cacheVars, secureVars, splVars, callVars>>

(* The engine and the processor do their part; spl answers interrupts.  An *)
(* idle monitor has nothing to do.                                         *)
FirmwareSpec ==
    /\ FirmwareInit
    /\ [][FirmwareNext]_<<firmware, soc_rep, exosphereVars, bootVars>>
    /\ WF_vars(Engine) /\ WF_vars(Answer) /\ WF_vars(KernelRandomDone) /\ WF_vars(Warmboot)
    /\ \A c \in Cores : WF_coreVars(CoreStep(c))

(* CoresBoot of CoreBoot, of the machine that runs.                        *)
CoresComeUp == \A c \in Cores : firmware = "cores" /\ pc[c] = "start" ~> pc[c] = "kernel"

(* exosphere starts the images it should, whole, with its keys in place,   *)
(* and wakes as it slept.                                                  *)
SecureBoots == firmware = "secure boot" => Secure!SecureBoots

(* Requests of all kinds, on consoles of all firmwares.                    *)
Sizes == {0, 16, 17, 47, 48, 49, 64, 271, 272, 303, 304, 305, 544, 560, 575, 576, 577,
          640, 641}
SplRequestsRight(m, generation) ==
    /\ \A options \in 0..256 : SplAsks!KekRight(m, generation, options)
    /\ \A which \in 0..2 : SplAsks!SpecificRight(m, generation, which)
    /\ SplAsks!CommonTitleRight(m, generation)
    /\ generation = 0 =>       \* what has no generation
          /\ \A size \in Sizes, of \in {"this device", "another"} :
                /\ \A dst \in {0, 16, 256, 576}, option \in 0..2 :
                      SplAsks!PrivateKeysRight(m, size, dst, of, option)
                /\ \A oaep \in BOOLEAN, option \in 0..2 : SplAsks!LoadedRight(m, size, oaep, option, of)
          /\ m.fw >= 500 => \A size \in Sizes, use, as \in 0..4 : SplAsks!ReEncryptedRight(m, size, use, as)
          /\ \A drawn \in {1, 2147483631, 2147483632, 2147483633}, seeded \in BOOLEAN,
                size \in {0, 1, 16, 65535, 65536, 65537, 200000} :
                SplAsks!RandomRight([reseed_counter |-> drawn, seeds |-> 0], size, seeded)
          /\ \A a, b \in [offset : {0, 1, 1023}, pages : {1, 1024, 195584, 195585, 196608, 196609}] :
                SplAsks!MapsApart(a, b)
          /\ \A addr \in {0, 1, 4095}, size \in {16, 4080, 4096, 4112} : SplAsks!PagesHold(addr, size)

(* Calls of all kinds, by all cores, on a firmware.                        *)
Offsets == {0, 4, 8, 2048, 4000, 4088, 4092, 4095}
SmcsRight(fw) ==
    /\ Smcs!HandlersReached(fw) /\ Smcs!MonitorsRegistersKept(fw)
    /\ \A device_of \in {"PMC", "MC", "MC0", "MC1", "none"},
          i \in (0..31) \cup {143, 166} \cup {7 * j : j \in 5..121} :
          Smcs!RegisterWrittenRight(fw, device_of, 4 * i)
    /\ fw = 100 =>       \* what is the same for all
          \A offset \in Offsets, page \in {-1, 0, 63, 64, 1572863, 1572864} :
             LET address == [page |-> page, offset |-> offset]
             IN  /\ \A size \in {0, 1, 2, 4, 8, 12, 4096, 4100} : Smcs!WriteInsidePage(address, size)
                 /\ \A other, size \in Offsets \cup {4096}, option \in 0..2 :
                       Smcs!CopyInsidePages(address, [page |-> 63, offset |-> other], size, option)
                 /\ \A type \in {"none", "partition", "files", "unknown"}, of_nand \in BOOLEAN,
                       near \in {offset, 3840} :
                       Smcs!EmummcInsidePage(type, of_nand, [address EXCEPT !.offset = near])
                 /\ \A size \in Offsets \cup {4096, 9000} :
                       Smcs!UserPagePinned([page |-> page, offset |-> 0], address, size)

(* exosphere keeps the calls of the cores apart, and the keys of spl's     *)
(* clients their own, in slots and out of them; its ciphers and paddings   *)
(* are those of the standards.                                             *)
MonitorServes ==
    /\ firmware = "spl requests" => SplRequestsRight(monitor, spl_calls)
    /\ firmware = "spl slots" => Spl!SlotsGuarded
    /\ firmware = "spl secrets" => Spl!SecretsKept
    /\ firmware = "calls" => Smcs!CallsGuarded
    /\ firmware = "call tables" => SmcsRight(smc_fw)
    /\ firmware = "ciphers" => CiphersOf!CiphersRight

(* boot's display is powered and cut in order and drawn inside its frame   *)
(* buffer; its I2C sessions and buses match and its transfers are true;    *)
(* the console's pins are what they should be when it is done.             *)
BootServes ==
    /\ firmware = "display" => Display!DisplayOrdered
    /\ firmware = "icons" => Display!IconsDrawnInside(soc_rep)
    /\ firmware = "pins" => Pins!PinsRight(smc_fw)
    /\ firmware = "i2c sessions" => I2c!SessionsMatch
    /\ firmware = "i2c transfers" => I2c!TransfersTrue
=============================================================================
