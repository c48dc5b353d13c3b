----------------------------- MODULE MCServers -----------------------------
(***************************************************************************)
(* The smaller machines of the sysmodules, in one run.  Each is a program  *)
(* of its own: the variable server names the one a behaviour is of, and    *)
(* the others stay idle.  A computation has no steps: case is its input.   *)
(***************************************************************************)
EXTENDS PmResourceManager, RoService, Loader, FsMitm, FatalService, SequencesExt

CONSTANTS
    ByteValues, NumRegisters, MemorySize, HeapBase, MaximumProgramOpcodeCount,  \* of CheatVm
    Programs, MaxCheatCount, MaxOpcodes,                                        \* of CheatFile
    MaxCachedSize, DirectoryEntrySize, FileEntrySize, NameAlign, FileAlign,     \* of RomFs
    HashEntrySize, HeaderSize, FilePartitionOffset,
    SizeMax, EmptyInterruptId, Page, ArgumentsOverhead, AslrSize,               \* of MCLoader
    SystemResourceSizeMax,
    SectorSize, BctSize, BctPubkStart, BctPubkEnd, BctEndOffset,                \* of Boot0Storage
    EksStart, EksEnd,
    MaxEntries, ValueStorageSize, WorkPage, PayloadSize, IramSize, PayloadStart, \* of RnxMitm
    ThreadCountMax, ModuleCountMax, StackDump                                   \* of CrashReport

VARIABLES
    server, case,
    program, vm, held, cheats,
    defaults, text, toggles_txt, attached, cheat_entries, should_save_cheat_toggles, read, chosen, fresh,
    sd_card, init_thread, init_event, modules, reboot_type, payload_loaded, throwing, rebooted

pmVars == vars
vmVars == <<program, vm, held, cheats>>
fileVars == <<defaults, text, toggles_txt, attached, cheat_entries, should_save_cheat_toggles,
              read, chosen, fresh>>
ldrVars == <<cached, meta, pins, arguments, external_code, launched, launch,
             processes, launches>>
mitmVars == <<sd_card, init_thread, init_event, modules, reboot_type, payload_loaded,
              throwing, rebooted>>
rnxVars == <<storageVars, saveVars, mitmVars>>
serversVars == <<server, case, pmVars, vmVars, fileVars, ldrVars, rnxVars, fatalVars, roVars>>

Vm    == INSTANCE MCCheatVm
File  == INSTANCE MCCheatFile
RomFs == INSTANCE RomFs
Layout == INSTANCE MCLoader
Boot0 == INSTANCE Boot0Storage
Rnx   == INSTANCE MCRnxMitm
Crash == INSTANCE CrashReport

(* A session of ldr:ro, for app, and one of ro:1, for app or applet; a     *)
(* module that is there twice, as big and without data as copy; and two    *)
(* registries: own lists it, for app; foreign lists another, for applet.   *)
RoSessionType == [s \in {"s1", "s3"} |-> IF s = "s3" THEN "ForOthers" ELSE "ForSelf"]
RoAccess == {<<"app", "s1">>, <<"app", "s3">>, <<"applet", "s3">>}
RoImage == [a \in {"big", "copy"} |->
    [module |-> "m1", bss |-> a = "big", rw |-> a # "copy", valid |-> TRUE]]
RoListing == [r \in {"own", "foreign"} |->
    [hashes  |-> IF r = "own" THEN {"m1"} ELSE {"m2"},
     program |-> IF r = "own" THEN "app" ELSE "applet",
     type    |-> IF r = "own" THEN "ForSelf" ELSE "ForOthers",
     valid   |-> TRUE]]

---------------------------------------------------------------------------
(* The trees the layered romfs is checked with: each source has any of     *)
(* four files (names that sort around the slash, names longer than a chunk *)
(* of the tables, empty files), with or without padding of its own.        *)

A    == <<4>>
B    == <<5>>
Dot  == <<4, 2>>
Long == <<5, 4, 5, 4, 5>>

Files == {<<A, A>>, <<A, B, Long>>, <<Dot, B>>, <<B>>}

DirsOf(files) ==
    {RomFs!Root} \cup {RomFs!Parent(f) : f \in files}
        \cup {RomFs!Parent(RomFs!Parent(f)) : f \in {g \in files : Len(g) > 1}}

(* The romfs of a program: its files in order, aligned, with a gap.        *)
Laid(files, size, gap) ==
    LET place(st, f) ==
            LET at == RomFs!AlignUp(st.at, FileAlign) + gap[f]
            IN  [files |-> (f :> [size |-> size[f], offset |-> at]) @@ st.files, at |-> at + size[f]]
    IN  [dirs |-> DirsOf(files),
         files |-> FoldLeft(place, [files |-> <<>>, at |-> 0], RomFs!Sorted(files)).files]

Sizes1 == (<<A, A>> :> 0 @@ <<A, B, Long>> :> 3 @@ <<Dot, B>> :> 4 @@ <<B>> :> 1)
Sizes2 == (<<A, A>> :> 5 @@ <<A, B, Long>> :> 0 @@ <<Dot, B>> :> 1 @@ <<B>> :> 6)
NoGap  == [f \in Files |-> 0]
OneGap == [NoGap EXCEPT ![<<Dot, B>>] = FileAlign]

Sources(size, gap) == {Laid(files, size, gap) : files \in SUBSET Files}

RomFsCases == {[sd |-> s, file |-> f, storage |-> t] :
    s \in Sources(Sizes2, NoGap), f \in Sources(Sizes1, OneGap), t \in Sources(Sizes2, OneGap)}

(* See RomFs.                                                              *)
ServesMergedTree(c) ==
    /\ RomFs!ReadsPreferredFiles(c.sd, c.file, c.storage, {1, 4, 30})
    /\ RomFs!TablesDescribeTree(c.sd, c.file, c.storage)

(* Every write to a small BOOT0: three BCTs whose public key crosses a     *)
(* sector, keyblobs of two sectors, and a sector between and behind them.  *)
ImageSize == EksEnd + SectorSize
OldImage == [n \in 1..ImageSize |-> <<"old", n>>]
Data(offset, size) == [n \in 1..size |-> <<"new", offset + n>>]

Boot0Cases ==
    {c \in [offset : 0..(ImageSize - 1), size : 0..ImageSize, left : 0..4,
            client : {"ns", "hbl", "other"}, patched : BOOLEAN] :
        c.offset + c.size <= ImageSize}

(* See Boot0Storage.                                                       *)
Boot0Kept(c) ==
    /\ Boot0!WritesWhatItMay(OldImage, c.offset, Data(c.offset, c.size), c.left,
                             Boot0!CanModifyBctPublicKey(c.client, c.patched))
    /\ Boot0!ReadsBack(OldImage, c.offset, c.size)

---------------------------------------------------------------------------
PmIdle   == version5 = FALSE /\ Init
VmIdle   == Vm!Start(<<>>, 0)
LdrIdle  == LoaderInit
FileIdle == /\ defaults = [enable_cheats_by_default |-> FALSE, always_save_cheat_toggles |-> FALSE]
            /\ File!Start([p \in Programs |-> <<>>], [p \in Programs |-> <<>>])
RnxIdle  == /\ game_of = [c \in FsSessions |-> CHOOSE p \in GamePrograms : TRUE] /\ StorageInit
            /\ SaveInit
            /\ sd_card = [payload |-> TRUE, parses |-> TRUE, reboot_function |-> "ToRcm"] /\ Rnx!MitmInit

FatalIdle == setup = [transition_to_fatal |-> TRUE, auto_reboot_interval |-> 0] /\ FatalInit

(* The inputs of the machines that are computations.                       *)
ComputationInit ==
    \/ server = "romfs" /\ case \in RomFsCases
    \/ server = "process layout" /\ case \in Layout!Cases
    \/ server = "boot0" /\ case \in Boot0Cases
    \/ server = "creport" /\ case \in Crash!CrashCases
    \/ server = "settings" /\ case \in Rnx!SettingsCases
    \/ server \in {"save paths", "reboot payload"} /\ case = 0

(* Every machine idle, or all but the one that runs.                       *)
MachinesInit ==
    \/ /\ PmIdle /\ VmIdle /\ FileIdle /\ LdrIdle /\ RnxIdle /\ FatalIdle
       /\ ComputationInit
    \/ /\ case = 0
       /\ \/ server = "pm" /\ Init /\ VmIdle /\ FileIdle /\ LdrIdle /\ RnxIdle /\ FatalIdle
          \/ /\ \/ server = "cheat vm" /\ Vm!Init
                \/ server = "unmatched cheat" /\ Vm!InitUnmatched
             /\ PmIdle /\ FileIdle /\ LdrIdle /\ RnxIdle /\ FatalIdle
          \/ /\ \/ server = "cheat text" /\ File!InitParse
                \/ server = "cheat toggles" /\ File!Init
             /\ PmIdle /\ VmIdle /\ LdrIdle /\ RnxIdle /\ FatalIdle
          \/ /\ server \in {"loader", "redirected save", "ro"}
             /\ PmIdle /\ VmIdle /\ FileIdle /\ LdrIdle /\ RnxIdle /\ FatalIdle
          \/ /\ \/ /\ server = "fs mitm" /\ StorageInit /\ SaveInit /\ Rnx!MitmInit
                   /\ sd_card = [payload |-> TRUE, parses |-> TRUE, reboot_function |-> "ToRcm"]
                \/ /\ server = "rnx mitm" /\ StorageInit /\ SaveInit /\ Rnx!MitmInit
                   /\ game_of = [c \in FsSessions |-> CHOOSE p \in GamePrograms : TRUE]
             /\ PmIdle /\ VmIdle /\ FileIdle /\ LdrIdle /\ FatalIdle
          \/ /\ server = "fatal" /\ FatalInit
             /\ PmIdle /\ VmIdle /\ FileIdle /\ LdrIdle /\ RnxIdle

ServersInit == MachinesInit /\ RoInit

RnxNext ==
    \/ server = "fs mitm" /\ StorageNext /\ UNCHANGED <<saveVars, mitmVars>>
    \/ server = "redirected save" /\ SaveNext /\ UNCHANGED <<storageVars, mitmVars>>
    \/ server = "rnx mitm" /\ Rnx!MitmNext /\ UNCHANGED <<storageVars, saveVars>>

MachinesNext ==
    \/ server = "pm" /\ Next /\ UNCHANGED <<vmVars, fileVars, ldrVars, rnxVars, fatalVars>>
    \/ /\ server \in {"cheat vm", "unmatched cheat"} /\ Vm!Next
       /\ UNCHANGED <<pmVars, fileVars, ldrVars, rnxVars, fatalVars>>
    \/ /\ server = "cheat toggles" /\ File!Next
       /\ UNCHANGED <<pmVars, vmVars, ldrVars, rnxVars, fatalVars>>
    \/ /\ server = "loader" /\ LoaderNext
       /\ UNCHANGED <<pmVars, vmVars, fileVars, rnxVars, fatalVars>>
    \/ RnxNext /\ UNCHANGED <<pmVars, vmVars, fileVars, ldrVars, fatalVars>>
    \/ /\ server = "fatal" /\ FatalNext
       /\ UNCHANGED <<pmVars, vmVars, fileVars, ldrVars, rnxVars>>

ServersNext ==
    /\ UNCHANGED <<server, case>>
    /\ \/ MachinesNext /\ UNCHANGED roVars
       \/ /\ server = "ro" /\ RoNext
          /\ UNCHANGED <<pmVars, vmVars, fileVars, ldrVars, rnxVars, fatalVars>>

ServersSpec == ServersInit /\ [][ServersNext]_serversVars

(* Cheat programs do what their text says, and cheats and toggles are kept *)
(* as the card has them.                                                   *)
CheatsKept ==
    /\ server = "cheat vm" => Vm!RunsAsWritten
    /\ server \in {"cheat vm", "unmatched cheat"} => Vm!DepthNeverInvalid
    /\ server \in {"cheat text", "cheat toggles"} => File!CheatFilesKept

(* loader lays a process out as it declares, with capabilities it may have.*)
CreatedAsDeclared ==
    server = "process layout" => Layout!CapabilitiesAllowed(case) /\ Layout!ProcessLaidOut(case)

(* rnx_mitm serves merged and redirected files, settings and reboots.      *)
RnxMitmServes ==
    /\ server = "romfs" => ServesMergedTree(case)
    /\ server = "boot0" => Boot0Kept(case)
    /\ server = "save paths" => SavesApart
    /\ server = "fs mitm" => RequestsGoOn
    /\ server = "redirected save" => CommitsKept
    /\ server = "settings" => Rnx!SettingsServed(case)
    /\ server = "reboot payload" => Rnx!PayloadWhole
    /\ server = "rnx mitm" => Rnx!RebootsAsChosen

(* creport names what crashed.                                             *)
CrashesReported == server = "creport" => Crash!CrashReported(case)
=============================================================================
