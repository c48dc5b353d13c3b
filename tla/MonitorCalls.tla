---------------------------- MODULE MonitorCalls ----------------------------
(***************************************************************************)
(* How exosphere is called (exceptions.s, smc_api.c, smc_ams.c,            *)
(* userpage.c): an SMC of core 3 runs at once, on a stack of its own, and  *)
(* those of the other cores one at a time, on a stack they share, behind   *)
(* the lock of the privileged SMCs.  call_smc_handler finds the handler in *)
(* the tables of the firmware.  A register is read and written back in two *)
(* steps, and a copy maps its pages while it lasts.                        *)
(*                                                                         *)
(* The id of an SMC is its top byte and the rest.  An address of memory is *)
(* its page, counted from the start of DRAM or of IRAM, and its offset.    *)
(* The register the cores write has a bit for each of them.                *)
(***************************************************************************)
EXTENDS Integers, Sequences

CONSTANT SmcCores       \* of 0..3: the cores of the machine

VARIABLES
    smc_fw,             \* the target firmware
    smc_at, smc_call,   \* where each core is in the monitor, and what it asked
    old_value,          \* the register, as each core read it
    priv_smc, user_smc, \* g_is_priv_smc_in_progress, g_is_user_smc_in_progress
    ams_pages,          \* the pages mapped for a copy: g_ams_userpage_mapped, ..iram..
    register, written,  \* the register, and history: the bits cores wrote
    stopped             \* the monitor panicked

callVars == <<smc_fw, smc_at, smc_call, old_value, priv_smc, user_smc, ams_pages,
              register, written, stopped>>

-----------------------------------------------------------------------------
(* The tables: id, blacklist mask, handler.                                *)
SMC_HANDLER_USER  == 0
SMC_HANDLER_PRIV  == 1
SMC_HANDLER_COUNT == 2
SMC_CALL_RANGE_TRUSTED_APP == 48

Id(top, rest) == <<top, rest>>
NoHandler == <<Id(0, 0), 4, "none">>

g_smc_user_table == <<
    NoHandler,
    <<Id(\hC3, \h401), 4, "set_config_user">>,     <<Id(\hC3, \h002), 1, "get_config_user">>,
    <<Id(\hC3, \h003), 1, "check_status">>,        <<Id(\hC3, \h404), 1, "get_result">>,
    <<Id(\hC3, \hE05), 4, "exp_mod">>,             <<Id(\hC3, \h006), 1, "get_random_bytes_for_user">>,
    <<Id(\hC3, \h007), 1, "generate_aes_kek">>,    <<Id(\hC3, \h008), 1, "load_aes_key">>,
    <<Id(\hC3, \h009), 1, "crypt_aes">>,           <<Id(\hC3, \h00A), 1, "generate_specific_aes_key">>,
    <<Id(\hC3, \h40B), 1, "compute_cmac">>,        <<Id(\hC3, \h100C), 1, "load_rsa_oaep_key">>,
    <<Id(\hC3, \h100D), 2, "decrypt_rsa_private_key">>,
    <<Id(\hC3, \h100E), 4, "load_secure_exp_mod_key">>,
    <<Id(\hC3, \h60F), 2, "secure_exp_mod">>,
    <<Id(\hC3, \h610), 4, "unwrap_rsa_oaep_wrapped_titlekey">>,
    <<Id(\hC3, \h011), 4, "load_titlekey">>,       <<Id(\hC3, \h012), 4, "unwrap_aes_wrapped_titlekey">> >>

g_smc_priv_table == <<
    NoHandler,
    <<Id(\hC4, 1), 4, "cpu_suspend">>,             <<Id(\h84, 2), 4, "cpu_off">>,
    <<Id(\hC4, 3), 1, "cpu_on">>,                  <<Id(\hC3, 4), 1, "get_config_priv">>,
    <<Id(\hC3, 5), 1, "get_random_bytes_for_priv">>, <<Id(\hC3, 6), 1, "panic">>,
    <<Id(\hC3, 7), 1, "configure_carveout">>,      <<Id(\hC3, 8), 1, "read_write_register">> >>

g_smc_ams_table == <<
    NoHandler,
    <<Id(\hF0, \h201), 0, "ams_iram_copy">>,       <<Id(\hF0, \h002), 0, "read_write_register">>,
    <<Id(\hF0, \h003), 0, "ams_write_address">>,   <<Id(\hF0, \h404), 0, "ams_get_emummc_config">> >>

Without(table, gone) ==
    [i \in DOMAIN table |-> IF i \in gone THEN [table[i] EXCEPT ![3] = "none"] ELSE table[i]]

(* What a firmware has not, and what its calls are instead.                *)
set_version_specific_smcs(fw) ==
    CASE fw < 200 -> [user |-> Without(g_smc_user_table, {19}),
                      priv |-> Without(g_smc_priv_table, {8, 9})]
      [] fw >= 200 /\ fw < 500 -> [user |-> g_smc_user_table, priv |-> g_smc_priv_table]
      [] OTHER -> [user |-> [Without(g_smc_user_table, {15}) EXCEPT
                                ![13] = <<Id(\hC3, \hD60C), 1, "encrypt_rsa_key_for_import">>,
                                ![14][3] = "decrypt_or_import_rsa_key"],
                   priv |-> g_smc_priv_table]

IsForAms(id) == id[1] % 64 = SMC_CALL_RANGE_TRUSTED_APP

(* Mutant: the index alone finds the handler.                              *)
HandlerByIndex(table, id, blacklist, fw) ==
    LET smc_id == id[2] % 256
    IN  IF smc_id >= Len(table) \/ table[smc_id + 1][3] = "none" THEN "panic"
        ELSE IF fw >= 800 /\ table[smc_id + 1][2] \in blacklist THEN "refused"
        ELSE table[smc_id + 1][3]

(* The blacklist, which nothing fills yet, bars calls from 8.0.0 on.       *)
HandlerIn(table, id, blacklist, fw) ==
    LET smc_id == id[2] % 256
    IN  IF smc_id >= Len(table) \/ table[smc_id + 1][1] # id \/ table[smc_id + 1][3] = "none"
        THEN "panic"
        ELSE IF fw >= 800 /\ table[smc_id + 1][2] \in blacklist THEN "refused"
        ELSE table[smc_id + 1][3]

(* User SMCs are spl's, which runs on core 3; those for Atmosphere, which  *)
(* come the same way, may come from any core.                              *)
call_smc_handler(fw, handler_id, id, core, blacklist) ==
    LET tables == set_version_specific_smcs(fw)
    IN  IF handler_id >= SMC_HANDLER_COUNT THEN "panic"
        ELSE IF handler_id = SMC_HANDLER_PRIV THEN HandlerIn(tables.priv, id, blacklist, fw)
        ELSE IF IsForAms(id) THEN HandlerIn(g_smc_ams_table, id, blacklist, fw)
        ELSE IF core # 3 THEN "panic"
        ELSE HandlerIn(tables.user, id, blacklist, fw)

-----------------------------------------------------------------------------
(* The registers the kernel may write: a byte of a list has a bit for each *)
(* of the eight registers of its 32 bytes.                                 *)
pmc_whitelist == <<
    \hB9, \hF9, \h07, 0, 0, 0, \h80, \h03,  0, 0, 0, \h17, 0, \hC4, \h07, 0,
    0, 0, 0, 0, 0, \h20, \h20, 0,           0, 0, 0, 0, 0, 0, 0, 0,
    0, 0, \h01, 0, 0, 0, \h40, 0 >>
mc_whitelist == <<
    \h9F, \h31, \h30, 0, \hF0, \hFF, \hF7, \h01,           \hCD, \hFE, \hC0, \hFE, 0, 0, 0, 0,
    \h03, \h40, \h73, \h3E, \h2F, 0, 0, \h6E,              \h30, \h05, \h06, \hB0, \h71, \hC8, \h43, \h04,
    \h80, \h1F, \h08, \h80, \h03, 0, \h0E, 0,              \h08, 0, \hE0, 0, \h0E, 0, 0, 0,
    0, 0, 0, \h30, \hF0, \h03, \h03, \h30,                 0, 0, 0, 0, 0, 0, 0, 0,
    0, 0, 0, 0, 0, 0, 0, 0,                                0, 0, 0, \h31, 0, \h40, 0, 0,
    0, \h03, 0, 0, \hE4, \hFF, \hFF, \h01,                 0, 0, 0, 0, \h0C, 0, \hFE, \h0F,
    \h01, 0, \h80, 0, 0, \h08, 0, 0 >>
mc_whitelist_5x == <<
    \h9F, \h31, \h30, 0, \hF0, \hFF, \hF7, \h01,           0, 0, 0, 0, 0, 0, 0, 0,
    \h03, \h40, \h73, \h3E, \h2F, 0, 0, \h6E,              \h30, \h05, \h06, \hB0, \h71, \hC8, \h43, \h04,
    \h80, \hFF, \h08, \h80, \h03, \h38, \h8E, \h1F,        \hC8, \hFF, \hFF, 0, \h0E, 0, 0, 0,
    \hF0, \h1F, 0, \h30, \hF0, \h03, \h03, \h30,           0, 0, 0, 0, 0, 0, 0, 0,
    0, 0, 0, 0, 0, 0, 0, 0,                                0, 0, 0, \h31, 0, \h40, 0, 0,
    0, 0, 0, 0, \hE4, \hFF, \hFF, \h01,                    0, 0, 0, 0, 0, 0, \hF8, \h0F,
    \h01, 0, \h80, 0, 0, \h08, 0, 0 >>
mc01_whitelist_5x == [i \in 1..96 |->
    CASE i = 9 -> \hCD [] i = 10 -> \hFE [] i = 11 -> \hC0 [] i = 12 -> \hFE
      [] i = 82 -> \h03 [] i = 93 -> \h0C [] i = 95 -> \h06 [] OTHER -> 0]

(* Mutant: the bits of a byte are read from its other end.                 *)
ListedBackwards(whitelist, offset) ==
    /\ (offset \div 32) < Len(whitelist)
    /\ (whitelist[(offset \div 32) + 1] \div 2^(7 - ((offset \div 4) % 8))) % 2 = 1

Listed(whitelist, offset) ==
    /\ (offset \div 32) < Len(whitelist)
    /\ (whitelist[(offset \div 32) + 1] \div 2^((offset \div 4) % 8)) % 2 = 1

(* A register is its device and its offset there.                          *)
Writable(fw, device_of, offset) ==
    CASE device_of = "PMC" -> Listed(pmc_whitelist, offset)
      [] device_of = "MC" /\ fw >= 500 -> Listed(mc_whitelist_5x, offset)
      [] device_of \in {"MC0", "MC1"} /\ fw >= 500 -> Listed(mc01_whitelist_5x, offset)
      [] device_of = "MC" /\ fw >= 400 /\ fw < 500 -> Listed(mc_whitelist, offset)
      [] OTHER -> FALSE

(* MC_SMMU_AVPC_ASID and MC_SMMU_PPCS1_ASID: the answer is a lie.          *)
SaidWritten(fw, device_of, offset) ==
    fw >= 400 /\ device_of = "MC" /\ offset \in {\h23C, \h298}

(* The result, and what the register then holds: bits are those of the     *)
(* mask.  Without a mask nothing is written; with a whole one the old      *)
(* value is not read, and is said to be 0.                                 *)
smc_read_write_register(fw, device_of, offset, bits, all, mask, value) ==
    IF offset % 4 # 0 THEN [result |-> 2, old |-> {}, bits |-> bits]
    ELSE IF Writable(fw, device_of, offset)
    THEN LET old == IF mask = all THEN {} ELSE bits
         IN  [result |-> 0, old |-> old,
              bits |-> IF mask = {} THEN bits ELSE (old \ mask) \cup (value \cap mask)]
    ELSE [result |-> IF SaidWritten(fw, device_of, offset) THEN 0 ELSE 2,
          old |-> {}, bits |-> bits]

-----------------------------------------------------------------------------
(* Pages.                                                                  *)
PageSize  == 4096
DramPages == 6 * 2^18       \* 6 GiB
IramPages == 64

ams_is_user_addr_valid(address) == address.page \in 0..DramPages - 1
ams_is_iram_addr_valid(address) == address.page \in 0..IramPages - 1

(* Mutant: the size alone is held to a page.                               *)
ams_iram_copy_long(dram_address, iram_address, size, option) ==
    IF /\ ams_is_user_addr_valid(dram_address) /\ ams_is_iram_addr_valid(iram_address)
       /\ size <= PageSize /\ size + iram_address.offset <= PageSize
       /\ size % 4 = 0 /\ dram_address.offset % 4 = 0 /\ iram_address.offset % 4 = 0
       /\ option \in {0, 1}
    THEN [result |-> 0, dwords |-> size \div 4]
    ELSE [result |-> 2, dwords |-> 0]

ams_iram_copy(dram_address, iram_address, size, option) ==
    IF /\ ams_is_user_addr_valid(dram_address) /\ ams_is_iram_addr_valid(iram_address)
       /\ size <= PageSize
       /\ size + dram_address.offset <= PageSize /\ size + iram_address.offset <= PageSize
       /\ size % 4 = 0 /\ dram_address.offset % 4 = 0 /\ iram_address.offset % 4 = 0
       /\ option \in {0, 1}
    THEN [result |-> 0, dwords |-> size \div 4]
    ELSE [result |-> 2, dwords |-> 0]

(* The address is what the core's translation gives for the caller's.      *)
ams_write_address(address, size) ==
    IF /\ ams_is_user_addr_valid(address)
       /\ size \in {1, 2, 4, 8}
       /\ size + address.offset <= PageSize
       /\ address.offset % size = 0
    THEN [result |-> 0, bytes |-> size]
    ELSE [result |-> 2, bytes |-> 0]

(* The bytes of the caller's page that are written, from its address on:   *)
(* the emulated NAND's directory always, behind the room for its file's.   *)
ams_get_emummc_config(type, of_nand, address) ==
    IF ~of_nand THEN [result |-> 1, writes |-> {}, config |-> {}]
    ELSE IF ~ams_is_user_addr_valid(address) \/ address.offset > PageSize - 256
    THEN [result |-> 2, writes |-> {}, config |-> {}]
    ELSE CASE type = "none" -> [result |-> 0, writes |-> 128..255, config |-> {"base"}]
           [] type = "partition" ->
                  [result |-> 0, writes |-> 128..255, config |-> {"base", "partition"}]
           [] type = "files" -> [result |-> 0, writes |-> 0..255, config |-> {"base"}]
           [] OTHER -> [result |-> 2, writes |-> 128..255, config |-> {}]

(* spl's page: the first one named, for good.                              *)
NoPage   == -1
Panicked == -2
upage_init(pinned, address) ==
    CASE pinned # NoPage /\ pinned = address.page -> pinned
      [] pinned = NoPage /\ address.page \in 0..DramPages - 1 /\ address.offset = 0 ->
             address.page
      [] OTHER -> Panicked

(* Mutant: the last byte is not looked at.                                 *)
user_copies_to_the_end(page, address, size) == address.page = page

(* user_copy_to_secure and secure_copy_to_user copy, or refuse.            *)
user_copies(page, address, size) ==
    /\ address.page = page
    /\ size # 0 => address.page + ((address.offset + size - 1) \div PageSize) = page

-----------------------------------------------------------------------------
(* The cores in the monitor.  Those of the other cores share a stack.      *)
SharesStack(c) == c # 3
NotTaken == [user |-> FALSE, iram |-> FALSE]

CallsInit ==
    /\ smc_at = [c \in SmcCores |-> "kernel"]
    /\ smc_call = [c \in SmcCores |-> "none"]
    /\ old_value = [c \in SmcCores |-> {}]
    /\ priv_smc = FALSE /\ user_smc = FALSE
    /\ ams_pages = NotTaken
    /\ register = {} /\ written = {}
    /\ stopped = FALSE

(* What the cores ask: to write a register, a copy, a call of spl's, and   *)
(* to be stopped.                                                          *)
Asked == [register |-> <<SMC_HANDLER_PRIV, Id(\hC3, 8)>>, copy |-> <<SMC_HANDLER_USER, Id(\hF0, \h201)>>,
          spl |-> <<SMC_HANDLER_USER, Id(\hC3, 2)>>, off |-> <<SMC_HANDLER_PRIV, Id(\h84, 2)>>]

HandlerOf(c) ==
    call_smc_handler(smc_fw, Asked[smc_call[c]][1], Asked[smc_call[c]][2], c, {})

Goes(c, to) == smc_at' = [smc_at EXCEPT ![c] = to]

Calls(c) ==
    /\ smc_at[c] = "kernel"
    /\ \E asked \in DOMAIN Asked : smc_call' = [smc_call EXCEPT ![c] = asked]
    /\ Goes(c, IF SharesStack(c) THEN "waits" ELSE "enters")
    /\ UNCHANGED <<smc_fw, old_value, priv_smc, user_smc, ams_pages, register, written, stopped>>

(* Mutant: the lock is not waited for.                                     *)
TakesStackAnyway(c) ==
    /\ smc_at[c] = "waits"
    /\ priv_smc' = TRUE
    /\ Goes(c, "enters")
    /\ UNCHANGED <<smc_fw, smc_call, old_value, user_smc, ams_pages, register, written, stopped>>

(* handle_core012_smc_exception: the lock, then the stack.                 *)
TakesStack(c) ==
    /\ smc_at[c] = "waits"
    /\ ~priv_smc /\ priv_smc' = TRUE
    /\ Goes(c, "enters")
    /\ UNCHANGED <<smc_fw, smc_call, old_value, user_smc, ams_pages, register, written, stopped>>

Panics(c) ==
    /\ smc_at[c] = "enters" /\ HandlerOf(c) = "panic"
    /\ stopped' = TRUE
    /\ UNCHANGED <<smc_fw, smc_at, smc_call, old_value, priv_smc, user_smc, ams_pages,
                   register, written>>

(* A call that no other core's can come between.                           *)
Answers(c) ==
    /\ smc_at[c] = "enters" /\ HandlerOf(c) = "get_config_user"
    /\ Goes(c, "leaves")
    /\ UNCHANGED <<smc_fw, smc_call, old_value, priv_smc, user_smc, ams_pages,
                   register, written, stopped>>

(* smc_read_write_register, of a register of the memory controller with    *)
(* the core's bit for a mask: its old value is read...                     *)
ReadsRegister(c) ==
    /\ smc_at[c] = "enters" /\ HandlerOf(c) = "read_write_register"
    /\ old_value' = [old_value EXCEPT
           ![c] = smc_read_write_register(smc_fw, "MC", 0, register, SmcCores, {c}, {c}).old]
    /\ Goes(c, "reads")
    /\ UNCHANGED <<smc_fw, smc_call, priv_smc, user_smc, ams_pages, register, written, stopped>>

(* ...and written with the new bits.                                       *)
WritesRegister(c) ==
    /\ smc_at[c] = "reads"
    /\ register' =
           smc_read_write_register(smc_fw, "MC", 0, old_value[c], SmcCores, {c}, {c}).bits
    /\ written' = written \cup {c}
    /\ old_value' = [old_value EXCEPT ![c] = {}]
    /\ Goes(c, "leaves")
    /\ UNCHANGED <<smc_fw, smc_call, priv_smc, user_smc, ams_pages, stopped>>

(* smc_wrapper_sync: the lock of the user SMCs, or a busy answer.          *)
StartsCopy(c) ==
    /\ smc_at[c] = "enters" /\ HandlerOf(c) = "ams_iram_copy"
    /\ user_smc' = TRUE
    /\ Goes(c, IF user_smc THEN "leaves" ELSE "maps")
    /\ UNCHANGED <<smc_fw, smc_call, old_value, priv_smc, ams_pages, register, written, stopped>>

(* ams_map_userpage and ams_map_irampage: each waits for its page.         *)
MapsUserPage(c) ==
    /\ smc_at[c] = "maps" /\ ~ams_pages.user
    /\ ams_pages' = [ams_pages EXCEPT !.user = TRUE]
    /\ Goes(c, "maps iram")
    /\ UNCHANGED <<smc_fw, smc_call, old_value, priv_smc, user_smc, register, written, stopped>>

MapsIramPage(c) ==
    /\ smc_at[c] = "maps iram" /\ ~ams_pages.iram
    /\ ams_pages' = [ams_pages EXCEPT !.iram = TRUE]
    /\ Goes(c, "copied")
    /\ UNCHANGED <<smc_fw, smc_call, old_value, priv_smc, user_smc, register, written, stopped>>

(* Mutant: a copy leaves the page of IRAM mapped.                          *)
UnmapsUserPageOnly(c) ==
    /\ smc_at[c] = "copied"
    /\ ams_pages' = [ams_pages EXCEPT !.user = FALSE]
    /\ user_smc' = FALSE
    /\ Goes(c, "leaves")
    /\ UNCHANGED <<smc_fw, smc_call, old_value, priv_smc, register, written, stopped>>

(* The pages are given up before the lock.                                 *)
UnmapsPages(c) ==
    /\ smc_at[c] = "copied"
    /\ ams_pages' = NotTaken
    /\ user_smc' = FALSE
    /\ Goes(c, "leaves")
    /\ UNCHANGED <<smc_fw, smc_call, old_value, priv_smc, register, written, stopped>>

Leaves(c) ==
    /\ smc_at[c] = "leaves"
    /\ priv_smc' = (priv_smc /\ ~SharesStack(c))
    /\ smc_call' = [smc_call EXCEPT ![c] = "none"]
    /\ Goes(c, "kernel")
    /\ UNCHANGED <<smc_fw, old_value, user_smc, ams_pages, register, written, stopped>>

(* cpu_off gives up the lock, and then the stack for another.              *)
TurnsOff(c) ==
    /\ smc_at[c] = "enters" /\ HandlerOf(c) = "cpu_off"
    /\ priv_smc' = (priv_smc /\ ~SharesStack(c))
    /\ Goes(c, IF SharesStack(c) THEN "off stack" ELSE "off")
    /\ UNCHANGED <<smc_fw, smc_call, old_value, user_smc, ams_pages, register, written, stopped>>

SwitchesStack(c) ==
    /\ smc_at[c] = "off stack"
    /\ Goes(c, "off")
    /\ UNCHANGED <<smc_fw, smc_call, old_value, priv_smc, user_smc, ams_pages,
                   register, written, stopped>>

(* cpu_on, of another core.                                                *)
TurnedOn(c) ==
    /\ smc_at[c] = "off"
    /\ smc_call' = [smc_call EXCEPT ![c] = "none"]
    /\ Goes(c, "kernel")
    /\ UNCHANGED <<smc_fw, old_value, priv_smc, user_smc, ams_pages,
                   register, written, stopped>>

CallsNext ==
    /\ ~stopped
    /\ \E c \in SmcCores :
          \/ Calls(c) \/ TakesStack(c) \/ Panics(c) \/ Answers(c)
          \/ ReadsRegister(c) \/ WritesRegister(c)
          \/ StartsCopy(c) \/ MapsUserPage(c) \/ MapsIramPage(c) \/ UnmapsPages(c)
          \/ Leaves(c) \/ TurnsOff(c) \/ SwitchesStack(c) \/ TurnedOn(c)

-----------------------------------------------------------------------------
(* Properties.                                                             *)

Inside(c) == smc_at[c] \notin {"kernel", "waits", "off stack", "off"}

(* The shared stack is of one core at a time, with the lock: but for a     *)
(* core that is turned off, which has given up the lock and not yet left   *)
(* the stack (cpu_off).  (exceptions.s, handle_core012_smc_exception)      *)
StackShared ==
    LET using == {c \in SmcCores : SharesStack(c) /\ Inside(c)}
    IN  /\ \A c, d \in using : c = d
        /\ priv_smc = (using # {})

(* A register keeps the bits of every core that wrote it, though the read  *)
(* and the write are two steps: unless core 3, which takes no lock, writes *)
(* it too.  (smc_read_write_register)                                      *)
RegisterUpdatesKept == 3 \notin written => register = written

(* The lock of the user SMCs keeps copies apart: a core never waits for a  *)
(* page, no page stays mapped, and only a copy holds the lock.             *)
(* (smc_wrapper_sync, ams_map_userpage, ams_unmap_userpage)                *)
CopiesApart ==
    LET copying == {c \in SmcCores : smc_at[c] \in {"maps", "maps iram", "copied"}}
    IN  /\ \A c, d \in copying : c = d
        /\ user_smc = (copying # {})
        /\ ams_pages.user = (\E c \in copying : smc_at[c] # "maps")
        /\ ams_pages.iram =>
              \E c \in copying : smc_at[c] = "copied"

CallsGuarded == StackShared /\ RegisterUpdatesKept /\ CopiesApart

(* Every handler that a firmware has is reached by its own id, and by no   *)
(* other; spl's calls from core 3 only.  (set_version_specific_smcs,       *)
(* call_smc_handler)                                                       *)
EveryIdOf(table) == {table[i][1] : i \in DOMAIN table}
AllIds == EveryIdOf(g_smc_user_table) \cup EveryIdOf(g_smc_priv_table)
          \cup EveryIdOf(g_smc_ams_table) \cup {Id(\hC3, \hD60C)}
TableReached(fw, handler_id, table, core) ==
    \A id \in AllIds :
        call_smc_handler(fw, handler_id, id, core, {}) =
            IF \E i \in DOMAIN table : table[i][1] = id /\ table[i][3] # "none"
            THEN (CHOOSE entry \in {table[i] : i \in DOMAIN table} :
                     entry[1] = id /\ entry[3] # "none")[3]
            ELSE IF handler_id = SMC_HANDLER_USER /\ id \in EveryIdOf(g_smc_ams_table)
            THEN call_smc_handler(fw, handler_id, id, 0, {})
            ELSE "panic"
HandlersReached(fw) ==
    LET tables == set_version_specific_smcs(fw)
    IN  /\ TableReached(fw, SMC_HANDLER_USER, tables.user, 3)
        /\ \A core \in 0..3 : TableReached(fw, SMC_HANDLER_PRIV, tables.priv, core)
        /\ \A core \in 0..2, id \in AllIds \ EveryIdOf(g_smc_ams_table) :
              call_smc_handler(fw, SMC_HANDLER_USER, id, core, {}) = "panic"
        /\ \A core \in 0..3, i \in 2..Len(g_smc_ams_table) :
              call_smc_handler(fw, SMC_HANDLER_USER, g_smc_ams_table[i][1], core, {1, 2, 4})
                  = g_smc_ams_table[i][3]

(* The kernel's register calls leave alone what exosphere keeps in the     *)
(* PMC to wake up with, and in the memory controller: the reset vector,    *)
(* where the context is and what it is checked with, the locks; which      *)
(* translations are on and which ASIDs are secure; carveouts 4 and 5.      *)
(* (smc_read_write_register, bootup.c, sc7.c)                              *)
KeptInPmc == {\h50, \h22C, \h368, \h36C, \h320, \h3AC, \h3BC, \h408, \h40C, \h37C, \hAE4, \hAE8,
              \hB18, \hB1C, \hB20, \hB24, \h2D8, \h5C0}
KeptInMc  == {\h38, \h3C, \h70, \h74, \h9BC, \h228, \h22C, \h230, \h234, \hB98, \h65C, \h660, \h964,
              \h650, \h678, \h9AC}
             \cup {\h9E0 + 4 * i : i \in 0..5} \cup {\hCF8 + 4 * i : i \in 0..13}
             \cup {\hD48 + 4 * i : i \in 0..13}
MonitorsRegistersKept(fw) ==
    /\ \A offset \in KeptInPmc : ~Writable(fw, "PMC", offset)
    /\ \A offset \in KeptInMc : ~Writable(fw, "MC", offset)

(* A write changes the bits of its mask and no others, and says what the   *)
(* register was; what is not written is not said to be, but for two        *)
(* registers.  (smc_read_write_register)                                   *)
RegisterWrittenRight(fw, device_of, offset) ==
    \A bits, mask, value \in SUBSET {1, 2} :
        LET answer_of == smc_read_write_register(fw, device_of, offset, bits, {1, 2}, mask, value)
        IN  /\ answer_of.result = 0 /\ Writable(fw, device_of, offset) =>
                  /\ answer_of.bits \cap mask = value \cap mask
                  /\ answer_of.bits \ mask = bits \ mask
                  /\ mask # {1, 2} => answer_of.old = bits
            /\ ~Writable(fw, device_of, offset) =>
                  answer_of.bits = bits /\ (answer_of.result = 0 => offset \in {\h23C, \h298})

(* A copy stays inside the page it names on both sides, and is of whole    *)
(* words; a write stays inside its page; and what is told of the emulated  *)
(* NAND stays inside the caller's page, its directory in the upper half.   *)
(* (ams_iram_copy, ams_write_address, ams_get_emummc_config)               *)
CopyInsidePages(dram, iram, size, option) ==
    LET copy == ams_iram_copy(dram, iram, size, option)
    IN  copy.result = 0 =>
           /\ dram.page \in 0..DramPages - 1 /\ iram.page \in 0..IramPages - 1
           /\ dram.offset + 4 * copy.dwords <= PageSize
           /\ iram.offset + 4 * copy.dwords <= PageSize
           /\ 4 * copy.dwords = size
WriteInsidePage(address, size) ==
    LET write == ams_write_address(address, size)
    IN  write.result = 0 =>
           /\ address.page \in 0..DramPages - 1
           /\ address.offset + write.bytes <= PageSize
EmummcInsidePage(type, of_nand, address) ==
    LET told == ams_get_emummc_config(type, of_nand, address)
    IN  /\ \A i \in told.writes : address.offset + i < PageSize
        /\ told.config # {} => 128..255 \subseteq told.writes

(* spl's page stays the first one it named, in DRAM, whatever it names     *)
(* later, and copies stay inside it.  (upage_init, user_copy_to_secure)    *)
UserPagePinned(first, second, size) ==
    LET pinned == upage_init(NoPage, first)
    IN  pinned # Panicked =>
           /\ pinned \in 0..DramPages - 1
           /\ upage_init(pinned, second) \in {pinned, Panicked}
           /\ user_copies(pinned, second, size) =>
                 second.page = pinned /\ second.offset + size <= PageSize
=============================================================================
