------------------------------ MODULE RnxMitm ------------------------------
(***************************************************************************)
(* The rest of rnx_mitm: the thread that initializes it, the module that   *)
(* reboots the console (bpc_mitm), and the settings that the SD card       *)
(* overrides (set_mitm).  The fs module is FsMitm.                         *)
(***************************************************************************)
EXTENDS Naturals, Sequences, SequencesExt, FiniteSets

CONSTANTS
    MaxEntries,          \* MaxEntries of settings_sd_kvs.cpp
    ValueStorageSize,    \* SettingsItemValueStorageSize
    WorkPage, PayloadSize, IramSize, PayloadStart   \* of bpc_ams_power_utils.cpp

---------------------------------------------------------------------------
(* The key value store of settings (settings_sd_kvs.cpp).  A line of the   *)
(* file is an item (its name, its key), whether both are well formed, the  *)
(* type of the value, its text and the number strtoul reads in that.  The  *)
(* text is characters, of which 0 to 15 are the hexadecimal digits; a      *)
(* value is bytes.                                                         *)

NoDigit == 16
Terminator == 17

IntegralTypes == {"u8", "u16", "u32", "u64"}

SizeOf(line) ==
    CASE line.type = "str" -> Len(line.text) + 1
      [] line.type = "hex" -> Len(line.text) \div 2
      [] line.type = "u8"  -> 1
      [] line.type = "u16" -> 2
      [] line.type = "u32" -> 4
      [] OTHER             -> 8

(* ParseSettingsItemIntegralValue; no number here needs a fifth byte.      *)
IntegralBytes(number, size) ==
    [b \in 1..size |-> IF b > 4 THEN 0 ELSE (number \div 256 ^ (b - 1)) % 256]

(* "hex": the loop runs over as many characters as there are bytes, sets   *)
(* (and does not add to) the byte at half the place, and shifts the digits *)
(* at odd places.                                                          *)
HexBytes(text) ==
    LET size == Len(text) \div 2
    IN  FoldLeft(LAMBDA data, i :
                    [data EXCEPT ![i \div 2 + 1] = text[i + 1] * (IF i % 2 = 1 THEN 16 ELSE 1)],
                 [b \in 1..size |-> 0], [i \in 1..size |-> i - 1])

IsHexadecimal(text) == \A i \in DOMAIN text : text[i] < NoDigit

ValueOf(line) ==
    CASE line.type = "str" -> Append(line.text, Terminator)
      [] line.type = "hex" -> HexBytes(line.text)
      [] OTHER             -> IntegralBytes(line.number, SizeOf(line))

EmptyStore == [names |-> {}, keys |-> {}, allocated |-> 0, entries |-> <<>>, failed |-> FALSE]

(* FindSettingsName, FindSettingsItemKey: a new one takes a slot, whether  *)
(* or not a value comes of it.                                             *)
Named(store, line) == [store EXCEPT !.names = @ \cup {line.name}]
Keyed(store, line) == [store EXCEPT !.keys = @ \cup {line.key}]

Failed(store) == [store EXCEPT !.failed = TRUE]

(* Mutant: an item that is there already gets a second entry.              *)
InsertedAgain(store, line) ==
    LET entry == [name |-> line.name, key |-> line.key, value |-> ValueOf(line)]
    IN  IF Len(store.entries) < MaxEntries
        THEN [store EXCEPT !.entries = Append(@, entry)]
        ELSE Failed(store)

(* The entry of this item, or else the next that has no value.             *)
Inserted(store, line) ==
    LET entry == [name |-> line.name, key |-> line.key, value |-> ValueOf(line)]
        same == {i \in DOMAIN store.entries :
                    store.entries[i].name = line.name /\ store.entries[i].key = line.key}
    IN  IF same # {} THEN [store EXCEPT !.entries[CHOOSE i \in same : TRUE] = entry]
        ELSE IF Len(store.entries) < MaxEntries
             THEN [store EXCEPT !.entries = Append(@, entry)]
             ELSE Failed(store)

(* ParseSettingsItemValue; what a failure leaves behind nobody looks at.   *)
ParseSettingsItemValue(store, line) ==
    LET new == [Keyed(Named(store, line), line) EXCEPT !.allocated = @ + SizeOf(line)]
    IN  IF /\ line.wellformed
           /\ line.text # <<>>
           /\ Cardinality(new.names) <= MaxEntries
           /\ Cardinality(new.keys) <= MaxEntries
           /\ line.type \in IntegralTypes \cup {"str", "hex"}
           /\ line.type = "hex" => Len(line.text) % 2 = 0 /\ IsHexadecimal(line.text)
           /\ new.allocated <= ValueStorageSize
        THEN Inserted(new, line)
        ELSE Failed(store)

(* SystemSettingsIniHandler: nothing is parsed after a failure.            *)
ParseLine(store, line) ==
    IF store.failed THEN store ELSE ParseSettingsItemValue(store, line)

(* operator<: the order of "name!key".                                     *)
ItemBefore(x, y) == x.name < y.name \/ (x.name = y.name /\ x.key < y.key)

(* InitializeSdCardKeyValueStore: the defaults, the file, and the entries  *)
(* up to the first without a value - of which there may be none: then the  *)
(* count stays zero - in order.                                            *)
Store(defaults, lines) ==
    LET parsed == FoldLeft(ParseLine, FoldLeft(ParseLine, EmptyStore, defaults), lines)
    IN  IF Len(parsed.entries) = MaxEntries THEN <<>>
        ELSE SortSeq(parsed.entries, ItemBefore)

(* std::lower_bound.                                                       *)
LowerBound(entries, item) ==
    LET halve(range, i) ==
            LET mid == (range[1] + range[2]) \div 2
            IN  IF range[1] >= range[2] THEN range
                ELSE IF ItemBefore(entries[mid], item) THEN <<mid + 1, range[2]>>
                ELSE <<range[1], mid>>
    IN  FoldLeft(halve, <<1, Len(entries) + 1>>, [i \in 1..(Len(entries) + 1) |-> i])[1]

(* No value is empty.                                                      *)
Forward == <<>>

(* GetEntry: the value, or none; then set:sys is asked.                    *)
GetEntry(entries, item) ==
    LET it == LowerBound(entries, item)
    IN  IF it <= Len(entries) /\ entries[it].name = item.name /\ entries[it].key = item.key
        THEN entries[it].value
        ELSE Forward

(* The bytes a client reads of a line: the text, terminated; the number in *)
(* as many bytes as its type has, the lowest first (of two bytes at most,  *)
(* here); for hexadecimal digits not the bytes they spell: of every pair   *)
(* in the first half the second digit, as the upper half of a byte, then   *)
(* zeros (the last digit of an odd half has no partner and is a byte of    *)
(* its own).                                                               *)
BytesRead(line) ==
    CASE line.type = "str" ->
            [i \in 1..(Len(line.text) + 1) |-> IF i > Len(line.text) THEN Terminator ELSE line.text[i]]
      [] line.type = "hex" ->
            LET half == Len(line.text) \div 2
            IN  [b \in 1..half |-> IF 2 * b <= half THEN 16 * line.text[2 * b]
                                   ELSE IF 2 * b - 1 = half THEN line.text[half] ELSE 0]
      [] line.type = "u8"  -> <<line.number % 256>>
      [] OTHER -> [b \in 1..SizeOf(line) |-> CASE b = 1 -> line.number % 256
                                               [] b = 2 -> (line.number \div 256) % 256
                                               [] OTHER -> 0]

(* A client reads the value of the last line for the item among those up   *)
(* to the first that fails, else its default.                              *)
SettingsServed(c) ==
    LET lines == c.defaults \o c.lines
        stores == [n \in 0..Len(lines) |-> FoldLeft(ParseLine, EmptyStore, SubSeq(lines, 1, n))]
        good == {n \in 1..Len(lines) : ~stores[n].failed}
        entries == Store(c.defaults, c.lines)
    IN  \A name, key \in 1..3 :
            LET mine == {n \in good : lines[n].name = name /\ lines[n].key = key}
                last == CHOOSE n \in mine : \A m \in mine : m <= n
            IN  GetEntry(entries, [name |-> name, key |-> key])
                = IF mine = {} \/ Len(stores[Len(lines)].entries) = MaxEntries
                  THEN Forward ELSE BytesRead(lines[last])

---------------------------------------------------------------------------
(* bpc_mitm/bpc_ams_power_utils.cpp: IRAM as DoRebootToPayload leaves it.  *)
(* A byte of the payload, or of the error context, is its place in it.     *)

Filler == [of |-> "filler", at |-> 0]

WithPage(iram, place, page) ==
    [a \in DOMAIN iram |-> IF a \in place..(place + WorkPage - 1) THEN page[a - place] ELSE iram[a]]

ClearIram == [a \in 0..(IramSize - 1) |-> Filler]

(* memcpy leaves what the page held before where the payload ends inside.  *)
CopyPayload(iram) ==
    LET copy(st, n) ==
            LET ofs == (n - 1) * WorkPage
                page == [i \in 0..(WorkPage - 1) |->
                            IF ofs + i < PayloadSize THEN [of |-> "payload", at |-> ofs + i]
                            ELSE st.page[i]]
            IN  [iram |-> WithPage(st.iram, PayloadStart + ofs, page), page |-> page]
        pages == (PayloadSize + WorkPage - 1) \div WorkPage
    IN  FoldLeft(copy, [iram |-> iram, page |-> [i \in 0..(WorkPage - 1) |-> Filler]],
                 [n \in 1..pages |-> n]).iram

DoRebootToPayload(context_size) ==
    LET loaded == CopyPayload(ClearIram)
    IN  IF context_size = 0 THEN loaded
        ELSE WithPage(loaded, PayloadStart + PayloadSize,
                      [i \in 0..(WorkPage - 1) |->
                            IF i < context_size THEN [of |-> "context", at |-> i] ELSE Filler])

(* The payload finds itself whole, and the context behind it (reboot to    *)
(* payload, RebootForFatalError).                                          *)
PayloadWhole ==
    \A context_size \in 0..WorkPage :
        LET iram == DoRebootToPayload(context_size)
        IN  \A a \in DOMAIN iram :
                iram[a] = IF a \in PayloadStart..(PayloadStart + PayloadSize - 1)
                          THEN [of |-> "payload", at |-> a - PayloadStart]
                          ELSE IF a \in (PayloadStart + PayloadSize)
                                        ..(PayloadStart + PayloadSize + context_size - 1)
                          THEN [of |-> "context", at |-> a - PayloadStart - PayloadSize]
                          ELSE Filler

---------------------------------------------------------------------------
(* The threads.                                                            *)

VARIABLES
    sd_card,         \* what it holds: the payload, what the settings say about reboots
    init_thread,     \* how far InitializeThreadFunc is
    init_event,      \* g_init_event
    modules,         \* the module threads: "created", "waiting" or "serving"
    reboot_type,     \* g_reboot_type
    payload_loaded,  \* g_reboot_payload holds the file
    throwing,        \* g_threw, and how many threads it has made
    rebooted         \* what the console has done, and who asked

mitmVars == <<sd_card, init_thread, init_event, modules, reboot_type, payload_loaded,
              throwing, rebooted>>

ModuleIds == {"FsMitm", "SetMitm", "BpcMitm"}

RebootTypes == {"Standard", "ToRcm", "ToPayload"}

InitSteps == <<"WaitSdCardInitialized", "OpenGlobalSdCardFileSystem", "LoadRebootPayload",
               "InitializeSdCardKeyValueStore", "DetectPreferredRebootFunctionality", "Signal", "done">>

Doing(step) == InitSteps[init_thread] = step

InitStep ==
    /\ init_thread < Len(InitSteps)
    /\ rebooted = "no"
    /\ init_thread' = init_thread + 1
    /\ LET found == Doing("LoadRebootPayload") /\ sd_card.payload
       IN  payload_loaded' = (payload_loaded \/ found)
    /\ reboot_type' =
         IF Doing("LoadRebootPayload") /\ sd_card.payload THEN "ToPayload"
         ELSE IF Doing("DetectPreferredRebootFunctionality") /\ sd_card.reboot_function \in RebootTypes
         THEN sd_card.reboot_function
         ELSE reboot_type
    /\ throwing' = IF Doing("InitializeSdCardKeyValueStore") /\ ~sd_card.parses /\ throwing = 0
                   THEN throwing + 1 ELSE throwing
    /\ init_event' = (init_event \/ Doing("Signal"))
    /\ UNCHANGED <<sd_card, modules, rebooted>>

(* LaunchAllModules; ThreadFunction of each: fs does not wait.             *)
StartModule(m) ==
    /\ modules[m] = "created"
    /\ modules' = [modules EXCEPT ![m] = IF m = "FsMitm" THEN "serving" ELSE "waiting"]
    /\ UNCHANGED <<sd_card, init_thread, init_event, reboot_type, payload_loaded, throwing, rebooted>>

(* Mutant: bpc serves at once.                                             *)
ServeAtOnce(m) ==
    /\ modules[m] = "waiting"
    /\ modules' = [modules EXCEPT ![m] = "serving"]
    /\ UNCHANGED <<sd_card, init_thread, init_event, reboot_type, payload_loaded, throwing, rebooted>>

WaitInitialized(m) ==
    /\ modules[m] = "waiting"
    /\ init_event
    /\ modules' = [modules EXCEPT ![m] = "serving"]
    /\ UNCHANGED <<sd_card, init_thread, init_event, reboot_type, payload_loaded, throwing, rebooted>>

(* BpcMitmService::RebootSystem: what is not managed goes to bpc.          *)
RebootSystem ==
    /\ modules["BpcMitm"] = "serving"
    /\ rebooted = "no"
    /\ rebooted' = CASE reboot_type = "Standard" -> "normal"
                     [] reboot_type = "ToRcm"    -> "rcm"
                     [] OTHER                    -> IF payload_loaded THEN "payload" ELSE "filler"
    /\ UNCHANGED <<sd_card, init_thread, init_event, modules, reboot_type, payload_loaded, throwing>>

ShutdownSystem ==
    /\ modules["BpcMitm"] = "serving"
    /\ rebooted = "no"
    /\ rebooted' = "off"
    /\ UNCHANGED <<sd_card, init_thread, init_event, modules, reboot_type, payload_loaded, throwing>>

MitmInit ==
    /\ sd_card \in [payload : BOOLEAN, parses : BOOLEAN,
                    reboot_function : RebootTypes \cup {"something else"}]
    /\ init_thread = 1
    /\ init_event = FALSE
    /\ modules = [m \in ModuleIds |-> "created"]
    /\ reboot_type = "ToRcm"
    /\ payload_loaded = FALSE
    /\ throwing = 0
    /\ rebooted = "no"

MitmNext ==
    \/ InitStep \/ RebootSystem \/ ShutdownSystem
    \/ \E m \in ModuleIds : StartModule(m) \/ WaitInitialized(m)

(* A reboot does what the settings file asks for, whenever it is asked for *)
(* after the module serves: a function it does not know leaves the         *)
(* payload, or RCM without one (DetectPreferredRebootFunctionality).  A    *)
(* payload that was asked for but could not be read is the exception.      *)
RebootsAsChosen ==
    /\ rebooted = "normal" => sd_card.reboot_function = "Standard"
    /\ rebooted = "payload" => sd_card.payload /\ sd_card.reboot_function \notin {"Standard", "ToRcm"}
    /\ rebooted = "filler" => ~sd_card.payload /\ sd_card.reboot_function = "ToPayload"
    /\ rebooted = "rcm" => \/ sd_card.reboot_function = "ToRcm"
                           \/ ~sd_card.payload /\ sd_card.reboot_function = "something else"
    /\ throwing <= 1
=============================================================================
