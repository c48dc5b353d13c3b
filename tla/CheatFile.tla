----------------------------- MODULE CheatFile -----------------------------
(***************************************************************************)
(* The files of the cheat manager (dmnt/source/cheat/impl/                 *)
(* dmnt_cheat_api.cpp): the cheats of a program, which ParseCheats turns   *)
(* into entries, and the toggles, which are read when dmnt attaches to a   *)
(* process and written when the process is closed.                         *)
(*                                                                         *)
(* A text is a sequence of tokens: the header of a cheat or of the master  *)
(* cheat with its name, an opcode, or something else.  Names fit in        *)
(* readable_name with their terminator.                                    *)
(***************************************************************************)
EXTENDS Naturals, Sequences, FiniteSets, SequencesExt

CONSTANTS
    Programs,
    MaxCheatCount,      \* entries, of which 0 is the master cheat
    MaxOpcodes          \* of an entry

VARIABLES
    defaults,       \* enable_cheats_by_default and always_save_cheat_toggles
    text,           \* [Programs -> the cheats, or NoFile]
    toggles_txt,    \* [Programs -> the toggles, or NoFile]
    attached,       \* the program of the process cheats are for, or NoProgram
    cheat_entries,
    should_save_cheat_toggles,
    read,           \* ghost: the toggles of attached were read, or are not there
    chosen,         \* ghost: [Programs -> [name -> enabled], as of the last save]
    fresh           \* ghost: nothing was toggled since the attach

fileVars == <<defaults, text, toggles_txt, attached, cheat_entries, should_save_cheat_toggles,
              read, chosen, fresh>>

NoFile    == <<[kind |-> "no file", name |-> ""]>>
NoProgram == "none"
EmptyEntry == [name |-> "", opcodes |-> <<>>, enabled |-> FALSE]

Header(kind, name) == [kind |-> kind, name |-> name]

Slots == 0..(MaxCheatCount - 1)
Cleared == [s \in Slots |-> EmptyEntry]

---------------------------------------------------------------------------
(* ParseCheats.                                                            *)

FreeEntries(entries) == {s \in Slots \ {0} : entries[s].opcodes = <<>>}

Least(S) == CHOOSE s \in S : \A t \in S : s <= t

(* Mutant: a new header always takes the next entry.                       *)
NextEntry(entries, cur) == IF cur + 1 \in Slots THEN {cur + 1} ELSE {}

(* GetFreeCheatEntry: a header whose cheat got no opcodes is overwritten.  *)
FreeFor(entries, cur) == FreeEntries(entries)

NoEntry == MaxCheatCount

(* One token; st has the entries, cur_entry and whether parsing goes on.   *)
ParseToken(st, token, n) ==
    LET fail == [st EXCEPT !.ok = FALSE]
        cur  == st.entries[st.cur]
    IN  CASE ~st.ok -> st
          [] token.kind = "cheat" /\ st.ok ->
                IF FreeFor(st.entries, st.cur % NoEntry) = {} THEN fail
                ELSE LET s == Least(FreeFor(st.entries, st.cur % NoEntry))
                     IN  [st EXCEPT !.cur = s, !.entries[s].name = token.name]
          [] token.kind = "master" /\ st.ok ->
                IF st.entries[0].opcodes # <<>> THEN fail
                ELSE [st EXCEPT !.cur = 0, !.entries[0].name = token.name]
          [] token.kind = "opcode" /\ st.ok ->
                IF st.cur = NoEntry \/ Len(st.entries[st.cur % NoEntry].opcodes) >= MaxOpcodes
                THEN fail
                ELSE [st EXCEPT !.entries[st.cur].opcodes = Append(@, n)]
          [] OTHER -> fail

(* Once the whole text was parsed the master cheat is enabled, and the     *)
(* others are if that is the default.  The opcode of a token is its place. *)
EnabledAfterParsing(s, entry) ==
    IF entry.opcodes = <<>> THEN entry.enabled
    ELSE s = 0 \/ defaults.enable_cheats_by_default

ParseCheats(tokens) ==
    LET parsed == FoldLeft(LAMBDA st, n : ParseToken(st, tokens[n], n),
                           [entries |-> Cleared, cur |-> NoEntry, ok |-> TRUE],
                           [n \in DOMAIN tokens |-> n])
    IN  [ok |-> parsed.ok,
         entries |-> IF parsed.ok
                     THEN [s \in Slots |-> [parsed.entries[s] EXCEPT
                                !.enabled = EnabledAfterParsing(s, parsed.entries[s])]]
                     ELSE parsed.entries]

(* LoadCheats: the entries are cleared even when there is no file.         *)
LoadCheats(p) == IF text[p] = NoFile THEN [ok |-> FALSE, entries |-> Cleared] ELSE ParseCheats(text[p])

---------------------------------------------------------------------------
(* The toggles.                                                            *)

ByReadableName(entries, name) == {s \in Slots \ {0} : entries[s].name = name}

(* A toggle is a name and a word; a text that breaks off, in a name or in  *)
(* a word without a space behind it, or that has anything else, ends there.*)
Toggle(name, word) == [name |-> name, word |-> word]
Broken == Toggle("", "broken")
Word(enabled) == IF enabled THEN "true" ELSE "false"

(* ParseCheatToggles: the first entry of that name, if the word is known.  *)
ParseToggle(st, t) ==
    LET named == ByReadableName(st.entries, t.name)
    IN  CASE ~st.ok -> st
          [] st.ok /\ t = Broken -> [st EXCEPT !.ok = FALSE]
          [] OTHER -> IF named = {} \/ t.word \notin {"true", "false"} THEN st
                      ELSE [st EXCEPT !.entries[Least(named)].enabled = t.word = "true"]

ParseCheatToggles(entries, toggles) ==
    FoldLeft(ParseToggle, [ok |-> TRUE, entries |-> entries], toggles)

(* LoadCheatToggles: no file is as good as one that was parsed, but is not *)
(* written; what a broken one says before its break stays.                 *)
LoadCheatToggles(p, entries, readable) ==
    CASE toggles_txt[p] = NoFile -> [ok |-> TRUE, save |-> FALSE, entries |-> entries]
      [] toggles_txt[p] # NoFile /\ ~readable -> [ok |-> FALSE, save |-> FALSE, entries |-> entries]
      [] OTHER -> LET parsed == ParseCheatToggles(entries, toggles_txt[p])
                  IN  [ok |-> parsed.ok, save |-> parsed.ok, entries |-> parsed.entries]

(* SaveCheatToggles: all but the master cheat.                             *)
Toggles(entries) ==
    LET saved == SelectSeq([s \in 1..(MaxCheatCount - 1) |-> s],
                           LAMBDA s : entries[s].opcodes # <<>>)
    IN  [n \in DOMAIN saved |-> Toggle(entries[saved[n]].name, Word(entries[saved[n]].enabled))]

(* Mutant: a file that was not parsed to its end is written all the same.  *)
SaveWhatIsThere(p, toggles) == toggles_txt[p] # NoFile

(* should_save_cheat_toggles after LoadCheatToggles.                       *)
SaveAfterLoading(p, toggles) == toggles.save

(* AttachToApplicationProcess, from LoadCheats on.  The file of toggles is *)
(* only looked at when the cheats were loaded.  A launch ends without      *)
(* either; a forced attach goes on to svcDebugActiveProcess, which may     *)
(* fail.  A file may be there and not be read.                             *)
Attach(p, launch, debugged, readable) ==
    LET cheats  == LoadCheats(p)
        toggles == LoadCheatToggles(p, cheats.entries, readable)
        loaded  == cheats.ok /\ toggles.ok
    IN  /\ attached = NoProgram
        /\ launch => debugged        \* or dmnt aborts
        /\ attached' = IF debugged /\ (launch => loaded) THEN p ELSE NoProgram
        /\ cheat_entries' = IF cheats.ok THEN toggles.entries ELSE cheats.entries
        /\ should_save_cheat_toggles' = IF cheats.ok THEN SaveAfterLoading(p, toggles)
                                        ELSE should_save_cheat_toggles
        /\ read' = loaded
        /\ fresh' = loaded
        /\ UNCHANGED <<defaults, text, toggles_txt, chosen>>

ToggleCheat(s) ==
    /\ attached # NoProgram
    /\ s # 0 /\ cheat_entries[s].opcodes # <<>>
    /\ cheat_entries' = [cheat_entries EXCEPT ![s].enabled = ~@]
    /\ fresh' = FALSE
    /\ UNCHANGED <<defaults, text, toggles_txt, attached, should_save_cheat_toggles, read, chosen>>

(* Mutant: the entries are cleared before they are saved.                  *)
EntriesToSave == Cleared

SavedEntries == cheat_entries

(* CloseActiveCheatProcess.                                                *)
Close ==
    LET saves == defaults.always_save_cheat_toggles \/ should_save_cheat_toggles
    IN  /\ attached # NoProgram
        /\ toggles_txt' = IF saves THEN [toggles_txt EXCEPT ![attached] = Toggles(SavedEntries)]
                          ELSE toggles_txt
        /\ chosen' = IF saves THEN [chosen EXCEPT ![attached] = Toggles(cheat_entries)] ELSE chosen
        /\ should_save_cheat_toggles' = FALSE
        /\ attached' = NoProgram
        /\ cheat_entries' = Cleared
        /\ fresh' = FALSE
        /\ UNCHANGED <<defaults, text, read>>

Start(texts, toggles) ==
    /\ defaults \in [enable_cheats_by_default : BOOLEAN, always_save_cheat_toggles : BOOLEAN]
    /\ text = texts /\ toggles_txt = toggles /\ chosen = toggles
    /\ attached = NoProgram
    /\ cheat_entries = Cleared
    /\ should_save_cheat_toggles = FALSE
    /\ read = FALSE /\ fresh = FALSE

Next ==
    \/ \E p \in Programs, launch, debugged, readable \in BOOLEAN : Attach(p, launch, debugged, readable)
    \/ \E s \in Slots : ToggleCheat(s)
    \/ Close

---------------------------------------------------------------------------
(* Properties.                                                             *)

(* The sections of a text: the headers that opcodes follow, and those      *)
(* opcodes.                                                                *)
Sections(tokens, kind) ==
    LET headers == SelectSeq([n \in DOMAIN tokens |-> n],
                     LAMBDA n : tokens[n].kind = kind /\ n < Len(tokens) /\ tokens[n + 1].kind = "opcode")
        last(n) == Least({m \in n..Len(tokens) :
                            m = Len(tokens) \/ tokens[m + 1].kind # "opcode"})
    IN  [k \in DOMAIN headers |->
            [name |-> tokens[headers[k]].name,
             opcodes |-> [j \in 1..(last(headers[k]) - headers[k]) |-> headers[k] + j]]]

(* A text that is accepted becomes the entries it describes: the k-th cheat*)
(* with opcodes is entry k, whatever empty headers are around it, and the  *)
(* one master cheat is entry 0.                                            *)
ParsesSections ==
    \A p \in Programs :
        LET parsed == ParseCheats(text[p])
            cheats_of == Sections(text[p], "cheat")
            master_of == Sections(text[p], "master")
            entry(s) == [name |-> parsed.entries[s].name, opcodes |-> parsed.entries[s].opcodes]
        IN  parsed.ok =>
                /\ Len(master_of) <= 1 /\ Len(cheats_of) < MaxCheatCount
                /\ IF master_of = <<>> THEN entry(0).opcodes = <<>> ELSE entry(0) = master_of[1]
                /\ \A k \in 1..Len(cheats_of) : entry(k) = cheats_of[k]
                /\ \A s \in (Len(cheats_of) + 1)..(MaxCheatCount - 1) : entry(s).opcodes = <<>>
                /\ \A s \in Slots : parsed.entries[s].enabled <=>
                        entry(s).opcodes # <<>> /\ (s = 0 \/ defaults.enable_cheats_by_default)

DistinctNames(toggles) == \A i, j \in DOMAIN toggles : toggles[i].name = toggles[j].name => i = j

(* What the user chose for a program comes back at the next attach, as far *)
(* as the names of its cheats tell them apart.                             *)
TogglesComeBack ==
    fresh /\ attached # NoProgram /\ chosen[attached] # NoFile =>
        \A i \in DOMAIN chosen[attached], s \in Slots \ {0} :
            /\ DistinctNames(chosen[attached])
            /\ DistinctNames(Toggles(cheat_entries))
            /\ cheat_entries[s].opcodes # <<>>
            /\ cheat_entries[s].name = chosen[attached][i].name
            /\ chosen[attached][i].word \in {"true", "false"}
            => cheat_entries[s].enabled = (chosen[attached][i].word = "true")

(* Toggles that could not be read to their end are not overwritten, if the *)
(* cheats of the program could be (if not, see SavesOnlyWhatWasRead).      *)
BrokenTogglesKept ==
    attached # NoProgram /\ should_save_cheat_toggles => read \/ ~LoadCheats(attached).ok

(* dmnt_cheat_api.cpp:936: "Unless we successfully parse, don't save       *)
(* toggles on close."  It does not hold, not even of a file that is there: *)
(* a forced attach that fails after the toggles were parsed leaves         *)
(* should_save_cheat_toggles behind for a process without cheats, whose    *)
(* toggles are then overwritten.                                           *)
SavesOnlyWhatWasRead ==
    [][/\ Close /\ ~read /\ ~defaults.always_save_cheat_toggles
       /\ toggles_txt[attached] # NoFile
       => UNCHANGED toggles_txt]_fileVars
=============================================================================
