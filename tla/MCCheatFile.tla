---------------------------- MODULE MCCheatFile ----------------------------
(***************************************************************************)
(* The files of cheats and of toggles dmnt is checked with: every text of  *)
(* up to five headers and opcodes, and for the life of the toggles two     *)
(* programs that share a directory of the SD card.                         *)
(***************************************************************************)
EXTENDS CheatFile

Tokens == {Header("cheat", "a"), Header("cheat", "b"), Header("master", "m"),
           Header("opcode", ""), Header("other", "")}
Texts  == UNION {[1..n -> Tokens] : n \in 0..5}

Op == Header("opcode", "")
SomeTexts ==
    {NoFile,
     <<Header("cheat", "a"), Op, Header("cheat", "b"), Op>>,
     <<Header("master", "m"), Op, Header("cheat", "b"), Op>>,
     <<Header("cheat", "a"), Op, Header("cheat", "a"), Op>>}

SomeToggles ==
    {NoFile, <<>>,
     <<Toggle("a", "false"), Toggle("b", "true")>>, <<Toggle("b", "maybe"), Toggle("a", "true"), Broken>>}

Init ==
    \E texts \in [Programs -> SomeTexts], toggles \in [Programs -> SomeToggles] :
        Start(texts, toggles)

(* One text for all programs.                                              *)
InitParse ==
    /\ defaults \in [enable_cheats_by_default : BOOLEAN, always_save_cheat_toggles : {FALSE}]
    /\ \E t \in Texts : Start([p \in Programs |-> t], [p \in Programs |-> NoFile])

Spec == Init /\ [][Next]_fileVars

(* See CheatFile.  The texts stay what they are, so that it is enough to   *)
(* parse them while nothing is attached.                                   *)
CheatFilesKept ==
    /\ attached = NoProgram => ParsesSections
    /\ TogglesComeBack /\ BrokenTogglesKept
=============================================================================
