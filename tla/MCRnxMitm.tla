----------------------------- MODULE MCRnxMitm -----------------------------
(***************************************************************************)
(* The settings files the store of rnx_mitm is checked with: a default or  *)
(* none and up to three lines, of five items, well formed or not, in a     *)
(* store of MaxEntries entries.  And a specification of redirected saves   *)
(* alone.                                                                  *)
(***************************************************************************)
EXTENDS FsMitm, RnxMitm, TLC

Lines == [name : 1..2, key : 1..2, wellformed : {TRUE}, type : {"str", "u8"}, length : {2},
          digits : {TRUE}]

Line(wellformed, type, length, digits) ==
    [name |-> 1, key |-> 3, wellformed |-> wellformed, type |-> type, length |-> length,
     digits |-> digits]

(* Of another item: hexadecimal values of every length, other widths, and  *)
(* whatever is refused.                                                    *)
OtherLines ==
    {Line(TRUE, "hex", n, TRUE) : n \in {0, 1, 2, 4, 6}}
    \cup {Line(TRUE, "hex", 2, FALSE), Line(TRUE, "u16", 2, TRUE), Line(TRUE, "odd", 2, TRUE),
          Line(FALSE, "u8", 2, TRUE)}

(* Of three lines, the others are one that is served and one that is not.  *)
Some == Lines \cup {Line(TRUE, "hex", 6, TRUE), Line(FALSE, "u8", 2, TRUE)}

(* Every line has a value of its own, by where it is from (a number that   *)
(* needs a second byte), and no two digits of it are the same.             *)
Valued(lines, from) ==
    [i \in DOMAIN lines |->
        [text |-> [k \in 1..lines[i].length |->
                    IF lines[i].digits THEN (from + i + 5 * k) % 16 ELSE NoDigit],
         number |-> 256 + from + i] @@ lines[i]]

SettingsCases ==
    {[defaults |-> Valued(d, 4), lines |-> Valued(l, 0)] :
        d \in {<<>>} \cup [{1} -> Lines],
        l \in UNION {[1..n -> Lines \cup OtherLines] : n \in 0..2} \cup [1..3 -> Some]}

SavesSpec ==
    /\ StorageInit /\ SaveInit /\ MitmInit
    /\ [][SaveNext /\ UNCHANGED <<storageVars, mitmVars>>]_<<storageVars, saveVars, mitmVars>>
=============================================================================
