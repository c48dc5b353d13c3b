------------------------------ MODULE BootPins ------------------------------
(***************************************************************************)
(* What boot makes of the console's pins before it lets pm start the rest: *)
(* the functions, pulls and directions of the pads (pinmux), the strengths *)
(* of their drivers, the general purpose pins (gpio), and, through         *)
(* exosphere, which pins wake the console (boot_wake_pins.cpp) and a few   *)
(* bits of its power controller; and how it starts a payload instead.      *)
(*                                                                         *)
(* A pad's register is a number, cut into fields of `width` bits from bit  *)
(* `low` on.  A driver's is its two strengths and its two slews.  A table  *)
(* is the set of its different rows, each with the names it is for.        *)
(***************************************************************************)
EXTENDS MonitorCalls
LOCAL INSTANCE Folds

HardwareKinds == {"Icosa", "Copper", "Hoag", "Iowa", "Calcio"}
Mariko        == {"Hoag", "Iowa", "Calcio"}

Field(v, low, width)     == (v \div 2^low) % 2^width
With(v, low, width, new) == v + (new - Field(v, low, width)) * 2^low

(* The steps of a table in some order: its rows are about different names. *)
(* (TLC evaluates each t before the step that starts from it.)             *)
Each(step(_, _), s, rows) ==
    MapThenFoldSet(LAMBDA row, t : CHOOSE u \in {step(v, row) : v \in {t}} : TRUE,
                   s, LAMBDA row : row, LAMBDA left : CHOOSE row \in left : TRUE, rows)

-----------------------------------------------------------------------------
(* pinmux: the pads, by the fields their registers have (a mask) and the   *)
(* safe function.                                                          *)
PadKinds == {
    <<\h72FF, 1, {0, \h1B, \h9B, \h9C} \cup (5..\hB) \cup (\h20..\h25) \cup (\h46..\h54) \cup
            (\h96..\h99) \cup (\h9F..\hA1)>>,
    <<\h72FF, 2, {\h56, \h9D, \h9E} \cup 1..4 \cup (\h17..\h1A) \cup (\h92..\h95)>>,
    <<\h1DFF, 1, {\h34, \h35, \h57, \h63, \h64, \h67, \h68} \cup (\hC..\h10) \cup (\h2C..\h31)>>,
    <<\h19FF, 1, {\h11, \h5D, \h65, \h66, \h69, \h75, \h7F, \h83, \h8E} \cup (\h36..\h39) \cup
            (\h78..\h7B)>>,
    <<\h1F2FF, 1, (\h12..\h16) \cup (\h1C..\h1F)>>,
    <<\h19FF, 2, {\h76, \h77, \h80} \cup (\h26..\h2B) \cup (\h3C..\h45)>>,
    <<\h1DFF, 2, {\h32, \h33}>>,
    <<\h19FF, 0, {\h3A, \h3B, \h7D, \h7E, \h81, \h82} \cup (\h5E..\h61) \cup (\h6A..\h74) \cup
            (\h84..\h8D) \cup (\h8F..\h91)>>,
    <<\h118C, \hFF, {\h55}>>,
    <<\h11CC, \hFF, (\h58..\h5C)>>, <<\h1DFF, 0, {\h62}>>, <<\h19FF, 3, {\h7C}>>,
    <<\h72FF, 0, {\h9A}>>, <<\h1F2FF, 2, {\hAC} \cup (\hA2..\hAA)>>,
    <<\h1F2FF, 0, {\hAB, \hAD, \hAE}>> }
PadNames      == 0..\hAE
PadDefinition == [pad \in PadNames |-> CHOOSE kind \in PadKinds : pad \in kind[3]]

Has(pad, low, width) == Field(PadDefinition[pad][1], low, width) # 0

(* A field of a pad that has it.                                           *)
Put(pad, v, low, width, new) == IF Has(pad, low, width) THEN With(v, low, width, new) ELSE v

UpdatePark(pad, v) == Put(pad, v, 5, 1, 0)

(* Mutant: the input of a pad that is not used stays on.                   *)
AdjustPmOnly(pad, v, val, mask) ==
    LET pm   == val % 8
        safe == IF pm = 5 THEN Put(pad, Put(pad, v, 2, 2, 1), 4, 1, 1) ELSE v
    IN  IF mask % 8 = 0 THEN v
        ELSE Put(pad, safe, 0, 2, IF pm >= 4 THEN PadDefinition[pad][2] % 4 ELSE pm)

(* The function: 5 is for a pad that is not used, which is pulled down,    *)
(* tristated and read no more; 4 and more are the pad's safe function.     *)
AdjustPm(pad, v, val, mask) ==
    LET pm   == val % 8
        safe == IF pm = 5 THEN Put(pad, Put(pad, Put(pad, v, 2, 2, 1), 4, 1, 1), 6, 1, 0) ELSE v
    IN  IF mask % 8 = 0 THEN v
        ELSE Put(pad, safe, 0, 2, IF pm >= 4 THEN PadDefinition[pad][2] % 4 ELSE pm)

AdjustPupd(pad, v, val, mask) ==
    IF Field(mask, 3, 2) = 0 \/ Field(val, 3, 2) = 3 THEN v
    ELSE Put(pad, v, 2, 2, Field(val, 3, 2))

(* The direction: off, in, in and out, open drain.                         *)
AdjustEOd(pad, v, val, mask) ==
    LET way == Field(val, 5, 2)
        Flag(b) == IF b THEN 1 ELSE 0
    IN  IF Field(mask, 5, 2) = 0 THEN v
        ELSE Put(pad, Put(pad, Put(pad, v, 4, 1, Flag(way = 1)), 6, 1, Flag(way # 0)),
                 11, 1, Flag(way = 3))

(* Lock, IoReset, Park, ELpdr, EHsm, EIoHv, ESchmt, Preemp, DrvType: where *)
(* each is in a configuration and in a register, and its width.            *)
OtherFields == <<<<7, 7, 1>>, <<8, 16, 1>>, <<10, 5, 1>>, <<11, 8, 1>>, <<12, 9, 1>>, <<9, 10, 1>>,
                 <<13, 12, 1>>, <<16, 15, 1>>, <<14, 13, 2>> >>
AdjustOthers(pad, v, val, mask) ==
    LET adjusted[i \in 0..Len(OtherFields)] ==
            IF i = 0 THEN v
            ELSE LET f == OtherFields[i]
                 IN  IF Field(mask, f[1], f[3]) = 0 THEN adjusted[i - 1]
                     ELSE Put(pad, adjusted[i - 1], f[2], f[3], Field(val, f[1], f[3]))
    IN  adjusted[Len(OtherFields)]

(* A locked pad stops boot.                                                *)
Locked(v) == Field(v, 7, 1) = 1
UpdatePad(pad, v, val, mask) ==
    AdjustOthers(pad, AdjustEOd(pad, AdjustPupd(pad, AdjustPm(pad, v, val, mask),
                                                val, mask), val, mask), val, mask)

(* The drivers: the width of the down and up strengths, and of the slews,  *)
(* that their registers have.                                              *)
DriveKinds == {
    << <<5, 5, 0, 0>>, {\h67} \cup (0..\h1B) \cup (\h24..\h3B) \cup (\h4C..\h64) \cup (\h6A..\h6C) \cup
            (\h7B..\h93)>>,
    << <<0, 0, 2, 2>>, {\h66} \cup (\h1C..\h23) \cup (\h3C..\h45) \cup (\h6D..\h7A)>>,
    << <<7, 7, 0, 0>>, {\h65} \cup (\h46..\h4B)>>, << <<7, 7, 2, 2>>, {\h68, \h69}>> }
DriveNames      == 0..\h93
DriveDefinition == [drive \in DriveNames |-> CHOOSE kind \in DriveKinds : drive \in kind[2]]

(* Mutant: a strength takes up all of its field.                           *)
UpdateDrivePadWhole(drive, v, val, mask) ==
    [i \in 1..4 |-> IF mask[i] = 0 \/ DriveDefinition[drive][1][i] = 0 THEN v[i] ELSE val[i]]

UpdateDrivePad(drive, v, val, mask) ==
    [i \in 1..4 |->
        LET width == DriveDefinition[drive][1][i]
        IN  IF mask[i] = 0 \/ width = 0 THEN v[i] ELSE With(v[i], 0, width, val[i] % 2^width)]

(* The tables of the consoles: value, mask, pads.                             *)
PadConfigsIcosa == {
    <<0, \h67, {\h1C, \h36, \h38, \h3C, \h40, \h42, \h44, \h46, \h4C, \h4D, \h54, \h5D} \cup
            (\h1E..\h22) \cup (\h48..\h4A)>>,
    <<\h28, \h7F, {\h23, \h39, \h43, \h45, \h47, \h4B}>>,
    <<\h40, \h27F, {\h34, \h35} \cup (\h2C..\h31)>>, <<\h20, \h27F, {\hD, \hE, \h10, \h64}>>,
    <<0, \h267, {\hC, \hF}>>, <<\h48, \h7F, {0}>>, <<\h50, \h7F, 1..5>>, <<0, \h78, {\h5B, \h5C}>>,
    <<1, \h67, {\h7C}>>, <<1, \h7F, {\h80}>>, <<\h20, \h78, {\h55}>>,
    <<\h20, \h7F, {\h3B, \h3D, \h3F, \h41, \h56}>>, <<\h30, \h7F, {\h1D, \h37, \h9B, \hA1}>>,
    <<0, \h60, {\h59}>>, <<\h30, \h78, {\h5A}>>,
    <<\h34, \h7F, {\h5F, \h65, \h78, \h85, \h96, \h98, \h99, \h9C, \h9D, \h9F} \cup (\h88..\h8C)>>,
    <<4, \h67, {\h11, \h2A, \h2B, \h4F, \h51, \h60, \h66, \h6A, \h6B, \h6D, \h6E, \h71, \h72, \h77,
            \h7D, \h7E, \h81, \h95, \h97, \h9A, \hA0}>>,
    <<\h2C, \h7F, {6, \h52, \h61, \h6C, \h86, \h9E}>>,
    <<\h24, \h7F, {\h3A, \h3E, \h53, \h6F, \h82, \h8D, \h8F, \h91} \cup (8..\hB)>>,
    <<\h34, \h27F, {\h33}>>, <<\h4C, \h7F, {\h92, \h93}>>, <<\h44, \h7F, {\h94}>>,
    <<4, \h7F, {\h70}>>, <<4, \h267, {\h67}>>,
    <<5, 7, {7, \h32, \h4E, \h50, \h5E, \h62, \h63, \h68, \h69, \h7F, \h83, \h84, \h87, \h8E, \h90}
            \cup (\h12..\h1B) \cup (\h24..\h29) \cup (\h73..\h76) \cup (\h79..\h7B)>>,
    <<0, 0, {\h58}>> }
PadConfigsCopper == {
    <<\h20, \h27F, {\hE, \h10, \h64}>>, <<0, \h267, {\hF}>>, <<0, 0, {\h58, \h59, \h5B, \h5C}>>,
    <<1, \h7F, {\h80}>>, <<\h40, \h267, {\h34, \h35, \h63} \cup (\h2C..\h2F)>>,
    <<0, \h18, {\h55}>>, <<1, \h67, {\h56}>>, <<\h10, \h18, {\h5A}>>,
    <<0, \h67, {\h36, \h38, \h42, \h44, \h4A, \h4C, \h4D, \h54}>>, <<\h30, \h7F, {\h37, \h9B}>>,
    <<\h28, \h7F, {\h39, \h43, \h45, \h4B}>>,
    <<4, \h67, {\h13, \h27, \h2A, \h2B, \h5E, \h60, \h6A, \h6B, \h6D, \h6E, \h73, \h76, \h79,
            \h81}>>,
    <<\h24, \h7F, {\h17, \h18, \h69, \h6F, \h89, \h90} \cup (8..\hB)>>,
    <<\h24, \h27F, {\h32}>>, <<\h34, \h27F, {\h33}>>,
    <<\h34, \h7F, {\h88, \h8A, \h8B, \h8D, \h96, \h98, \h99, \h9D, \h9F, \hA1}>>,
    <<\h4C, \h7F, {\h92, \h93}>>, <<\h44, \h7F, {\h94}>>, <<4, \h7F, {\h12, \h14, \h70}>>,
    <<\h2C, \h7F, {\h6C}>>,
    <<5, 7, {\hC, \hD, \h11, \h15, \h16, \h28, \h29, \h30, \h31, \h5D, \h5F, \h61, \h62, \h71,
            \h72, \h74, \h75, \h77, \h78, \h8C, \h8E, \h8F, \h91, \h95, \h97, \h9A, \h9C, \h9E,
            \hA0} \cup 0..7 \cup (\h19..\h26) \cup (\h3A..\h41) \cup (\h46..\h49) \cup (\h4E..\h53)
            \cup (\h65..\h68) \cup (\h7A..\h7F) \cup (\h82..\h87)>> }
PadConfigsHoag == {
    <<0, \h7F, {\h36, \h38, \h3E, \h40, \h42, \h44, \h46, \h4C, \h4D, \h5D} \cup (\h48..\h4A)>>,
    <<\h28, \h7F, {\h39, \h43, \h45, \h47, \h4B}>>,
    <<\h40, \h27F, {\h10, \h34, \h35} \cup (\h2C..\h31)>>, <<\h20, \h27F, {\hD, \hE}>>,
    <<0, \h27F, {\hC, \hF}>>, <<\h40, \h7F, {0, \hAA, \hAC}>>,
    <<\h50, \h7F, 1..5 \cup (\hA2..\hA9)>>, <<0, \h67, {\h54, \h83}>>, <<0, \h78, {\h5B, \h5C}>>,
    <<1, \h67, {\h7C}>>, <<1, \h7F, {\h56, \h80}>>, <<\h20, \h78, {\h55, \h5A}>>,
    <<\h30, \h7F, {\h37, \h41, \h9B}>>, <<\h20, \h7F, {\h3F}>>,
    <<4, \h67, {\h11, \h50, \h51, \h60, \h6A, \h6B, \h6D, \h6E, \h71, \h72, \h77, \h79, \h7A, \h7D,
            \h7E, \h81, \h87, \h97, \h99, \hA0} \cup (\h26..\h2A)>>,
    <<\h2C, \h7F, {\h4E, \h61, \h6C, \h86}>>,
    <<\h24, \h7F, {\h53, \h6F, \h78, \h82, \h89, \h8C, \h8F, \h91, \h9C} \cup (\h1C..\h1F)>>,
    <<\h34, \h7F, {\h7F, \h85, \h88, \h8A, \h8B, \h8D, \h90, \h96, \h98, \h9D, \h9F}>>,
    <<\h34, \h27F, {\h33}>>, <<\h4C, \h7F, {\h92, \h93}>>, <<\h44, \h7F, {\h94}>>,
    <<4, \h7F, {\h70}>>, <<\h204, \h267, {\h68}>>,
    <<5, 7, {\h2B, \h32, \h4F, \h52, \h5E, \h5F, \h69, \h7B, \h84, \h8E, \h95, \h9A, \h9E, \hA1,
            \hAB, \hAD, \hAE} \cup (6..\hB) \cup (\h12..\h1B) \cup (\h20..\h25) \cup (\h3A..\h3D)
            \cup (\h62..\h67) \cup (\h73..\h76)>>,
    <<0, 0, {\h58, \h59}>> }
PadConfigsIowa == {
    <<0, \h7F, {\h1C, \h1E, \h1F, \h36, \h38, \h3C, \h40, \h42, \h44, \h46, \h4C, \h4D, \h5D} \cup
            (\h48..\h4A)>>,
    <<\h28, \h7F, {\h39, \h43, \h45, \h47, \h4B}>>,
    <<\h40, \h27F, {\h10, \h34, \h35} \cup (\h2C..\h31)>>, <<\h20, \h27F, {\hD, \hE, \h64}>>,
    <<0, \h27F, {\hC, \hF}>>, <<\h40, \h7F, {0, \hAA, \hAC}>>,
    <<\h50, \h7F, 1..5 \cup (\hA2..\hA9)>>, <<0, \h78, {\h5B, \h5C}>>, <<1, \h67, {\h7C}>>,
    <<1, \h7F, {\h80}>>, <<\h20, \h78, {\h55, \h5A}>>,
    <<\h20, \h7F, {\h3B, \h3D, \h3F, \h41, \h56}>>, <<\h30, \h7F, {\h1D, \h37, \h9B, \hA1}>>,
    <<0, \h67, {\h54}>>,
    <<\h34, \h7F, {\h5F, \h65, \h85, \h88, \h8A, \h8B, \h96, \h98, \h9D, \h9F}>>,
    <<4, \h67, {\h11, \h2A, \h4F, \h51, \h60, \h66, \h6A, \h6B, \h6D, \h6E, \h71, \h72, \h77, \h7D,
            \h7E, \h81, \h87, \h95, \h97, \h9A, \hA0}>>,
    <<\h2C, \h7F, {6, \h52, \h61, \h6C, \h86, \h9E}>>,
    <<\h24, \h7F, {\h3A, \h3E, \h53, \h6F, \h78, \h82, \h89, \h8C, \h8D, \h8F, \h91, \h9C} \cup
            (8..\hB)>>,
    <<\h34, \h27F, {\h33}>>, <<\h4C, \h7F, {\h92, \h93}>>,
    <<\h44, \h7F, {\h94}>>, <<4, \h7F, {\h70}>>, <<4, \h267, {\h67}>>,
    <<5, 7, {7, \h2B, \h32, \h4E, \h50, \h5E, \h62, \h63, \h68, \h69, \h7F, \h83, \h84, \h8E, \h90,
            \h99, \hAB, \hAD, \hAE} \cup (\h12..\h1B) \cup (\h20..\h29) \cup (\h73..\h76) \cup
            (\h79..\h7B)>>,
    <<0, 0, {\h58, \h59}>> }
PadConfigsCalcio == {
    <<\h20, \h27F, {\hD, \hE}>>, <<0, \h27F, {\hC, \hF}>>,
    <<\h40, \h27F, {\h10, \h2C, \h2D, \h34, \h35}>>, <<\h40, \h7F, {0}>>, <<\h50, \h7F, 1..5>>,
    <<0, \h78, {\h5B, \h5C}>>, <<1, \h7F, {\h56, \h80}>>, <<\h20, \h78, {\h55, \h5A}>>,
    <<0, \h7F, {\h36, \h38, \h42, \h44, \h4A, \h4C, \h4D}>>, <<\h30, \h7F, {\h37}>>,
    <<\h28, \h7F, {\h39, \h43, \h45, \h4B}>>, <<0, \h67, {\h54}>>, <<\h240, \h27F, {\h63}>>,
    <<4, \h67, {\h6A, \h6B, \h6D, \h6E, \h81} \cup (\h26..\h2A)>>,
    <<\h24, \h7F, {\h6F, \h78, \h89}>>,
    <<\h34, \h7F, {\h13, \h88, \h8A, \h8B, \h8D, \h96, \h98, \h9D, \h9F}>>,
    <<\h4C, \h7F, {\h92, \h93}>>, <<\h44, \h7F, {\h94}>>, <<\hC, \h7F, {\h12, \h14, \h69}>>,
    <<\h2C, \h7F, {\h6C}>>, <<4, \h7F, {\h70}>>, <<\h24, \h27F, {\h64}>>,
    <<5, 7, {\h11, \h2B, \h8C, \h95, \h97, \h9E} \cup (6..\hB) \cup (\h15..\h25) \cup (\h2E..\h33)
            \cup (\h3A..\h41) \cup (\h46..\h49) \cup (\h4E..\h53) \cup (\h5D..\h62) \cup
            (\h65..\h68) \cup (\h71..\h77) \cup (\h79..\h7F) \cup (\h82..\h87) \cup (\h8E..\h91)
            \cup (\h99..\h9C) \cup (\hA0..\hAE)>>,
    <<0, \h18, {\h58, \h59}>> }

(* And of the drivers.                                                     *)
DriveConfigs == {
    << <<16, 16, 0, 0>>, <<31, 31, 0, 0>>, {4, \hD, \h10, \h12, \h13, \h46, \h47} \cup
            (\h24..\h2B)>>,
    << <<31, 0, 0, 0>>, <<31, 31, 0, 0>>, {\h14, \h15, \h62, \h63} \cup (\h31..\h34)>>,
    << <<31, 31, 0, 0>>, <<31, 31, 0, 0>>, {\h2C, \h2D, \h2F}>>,
    << <<4, 20, 0, 0>>, <<31, 31, 0, 0>>, {\h30, \h4C, \h4D} \cup (\h87..\h8A)>>,
    << <<7, 0, 0, 0>>, <<31, 31, 0, 0>>, {\h35, \h36}>>,
    << <<20, 20, 0, 0>>, <<31, 31, 0, 0>>, {\h7C}>>,
    << <<0, 0, 0, 0>>, <<0, 0, 3, 3>>, (\h6D..\h76)>>,
    << <<18, 18, 1, 1>>, <<31, 31, 3, 3>>, {\h69}>> }
DriveConfigsHoag == {
    << <<16, 16, 0, 0>>, <<31, 31, 0, 0>>, {4, \hD, \h10, \h12, \h13, \h46, \h47} \cup
            (\h24..\h2B)>>,
    << <<31, 0, 0, 0>>, <<31, 31, 0, 0>>, {\h14, \h15, \h31, \h32, \h62, \h63}>>,
    << <<31, 31, 0, 0>>, <<31, 31, 0, 0>>, {\h2C, \h2D, \h2F}>>,
    << <<4, 20, 0, 0>>, <<31, 31, 0, 0>>, {\h30, \h4C, \h4D} \cup (\h87..\h8A)>>,
    << <<4, 0, 0, 0>>, <<31, 31, 0, 0>>, {\h33, \h34}>>,
    << <<7, 0, 0, 0>>, <<31, 31, 0, 0>>, {\h35, \h36}>>,
    << <<20, 20, 0, 0>>, <<31, 31, 0, 0>>, {\h7C}>>,
    << <<0, 0, 0, 0>>, <<0, 0, 3, 3>>, (\h6D..\h76)>>,
    << <<18, 18, 1, 1>>, <<31, 31, 3, 3>>, {\h69}>> }

PadConfigs == [Icosa |-> PadConfigsIcosa, Copper |-> PadConfigsCopper, Hoag |-> PadConfigsHoag,
               Iowa |-> PadConfigsIowa, Calcio |-> PadConfigsCalcio]
ExtraMarikoPadNames == \hA2..\hAA \cup {\hAC}

(* All parks, then the table's row for the pad and Mariko's extra.         *)
ConfigurePad(hw, pad, v) ==
    LET rows   == {row \in PadConfigs[hw] : pad \in row[3]}
        parked == UpdatePark(pad, v)
        set    == IF rows = {} THEN parked
                  ELSE LET row == CHOOSE r \in rows : TRUE
                       IN  UpdatePad(pad, parked, row[1], row[2])
    IN  IF hw \in Mariko /\ pad \in ExtraMarikoPadNames
        THEN UpdatePad(pad, set, \h2000, \h2000) ELSE set

ConfiguredPads(hw) ==
    UNION {row[3] : row \in PadConfigs[hw]} \cup (IF hw \in Mariko THEN ExtraMarikoPadNames ELSE {})

InitialDrivePadConfigs(hw) == IF hw = "Hoag" THEN DriveConfigsHoag ELSE DriveConfigs
ConfigureDrivePad(hw, drive, v) ==
    LET rows == {row \in InitialDrivePadConfigs(hw) : drive \in row[3]}
    IN  IF rows = {} THEN v
        ELSE LET row == CHOOSE r \in rows : TRUE IN UpdateDrivePad(drive, v, row[1], row[2])

-----------------------------------------------------------------------------
(* gpio: the descriptors of the pads, from pad 0 on.                       *)
NoGpio == -1
Gpios == <<
    NoGpio, \hCC, \h24, \h3C, \hDA, \hDB, \hDC, \h25, \h90, \h91, \h96, \h97, \h26, 5, \h78, \h93,
    \h7D, \h7C, \h7B, \h7A, \hBC, \hAE, \hBA, \hB9, \hBD, \hBE, \hBF, \hC0, \hC1, \hA9, \hAA, \h55,
    \hAD, \hC8, \hCA, \hCB, \h4F, \h50, \h51, \h52, \h54, \h56, \h57, \h53, \hE3, \h38, \h39, \h3B,
    \h3D, \h3F, \h40, \h41, \h3E, \hE2, \hE4, \h3A, \hC9, \h4D, \h58, \h3E, \h26, NoGpio, \h33,
    \h1C, \hD9, \hC, \hD, \h21, \h27, \h92, \h95, \h98, \h10, \h11, \h12, \h42, \hE6, \hAC, \hE1,
    \h56, \h20, \h21, \h22, \h23, \h4C, \h57, \h27, \h98, \h99, \hBB, \hE5, \hAB, \h4E, \h32, \h1B,
    \h17, \h18, \h15, \h16 >>

(* Mutant: the four registers of a bank are not told apart.                *)
GpioRegisterOfBank(desc) == <<(desc \div 32) * 256, desc % 8>>

(* A pin's offset, which its registers have from there on, and its bit.    *)
GpioRegister(desc) == <<(desc \div 32) * 256 + ((desc \div 8) % 4) * 4, desc % 8>>

GpioPads == {pad \in 0..98 : Gpios[pad + 1] # NoGpio}
GpioPins == {GpioRegister(Gpios[pad + 1]) : pad \in GpioPads}

(* Configure, SetDirection and SetValue: pin is the bits of a pin in the   *)
(* registers CNF, OE and OUT.  Half of what is written to the masked       *)
(* registers says which bits count, so that others keep theirs.            *)
Configure(pin)         == [pin EXCEPT !.cnf = 1]
SetDirection(pin, way) == [pin EXCEPT !.oe = IF way = "output" THEN 1 ELSE 0]
SetValue(pin, level)   == [pin EXCEPT !.out = level]

(* Direction, value, pads.                                                 *)
GpioConfigsIcosa == {
    <<"input", 1, {4, \hB, \hF, \h14, \h17, \h21, \h23, \h35, \h38} \cup (\h19..\h1B) \cup
            (\h28..\h2A)>>,
    <<"output", 0, {5, 7, \hA, \hD, \h24, \h36, \h39, \h3A} \cup 1..3 \cup (\h1D..\h20) \cup
            (\h2B..\h2F) \cup (\h31..\h33)>>,
    <<"input", 0, {6, 8, 9, \hC, \hE, \h15, \h16, \h18, \h1C, \h22, \h30, \h34, \h37, \h3B, \h3C}
            \cup (\h10..\h13) \cup (\h25..\h27)>> }
GpioConfigsIcosa4x == {
    <<"input", 1, {4, \hB, \hF, \h14, \h21, \h23, \h35, \h38} \cup (\h17..\h1B) \cup
            (\h28..\h2A)>>,
    <<"output", 0, {5, 7, \hA, \hD, \h24, \h36, \h39, \h3A} \cup 1..3 \cup (\h1D..\h20) \cup
            (\h2B..\h2F) \cup (\h31..\h33)>>,
    <<"input", 0, {6, 8, 9, \hC, \hE, \h15, \h16, \h1C, \h22, \h30, \h34, \h37, \h3B, \h3C} \cup
            (\h10..\h13) \cup (\h25..\h27)>> }
GpioConfigsCopper == {
    <<"output", 0, {2, 3, 5, 7, \h20, \h31, \h40, \h43, \h4D} \cup (\h2D..\h2F) \cup
            (\h46..\h4B)>>,
    <<"input", 1, {\hF, \h14, \h19, \h1A, \h1C, \h23, \h38, \h41, \h44, \h45, \h4C} \cup
            (\h28..\h2A)>>,
    <<"input", 0, {\h18, \h30, \h37, \h42, \h4E} \cup (\h10..\h13) \cup (\h25..\h27)>> }
GpioConfigsHoag == {
    <<"output", 0, {5, \hA, \hD, \h24, \h55, \h5C} \cup 1..3 \cup (\h1D..\h20) \cup (\h2D..\h2F)
            \cup (\h31..\h33) \cup (\h50..\h53) \cup (\h57..\h5A)>>,
    <<"input", 0, {6, 9, \hB, \h15, \h16, \h18, \h1B, \h21, \h30, \h37, \h3B, \h3C, \h54} \cup
            (\h25..\h27) \cup (\h5F..\h62)>>,
    <<"input", 1, {\hF, \h14, \h17, \h19, \h1A, \h1C, \h23, \h28, \h38, \h4F, \h56, \h5B}>> }
GpioConfigsIowa == {
    <<"input", 1, {4, \hF, \h14, \h17, \h19, \h1A, \h23, \h28, \h35, \h38, \h4F}>>,
    <<"output", 0, {5, \hA, \hD, \h24, \h36, \h39, \h3A, \h59} \cup 1..3 \cup (\h1D..\h20) \cup
            (\h2B..\h2F) \cup (\h31..\h33)>>,
    <<"input", 0, {6, 8, 9, \hB, \hC, \hE, \h15, \h16, \h18, \h1B, \h1C, \h21, \h22, \h30, \h34,
            \h37, \h3B, \h3C} \cup (\h10..\h13) \cup (\h25..\h27)>> }
GpioConfigsCalcio == {
    <<"output", 0, {2, 3, \h20, \h31} \cup (\h2D..\h2F) \cup (\h48..\h4A) \cup (\h50..\h53)>>,
    <<"input", 0, {\hB, \h18, \h30, \h37, \h4E} \cup (\h25..\h27)>>,
    <<"input", 1, {\h14, \h19, \h1A, \h1C, \h23, \h28, \h38, \h4C, \h4F}>> }

(* Until 2.0.0 all consoles had Icosa's.                                   *)
GpioConfigs(hw, fw) ==
    CASE fw < 200 -> GpioConfigsIcosa
      [] fw >= 200 /\ hw = "Icosa" ->
             IF fw >= 400 THEN GpioConfigsIcosa4x ELSE GpioConfigsIcosa
      [] fw >= 200 /\ hw = "Copper" -> GpioConfigsCopper
      [] fw >= 200 /\ hw = "Hoag"   -> GpioConfigsHoag
      [] fw >= 200 /\ hw = "Iowa"   -> GpioConfigsIowa
      [] fw >= 200 /\ hw = "Calcio" -> GpioConfigsCalcio

ConfigureGpio(pin, way, level) ==
    LET turned == SetDirection(Configure(pin), way)
    IN  IF way = "output" THEN SetValue(turned, level) ELSE turned

(* The rows for a pin; pads that are not connected are passed over.        *)
RowsOf(register_bit, rows) ==
    {row \in rows : \E pad \in row[3] \cap GpioPads : GpioRegister(Gpios[pad + 1]) = register_bit}

GpioSetInitialConfiguration(hw, fw, gpio) ==
    [r \in GpioPins |->
        LET rows == RowsOf(r, GpioConfigs(hw, fw))
        IN  IF rows = {} THEN gpio[r]
            ELSE LET row == CHOOSE x \in rows : TRUE IN ConfigureGpio(gpio[r], row[1], row[2])]

(* Only Copper has a fan to be enabled.                                    *)
FanEnable == GpioRegister(Gpios[\h4B + 1])
SetFanEnabled(hw, gpio) ==
    IF hw # "Copper" THEN gpio ELSE [gpio EXCEPT ![FanEnable] = ConfigureGpio(@, "output", 1)]

-----------------------------------------------------------------------------
(* The power controller, which exosphere writes: s is what boot has set,   *)
(* and whether it is still running.                                        *)
Bits == 0..31
WritePmcRegister(fw, s, offset, value, mask) ==
    LET told == smc_read_write_register(fw, "PMC", offset, s.pmc[offset], Bits, mask, value)
    IN  IF s.at # "running" THEN s
        ELSE IF told.result # 0 THEN [s EXCEPT !.at = "aborted"]
        ELSE [s EXCEPT !.pmc[offset] = told.bits]

UpdatePmcControlBit(fw, s, offset, mask, flag) ==
    WritePmcRegister(fw, s, offset, IF flag THEN Bits ELSE {}, mask)

Pmc == [CNTRL |-> \h0, WAKE_MASK |-> \hC, WAKE_LVL |-> \h10, DPD_PADS_ORIDE |-> \h1C,
        BLINK_TIMER |-> \h40, PWR_DET |-> \h48, AUTO_WAKE_LVL_MASK |-> \hDC, PWR_DET_VAL |-> \hE4,
        WAKE2_MASK |-> \h160, WAKE2_LVL |-> \h164, AUTO_WAKE2_LVL_MASK |-> \h170,
        CLK_OUT_CNTRL |-> \h1A8, CNTRL2 |-> \h440, WAKE_DEBOUNCE_EN |-> \h4D8]

(* SDMMC3, audio, GPIO and SPI.                                            *)
VoltageChangeMask == {13, 18, 21, 23}
ChangeGpioVoltageTo1_8v(fw, s) ==
    WritePmcRegister(fw, WritePmcRegister(fw, s, Pmc.PWR_DET, VoltageChangeMask, VoltageChangeMask),
                     Pmc.PWR_DET_VAL, {}, VoltageChangeMask)

SetInitialClockConfiguration(fw, s) ==
    LET mask == IF fw >= 600 THEN {2, 6, 7, 10, 14, 15} ELSE {2, 6, 7}
    IN  WritePmcRegister(fw, s, Pmc.CLK_OUT_CNTRL, mask, mask)

WakeControlConfigs ==
    {<<Pmc.CNTRL, 11, TRUE>>, <<Pmc.CNTRL, 10, FALSE>>, <<Pmc.CNTRL, 9, TRUE>>, <<Pmc.CNTRL, 8, FALSE>>,
     <<Pmc.CNTRL, 6, FALSE>>, <<Pmc.CNTRL, 5, FALSE>>,
     <<Pmc.CNTRL2, 14, TRUE>>, <<Pmc.CNTRL2, 9, FALSE>>, <<Pmc.CNTRL2, 0, TRUE>>}

InitializePmcWakeConfiguration(fw, s, is_blink) ==
    LET started == WritePmcRegister(fw, WritePmcRegister(fw, s, Pmc.WAKE_DEBOUNCE_EN, {}, Bits),
                                    Pmc.BLINK_TIMER, {11, 15, 27}, Bits)
        controlled == Each(LAMBDA t, c : UpdatePmcControlBit(fw, t, c[1], {c[2]}, c[3]),
                           started, WakeControlConfigs)
    IN  UpdatePmcControlBit(fw, UpdatePmcControlBit(fw, controlled, Pmc.CNTRL, {7}, is_blink),
                            Pmc.DPD_PADS_ORIDE, {20}, is_blink)

LevelRegister(index) == IF index <= 31 THEN Pmc.WAKE_LVL ELSE Pmc.WAKE2_LVL
AutoRegister(index)  == IF index <= 31 THEN Pmc.AUTO_WAKE_LVL_MASK ELSE Pmc.AUTO_WAKE2_LVL_MASK

(* Mutant: the register of the other kind keeps its bit.                   *)
SetWakeEventLevelOnly(fw, s, index, level) ==
    UpdatePmcControlBit(fw, s, IF level # 2 THEN LevelRegister(index) ELSE AutoRegister(index),
                        {index % 32}, level > 0)

(* A pin wakes at a level, 0 or 1, or at the one it does not sleep at: 2.  *)
SetWakeEventLevel(fw, s, index, level) ==
    LET cleared == IF level # 2 THEN AutoRegister(index) ELSE LevelRegister(index)
        given   == IF level # 2 THEN LevelRegister(index) ELSE AutoRegister(index)
    IN  UpdatePmcControlBit(fw, UpdatePmcControlBit(fw, s, cleared, {index % 32}, FALSE),
                            given, {index % 32}, level > 0)

SetWakeEventEnabled(fw, s, index, enabled) ==
    UpdatePmcControlBit(fw, s, IF index <= 31 THEN Pmc.WAKE_MASK ELSE Pmc.WAKE2_MASK,
                        {index % 32}, enabled)

(* Enabled, level, pins.                                                   *)
WakePinConfigsIcosa == {
    <<FALSE, 2, {5, \hF, \h1C, \h21, \h24, \h31, \h32} \cup 0..3 \cup (\hB..\hD) \cup (\h11..\h1A)
            \cup (\h2D..\h2F) \cup (\h35..\h3B) \cup (\h3D..\h3F)>>,
    <<TRUE, 2, {4, 6, 7, \hA, \h23, \h30}>>, <<TRUE, 1, {8}>>,
    <<TRUE, 0, {\hE, \h1B, \h22, \h33, \h34}>> }
WakePinConfigsCopper == {
    <<TRUE, 2, {0, 3, 5, 8, \h18, \h2F, \h30, \h32}>>,
    <<FALSE, 2, {1, 2, 4, 6, 7, \hF, \h19, \h1A, \h1C, \h21, \h23, \h24, \h2D, \h2E, \h31} \cup
            (\hA..\hD) \cup (\h11..\h17) \cup (\h35..\h3B) \cup (\h3D..\h3F)>>,
    <<TRUE, 0, {\hE, \h33, \h34}>>, <<FALSE, 0, {\h1B, \h22}>> }
WakePinConfigsHoag == {
    <<FALSE, 2, {6, \hF, \h1C, \h20, \h21, \h24, \h31, \h32, \h3A, \h3B} \cup 0..3 \cup (\hB..\hD)
            \cup (\h11..\h1A) \cup (\h2D..\h2F) \cup (\h35..\h38) \cup (\h3D..\h3F)>>,
    <<TRUE, 2, {4, 5, 7, \hA, \h23, \h30}>>, <<TRUE, 1, {8}>>,
    <<TRUE, 0, {\hE, \h1B, \h22, \h33, \h34, \h39}>> }
WakePinConfigsIowa == {
    <<FALSE, 2, {5, \hF, \h1C, \h21, \h24, \h31, \h32} \cup 0..3 \cup (\hB..\hD) \cup (\h11..\h1A)
            \cup (\h2D..\h2F) \cup (\h35..\h3B) \cup (\h3D..\h3F)>>,
    <<TRUE, 2, {4, 6, 7, \hA, \h23, \h30}>>, <<TRUE, 1, {8}>>,
    <<TRUE, 0, {\hE, \h1B, \h22, \h33, \h34}>> }
WakePinConfigsCalcio == {
    <<FALSE, 2, {\hF, \h1C, \h21, \h24, \h3A, \h3B} \cup 0..7 \cup (\hA..\hD) \cup (\h11..\h1A)
            \cup (\h2D..\h32) \cup (\h35..\h38) \cup (\h3D..\h3F)>>,
    <<TRUE, 1, {8}>>,
    <<TRUE, 0, {\hE, \h33, \h34}>>, <<FALSE, 0, {\h1B, \h22, \h39}>>, <<TRUE, 2, {\h23}>> }

(* The case of Iowa falls through to that of Calcio.                       *)
WakePinConfigs(hw) ==
    CASE hw = "Icosa"  -> WakePinConfigsIcosa
      [] hw = "Copper" -> WakePinConfigsCopper
      [] hw = "Hoag"   -> WakePinConfigsHoag
      [] hw \in {"Iowa", "Calcio"} -> WakePinConfigsCalcio

SetInitialWakePinConfiguration(hw, fw, s) ==
    Each(LAMBDA t, row : Each(LAMBDA u, pin :
             SetWakeEventEnabled(fw, SetWakeEventLevel(fw, u, pin, row[2]), pin, row[1]), t, row[3]),
         InitializePmcWakeConfiguration(fw, s, FALSE), WakePinConfigs(hw))

-----------------------------------------------------------------------------
(* boot_main.cpp.                                                          *)

(* PLLU and UTMIP are locked to the values USB needs.                      *)
IsUsbClockValid(clock) ==
    /\ clock.pllu % 2^21 = 2^16 + 25 * 2^8 + 2
    /\ Field(clock.utmip, 8, 16) = 25 * 2^8 + 1

CheckClock(s) == IF s.at = "running" /\ ~IsUsbClockValid(s.clock) THEN [s EXCEPT !.at = "rebooted"] ELSE s

GpioSet(hw, fw, s) ==
    IF s.at # "running" THEN s ELSE [s EXCEPT !.gpio = GpioSetInitialConfiguration(hw, fw, @)]

(* The pads one after the other: a locked one stops boot before the rest   *)
(* and before the drivers.                                                 *)
PinmuxSetInitialConfiguration(hw, s) ==
    IF s.at # "running" THEN s
    ELSE IF \E pad \in ConfiguredPads(hw) : Locked(s.pads[pad]) THEN [s EXCEPT !.at = "aborted"]
    ELSE [s EXCEPT !.pads   = [pad \in PadNames |-> ConfigurePad(hw, pad, s.pads[pad])],
                   !.drives = [d \in DriveNames |-> ConfigureDrivePad(hw, d, s.drives[d])]]

(* The images are external: repaired, the normal one has boot start again. *)
CheckAndRepairBootImages(s) ==
    IF s.at = "running" /\ s.repairs THEN [s EXCEPT !.at = "rebooted"] ELSE s

ClockSet(hw, fw, s) ==
    IF hw \in {"Copper", "Calcio"} THEN s ELSE SetInitialClockConfiguration(fw, s)

FanSet(hw, s) ==
    IF s.at = "running" THEN [s EXCEPT !.gpio = SetFanEnabled(hw, @)] ELSE s

TellPm(s) == IF s.at = "running" THEN [s EXCEPT !.at = "pm told"] ELSE s

(* The boot reason, the splash screen and the battery's check, which come  *)
(* after the clock's, are modules of their own.                            *)
Main(hw, fw, s) ==
    TellPm(CheckAndRepairBootImages(FanSet(hw, ClockSet(hw, fw,
        SetInitialWakePinConfiguration(hw, fw, PinmuxSetInitialConfiguration(hw,
            CheckClock(GpioSet(hw, fw, ChangeGpioVoltageTo1_8v(fw, s)))))))))

-----------------------------------------------------------------------------
(* boot_pcv.cpp: the source, enable and reset registers of the I2C buses'  *)
(* clocks, and the bit of each bus there.                                  *)
ClkRstRegisters == <<
    [src |-> \h124, en |-> \h010, rst |-> \h004, bit |-> 12],
    [src |-> \h198, en |-> \h014, rst |-> \h008, bit |-> 22],
    [src |-> \h1B8, en |-> \h018, rst |-> \h00C, bit |-> 3],
    [src |-> \h3C4, en |-> \h360, rst |-> \h358, bit |-> 7],
    [src |-> \h128, en |-> \h014, rst |-> \h008, bit |-> 15],
    [src |-> \h65C, en |-> \h280, rst |-> \h28C, bit |-> 6] >>
ClockOffsets == UNION {{r.src, r.en, r.rst} : r \in {ClkRstRegisters[i] : i \in 1..6}}

(* car: the bits that are set in each register.  The source's low byte     *)
(* becomes 4, its upper bits 0.                                            *)
SetClockRate(bus, car) ==
    LET r == ClkRstRegisters[bus]
    IN  [car EXCEPT ![r.en] = @ \cup {r.bit}, ![r.src] = (@ \ ((0..7) \cup (29..31))) \cup {2}]

SetReset(bus, reset, car) ==
    LET r == ClkRstRegisters[bus]
    IN  [car EXCEPT ![r.rst] = IF reset THEN @ \cup {r.bit} ELSE @ \ {r.bit}]

-----------------------------------------------------------------------------
(* boot_power_utils.cpp: a payload in IRAM, by pages, that exosphere       *)
(* copies there; a page it refuses stops boot.                             *)
IramPayloadPage     == 16
IramPayloadMaxPages == 46
FatalContextPage    == IramPayloadPage + IramPayloadMaxPages

CopyToIram(held, page, what) ==
    LET copied == ams_iram_copy([page |-> 0, offset |-> 0], [page |-> page, offset |-> 0], PageSize, 1)
    IN  IF held = <<"refused">> \/ copied.result # 0 THEN <<"refused">> ELSE what

(* Mutant: the pages before the payload are left as they are.              *)
ClearIramFromPayload(page, held) ==
    IF page < IramPayloadPage THEN held ELSE CopyToIram(held, page, <<"cleared">>)

ClearIram(page, held) == CopyToIram(held, page, <<"cleared">>)

(* What a page then holds: of a payload of size pages, the last one filled *)
(* up with what was left, and of the context of a fatal error.             *)
DoRebootToPayload(page, held, size, fatal) ==
    LET cleared == ClearIram(page, held)
        n       == page - IramPayloadPage
        loaded  == IF n \in 0..size - 1 THEN CopyToIram(cleared, page, <<"payload", n>>) ELSE cleared
    IN  IF fatal /\ page = FatalContextPage THEN CopyToIram(loaded, page, <<"context">>) ELSE loaded

-----------------------------------------------------------------------------
(* Properties.                                                             *)

PadFields == {<<0, 2>>, <<2, 2>>, <<13, 2>>} \cup {<<low, 1>> : low \in (4..12) \cup {15, 16}}

(* What pads hold before, unlocked, in the bits that they have.            *)
SomePads  == {0, \h1FF7F, \h15555, \h0AA2A}

(* A pad is configured from one row, and the same again changes nothing;   *)
(* each of its fields either holds what it held or something that does not *)
(* depend on that, and it is never locked.  A pad that is not used is      *)
(* pulled down, driven by nobody and not read, where the pad has that.     *)
(* (UpdatePad, ConfigureInitialPads)                                       *)
PadBecomesRight(hw, pad, becomes) ==
    LET rows == {row \in PadConfigs[hw] : pad \in row[3]}
    IN  /\ \A row, other \in rows : row = other
        /\ \A field \in PadFields :
              LET Of(v) == Field(v, field[1], field[2])
              IN  \/ \A b \in becomes : Of(b[2]) = Of(b[1])
                  \/ \A b, c \in becomes : Of(b[2]) = Of(c[2])
        /\ \A b \in becomes : ConfigurePad(hw, pad, b[2]) = b[2] /\ ~Locked(b[2])
        /\ \A row \in rows : row[1] = 5 =>
              \A b \in becomes :
                 /\ Has(pad, 2, 2) => Field(b[2], 2, 2) = 1
                 /\ Has(pad, 4, 1) => Field(b[2], 4, 1) = 1
                 /\ Has(pad, 6, 1) => Field(b[2], 6, 1) = 0

PadConfiguredRight(hw, pad) ==
    PadBecomesRight(hw, pad, {<<v, ConfigurePad(hw, pad, v)>> : v \in SomePads})

(* A driver's strengths and slews are a row's, and nothing else of its     *)
(* register changes.  (UpdateDrivePad, ConfigureInitialDrivePads)          *)
SomeDrives == {<<0, 0, 0, 0>>, <<127, 127, 3, 3>>, <<85, 42, 1, 2>>}
DriveConfiguredRight(hw, drive) ==
    LET rows == {row \in InitialDrivePadConfigs(hw) : drive \in row[3]}
    IN  /\ \A row, other \in rows : row = other
        /\ \A v \in SomeDrives, i \in 1..4 :
              LET width == DriveDefinition[drive][1][i]
                  now   == ConfigureDrivePad(hw, drive, v)[i]
              IN  /\ now \div 2^width = v[i] \div 2^width
                  /\ rows = {} => now = v[i]
                  /\ \A row \in rows :
                        now % 2^width = (IF row[2][i] # 0 THEN row[1][i] ELSE v[i]) % 2^width

(* Two pads of a table that are the same pin are configured the same, so   *)
(* that their order means nothing.  (gpio::SetInitialConfiguration)        *)
GpiosAgree(hw, fw) ==
    \A row, other \in GpioConfigs(hw, fw) : row # other =>
        {Gpios[pad + 1] : pad \in row[3]} \cap {Gpios[pad + 1] : pad \in other[3]} = {}

(* Two different pins never share a bit of a register.  (gpio::Configure)  *)
GpiosApart ==
    \A pad, other \in GpioPads :
        Gpios[pad + 1] # Gpios[other + 1] =>
            GpioRegister(Gpios[pad + 1]) # GpioRegister(Gpios[other + 1])

(* When pm is told, every pin of the console's tables is what they say,    *)
(* whatever the bootloader left, and everything else is what it left: the  *)
(* steps of boot do not undo each other.  (main)                           *)
GpiosHold(hw, fw, before, s) ==
    \A r \in GpioPins :
        LET rows == RowsOf(r, GpioConfigs(hw, fw))
            now  == s.gpio[r]
            was  == before.gpio[r]
        IN  IF hw = "Copper" /\ r = FanEnable THEN now = [cnf |-> 1, oe |-> 1, out |-> 1]
            ELSE IF rows = {} THEN now = was
            ELSE \A row \in rows :
                    /\ now.cnf = 1 /\ now.oe = (IF row[1] = "output" THEN 1 ELSE 0)
                    /\ now.out = IF row[1] = "output" THEN row[2] ELSE was.out

(* The wake pins' levels and masks, in both of their banks.                *)
WakePinsHold(hw, before, s) ==
    \A pin \in 0..63 :
        LET rows == {row \in WakePinConfigs(hw) : pin \in row[3]}
            enabled == IF pin <= 31 THEN Pmc.WAKE_MASK ELSE Pmc.WAKE2_MASK
            Now(offset) == pin % 32 \in s.pmc[offset]
            Was(offset) == pin % 32 \in before.pmc[offset]
        IN  /\ \A row \in rows :
                  /\ Now(enabled) = row[1]
                  /\ Now(LevelRegister(pin)) = (row[2] = 1)
                  /\ Now(AutoRegister(pin)) = (row[2] = 2)
            /\ rows = {} =>
                  \A offset \in {enabled, LevelRegister(pin), AutoRegister(pin)} : Now(offset) = Was(offset)

(* The bits of the controller's own registers.                             *)
ControlsHold(before, s) ==
    \A bit \in Bits, offset \in {Pmc.CNTRL, Pmc.CNTRL2, Pmc.DPD_PADS_ORIDE} :
        LET configs == {c \in WakeControlConfigs : c[1] = offset /\ c[2] = bit}
            blink   == <<offset, bit>> \in {<<Pmc.CNTRL, 7>>, <<Pmc.DPD_PADS_ORIDE, 20>>}
        IN  (bit \in s.pmc[offset]) =
                IF blink THEN FALSE
                ELSE IF configs # {} THEN \E c \in configs : c[3]
                ELSE bit \in before.pmc[offset]

(* What the bootloader may leave: clocks good or not, pads locked or not.  *)
BeforeBoot(full, clock, locked, repairs) ==
    [at |-> "running", clock |-> clock, repairs |-> repairs,
     pmc    |-> [offset \in {Pmc[name] : name \in DOMAIN Pmc} |-> IF full THEN Bits ELSE {}],
     gpio   |-> [r \in GpioPins |-> LET b == IF full THEN 1 ELSE 0 IN [cnf |-> b, oe |-> b, out |-> b]],
     pads   |-> [pad \in PadNames |-> (IF full THEN \h1FF7F ELSE 0) + IF pad \in locked THEN 128 ELSE 0],
     drives |-> [d \in DriveNames |-> IF full THEN <<127, 127, 3, 3>> ELSE <<0, 0, 0, 0>>]]

UsbClock == [pllu |-> 71938, utmip |-> 1638656]

PinsHold(hw, fw, before, s) ==
    /\ s.at = "pm told"
    /\ GpiosHold(hw, fw, before, s) /\ WakePinsHold(hw, before, s) /\ ControlsHold(before, s)

(* exosphere refuses none of boot's writes, on any firmware.  (main,       *)
(* ReadWriteRegisterImpl)                                                  *)
PinsConfigured(hw, fw) ==
    /\ GpiosAgree(hw, fw)
    /\ \A full \in BOOLEAN :
          LET before == BeforeBoot(full, UsbClock, {}, FALSE)
          IN  PinsHold(hw, fw, before, Main(hw, fw, before))

(* pm is told unless a pad that boot configures was locked, the clock is   *)
(* bad or an image was repaired.  (main, UpdatePad, CheckClock)            *)
ToldOrNot(hw) ==
    /\ \A pad \in {\h58, \h62, \hAA} :
          Main(hw, 100, BeforeBoot(FALSE, UsbClock, {pad}, FALSE)).at =
              IF pad \in ConfiguredPads(hw) THEN "aborted" ELSE "pm told"
    /\ \A pllu \in {0, 71938, 71939}, repairs \in BOOLEAN : pllu # 71938 \/ repairs =>
          Main(hw, 100, BeforeBoot(FALSE, [UsbClock EXCEPT !.pllu = pllu], {}, repairs)).at = "rebooted"

PadsConfigured(hw) ==
    /\ ToldOrNot(hw)
    /\ \A pad \in PadNames : PadConfiguredRight(hw, pad)
    /\ \A drive \in DriveNames : DriveConfiguredRight(hw, drive)

(* What a bus does with its clock and its reset leaves those of the others *)
(* alone, even where they share registers.  (SetClockRate, SetReset)       *)
BusClocksApart ==
    \A bus, other \in 1..6, full, reset \in BOOLEAN : bus # other =>
        LET car == [offset \in ClockOffsets |-> IF full THEN 0..31 ELSE {}]
            now == SetReset(bus, reset, SetClockRate(bus, car))
            r   == ClkRstRegisters[other]
        IN  /\ now[r.src] = car[r.src]
            /\ (r.bit \in now[r.en]) = (r.bit \in car[r.en])
            /\ (r.bit \in now[r.rst]) = (r.bit \in car[r.rst])

(* A payload of up to 46 pages is whole in IRAM, with the context behind   *)
(* it if there is one, and of what was there before nothing is left.       *)
(* (DoRebootToPayload, ClearIram)                                          *)
PayloadWhole ==
    \A size \in 1..IramPayloadMaxPages, fatal \in BOOLEAN :
        \A page \in 0..IramPages - 1 :
            LET holds == DoRebootToPayload(page, <<"old">>, size, fatal)
                n     == page - IramPayloadPage
            IN  IF n \in 0..size - 1 THEN holds = <<"payload", n>>
                ELSE IF fatal /\ page = 62 THEN holds = <<"context">>
                ELSE holds \notin {<<"old">>, <<"refused">>}

(* What is the same for all firmwares, once.                               *)
PinsRight(fw) ==
    /\ \A hw \in HardwareKinds : PinsConfigured(hw, fw)
    /\ fw = 100 => /\ \A hw \in HardwareKinds : PadsConfigured(hw)
                   /\ GpiosApart /\ BusClocksApart /\ PayloadWhole
=============================================================================
