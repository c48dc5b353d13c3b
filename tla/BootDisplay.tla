---------------------------- MODULE BootDisplay ----------------------------
(***************************************************************************)
(* The display as the boot sysmodule drives it: what InitializeDisplay     *)
(* powers and programs, in order, what FinalizeDisplay takes back, for     *)
(* each vendor's panel, and the three that show something: the splash      *)
(* screen, the low battery icon and the charging icon.                     *)
(*                                                                         *)
(* A list of register writes is one step: the parts it switches on or off, *)
(* or the parts it needs to be on.  Waits are left out, but not what is    *)
(* waited for without a bound.                                             *)
(***************************************************************************)
EXTENDS Integers, Sequences

VARIABLES
    shows,    \* what boot has still to show, in order
    display,  \* the steps of the calls that run
    powered,  \* the parts that are on
    initialized, mapped,  \* g_is_display_intialized; g_frame_buffer is not null
    vendor    \* g_lcd_vendor

displayVars == <<shows, display, powered, initialized, mapped, vendor>>

Vendors == {"Jdi", "AuoRev1", "AuoRev2", "InnoluxRev1", "InnoluxRev2", "unknown"}

On(part)   == [op |-> "on", part |-> part]
Off(part)  == [op |-> "off", part |-> part]
Do(what)   == [op |-> "do", part |-> what]
-----------------------------------------------------------------------------
(* What a step needs to have on.                                           *)
Link == {"rail", "clocks", "lcd power", "vdd"}       \* to reach the panel over DSI
Needs(s) ==
    CASE s = On("vdd")              -> {"lcd power"}
      [] s = Do("configure dsi")    -> {"rail", "clocks"}
      [] s = Off("lcd power")       -> {}
      [] s = Off("vdd")             -> {"lcd power"}
      [] s = Do("ask vendor")       -> Link \cup {"panel reset"}
      [] s = Do("send to panel")    -> Link \cup {"panel reset"}
      [] s = On("panel awake")      -> Link \cup {"panel reset"}
      [] s = Off("panel awake")     -> Link \cup {"panel reset"}
      [] s = On("stream")           -> Link \cup {"panel reset", "frame buffer"}
      [] s = Do("draw")             -> {"frame buffer"}
      [] s = On("backlight")        -> Link \cup {"backlight power", "stream"}
      [] s = Off("stream")          -> {"clocks"}
      [] OTHER                      -> {}

(* What must be off before a step.                                         *)
Forbids(s) ==
    CASE s = Off("stream")          -> {"backlight"}
      [] s = Off("clocks")          -> {"stream", "panel awake"}
      [] s = Off("lcd power")       -> {"vdd", "panel reset"}
      [] s = Off("panel reset")     -> {"panel awake"}
      [] s = Off("frame buffer")    -> {"stream"}
      [] OTHER                      -> {}

(* The panels InitializeDisplay knows are sent their wake up sequence, the *)
(* others are left as they are.                                            *)
WakePanel(v) ==
    IF v = "unknown" THEN <<>> ELSE <<Do("send to panel"), On("panel awake")>>

InitializeSteps(v) ==
    <<On("frame buffer"), On("rail"), On("clocks"), On("pads"), On("lcd power"), On("vdd"),
      On("backlight power"), Do("configure dsi"), On("panel reset"), Do("ask vendor")>>
    \o WakePanel(v)
    \o <<Do("configure dsi"), On("stream"), Do("initialized")>>

(* The vendors FinalizeDisplay has a sequence of their own for; all are    *)
(* sent 0x1005 after it.                                                   *)
PanelFini(v) ==
    IF v \in {"Jdi", "AuoRev1", "AuoRev2", "InnoluxRev2"} THEN <<Do("send to panel")>> ELSE <<>>

(* Mutant: the panel loses its power before its clocks.                    *)
FinalizeStepsPowerFirst(v) ==
    <<Off("stream"), Do("configure dsi"), Off("vdd"), Off("lcd power"), Off("clocks"),
      Off("frame buffer"), Do("finalized")>>

FinalizeSteps(v) ==
    <<Off("backlight"), Do("wait 5 frames"), Off("stream"), Do("configure dsi")>>
    \o PanelFini(v)
    \o <<Off("panel awake"), Off("panel reset"), Off("vdd"), Off("lcd power"),
         Off("clocks"), Off("frame buffer"), Do("finalized")>>

ShowSteps == <<Do("draw"), On("backlight")>>

DisplayInit ==
    /\ vendor \in Vendors
    /\ shows \in {<<"splash">>, <<"splash", "start charging", "end charging">>,
                  <<"splash", "low battery">>, <<"start charging", "end charging">>,
                  <<"start charging">>, <<"low battery">>}
    /\ display = <<>> /\ powered = {} /\ initialized = FALSE /\ mapped = FALSE

(* ShowSplashScreen and ShowLowBatteryIcon show and finalize,              *)
(* StartShowChargingIcon leaves that to EndShowChargingIcon, which a       *)
(* shutdown leaves out.                                                    *)
CallShow ==
    /\ display = <<>> /\ shows # <<>>
    /\ shows' = Tail(shows)
    /\ display' = CASE Head(shows) = "start charging" ->
                           InitializeSteps(vendor) \o ShowSteps
                     [] Head(shows) = "end charging" ->
                           IF initialized THEN FinalizeSteps(vendor) ELSE <<>>
                     [] OTHER -> InitializeSteps(vendor) \o ShowSteps \o FinalizeSteps(vendor)
    /\ UNCHANGED <<powered, initialized, mapped, vendor>>

DisplayStep ==
    /\ display # <<>> /\ display' = Tail(display)
    /\ LET s == Head(display) IN
       /\ powered' = CASE s.op = "on" -> powered \cup {s.part}
                       [] s.op = "off" -> powered \ {s.part}
                       [] OTHER -> powered
       /\ initialized' = IF s.part = "initialized" THEN TRUE
                         ELSE IF s.part = "finalized" THEN FALSE ELSE initialized
       /\ mapped' = IF s.part = "frame buffer" THEN s.op = "on" ELSE mapped
    /\ UNCHANGED <<shows, vendor>>

DisplayNext == CallShow \/ DisplayStep
DisplaySpec == DisplayInit /\ [][DisplayNext]_displayVars
-----------------------------------------------------------------------------
(* ShowDisplay: an image is drawn turned by 90 degrees; the row and the    *)
(* column of a pixel in the frame buffer.                                  *)
FrameBufferWidth  == 768
FrameBufferHeight == 1280
Row(x, cur_x)    == FrameBufferHeight - (x + cur_x)
Column(y, cur_y) == y + cur_y

Pictures == {[x |-> 535, y |-> 274, w |-> 210, h |-> 172],      \* the splash screen
             [x |-> 26, y |-> 28, w |-> 52, h |-> 28],          \* low battery
             [x |-> 26, y |-> 28, w |-> 76, h |-> 28]}          \* charging
Meter == [x |-> 7, y |-> 8, w |-> 31, h |-> 12]

(* GetBatteryPercentage of the gauge's SocRep register, which counts 256ths*)
(* of a percent: a conversion from double to int cuts towards zero.        *)
Cut(n, d) == IF n < 0 THEN -((-n) \div d) ELSE n \div d
(* Mutant: the percentage is not clamped.                                  *)
BatteryPercentageRaw(soc_rep) == Cut((soc_rep - 1007) * 98 + 2 * 24123, 24123)
BatteryPercentage(soc_rep) ==
    LET converted == Cut((soc_rep - 1007) * 98 + 2 * 24123, 24123)
    IN  IF converted < 1 THEN 1 ELSE IF converted > 100 THEN 100 ELSE converted

(* StartShowChargingIcon's MeterFillW, in ten-thousandths rounded.         *)
MeterFillW(percentage) == Cut(Meter.w * (10000 - (404 + 96 * percentage)) + 5000, 10000)

(* FillBatteryMeter: the columns of the icon it writes.                    *)
FilledColumns(percentage) ==
    LET fill_w == MeterFillW(percentage)
        fill_x == Meter.x + Meter.w - fill_w
    IN  IF fill_x = 0 THEN {} ELSE (fill_x - 1)..(fill_x + fill_w - 1)
-----------------------------------------------------------------------------
(* Every part is on when it is used and nothing is cut under what still    *)
(* needs it, whichever vendor's panel it is; a display that was shown is   *)
(* dark and unpowered again, its frame buffer unmapped, so that the next   *)
(* one finds it as the first did.                                          *)
DisplayOrdered ==
    /\ display # <<>> => /\ Needs(Head(display)) \subseteq powered
                         /\ Forbids(Head(display)) \cap powered = {}
    /\ display = <<>> /\ ~initialized =>
          ~mapped /\ powered \subseteq {"rail", "pads", "backlight power"}

(* Every pixel of the pictures is inside the frame buffer, and the meter   *)
(* of the icon is filled inside the meter, by no negative width, and no    *)
(* more for a fuller battery, whatever the gauge reads.                    *)
IconsDrawnInside(soc_rep) ==
    /\ \A p \in Pictures :
          /\ \A cur_x \in 0..(p.w - 1) : Row(p.x, cur_x) \in 0..(FrameBufferHeight - 1)
          /\ \A cur_y \in 0..(p.h - 1) : Column(p.y, cur_y) \in 0..(FrameBufferWidth - 1)
    /\ MeterFillW(BatteryPercentage(soc_rep)) >= 0
    /\ LET columns == FilledColumns(BatteryPercentage(soc_rep)) IN
       /\ columns \subseteq Meter.x..(Meter.x + Meter.w - 1)
       /\ FilledColumns(BatteryPercentage(soc_rep + 256)) \subseteq columns
=============================================================================
