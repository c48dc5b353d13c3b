---------------------------- MODULE BootBattery ----------------------------
(***************************************************************************)
(* What the boot sysmodule does with the battery before it lets the        *)
(* console start: it configures the fuel gauge (Max17050) if that lost its *)
(* power, sets up the charger (Bq24193), and waits until the battery can   *)
(* carry the console, adjusting the charger every 20 ms.  Each access to a *)
(* device is an I2C transfer that may fail, the console may lose its power *)
(* between two of them, and the devices keep their registers then.         *)
(*                                                                         *)
(* Left out: the RTC's alarm behind boot reasons 3 and 4 (a reason is a    *)
(* choice of bits), the debug leftovers the source names, and how long the *)
(* icons are shown.                                                        *)
(***************************************************************************)
EXTENDS Integers, Sequences, FiniteSets

CONSTANTS
    BatteryVersions,   \* GetBatteryVersion of the calibration data
    HardwareTypes,     \* a subset of {"Icosa", "Hoag"}
    Temperatures,      \* what the gauge may measure, in degrees
    Voltages,          \* in mV
    Charges,           \* in percent
    MaxFailures,       \* bound on the I2C transfers that fail
    MaxPowerLosses     \* bound on the power lost at any step

ASSUME BatteryNumbers ==
    /\ BatteryVersions \subseteq 0..2
    /\ Temperatures \subseteq Int /\ Voltages \subseteq Int /\ Charges \subseteq Nat

VARIABLES
    version, hw_type,  \* of the console
    gauge,             \* the Max17050's registers
    charger,           \* the Bq24193's registers and the pin that enables it
    place,             \* where boot is
    step,              \* how far in GaugeProgram
    lock_i,            \* tries to lock the model table
    boot_reason,
    charge_voltage_limit,
    showing,           \* is_showing_charging_icon
    felt,              \* temperature and voltage the charger was last set for
    seen,              \* what was read last before the console started or went off
    failures, losses

batteryVars == <<version, hw_type, gauge, charger, place, step, lock_i, boot_reason,
                 charge_voltage_limit, showing, felt, seen, failures, losses>>
console == <<version, hw_type>>

Nothing == [t |-> 0, v |-> 0]
-----------------------------------------------------------------------------
(* BatteryChargeParameters0 to 2, what they differ in and what they share. *)
BatteryChargeParameters(v) ==
    CASE v = 0 -> [temp_max |-> 60, allow_high_temp_charge_max_voltage |-> 4050,
                   charge_voltage_limit_default |-> 4208,
                   charge_voltage_limit_high_temp |-> 3952,
                   allow_fast_charge_min_voltage |-> 3320,
                   fast_charge_current_limit_default |-> 2048,
                   fast_charge_current_limit_low_temp |-> 768,
                   fast_charge_current_limit_low_voltage |-> 512]
      [] v = 1 -> [temp_max |-> 59, allow_high_temp_charge_max_voltage |-> 3984,
                   charge_voltage_limit_default |-> 4208,
                   charge_voltage_limit_high_temp |-> 3984,
                   allow_fast_charge_min_voltage |-> 0,
                   fast_charge_current_limit_default |-> 1536,
                   fast_charge_current_limit_low_temp |-> 576,
                   fast_charge_current_limit_low_voltage |-> 1536]
      [] v = 2 -> [temp_max |-> 59, allow_high_temp_charge_max_voltage |-> 4080,
                   charge_voltage_limit_default |-> 4320,
                   charge_voltage_limit_high_temp |-> 4080,
                   allow_fast_charge_min_voltage |-> 0,
                   fast_charge_current_limit_default |-> 1664,
                   fast_charge_current_limit_low_temp |-> 640,
                   fast_charge_current_limit_low_voltage |-> 1664]
TempMin  == 4
TempLow  == 17
TempHigh == 51

parameters == BatteryChargeParameters(version)
Lower(a, b) == IF a < b THEN a ELSE b

(* Bq24193's encodings: a register holds steps above the minimum.          *)
ChargeVoltageLimitMin == 3504
ChargeVoltageLimitMax == 4208
EncodableVoltage(mv) == ChargeVoltageLimitMin <= mv /\ mv <= ChargeVoltageLimitMax
EncodeChargeVoltageLimit(mv)     == ((mv - ChargeVoltageLimitMin) \div 16) * 4
DecodeChargeVoltageLimit(reg)    == ChargeVoltageLimitMin + (reg \div 4) * 16
EncodeFastChargeCurrentLimit(ma) == ((ma - 512) \div 64) * 4
DecodeFastChargeCurrentLimit(reg) == 512 + (reg \div 4) * 64
-----------------------------------------------------------------------------
(* The registers InitializeBatteryParameters writes, in its order.  A      *)
(* validated write is repeated until it is read back.                      *)
Write(r)    == [op |-> "write", reg |-> r]
Validate(r) == [op |-> "validate", reg |-> r]
Each(W(_), regs) == [i \in DOMAIN regs |-> W(regs[i])]

CapacityProgram ==
    Each(Validate, <<"RemCapMix", "RemCapRep", "DPAcc", "DQAcc", "FullCap">>)
    \o <<Write("DesignCap"), Validate("FullCapNom"), Write("SocRep")>>

(* Mutant: POR is cleared as soon as it was seen.                          *)
GaugeProgramPorFirst ==
    <<[op |-> "clear POR", reg |-> "Status"]>> \o Each(Write, <<"MiscCfg", "Config">>)
    \o CapacityProgram
GaugeProgram ==
    Each(Write, <<"MiscCfg", "Config", "FilterCfg", "RelaxCfg", "LearnCfg", "FullSocThr",
                  "IAvgEmpty">>)
    \o <<[op |-> "set model table", reg |-> "ModelChrTbl"],
         [op |-> "lock model table", reg |-> "ModelAccess"]>>
    \o Each(Validate, <<"RComp0", "TempCo">>)
    \o Each(Write, <<"IChgTerm", "TGain", "TOff">>)
    \o Each(Validate, <<"VEmpty", "QResidual00", "QResidual10", "QResidual20", "QResidual30",
                        "FullCap">>)
    \o <<Write("DesignCap"), Validate("FullCapNom"),
         [op |-> "unlock VFSOC", reg |-> "SocVfAccess"], Write("SocVf0"), Write("Qh0"),
         [op |-> "lock VFSOC", reg |-> "SocVfAccess"], Validate("Cycles")>>
    \o CapacityProgram
    \o <<[op |-> "clear POR", reg |-> "Status"], Write("CGain")>>

(* The gauge after a write has reached it.                                 *)
Written(g, s) ==
    CASE s.op \in {"write", "validate"} -> [g EXCEPT !.holds = @ \cup {s.reg}]
      [] s.op = "set model table" -> [g EXCEPT !.holds = @ \cup {s.reg},
                                               !.model_unlocked = TRUE]
      [] s.op = "lock model table" -> [g EXCEPT !.model_unlocked = FALSE]
      [] s.op = "unlock VFSOC"    -> [g EXCEPT !.vfsoc_unlocked = TRUE]
      [] s.op = "lock VFSOC"      -> [g EXCEPT !.vfsoc_unlocked = FALSE]
      [] s.op = "clear POR"       -> [g EXCEPT !.por = FALSE]

(* The operations whose failing writes do not end the configuration: the   *)
(* value read back decides.                                                *)
ReadBack == {"validate", "clear POR"}

FreshGauge == [por |-> TRUE, holds |-> {}, model_unlocked |-> FALSE,
               vfsoc_unlocked |-> FALSE, removed |-> FALSE, shutdown_enabled |-> FALSE]

(* The charger at its own power on: VINDPM is not 0.                       *)
FreshCharger == [hi_z |-> FALSE, vindpm |-> 6, input |-> 2, config |-> "ChargeBattery",
                 voltage |-> EncodeChargeVoltageLimit(4208), current |-> 96, pin |-> "Low"]
-----------------------------------------------------------------------------
(* DetectBootReason: why the PMIC and the RTC say the console was started. *)
MakeBootReason(power_button, rtc_2, ac_inserted, rtc_4, nv_erc, ac_ok, recovery) ==
    CASE power_button -> 2
      [] ~power_button /\ rtc_2 -> 3
      [] ~power_button /\ ~rtc_2 /\ ac_inserted -> 1
      [] ~power_button /\ ~rtc_2 /\ ~ac_inserted ->
            IF rtc_4 /\ nv_erc # "Is0x80" /\ ~recovery THEN 4
            ELSE IF nv_erc = "Has0x40" /\ ac_ok THEN 1
            ELSE 0

BatteryInit ==
    /\ version \in BatteryVersions /\ hw_type \in HardwareTypes
    /\ gauge = FreshGauge /\ charger = FreshCharger
    /\ place = "detect" /\ step = 1 /\ lock_i = 0 /\ boot_reason = 0
    /\ charge_voltage_limit = 0 /\ showing = FALSE /\ felt = Nothing
    /\ seen = [soc |-> 0, ac |-> FALSE, v |-> 0] /\ failures = 0 /\ losses = 0

Fail == failures < MaxFailures /\ failures' = failures + 1
Ok   == UNCHANGED failures

GoTo(p) == place' = p

DetectBootReason ==
    /\ place = "detect"
    /\ \E power_button, rtc_2, ac_inserted, rtc_4, ac_ok, recovery \in BOOLEAN,
          nv_erc \in {"Is0x80", "Has0x40", "other"} :
          boot_reason' = MakeBootReason(power_button, rtc_2, ac_inserted, rtc_4, nv_erc, ac_ok,
                                        recovery)
    /\ GoTo("gauge") /\ step' = 1
    /\ UNCHANGED <<console, gauge, charger, lock_i, charge_voltage_limit, showing, felt, seen,
                   failures, losses>>

gaugeUnchanged == <<console, charger, boot_reason, charge_voltage_limit, showing, felt, seen,
                    losses>>

(* IsPowerOnReset reads a 0 where its read fails: the gauge then passes    *)
(* for configured.                                                         *)
SkipConfiguration ==
    /\ place = "gauge" /\ step = 1
    /\ \/ ~gauge.por /\ Ok
       \/ gauge.por /\ Fail
    /\ GoTo("removed")
    /\ UNCHANGED <<gaugeUnchanged, gauge, step, lock_i>>

NextStep ==
    IF step = Len(GaugeProgram) THEN GoTo("removed") /\ UNCHANGED step
                                ELSE GoTo("gauge") /\ step' = step + 1

(* One register.  A write that fails may have reached the gauge or not.    *)
Configure ==
    /\ place = "gauge" /\ gauge.por
    /\ LET s == GaugeProgram[step] IN
       /\ s.op \notin {"set model table", "lock model table"}
       /\ \/ Ok /\ gauge' = Written(gauge, s) /\ NextStep
          \/ /\ s.op \in ReadBack /\ Fail /\ gauge' \in {gauge, Written(gauge, s)}
             /\ UNCHANGED <<place, step>>
          \/ /\ s.op \notin ReadBack /\ Fail /\ gauge' \in {gauge, Written(gauge, s)}
             /\ GoTo("shutdown") /\ UNCHANGED step
          \/ /\ s.op = "clear POR" /\ Fail         \* the status cannot be read
             /\ GoTo("shutdown") /\ UNCHANGED <<gauge, step>>
    /\ UNCHANGED <<gaugeUnchanged, lock_i>>

(* UnlockModelTable, SetModelTable and IsModelTableSet: an entry that      *)
(* cannot be read is compared as the one before it.                        *)
SetModelTable ==
    /\ place = "gauge" /\ gauge.por /\ GaugeProgram[step].op = "set model table"
    /\ \/ Ok /\ gauge' = Written(gauge, GaugeProgram[step]) /\ NextStep
       \/ /\ Fail /\ gauge' = Written(gauge, GaugeProgram[step])
          /\ NextStep \/ UNCHANGED <<place, step>>
       \/ /\ Fail /\ gauge' \in {gauge, [gauge EXCEPT !.model_unlocked = TRUE]}
          /\ GoTo("shutdown") /\ UNCHANGED step
    /\ UNCHANGED <<gaugeUnchanged, lock_i>>

(* After the status write CGain is written with POR clear.                 *)
ConfigureGain ==
    /\ place = "gauge" /\ ~gauge.por /\ step = Len(GaugeProgram)
    /\ \/ Ok /\ gauge' = Written(gauge, GaugeProgram[step]) /\ GoTo("removed")
       \/ Fail /\ gauge' \in {gauge, Written(gauge, GaugeProgram[step])} /\ GoTo("shutdown")
    /\ UNCHANGED <<gaugeUnchanged, step, lock_i>>

(* The status write may reach the gauge though the call fails: POR is then *)
(* clear when it is written again.                                         *)
RepeatStatus ==
    /\ place = "gauge" /\ ~gauge.por /\ step = Len(GaugeProgram) - 1
    /\ \/ Ok /\ NextStep
       \/ Fail /\ UNCHANGED <<place, step>>
    /\ UNCHANGED <<gaugeUnchanged, gauge, lock_i>>

(* LockModelTable and IsModelTableLocked: entries that cannot be read pass *)
(* for locked, and after eight tries the configuration is given up.        *)
LockModelTable ==
    /\ place = "gauge" /\ gauge.por /\ GaugeProgram[step].op = "lock model table"
    /\ \/ /\ Ok /\ gauge' = Written(gauge, GaugeProgram[step]) /\ lock_i' = 0 /\ NextStep
       \/ /\ Fail /\ UNCHANGED gauge
          /\ \/ GoTo("shutdown") /\ lock_i' = 0 /\ UNCHANGED step
             \/ NextStep /\ lock_i' = 0
             \/ /\ UNCHANGED step
                /\ IF lock_i + 1 >= 8 THEN GoTo("removed") /\ lock_i' = 0
                                      ELSE GoTo("gauge") /\ lock_i' = lock_i + 1
    /\ UNCHANGED gaugeUnchanged

checkUnchanged == <<console, step, lock_i, boot_reason, losses>>

(* IsBatteryRemoved.                                                       *)
CheckRemoved ==
    /\ place = "removed"
    /\ \/ Ok /\ GoTo(IF gauge.removed THEN "shutdown" ELSE "charger")
       \/ Fail /\ GoTo("shutdown")
    /\ UNCHANGED <<checkUnchanged, gauge, charger, charge_voltage_limit, showing, felt, seen>>
-----------------------------------------------------------------------------
(* ChargerDriver::Initialize: each setting is a read and a write of its    *)
(* field; a failing one leaves those after it as they were.                *)
InitializedCharger(upto) ==
    [charger EXCEPT
        !.input   = IF boot_reason # 4 /\ upto > 0 THEN 2 ELSE @,
        !.voltage = IF upto > 1 THEN EncodeChargeVoltageLimit(4208) ELSE @,
        !.current = IF upto > 2 THEN EncodeFastChargeCurrentLimit(512) ELSE @,
        !.hi_z    = IF upto > 3 THEN FALSE ELSE @]

(* GetInputCurrentLimit returns the whole register, HIZ and VINDPM too.    *)
InputAtMost150 == ~charger'.hi_z /\ charger'.vindpm = 0 /\ charger'.input <= 1

InitializeCharger ==
    /\ place = "charger"
    /\ \/ /\ Ok /\ charger' = InitializedCharger(4)
          /\ ~InputAtMost150
          /\ IF boot_reason = 4
             THEN charge_voltage_limit' = DecodeChargeVoltageLimit(charger'.voltage)
             ELSE charge_voltage_limit' = parameters.charge_voltage_limit_default
          /\ GoTo("first update")
       \/ /\ Ok /\ charger' = [InitializedCharger(4) EXCEPT !.config = "ChargeDisable"]
          /\ InputAtMost150
          /\ GoTo("shutdown") /\ UNCHANGED charge_voltage_limit
       \/ /\ Fail /\ \E upto \in 0..4 : charger' = InitializedCharger(upto)
          /\ GoTo("shutdown") /\ UNCHANGED charge_voltage_limit
    /\ UNCHANGED <<checkUnchanged, gauge, showing, felt, seen>>

(* UpdateCharger: what it decides for a temperature and a voltage.         *)
ChargeEnabled(t, v) ==
    /\ t >= TempMin /\ t < parameters.temp_max
    /\ t >= TempHigh => v < parameters.allow_high_temp_charge_max_voltage
(* Mutant: a hot battery is charged up to the common limit.                *)
VoltageLimitDefault(t, v) == charge_voltage_limit
VoltageLimit(t, v) ==
    IF t >= TempHigh /\ v < parameters.allow_high_temp_charge_max_voltage
    THEN Lower(charge_voltage_limit, parameters.charge_voltage_limit_high_temp)
    ELSE charge_voltage_limit
CurrentLimit(t, v) ==
    LET cold == IF t < TempLow
                THEN Lower(parameters.fast_charge_current_limit_default,
                           parameters.fast_charge_current_limit_low_temp)
                ELSE parameters.fast_charge_current_limit_default
    IN  IF v < parameters.allow_fast_charge_min_voltage
        THEN Lower(cold, parameters.fast_charge_current_limit_low_voltage) ELSE cold

Enabled(t, v) == [charger EXCEPT !.pin = IF ChargeEnabled(t, v) THEN "Low" ELSE "High",
                                 !.config = "ChargeBattery"]
Limited(t, v) == [Enabled(t, v) EXCEPT
                    !.voltage = EncodeChargeVoltageLimit(VoltageLimit(t, v))]
Updated(t, v) == [Limited(t, v) EXCEPT
                    !.current = EncodeFastChargeCurrentLimit(CurrentLimit(t, v))]

(* The pin and the configuration are set first; a limit that cannot be     *)
(* encoded aborts boot, a failing transfer shuts the console down.         *)
UpdateCharger ==
    /\ place \in {"first update", "sleep"}
    /\ \E t \in Temperatures, v \in Voltages :
          \/ /\ EncodableVoltage(VoltageLimit(t, v)) /\ Ok
             /\ charger' = Updated(t, v) /\ felt' = [t |-> t, v |-> v]
             /\ GoTo(IF place = "sleep" THEN "loop" ELSE "start loop")
          \/ /\ ~EncodableVoltage(VoltageLimit(t, v)) /\ Ok
             /\ charger' = Enabled(t, v) /\ GoTo("encode abort") /\ UNCHANGED felt
          \/ /\ Fail /\ GoTo("shutdown") /\ UNCHANGED felt
             /\ \/ UNCHANGED charger
                \/ charger' = [Enabled(t, v) EXCEPT !.config = charger.config]
                \/ charger' = Enabled(t, v)
                \/ EncodableVoltage(VoltageLimit(t, v)) /\ charger' = Limited(t, v)
    /\ UNCHANGED <<checkUnchanged, gauge, charge_voltage_limit, showing, seen>>
-----------------------------------------------------------------------------
(* LoopCheckBattery's flags, by boot reason.                               *)
RebootOnPowerButton == boot_reason \in {1, 4}
SucceedOnSufficient == boot_reason # 4
ShutdownOnFull      == boot_reason = 4
ShowBatteryIcon     == boot_reason # 4
ShowIconFirst       == boot_reason = 1

StartLoop ==
    /\ place = "start loop"
    /\ \/ /\ Ok /\ GoTo("loop") /\ showing' = ShowIconFirst
       \/ ShowIconFirst /\ Fail /\ GoTo("shutdown") /\ UNCHANGED showing
    /\ UNCHANGED <<checkUnchanged, gauge, charger, charge_voltage_limit, felt, seen>>

IsSufficientBattery(v, ac) == v >= (IF ac THEN 4000 ELSE 3650)

(* One round: what is read in which order decides.                         *)
CheckOutcome(soc, ac, v, button) ==
    IF SucceedOnSufficient /\ soc >= 3 THEN "booted"
    ELSE IF ShutdownOnFull /\ soc >= 99 THEN "shutdown"
    ELSE IF SucceedOnSufficient /\ IsSufficientBattery(v, ac) THEN "booted"
    ELSE IF ~ac THEN "shutdown"
    ELSE IF RebootOnPowerButton /\ button THEN "reboot"
    ELSE "sleep"

CheckBattery ==
    /\ place = "loop"
    /\ \/ /\ Ok
          /\ \E soc \in Charges, ac, button \in BOOLEAN, v \in Voltages :
                LET outcome == CheckOutcome(soc, ac, v, button) IN
                /\ seen' = IF outcome = "booted" THEN [soc |-> soc, ac |-> ac, v |-> v] ELSE seen
                /\ GoTo(outcome)
                /\ showing' = (outcome = "sleep" /\ (showing \/ ShowBatteryIcon))
       \/ Fail /\ GoTo("shutdown") /\ showing' = FALSE /\ UNCHANGED seen
    /\ UNCHANGED <<checkUnchanged, gauge, charger, charge_voltage_limit, felt>>
-----------------------------------------------------------------------------
(* PmicDriver::ShutdownSystem and FinalizeBattery: the gauge is told to    *)
(* shut down with the console only where no adapter feeds it, and not on a *)
(* Hoag that is charged.                                                   *)
UseDesiredShutdown(soc) == hw_type = "Hoag" => soc < 80

ShutdownSystem ==
    /\ place = "shutdown"
    /\ \/ /\ Ok
          /\ \E soc \in Charges, ac \in BOOLEAN :
                /\ gauge' = [gauge EXCEPT !.shutdown_enabled = ~ac /\ UseDesiredShutdown(soc)]
                /\ seen' = [seen EXCEPT !.ac = ac, !.soc = soc]
          /\ GoTo("off")
       \/ /\ Fail /\ place' \in {"off", "pmic abort"} /\ UNCHANGED seen
          /\ gauge' \in {gauge, [gauge EXCEPT !.shutdown_enabled = FALSE]}
    /\ UNCHANGED <<checkUnchanged, charger, charge_voltage_limit, showing, felt>>

(* The console starts again: after a shutdown, a reboot or an abort, or    *)
(* because it lost its power.  The gauge and the charger keep theirs,      *)
(* unless the battery was taken out.                                       *)
StartAgain ==
    /\ losses < MaxPowerLosses /\ losses' = losses + 1
    /\ gauge' \in {gauge, FreshGauge, [gauge EXCEPT !.removed = TRUE]}
    /\ charger' \in {charger, [charger EXCEPT !.vindpm = 0, !.input = 1]}
    /\ place' = "detect" /\ step' = 1 /\ lock_i' = 0 /\ boot_reason' = 0
    /\ charge_voltage_limit' = 0 /\ showing' = FALSE /\ felt' = Nothing
    /\ seen' = [soc |-> 0, ac |-> FALSE, v |-> 0]
    /\ UNCHANGED <<console, failures>>

BatteryNext ==
    \/ DetectBootReason
    \/ SkipConfiguration \/ Configure \/ SetModelTable \/ ConfigureGain \/ RepeatStatus \/ LockModelTable
    \/ CheckRemoved \/ InitializeCharger \/ UpdateCharger
    \/ StartLoop \/ CheckBattery
    \/ ShutdownSystem \/ StartAgain

BatterySpec == BatteryInit /\ [][BatteryNext]_batteryVars
-----------------------------------------------------------------------------
(* A gauge that passes for configured, its power-on bit clear, holds every *)
(* parameter and is locked, whatever failed and wherever the power was     *)
(* lost: the bit is cleared last.  Only CGain comes after it, and entries  *)
(* that cannot be read pass for a locked table.                            *)
GaugeConfigured ==
    ~gauge.por =>
        /\ {GaugeProgram[i].reg : i \in DOMAIN GaugeProgram}
               \ {"ModelAccess", "SocVfAccess", "Status", "CGain"} \subseteq gauge.holds
        /\ ~gauge.vfsoc_unlocked
        /\ gauge.model_unlocked => failures > 0

(* After an update the charger does not charge a battery colder or hotter  *)
(* than it bears, nor a hot one above its lower limit, and not a cold or   *)
(* empty one fast.                                                         *)
ChargerSafe ==
    place \in {"start loop", "loop", "booted", "reboot"} =>
        /\ charger.pin = "Low" => TempMin <= felt.t /\ felt.t < parameters.temp_max
        /\ charger.pin = "Low" /\ felt.t >= TempHigh =>
               /\ felt.v < parameters.allow_high_temp_charge_max_voltage
               /\ DecodeChargeVoltageLimit(charger.voltage)
                     <= parameters.charge_voltage_limit_high_temp
        /\ felt.t < TempLow => DecodeFastChargeCurrentLimit(charger.current)
                                  <= parameters.fast_charge_current_limit_low_temp
        /\ felt.v < parameters.allow_fast_charge_min_voltage =>
               DecodeFastChargeCurrentLimit(charger.current)
                  <= parameters.fast_charge_current_limit_low_voltage

(* The console starts only with its battery in place and able to carry it, *)
(* never when the RTC only woke it to charge, and with the icon gone.      *)
StartsCharged ==
    place = "booted" =>
        /\ ~gauge.removed /\ boot_reason # 4 /\ ~showing
        /\ seen.soc >= 3 \/ IsSufficientBattery(seen.v, seen.ac)

(* A shutdown with the adapter present leaves the gauge on, though an      *)
(* earlier one without it had told the gauge to shut down.                 *)
GaugeStaysOn == place = "off" /\ failures = 0 /\ seen.ac => ~gauge.shutdown_enabled

BatteryHandled == GaugeConfigured /\ ChargerSafe /\ StartsCharged /\ GaugeStaysOn

(* boot_bq24193_charger.hpp: AMS_ABORT_UNLESS(voltage <=                   *)
(* ChargeVoltageLimitMax).  Violated with batteries of version 2.          *)
VoltageEncodable == place # "encode abort"
=============================================================================
