------------------------------ MODULE QpnpWled ------------------------------
(***************************************************************************)
(* Backlight and display bias (qpnp_wled.c, pm8x41_wled.c) on the chip of  *)
(* Pm8x41, and the calls of the whole chip.  A bias configuration is       *)
(* [lab, ibb], each [min, init, max] in steps of the regulator.            *)
(*   The older chip, Pm8921, is there to be compared with.                 *)
(***************************************************************************)
EXTENDS Pm8x41, Pm8921

(* Every peripheral that is used has its channel (chnl_tbl holds nothing   *)
(* for the others), those of the display on two slaves too, and who asks   *)
(* for the display's bias names a configuration.                           *)
ChipCalls == {"gpio", "gpioset", "reset", "reset94", "resin", "battery", "pmi", "ldo",
              "switch", "pwm", "adc", "wled", "light", "bias"}
ASSUME BoardAssumption ==
  /\ Channels \in Seq(Peripherals)
  /\ \A p \in Peripherals : \E i \in DOMAIN Channels : Channels[i] = p
  /\ {1, 3} \X {"WLED", "LAB", "IBB"} \subseteq Peripherals
  /\ \A c \in Pm8x41Ops : c.op \notin ChipCalls => c.arg \in DOMAIN LabibbConfigs

Strings == <<"LED1", "LED2", "LED3">>

(* pm8x41_wled_reg_write adds the slave number it was last told, or the    *)
(* default one.                                                            *)
Pm8x41WledConfigSlaveId(s, sid) == [s EXCEPT !.wled_slave_id = sid]
WledSid(s) == IF s.wled_slave_id = 0 THEN 1 ELSE s.wled_slave_id
WledSequence(s, steps) ==
  Sequence8x41(s, [i \in DOMAIN steps |->
                     [steps[i] EXCEPT !.reg = <<WledSid(s), @[2], @[3]>>]])
WStore(p, r, v) == Store(<<0, p, r>>, v)
WModify(p, r, clear, set) == Modify(<<0, p, r>>, clear, set)
Sum(seqs) == LET upTo[i \in 0..Len(seqs)] == IF i = 0 THEN <<>> ELSE upTo[i - 1] \o seqs[i]
             IN  upTo[Len(seqs)]

(* pm8x41_wled_config and the switches of the older backlight.             *)
WledConfig(s) ==
  WledSequence(s, <<WStore("WLED", "MODULATION_SCHEME", {<<"SCHEME">>})>>
    \o [i \in 1..3 |-> WStore("WLED", Strings[i], {<<"BRIGHTNESS", 1>>})]
    \o <<WStore("WLED", "MAX_DUTY_CYCLE", {}), WStore("WLED", "OVP", {<<"OVP", 1>>}),
         WStore("WLED", "FDBCK", {}), WStore("LAB", "CURRENT_SENSE", {<<"SENSE">>}),
         WStore("LAB", "PS_CTL", {<<"PS">>})>>)

(* qpnp_wled_set_level, qpnp_wled_enable.                                  *)
SetLevel(s) ==
  WledSequence(s, [i \in 1..3 |-> WStore("WLED", Strings[i], {<<"BRIGHTNESS", 4>>})]
                  \o <<WStore("WLED", "SYNC", {<<"SYNC">>}), WStore("WLED", "SYNC", {})>>)
WledEnable(s, module, on) ==
  WledSequence(s, <<WModify(module, "MODULE_EN", {"EN"}, IF on THEN {En} ELSE {})>>)

EnableBacklight(s, on) ==
  IF s.gwled = <<>> THEN Done(s)
  ELSE Then(IF on THEN SetLevel(s) ELSE Done(s), LAMBDA t : WledEnable(t, "WLED", on))

(* qpnp_ibb_enable, with ibb_bias_active FALSE as qpnp_wled_setup leaves   *)
(* it: the LAB follows the IBB through its ready bit.                      *)
IbbEnable(s, on) ==
  IF s.gwled = <<>> THEN Return(s, 1)
  ELSE Then(WledSequence(s, <<WModify("LAB", "IBB_RDY", {"EN"}, IF on THEN {En} ELSE {})>>),
            LAMBDA t : WledEnable(t, "IBB", on))

(* qpnp_labibb_regulator_set_voltage: the bipolar supplies, one after the  *)
(* other; one that cannot be set ends the configuration.                   *)
Settable(v) == v.init <= v.min /\ v.min <= v.max
LabibbSetVoltage(s, c) ==
  LET Output(m, v) == <<WModify(m, "OUTPUT_VOLTAGE", {"VOLTAGE", "OVERRIDE"},
                                {<<"VOLTAGE", v.min>>, <<"OVERRIDE">>})>>
  IN  IF ~Settable(c.lab) THEN Return(s, 1)
      ELSE Then(WledSequence(s, Output("LAB", c.lab)), LAMBDA t :
             IF ~Settable(c.ibb) THEN Return(t, 1) ELSE WledSequence(t, Output("IBB", c.ibb)))

(* qpnp_wled_config.                                                       *)
PerString(i) ==
  <<WModify(Strings[i], "MOD_EN", {"EN"}, {En}),
    WModify(Strings[i], "SYNC_DLY", {"DLY"}, {<<"DLY", 2>>}),
    WModify(Strings[i], "FS_CURR", {"CURR"}, {<<"CURR", 6>>}),
    WModify(Strings[i], "CABC", {"CABC"}, {}),
    WModify("WLED", "CURR_SINK", {}, {<<"SINK", i>>})>>
BiasSteps ==
  <<WModify("LAB", "FAST_PC", {"PC"}, {<<"PC">>}), WModify("LAB", "DISP_SEL", {"AMOLED"}, {}),
    WModify("LAB", "MODULE_RDY", {"RDY"}, {<<"RDY">>}),
    WStore("IBB", "SEC_ACCESS", {<<"KEY">>}), WStore("IBB", "BIAS", {<<"DELAYS">>}),
    WModify("IBB", "DISP_SEL", {"AMOLED"}, {}), WModify("IBB", "MODULE_RDY", {"RDY"}, {<<"RDY">>})>>
QpnpWledConfig(s, c) ==
  Then(WledSequence(s,
    <<WModify("WLED", "DISP_SEL", {"AMOLED"}, {}), WModify("WLED", "FDBK_OP", {"OP"}, {<<"OP", 1>>}),
      WModify("WLED", "VREF", {"VREF"}, {<<"VREF", 3>>}),
      WModify("WLED", "ILIM", {"ILIM"}, {<<"ILIM", 5>>, <<"OVERWRITE">>}),
      WModify("WLED", "BOOST_DUTY", {"DUTY"}, {<<"DUTY", 1>>}),
      WModify("WLED", "SWITCH_FREQ", {"FREQ"}, {<<"FREQ", 2>>}),
      WModify("WLED", "OVP", {"OVP"}, {<<"OVP", 1>>}),
      WModify("WLED", "MOD", {"FREQ", "DIM"}, {<<"STAG">>, <<"HYBRID">>}),
      WModify("WLED", "HYB_THRES", {"THRES"}, {<<"THRES", 5>>})>>
    \o Sum([i \in 1..3 |-> PerString(i)])
    \o BiasSteps),
    LAMBDA t : LabibbSetVoltage(t, c))

QpnpWledInitBug(s, c) ==
  UNION {Return([o.s EXCEPT !.gwled = <<c>>], o.ret) : o \in QpnpWledConfig(s, c)}

QpnpWledInit(s, c) ==
  Then(QpnpWledConfig(s, c), LAMBDA t : Done([t EXCEPT !.gwled = <<c>>]))

-----------------------------------------------------------------------------
Pm8x41Call(s, c) ==
  CASE c.op = "gpio"    -> GpioConfig(s, c.sid, c.unit, [dir |-> c.arg, function |-> 1])
    [] c.op = "gpioset" -> GpioSet(s, c.sid, c.unit, TRUE)
    [] c.op = "reset"   -> ResetConfigure(s, c.arg)
    [] c.op = "reset94" -> Pm8994ResetConfigure(s, c.arg)
    [] c.op = "resin"   -> V2ResinStatus(s)
    [] c.op = "battery" -> IsBatteryBroken(s)
    [] c.op = "pmi"     -> Pmi8994IsBatteryBroken(s)
    [] c.op = "ldo"     -> LdoSetVoltage(s, c.unit, c.arg)
    [] c.op = "switch"  -> SwitchOn(s, <<c.sid, c.unit, "EN_CTL">>, c.arg = 1)
    [] c.op = "pwm"     -> PmPwmConfig(s, c.arg)
    [] c.op = "adc"     -> AdcChannelRead(s, "BAT")
    [] c.op = "wled"    -> WledConfig(s)
    [] c.op = "light"   -> EnableBacklight(s, c.arg = 1)
    [] c.op = "bias"    -> IbbEnable(s, c.arg = 1)
    [] OTHER            -> QpnpWledInit(Pm8x41WledConfigSlaveId(s, 3), LabibbConfigs[c.arg])

CallPm8x41 ==
  /\ px.calls > 0
  /\ \E c \in Pm8x41Ops :
       \E o \in Pm8x41Call([px EXCEPT !.calls = @ - 1], c) :
         px' = [o.s EXCEPT !.call = c, !.ret = o.ret, !.unlocked = <<>>]
Pm8x41Next == CallPm8x41
Pm8x41Spec == Pm8x41Init /\ [][Pm8x41Next]_pm8x41Vars

-----------------------------------------------------------------------------
(* A battery test leaves no charging forced and the charger's limits as    *)
(* they were; the secured register is unlocked again to end the test.      *)
ChargerRestored ==
  ~px.failed /\ px.call.op \in {"battery", "pmi"} =>
    /\ ValueOf(px, <<0, "CHG", "TRKL_CHG_TEST">>) = {}
    /\ ValueOf(px, <<0, "CHG", "IBAT_ATC">>) = {<<"CURRENT", 3>>}
    /\ ValueOf(px, <<0, "CHG", "VBAT_DET">>) = {<<"VOLTAGE", 2>>}
    /\ ValueOf(px, <<0, "BAT_IF", "VCP">>) = {En}
    /\ ValueOf(px, <<2, "CHGR", "FCC_CFG">>) = {<<"CURRENT", 4>>}

(* The display bias is never on before the voltages of both rails were set *)
(* within the limits of some configuration; one that could not be set      *)
(* leaves the bias as it was.                                              *)
BiasIsConfigured ==
  ~px.failed =>
    \A sid \in {1, 3} :
      En \in ValueOf(px, <<sid, "IBB", "MODULE_EN">>) =>
        \A rail \in {"lab", "ibb"} :
          \E i \in DOMAIN LabibbConfigs :
            LET v == LabibbConfigs[i][rail]
                m == IF rail = "lab" THEN "LAB" ELSE "IBB"
            IN  Settable(v) /\ <<"VOLTAGE", v.min>> \in ValueOf(px, <<sid, m, "OUTPUT_VOLTAGE">>)

(* The two period searches, one a rewrite of the other for SPMI chips, end *)
(* with a setting no other allowed setting comes closer than.              *)
PwmSettingsAreBest ==
  /\ pm.call.op = "pwm" /\ pm.ret = 0 => Best8921(pm.call.arg)
  /\ px.call.op = "pwm" /\ px.ret = 0 => Best8x41(px.call.arg)
=============================================================================
