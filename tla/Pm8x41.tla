------------------------------- MODULE Pm8x41 -------------------------------
(***************************************************************************)
(* The chips PM8941 to PMI8994 (pm8x41.c, pm8x41_adc.c, pm_pwm.c,          *)
(* pm8x41_wled.c, pm8x41_vib.c) behind the SPMI arbiter (spmi.c), and the  *)
(* display bias and backlight on top of them (qpnp_wled.c).                *)
(*   A register is <<slave, peripheral, name>>.  No routine looks at the   *)
(* arbiter's errors: a read that fails is 0, a write that fails is lost.   *)
(***************************************************************************)
EXTENDS Registers, Pwm

CONSTANTS
  Peripherals,   \* the peripherals <<slave, name>> on the board
  Channels,      \* what the arbiter's channels are for, in their order
  Pm8x41Faults, Pm8x41Calls,   \* bounds: accesses that fail, calls
  Pm8x41Ops,     \* the calls: [op, sid, unit, arg]
  LabibbConfigs  \* bias voltages: [min, init, max], in steps

VARIABLE px
pm8x41Vars == <<px>>

En == <<"EN">>

(* spmi_init: the channel of each peripheral, the last one that is for it. *)
SpmiLookupChnlNumber ==
  [p \in Peripherals |->
     CHOOSE i \in DOMAIN Channels : Channels[i] = p
                                    /\ \A j \in DOMAIN Channels : Channels[j] = p => j <= i]

SetBefore ==
  {<<0, "PON", "PS_HOLD_RESET_CTL2">>, <<0, "GPIO1", "EN_CTL">>, <<0, "CHG", "IBAT_ATC">>,
   <<0, "CHG", "VBAT_DET">>, <<0, "BAT_IF", "VCP">>, <<2, "CHGR", "FCC_CFG">>}
Pm8x41Init ==
  px = [reg |-> [r \in SetBefore |-> CASE r = <<0, "CHG", "IBAT_ATC">> -> {<<"CURRENT", 3>>}
                                       [] r = <<0, "CHG", "VBAT_DET">> -> {<<"VOLTAGE", 2>>}
                                       [] r = <<2, "CHGR", "FCC_CFG">> -> {<<"CURRENT", 4>>}
                                       [] OTHER -> {En}],
        chnl_tbl |-> SpmiLookupChnlNumber, wled_slave_id |-> 0, gwled |-> <<>>,
        unlocked |-> <<>>, failed |-> FALSE,
        faults |-> Pm8x41Faults, calls |-> Pm8x41Calls,
        call |-> [op |-> "none", sid |-> 0, unit |-> "", arg |-> 0], ret |-> 0]

-----------------------------------------------------------------------------
(* A command of version 2 does not name the peripheral: its channel does.  *)
Reached(s, r) == LET p == Channels[s.chnl_tbl[<<r[1], r[2]>>]] IN <<p[1], p[2], r[3]>>

(* The chip: a secured register takes the one write after the unlocking of *)
(* its peripheral.                                                         *)
Secured == {<<"CHG", "COMP_OVR0">>, <<"CHG", "TRKL_CHG_TEST">>, <<"IBB", "BIAS">>}
ChipTakes(s, r, v) ==
  LET t == [s EXCEPT !.unlocked = IF r[3] = "SEC_ACCESS" THEN <<r[1], r[2]>> ELSE <<>>]
  IN  IF <<r[2], r[3]>> \in Secured /\ s.unlocked # <<r[1], r[2]>> THEN t
      ELSE Put(t, r, v)

(* pm8x41_reg_write and pm8x41_reg_read.                                   *)
Lost(s) == [s EXCEPT !.faults = @ - 1, !.failed = TRUE]
RegWrite(s, r, v) ==
  Done(ChipTakes(s, Reached(s, r), v)) \cup IF s.faults > 0 THEN Done(Lost(s)) ELSE {}
ReadThen(s, r, Next(_, _)) ==
  Next(s, ValueOf(s, Reached(s, r))) \cup IF s.faults > 0 THEN Next(Lost(s), {}) ELSE {}
SpmiStep(s, st) ==
  IF st.modify
  THEN ReadThen(s, st.reg, LAMBDA t, v : RegWrite(t, st.reg, Without(v, st.clear) \cup st.set))
  ELSE RegWrite(s, st.reg, st.set)
Sequence8x41(s, steps) == Perform(s, steps, SpmiStep)

-----------------------------------------------------------------------------
(* GPIOs, off while they are configured.                                   *)
GpioSteps(r, c) ==
  LET Set(n, field) == Store(<<r[1], r[2], n>>, {field})
      en == <<r[1], r[2], "EN_CTL">>
  IN  <<Modify(en, {"EN"}, {}),
        Store(<<r[1], r[2], "MODE_CTL">>, {<<"DIRECTION", c.dir>>, <<"FUNCTION", c.function>>}),
        Set("DIG_PULL_CTL", <<"PULL", c.function>>), Set("DIG_VIN_CTL", <<"VIN_SEL", c.function>>)>>
      \o (IF c.dir = 1 THEN <<Set("DIG_OUT_CTL", <<"STRENGTH", c.function>>)>> ELSE <<>>)
      \o <<Modify(en, {}, {En})>>
GpioConfig(s, sid, gpio, c) == Sequence8x41(s, GpioSteps(<<sid, gpio>>, c))
GpioSet(s, sid, gpio, on) ==
  Sequence8x41(s, <<Modify(<<sid, gpio, "MODE_CTL">>, {"FUNCTION"},
                           IF on THEN {<<"FUNCTION", 2>>} ELSE {})>>)

(* Resets: off, the type, on again.                                        *)
Pon(r) == <<0, "PON", r>>
Pm8994ResetConfigure(s, type) ==
  Sequence8x41(s, <<Store(Pon("PS_HOLD_RESET_CTL2"), {}),
                    Store(Pon("PS_HOLD_RESET_CTL"), {<<"TYPE", type>>}),
                    Store(<<2, "PON", "PS_HOLD_RESET_CTL">>, {<<"TYPE", type>>}),
                    Store(Pon("PS_HOLD_RESET_CTL2"), {En})>>)
ResetConfigure(s, type) ==
  Sequence8x41(s, <<Store(Pon("PS_HOLD_RESET_CTL2"), {}),
                    Store(Pon("PS_HOLD_RESET_CTL"), {<<"TYPE", type>>}),
                    Store(Pon("PS_HOLD_RESET_CTL2"), {En})>>)
V2ResinStatus(s) ==
  Sequence8x41(s, <<Store(Pon("RESIN_S2_CTL"), {}), Store(Pon("RESIN_S1_TIMER"), {}),
                    Store(Pon("RESIN_S2_TIMER"), {<<"TIME", 7>>}),
                    Store(Pon("RESIN_S2_CTL"), {<<"TYPE", 1>>}),
                    Modify(Pon("RESIN_S2_CTL"), {}, {En}),
                    Store(Pon("RESIN_S2_CTL"), {})>>)

(* The battery tests: charging is forced for a while.                      *)
Chg(r) == <<0, "CHG", r>>
Unlocked(st) == <<Store(Chg("SEC_ACCESS"), {<<"KEY">>}), st>>
EndTestBug == <<Store(Chg("TRKL_CHG_TEST"), {})>>

EndTest == Unlocked(Store(Chg("TRKL_CHG_TEST"), {}))

IsBatteryBroken(s) ==
  ReadThen(s, Chg("IBAT_ATC"), LAMBDA t, trkl : ReadThen(t, Chg("VBAT_DET"), LAMBDA u, vbat :
    Sequence8x41(u,
      <<Store(Chg("IBAT_ATC"), {}), Store(Chg("VBAT_DET"), {<<"VOLTAGE", 4>>})>>
      \o Unlocked(Store(Chg("COMP_OVR0"), {<<"DIS_VTRKL_FAULT">>}))
      \o <<Store(<<0, "BAT_IF", "VCP">>, {})>>
      \o Unlocked(Store(Chg("TRKL_CHG_TEST"), {<<"FORCED">>}))
      \o EndTest
      \o <<Store(<<0, "BAT_IF", "VCP">>, {En}),
           Store(Chg("IBAT_ATC"), trkl), Store(Chg("VBAT_DET"), vbat)>>)))
Chgr(r) == <<2, "CHGR", r>>
Pmi8994IsBatteryBroken(s) ==
  Then(Sequence8x41(s, <<Modify(Chgr("TRIM_OPTIONS"), {"POLLER"}, {}),
                         Modify(Chgr("CFG2"), {"TERM"}, {})>>),
       LAMBDA t : ReadThen(t, Chgr("FCC_CFG"), LAMBDA u, fast :
         Sequence8x41(u, <<Store(Chgr("FCC_CFG"), {}), Store(Chgr("FV_CFG"), {<<"VOLTAGE", 6>>}),
                           Store(Chgr("FV_CFG"), {<<"VOLTAGE", 5>>}),
                           Modify(Chgr("CFG2"), {}, {<<"TERM">>}),
                           Store(Chgr("FCC_CFG"), fast),
                           Modify(Chgr("TRIM_OPTIONS"), {}, {<<"POLLER">>})>>)))

(* Regulators, the clock and vibrator switches, the pulse modulator.       *)
LdoSetVoltage(s, ldo, volt) ==
  Sequence8x41(s, <<Store(<<1, ldo, "POWER_MODE">>, {<<"NORMAL">>}),
                    Store(<<1, ldo, "RANGE_CTRL">>, {<<"RANGE", 2 + volt \div 2>>}),
                    Store(<<1, ldo, "STEP_CTRL">>, {<<"VSET", volt % 2>>})>>)
SwitchOn(s, r, on) == Sequence8x41(s, <<Modify(r, {"EN"}, IF on THEN {En} ELSE {})>>)
PmPwmConfig(s, period) ==
  IF period \notin PwmPeriods THEN Return(s, 1)
  ELSE LET c == CalcPeriod8x41(period)
       IN  Sequence8x41(s,
             <<Store(<<1, "PWM", "SIZE_CLK">>, {<<"SIZE", c.n>>, <<"CLK", c.clk + 1>>}),
               Store(<<1, "PWM", "FREQ_PREDIV">>, {<<"PRE_DIV", c.div>>, <<"EXP", c.m>>}),
               Store(<<1, "PWM", "TYPE_CONFIG">>, {<<"GLITCH_REMOVAL">>}),
               Store(<<1, "PWM", "VALUE">>, {<<"VALUE", c.value>>}),
               Store(<<1, "PWM", "SYNC">>, {<<"SYNC">>})>>)

(* The converter: a channel is measured, then the two references.          *)
AdcConfigure(s, channel) ==
  LET Adc(r) == <<0, "VADC", r>>
  IN  Sequence8x41(s, <<Store(Adc("CHAN_SEL"), {<<"CHANNEL", channel>>}), Store(Adc("EN_CTL"), {En}),
                        Store(Adc("CONV_REQ"), {<<"REQ">>}), Store(Adc("EN_CTL"), {})>>)
AdcChannelRead(s, channel) ==
  Then(AdcConfigure(s, channel), LAMBDA t :
    Then(AdcConfigure(t, "REF1"), LAMBDA u : AdcConfigure(u, "REF2")))

=============================================================================
