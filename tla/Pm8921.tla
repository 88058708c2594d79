------------------------------- MODULE Pm8921 -------------------------------
(***************************************************************************)
(* The power management chip PM8921 (pm8921.c, pm8921_pwm.c) behind the    *)
(* SSBI bus (ssbi.c).  A register is <<name, unit, bank>>.  An access may  *)
(* time out while s.faults lasts, which the calls are to report: s.call    *)
(* and s.ret are the last call and what it returned.                       *)
(***************************************************************************)
EXTENDS Registers, Pwm

CONSTANTS
  Pm8921Faults, Pm8921Calls,    \* bounds: accesses that fail, calls
  PmCalls,                      \* the calls: [op, unit, arg]
  PLdos, NamedLdos, LastLdo     \* PMOS regulators; those ldo_get knows

VARIABLE pm
pm8921Vars == <<pm>>

NoPmCall == [op |-> "none", unit |-> 0, arg |-> 0]
Pm8921Init ==
  pm = [reg |-> [r \in {<<"PON_CTRL_1", 0, 0>>} |-> {<<"WD_EN">>}],
        faults |-> Pm8921Faults, calls |-> Pm8921Calls, call |-> NoPmCall, ret |-> 0]

(* The registers of the light pulse generator are those of the bank that   *)
(* was selected last.                                                      *)
SelectedBank(s) ==
  LET sel == ValueOf(s, <<"LPG_BANK_SEL", 0, 0>>)
  IN  IF sel = {} THEN 0 ELSE (CHOOSE f \in sel : TRUE)[2]
Located(s, st) == IF st.reg[1] = "LPG_CTL"
                  THEN [st EXCEPT !.reg = <<"LPG_CTL", SelectedBank(s), @[3]>>]
                  ELSE st

(* pa1_ssbi2_write_bytes and pa1_ssbi2_read_bytes: a command that is not   *)
(* done in time has an effect or none.                                     *)
TimedOut(s) == IF s.faults > 0 THEN Return([s EXCEPT !.faults = @ - 1], 1) ELSE {}
SsbiWrite(s, r, v) ==
  Done(Put(s, r, v)) \cup TimedOut(s) \cup TimedOut(Put(s, r, v))
SsbiRead(s) == Done(s) \cup TimedOut(s)
SsbiStep(s, given) ==
  LET st == Located(s, given)
  IN  Then(IF st.modify THEN SsbiRead(s) ELSE Done(s),
           LAMBDA t : SsbiWrite(t, st.reg, Written(t, st)))
Sequence8921(s, steps) == Perform(s, steps, SsbiStep)

Checked(s, fine, steps) == IF fine THEN Sequence8921(s, steps) ELSE Return(s, 1)
-----------------------------------------------------------------------------
(* GPIOs: the six banks in one write, and an array of such.                *)
Pm8921GpioConfig(s, gpio, dir) ==
  Sequence8921(s, [b \in 1..6 |-> Store(<<"GPIO", gpio, b - 1>>, {<<"FIELDS", dir>>})])

GpioConfigArrayBug(s, gpios, dir) ==
  LET done[i \in 0..Len(gpios)] ==
        IF i = 0 THEN Done(s)
        ELSE Ignoring(done[i - 1], LAMBDA t : Pm8921GpioConfig(t, gpios[i], dir))
  IN  done[Len(gpios)]

GpioConfigArray(s, gpios, dir) ==
  LET done[i \in 0..Len(gpios)] ==
        IF i = 0 THEN Done(s)
        ELSE UNION {{[o EXCEPT !.ret = IF @ = 0 THEN before.ret ELSE 1] :
                       o \in Pm8921GpioConfig(before.s, gpios[i], dir)} :
                    before \in done[i - 1]}
  IN  done[Len(gpios)]

IrqGetBlockStatus(s, block) ==
  Then(Sequence8921(s, <<Store(<<"IRQ_BLOCK_SEL", 0, 0>>, {<<"BLOCK", block>>})>>),
       SsbiRead)

(* Regulators: banks 2 and 4 of a PMOS regulator's test register, control. *)
Pm8921LdoSetVoltage(s, ldo, volt) ==
  LET Test(b) == Store(<<"LDO_TEST", ldo, b>>, {<<"RW">>, <<"BANK_SEL", b>>})
      ctrl    == Store(<<"LDO_CTRL", ldo, 0>>, {<<"ENABLE">>, <<"PULL_DOWN">>,
                                               <<"VOLTAGE", volt>>})
  IN  Sequence8921(s, IF ldo \in PLdos THEN <<Test(2), Test(4), ctrl>> ELSE <<ctrl>>)

ConfigResetPwrOff(s, reset) ==
  Sequence8921(s,
    <<Modify(<<"SLEEP_CTRL", 0, 0>>, {"SMPL_EN"}, IF reset THEN {<<"SMPL_EN">>} ELSE {}),
      Modify(<<"PON_CTRL_1", 0, 0>>, {"PULL_UP", "USB_PWR_EN", "WD_EN"},
             {<<"PULL_UP">>, <<"USB_PWR_EN">>} \cup IF reset THEN {<<"WD_EN">>} ELSE {})>>)

LowVoltageSwitchEnable(s, lvs) ==
  IF lvs \notin 1..7 \ {2} THEN Return(s, 1)
  ELSE Then(SsbiRead(s), LAMBDA t :
         IF <<"VOUT_OK">> \in ValueOf(t, <<"LVS_TEST", lvs, 0>>) THEN Done(t)
         ELSE Sequence8921(t, <<Store(<<"LVS_CTRL", lvs, 0>>,
                                      {<<"SW_EN">>, <<"SLEEP_B_IGNORE">>})>>))

(* The modulator of the light pulse generator: its six control registers,  *)
(* of which the first starts it.                                           *)
Pm8921PwmConfig(s, channel, period) ==
  LET c == CalcPeriod8921(period)
      ctl == <<{}, {<<"BYPASS_LUT">>}, {}, {<<"VALUE", c.value>>},
               {<<"CLK", c.clk + 1>>, <<"PRE_DIV", c.div>>, <<"EXP", c.m>>},
               {<<"SIZE", c.n>>}>>
  IN  Checked(s, period \in PwmPeriods,
         <<Store(<<"LPG_BANK_SEL", 0, 0>>, {<<"BANK", channel>>})>>
           \o [i \in 1..6 |-> Store(<<"LPG_CTL", 0, i - 1>>, ctl[i])])

Pm8921PwmEnable(s, channel) ==
  Sequence8921(s,
    <<Modify(<<"LPG_BANK_ENABLE", 0, 0>>, {}, {<<"ON", channel>>}),
      Store(<<"LPG_BANK_SEL", 0, 0>>, {<<"BANK", channel>>}),
      Modify(<<"LPG_CTL", 0, 0>>, {"RAMP_GEN", "PWM_START"}, {<<"PWM_START">>})>>)

Pm8921BatAlarmSet(s, volt) ==
  Checked(s, volt \in 0..1, <<Store(<<"BAT_ALRM_THRESH", 0, 0>>, {<<"VOL", volt>>}),
                              Modify(<<"BAT_ALRM_CTRL", 0, 0>>, {}, {<<"ENABLE">>})>>)

RtcAlarmDisable(s) == Sequence8921(s, <<Modify(<<"RTC_CTRL", 0, 0>>, {"ALARM_EN"}, {})>>)

(* The lamps, the keypad's driver, a pin as an output, the HDMI switch:    *)
(* their arguments checked, one register is written.                       *)
WriteOne(s, what, unit, level) ==
  Checked(s, (what = "MPP_CTRL" => unit \in 1..12) /\ (what # "MPP_CTRL" => level <= 1),
          <<Store(<<what, unit, 0>>, {<<"LEVEL", level>>})>>)

(* pm8921_boot_done looks at no error: a read that fails leaves val what   *)
(* it was before, here no field.                                           *)
Pm8921BootDone(s) ==
  LET Try(t, r, set) ==
        UNION {Ignoring(SsbiWrite(o.s, r, (IF o.ret = 0 THEN ValueOf(o.s, r) ELSE {}) \cup set),
                        Done) : o \in SsbiRead(t)}
  IN  Then(Try(s, <<"PBL_ACCESS_2", 0, 0>>, {<<"ENUM_TIMER_STOP">>}),
           LAMBDA t : Try(t, <<"SYS_CONFIG_2", 0, 0>>,
                          {<<"BOOT_DONE">>, <<"ADAPTIVE_BOOT_DISABLE">>}))

(* pm89xx_ldo_set_voltage: ldo_get never returns NULL, but the last entry  *)
(* of its table for a name it does not know.                               *)
LdoGet(ldo) == IF ldo \in NamedLdos THEN ldo ELSE LastLdo
Pm89xxLdoSetVoltage(s, ldo, volt) == Pm8921LdoSetVoltage(s, LdoGet(ldo), volt)

-----------------------------------------------------------------------------
Pm8921Call(s, c) ==
  CASE c.op = "gpio"  -> GpioConfigArray(s, <<c.unit, c.unit + 1>>, c.arg)
    [] c.op = "irq"   -> IrqGetBlockStatus(s, c.unit)
    [] c.op = "ldo"   -> Pm8921LdoSetVoltage(s, c.unit, c.arg)
    [] c.op = "ldo89" -> Pm89xxLdoSetVoltage(s, c.unit, c.arg)
    [] c.op = "reset" -> ConfigResetPwrOff(s, c.arg = 1)
    [] c.op = "lvs"   -> LowVoltageSwitchEnable(s, c.unit)
    [] c.op = "pwm"   -> Pm8921PwmConfig(s, c.unit, c.arg)
    [] c.op = "pwmon" -> Pm8921PwmEnable(s, c.unit)
    [] c.op = "alarm" -> Pm8921BatAlarmSet(s, c.arg)
    [] c.op = "rtc"   -> RtcAlarmDisable(s)
    [] c.op = "boot"  -> Pm8921BootDone(s)
    [] OTHER          -> WriteOne(s, c.op, c.unit, c.arg)

CallPm8921 ==
  /\ pm.calls > 0
  /\ \E c \in PmCalls : \E o \in Pm8921Call([pm EXCEPT !.calls = @ - 1], c) :
       pm' = [o.s EXCEPT !.call = c, !.ret = o.ret]
Pm8921Next == CallPm8921
Pm8921Spec == Pm8921Init /\ [][Pm8921Next]_pm8921Vars

(* What a call that returns success says of the chip.                      *)
Promised(s, c) ==
  LET Holds(r, f) == f \in ValueOf(s, r)
      LdoIsOn(ldo) ==
        /\ Holds(<<"LDO_CTRL", ldo, 0>>, <<"ENABLE">>)
        /\ Holds(<<"LDO_CTRL", ldo, 0>>, <<"VOLTAGE", c.arg>>)
        /\ ldo \in PLdos =>
             \A b \in {2, 4} : Holds(<<"LDO_TEST", ldo, b>>, <<"BANK_SEL", b>>)
  IN  /\ c.op = "gpio" => \A g \in {c.unit, c.unit + 1}, b \in 0..5 :
                            Holds(<<"GPIO", g, b>>, <<"FIELDS", c.arg>>)
      /\ c.op = "ldo" => LdoIsOn(c.unit)
      /\ (c.op = "ldo89" /\ c.unit \in NamedLdos) => LdoIsOn(c.unit)
      /\ c.op = "reset" =>
           \A x \in {<<<<"SLEEP_CTRL", 0, 0>>, <<"SMPL_EN">>>>,
                     <<<<"PON_CTRL_1", 0, 0>>, <<"WD_EN">>>>} :
             Holds(x[1], x[2]) <=> c.arg = 1
      /\ c.op = "pwmon" => Holds(<<"LPG_CTL", c.unit, 0>>, <<"PWM_START">>)
      /\ c.op = "pwm" => Holds(<<"LPG_CTL", c.unit, 3>>,
                               <<"VALUE", CalcPeriod8921(c.arg).value>>)

(* A call that returns success has done on the chip all it was called for, *)
(* wherever the bus failed, whichever bank of the generator was selected   *)
(* before, and whatever the other call left half done.                     *)
SuccessReachedTheChip == pm.ret = 0 => Promised(pm, pm.call)
=============================================================================
