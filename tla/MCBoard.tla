------------------------------- MODULE MCBoard -------------------------------
(* What the drivers stand on, in one run, each part by itself: `level`     *)
(* says which one moves.                                                   *)
EXTENDS I2cQup, Interrupts, TimerDelay, Pm8921, QpnpWled, Scm, Clocks, Display, SmdChannel

VARIABLE level
boardVars == <<level, i2cVars, irqVars, delayVars, pm8921Vars, pm8x41Vars,
               scmVars, clockVars, displayVars, smdVars>>

-----------------------------------------------------------------------------
(* I2C: single transfers, a write and a read or two writes of one device,  *)
(* which go out as one chain, writes of two devices.                       *)
WriteMsg(n) == [addr |-> 1, rd |-> FALSE, len |-> n]
ReadMsg(n)  == [addr |-> 1, rd |-> TRUE, len |-> n]
MCTransfers ==
  {<<WriteMsg(n)>> : n \in {1, 2, 6, 7}} \cup {<<ReadMsg(n)>> : n \in {1, 5}}
  \cup {<<WriteMsg(n), ReadMsg(3)>> : n \in {1, 2, 5, 6, 7}}
  \cup {<<WriteMsg(n), WriteMsg(2)>> : n \in {2, 6}}
  \cup {<<WriteMsg(n), [WriteMsg(1) EXCEPT !.addr = 2]>> : n \in 1..2}

-----------------------------------------------------------------------------
(* PWM: three clocks, three divisors, exponents 0..3 and 2-bit counters.   *)
MCPwmTable   == <<<<20, 30, 50>>, <<2, 3, 5>>>>
MCPwmPeriods == {192 * k : k \in 1..25} \cup {200, 900}

PmCall(op, unit, arg) == [op |-> op, unit |-> unit, arg |-> arg]
MCPmCalls ==
  {PmCall("gpio", 1, 1), PmCall("gpio", 2, 0), PmCall("ldo", 2, 1),
   PmCall("ldo", 8, 2), PmCall("ldo89", 8, 1), PmCall("ldo89", 5, 1),
   PmCall("reset", 0, 0), PmCall("reset", 0, 1), PmCall("lvs", 7, 0),
   PmCall("lvs", 2, 0), PmCall("pwmon", 1, 0), PmCall("pwmon", 2, 0),
   PmCall("alarm", 0, 1), PmCall("alarm", 0, 2), PmCall("rtc", 0, 0),
   PmCall("boot", 0, 0), PmCall("LED_CNTL", 1, 1), PmCall("LED_CNTL", 1, 2),
   PmCall("MPP_CTRL", 3, 1), PmCall("irq", 3, 1)}
  \cup {PmCall("pwm", 1, t) : t \in MCPwmPeriods \cup {9999}}

Op(op, sid, unit, arg) == [op |-> op, sid |-> sid, unit |-> unit, arg |-> arg]
MCOps ==
  {Op("gpio", 0, "GPIO1", 1), Op("gpio", 2, "GPIO2", 0),
   Op("gpioset", 0, "GPIO1", 1), Op("reset", 0, "", 1), Op("reset94", 0, "", 2),
   Op("resin", 0, "", 0), Op("battery", 0, "", 0), Op("pmi", 0, "", 0),
   Op("ldo", 0, "LDO1", 3), Op("switch", 0, "CLK", 1), Op("adc", 0, "", 0),
   Op("wled", 0, "", 0), Op("light", 0, "", 1), Op("bias", 0, "", 1),
   Op("bias", 0, "", 0)}
  \cup {Op("init", 0, "", i) : i \in 1..3}
  \cup {Op("pwm", 0, "", t) : t \in MCPwmPeriods \cup {9999}}

(* The peripherals of the three slaves, and the order of their channels.   *)
On(sid, names) == [i \in DOMAIN names |-> <<sid, names[i]>>]
Leds == <<"WLED", "LAB", "IBB", "LED1", "LED2", "LED3">>
MCChannels ==
  On(0, <<"CHG", "PON", "GPIO1", "CHG", "BAT_IF", "VADC", "CLK">>)
    \o On(1, <<"PWM", "LDO1">>) \o On(1, Leds)
    \o On(2, <<"PON", "CHGR", "GPIO2">>) \o On(3, Leds)
MCPeripherals == {MCChannels[i] : i \in DOMAIN MCChannels}

Volts(lo, start, hi) == [min |-> lo, init |-> start, max |-> hi]
MCLabibbConfigs ==
  <<[lab |-> Volts(5, 4, 6), ibb |-> Volts(3, 2, 5)],
    [lab |-> Volts(6, 4, 6), ibb |-> Volts(1, 2, 5)],
    [lab |-> Volts(3, 4, 6), ibb |-> Volts(3, 2, 5)]>>

-----------------------------------------------------------------------------
(* The older clocks with a banked one, and the newer ones with a source    *)
(* that a single branch and one of several share.                          *)
Clk(kind, parent, table, sibling) ==
  [kind |-> kind, parent |-> parent, table |-> table, sibling |-> sibling]
OlderClocks ==
  ("pxo"  :> Clk("fixed", "none", {}, FALSE)) @@ ("pll8" :> Clk("pll", "pxo", {}, FALSE)) @@
  ("pll2" :> Clk("pll", "pxo", {}, FALSE)) @@ ("axi" :> Clk("vote", "none", {}, FALSE)) @@
  ("uart" :> Clk("local", "none", {<<1, "pll8">>, <<2, "pxo">>}, FALSE)) @@
  ("mdp"  :> Clk("banked", "axi", {<<1, "pll8">>, <<3, "pll2">>}, FALSE))
NewerClocks ==
  ("cxo"   :> Clk("fixed", "none", {}, FALSE)) @@ ("gpll0" :> Clk("gpll", "cxo", {}, FALSE)) @@
  ("gpll4" :> Clk("gpll", "cxo", {}, FALSE)) @@ ("ahb" :> Clk("vote", "none", {}, FALSE)) @@
  ("sdcc"  :> Clk("rcg", "none", {<<1, "gpll0">>, <<2, "cxo">>, <<3, "gpll4">>}, FALSE)) @@
  ("apps"  :> Clk("branch", "sdcc", {}, FALSE)) @@ ("ice" :> Clk("branch", "sdcc", {}, TRUE))
MCTrees == {OlderClocks, NewerClocks}

-----------------------------------------------------------------------------
(* Panels of every kind: one link or two, pictures or commands, told late  *)
(* or early, with fewer bytes on the link than pixels.                     *)
Panel(w, h, hs, vs, flags, rates, ratio) ==
  [cmd |-> "cmd" \in flags, dual |-> "dual" \in flags, split |-> "dual" \in flags,
   dualPipe |-> "dual" \in flags, dstSplit |-> FALSE, broadcast |-> "dual" \in flags,
   late |-> "late" \in flags, lcd |-> "lcd" \in flags, wled |-> "wled" \in flags,
   rates |-> rates, ratio |-> ratio, w |-> w, h |-> h,
   hfp |-> hs[1], hbp |-> hs[2], hpw |-> hs[3], vfp |-> vs[1], vbp |-> vs[2], vpw |-> vs[3]]
MCPanels ==
  [sharp_wqxga_dualdsi_video |->
     Panel(1600, 2560, <<76, 32, 16>>, <<2, 11, 1>>, {"dual", "wled"}, 2, 0),
   jdi_qhd_dualdsi_cmd |->
     Panel(2560, 1440, <<120, 44, 16>>, <<8, 4, 4>>, {"dual", "cmd", "lcd"}, 0, 0),
   jdi_4k_dualdsi_video |->
     Panel(3840, 2160, <<100, 80, 12>>, <<16, 16, 4>>, {"dual", "late", "lcd"}, 0, 2),
   jdi_1080p_video |-> Panel(1080, 1920, <<96, 64, 16>>, <<4, 16, 1>>, {"lcd", "wled"}, 0, 0),
   sharp_1080p_cmd |-> Panel(1080, 1920, <<0, 0, 0>>, <<0, 0, 0>>, {"cmd", "wled"}, 0, 0),
   hx8379a_truly_fwvga_video |-> Panel(480, 854, <<100, 94, 40>>, <<6, 4, 6>>, {"lcd"}, 0, 0),
   nt35597_wqxga_video |-> Panel(1440, 2560, <<152, 160, 12>>, <<10, 9, 1>>, {}, 0, 3)]
MCNamed ==
  [panel : DOMAIN MCPanels \cup {"none", "sim", "hdmi", "?"},
   skip : BOOLEAN, disable : BOOLEAN, sim : BOOLEAN]
MCHardware == [platform : {"mtp", "liquid", "other"}, m8992 : BOOLEAN]

(* Packets of three or four words: each wraps somewhere else.              *)
MCReqLens == {1, 2}

-----------------------------------------------------------------------------
(* The other levels stay where one of their initial states is.             *)
MCBoardInit ==
  /\ level \in {"i2c", "irq", "delay", "pm8921", "pm8x41", "scm", "clocks", "display", "smd"}
  /\ I2cInit /\ InterruptsInit /\ TimerDelayInit /\ Pm8921Init /\ Pm8x41Init
  /\ ScmInit /\ ClocksInit /\ DisplayInit /\ SmdInit
  /\ level # "delay" => delay.count = 0
  /\ level # "scm" => <<scm.asked, scm.v8>> = CHOOSE c \in Calls : TRUE
  /\ level # "clocks" => tree = CHOOSE t \in Trees : TRUE
  /\ level # "display" => board = CHOOSE b \in Hardware : TRUE

buses    == <<i2cVars, irqVars, delayVars, pm8921Vars, pm8x41Vars>>
platform == <<scmVars, clockVars, displayVars, smdVars>>
MCBoardNext ==
  /\ UNCHANGED level
  /\ \/ /\ UNCHANGED platform
        /\ \/ level = "i2c" /\ I2cNext /\ UNCHANGED <<irqVars, delayVars, pm8921Vars, pm8x41Vars>>
           \/ level = "irq" /\ InterruptsNext /\ UNCHANGED <<i2cVars, delayVars, pm8921Vars, pm8x41Vars>>
           \/ level = "delay" /\ TimerDelayNext /\ UNCHANGED <<i2cVars, irqVars, pm8921Vars, pm8x41Vars>>
           \/ level = "pm8921" /\ Pm8921Next /\ UNCHANGED <<i2cVars, irqVars, delayVars, pm8x41Vars>>
           \/ level = "pm8x41" /\ Pm8x41Next /\ UNCHANGED <<i2cVars, irqVars, delayVars, pm8921Vars>>
     \/ /\ UNCHANGED buses
        /\ \/ level = "scm" /\ ScmNext /\ UNCHANGED <<clockVars, displayVars, smdVars>>
           \/ level = "clocks" /\ ClocksNext /\ UNCHANGED <<scmVars, displayVars, smdVars>>
           \/ level = "display" /\ DisplayNext /\ UNCHANGED <<scmVars, clockVars, smdVars>>
           \/ level = "smd" /\ SmdNext /\ UNCHANGED <<scmVars, clockVars, displayVars>>
OnlySmd(A) ==
  level = "smd" /\ A /\ UNCHANGED <<level, buses, scmVars, clockVars, displayVars>>
MCBoardSpec ==
  /\ MCBoardInit /\ [][MCBoardNext]_boardVars
  /\ WF_boardVars(OnlySmd(Driver)) /\ WF_boardVars(OnlySmd(SmdIrqHandler)) /\ WF_boardVars(OnlySmd(Rpm))

=============================================================================
