------------------------------ MODULE Display -------------------------------
(***************************************************************************)
(* The MSM8994's display: from the panel's name to a lit picture, and back *)
(* (target_display.c, oem_panel.c, gcdb_display.c, panel_display.c,        *)
(* display.c, mipi_dsi.c, mdp5.c, misc.c), what the graphics output makes  *)
(* of it and what a second stage finds.  A start or a stop runs to its end *)
(* by itself: see Routine.  Of the registers the model keeps what one part *)
(* needs from another; DSI controller 0 is every panel's first.            *)
(***************************************************************************)
EXTENDS Routine, Sequences

CONSTANTS
  Panels,       \* name -> its headers' data: cmd, dual, split, dualPipe,
                \* dstSplit, broadcast, late, lcd, wled, rates, ratio, and the
                \* sizes w, h, hfp, hbp, hpw, vfp, vbp, vpw
  Named,        \* what the name may be that panel_name happens to point to
  Hardware,     \* [platform, m8992]
  MaxFaults     \* bound: how many operations fail

(* The headers agree with themselves: a picture is split for two links,    *)
(* which hear the same commands if they show one; the board's own panel    *)
(* and the one the list runs on into are in it.                            *)
ASSUME DisplayAssumption ==
  /\ MaxFaults \in Nat
  /\ \A id \in DOMAIN Panels :
       LET p == Panels[id]
       IN  /\ p \in [cmd : BOOLEAN, dual : BOOLEAN, split : BOOLEAN, dualPipe : BOOLEAN,
                     dstSplit : BOOLEAN, broadcast : BOOLEAN, late : BOOLEAN, lcd : BOOLEAN,
                     wled : BOOLEAN, rates : Nat, ratio : Nat, w : Nat, h : Nat \ {0},
                     hfp : Nat, hbp : Nat, hpw : Nat, vfp : Nat, vbp : Nat, vpw : Nat]
           /\ p.split <=> p.dual
           /\ p.dual /\ (p.late \/ ~p.cmd) => p.broadcast
  /\ "none" \notin DOMAIN Panels
  /\ "hx8379a_truly_fwvga_video" \in DOMAIN Panels => "nt35597_wqxga_video" \in DOMAIN Panels
  /\ \A h \in Hardware :
       /\ h.platform = "liquid" => "jdi_4k_dualdsi_video" \in DOMAIN Panels
       /\ h.platform = "mtp" => "sharp_wqxga_dualdsi_video" \in DOMAIN Panels

VARIABLES disp, board, phase
displayVars == <<disp, board, phase>>

Nothing  == "none"
Untimed  == [line |-> 0, frame |-> 0]
Unset    == [base |-> Nothing, ystride |-> 0, size |-> <<0, 0>>]
Esc(c)   == IF c = 0 THEN "esc0" ELSE "esc1"
Off == [gdsc |-> FALSE, clocks |-> [c \in {"bus", "mdp", "esc0", "esc1"} |-> 0], pll |-> FALSE,
        lcd |-> FALSE, ibb |-> FALSE, out |-> FALSE, light |-> FALSE,
        phy |-> {}, host |-> [c \in {0, 1} |-> {}], told |-> FALSE,
        tg |-> [c \in {0, 1} |-> Untimed], link |-> [c \in {0, 1} |-> Untimed],
        src |-> Unset, smp |-> <<>>, engine |-> FALSE,
        panel |-> Nothing, fbcon |-> FALSE, enabled |-> FALSE, override |-> FALSE,
        refused |-> FALSE, wrong |-> {}, gop |-> FALSE, faults |-> MaxFaults]
DisplayInit == disp = Off /\ board \in Hardware /\ phase = "off"

(* An operation that may fail, and then does nothing but return code.      *)
Fallible(s, code, Ok(_)) ==
  Ok(s) \cup (IF s.faults > 0 THEN Return([s EXCEPT !.faults = @ - 1], code) ELSE {})

Controllers(p) == IF p.dual THEN {0, 1} ELSE {0}

-----------------------------------------------------------------------------
(* Hardware.  The MDP answers while its domain and clocks are on, a DSI    *)
(* controller with its own clocks, and the panel hears what is sent to it  *)
(* when it is out of reset and every link's PHY and controller are ready.  *)
MdpOn(s)    == s.gdsc /\ s.clocks["bus"] > 0 /\ s.clocks["mdp"] > 0
DsiOn(s, c) == MdpOn(s) /\ s.pll /\ s.clocks[Esc(c)] > 0
Hears(s, p) == s.out /\ \A c \in Controllers(p) : DsiOn(s, c) /\ c \in s.phy /\ "cmd" \in s.host[c]
Needs(s, what, ready) == IF ready THEN s ELSE [s EXCEPT !.wrong = @ \cup {what}]
Mdp(s)    == Needs(s, "mdp", MdpOn(s))
Dsi(s, C) == Needs(s, "dsi", \A c \in C : DsiOn(s, c))

(* What the collapse of the domain loses.                                  *)
Collapsed(s) ==
  [s EXCEPT !.gdsc = FALSE, !.pll = FALSE, !.phy = {}, !.host = [c \in {0, 1} |-> {}],
            !.engine = FALSE, !.tg = Off.tg, !.link = Off.link, !.src = Unset, !.smp = <<>>]
MdpGdscCtrl(s, enable) == IF enable THEN [s EXCEPT !.gdsc = TRUE] ELSE Collapsed(s)

(* clk_get_set_enable counts, clk_disable stops at none.                   *)
Enable(s, C)  == [s EXCEPT !.clocks = [c \in DOMAIN @ |-> IF c \in C THEN @[c] + 1 ELSE @[c]]]
Disable(s, C) == [s EXCEPT !.clocks = [c \in DOMAIN @ |-> IF c \in C /\ @[c] > 0
                                                          THEN @[c] - 1 ELSE @[c]]]

-----------------------------------------------------------------------------
(* target_panel_clock.  One PLL serves both links.                         *)
ClksDisable(s) == MdpGdscCtrl(Disable(Disable(s, {"mdp"}), {"bus"}), FALSE)
PllConfig(s, p) == Needs(s, "mdp", MdpOn(s))
TargetPanelClock(s, p, enable) ==
  IF ~enable THEN Done(ClksDisable(Disable(s, {Esc(c) : c \in Controllers(p)})))
  ELSE LET on == Enable(Enable(MdpGdscCtrl(s, TRUE), {"bus"}), {"mdp"})
           Refuse(o) == IF o.ret = 0 THEN {o}
                        ELSE Return([ClksDisable(o.s) EXCEPT !.refused = TRUE], o.ret)
           Locked(t) == Fallible(PllConfig(t, p), -1, LAMBDA u : Done([u EXCEPT !.pll = TRUE]))
       IN  Then(UNION {Refuse(o) : o \in Then(Fallible(on, -1, Done), Locked)},
                LAMBDA t : Done(Enable(t, {Esc(c) : c \in Controllers(p)})))

(* mdss_dsi_dfps_get_pll_codes_cal: every rate's codes are taken with the  *)
(* clocks on; a rate that fails does not end it.                           *)
DfpsConfig(s, p) ==
  LET taken[i \in 0..p.rates] ==
        IF i = 0 THEN Done(s)
        ELSE UNION {LET one == Then(TargetPanelClock(o.s, p, TRUE),
                                    LAMBDA t : TargetPanelClock(t, p, FALSE))
                    IN  {[s |-> r.s, ret |-> IF r.ret = 0 THEN o.ret ELSE r.ret] : r \in one}
                    : o \in taken[i - 1]}
  IN  taken[p.rates]

(* mdss_dsi_panel_power: target_ldo_ctrl and target_panel_reset.  Nothing  *)
(* takes the regulators off again.                                         *)
LdoCtrl(s, p, enable) == [s EXCEPT !.lcd = enable /\ p.lcd, !.ibb = @ \/ enable]
PanelReset(s, enable) == [s EXCEPT !.out = enable, !.told = @ /\ enable]
PanelPower(s, p, enable) ==
  Done(IF enable THEN PanelReset(LdoCtrl(s, p, TRUE), TRUE)
       ELSE LdoCtrl(PanelReset(s, FALSE), p, FALSE))

(* target_backlight_ctrl                                                   *)
BacklightCtrl(s, p, enable) ==
  Done([s EXCEPT !.light = enable, !.ibb = IF p.wled THEN enable ELSE @])

-----------------------------------------------------------------------------
(* mdss_dsi_cmds_tx, with two commands: it waits for the running picture   *)
(* before each, and what sending the first returned is overwritten then.   *)
WaitVideoDone(s) ==
  IF "video" \notin s.host[0] THEN Done(s)
  ELSE IF s.engine THEN Fallible(s, -1, Done) ELSE Return(s, -1)
DmaTrigger(s, p) ==
  LET t == Needs(s, "panel", Hears(s, p)) IN Fallible(t, -1, Done)
CmdsTx(s, p) ==
  Then(WaitVideoDone(s),
       LAMBDA t : Ignoring(DmaTrigger(t, p),
                           LAMBDA u : Then(WaitVideoDone(u), LAMBDA v : DmaTrigger(v, p))))

SetHost(s, C, modes) == [Dsi(s, C) EXCEPT !.host = [c \in {0, 1} |-> IF c \in C THEN modes ELSE @[c]]]
(* mdss_dsi_host_init, mdss_dsi_panel_initialize: the controllers take     *)
(* commands while the panel is told how to start.                          *)
HostInit(s, p) == SetHost(s, Controllers(p), IF p.late THEN {"video"} ELSE {"cmd"})
Sent(p) == IF p.broadcast THEN Controllers(p) ELSE {0}
PanelInitialize(s, p) ==
  LET old  == s.host
      open == [Dsi(s, Sent(p)) EXCEPT
                 !.host = [c \in {0, 1} |-> IF c \in Sent(p) THEN @[c] \cup {"cmd"} ELSE @[c]]]
  IN  {[s |-> [o.s EXCEPT !.host = old, !.told = o.ret = 0], ret |-> o.ret] : o \in CmdsTx(open, p)}

PhyInit(s, p) == [Dsi(s, Controllers(p)) EXCEPT !.phy = Controllers(p)]

(* mdss_dsi_config                                                         *)
DsiConfigBug(s, p) ==
  IF p.late THEN Done(HostInit(PhyInit(s, p), p))
  ELSE Then(PanelInitialize(PhyInit(s, p), p), LAMBDA t : Done(HostInit(t, p)))

DsiConfig(s, p) ==
  LET ready == HostInit(PhyInit(s, p), p)
  IN  IF p.late THEN Done(ready) ELSE PanelInitialize(ready, p)
PostOnBug(s, p) == Done(s)

PostOn(s, p) == IF p.late THEN PanelInitialize(s, p) ELSE Done(s)

(* mdss_dsi_panel_shutdown and mipi_dsi_off: the links go back to commands *)
(* and the panel is told to sleep, whatever comes of it.                   *)
PanelShutdown(s, p) ==
  LET C == IF p.broadcast THEN Controllers(p) ELSE {0}
  IN  {[o EXCEPT !.ret = 0] : o \in CmdsTx(IF p.cmd THEN s ELSE SetHost(s, C, {"cmd"}), p)}

-----------------------------------------------------------------------------
(* mdss_intf_tg_setup and mdss_dsi_video_mode_config reckon a line and a   *)
(* frame of each half by themselves, one from the split, one from the      *)
(* links.                                                                  *)
Ratio(p) == IF p.ratio = 0 THEN 1 ELSE p.ratio
TgTimings(p) ==
  LET x == (IF p.split THEN p.w \div 2 ELSE p.w) \div Ratio(p)
  IN  [line |-> p.hpw + p.hbp + x + p.hfp, frame |-> p.vpw + p.vbp + p.h + p.vfp]
LinkTimings(p) ==
  LET x == (IF p.dual THEN p.w \div 2 ELSE p.w) \div Ratio(p)
  IN  [line |-> x + p.hfp + (p.hbp + p.hpw), frame |-> p.h + p.vfp + (p.vbp + p.vpw)]
OnEach(p, v) == [c \in {0, 1} |-> IF c \in Controllers(p) THEN v ELSE Untimed]

(* mdss_smp_setup, mdss_smp_alloc: line buffers for the pipes, three to a  *)
(* register; the second pipe begins with a register of its own.            *)
SmpCount(p) == LET x == IF p.dualPipe THEN 1024 ELSE 2048 IN (x * 3 * 2 + 8191) \div 8192
SmpAlloc(words, client, n) ==
  LET left[k \in 0..n] ==
        IF k = 0 THEN <<>>
        ELSE IF k % 3 = 1 THEN Append(left[k - 1], <<client>>)
        ELSE [left[k - 1] EXCEPT ![Len(left[k - 1])] = Append(@, client)]
  IN  words \o left[n]
SmpSetup(p) ==
  LET one == SmpAlloc(<<>>, "left", SmpCount(p))
  IN  IF p.dualPipe THEN SmpAlloc(one, "right", SmpCount(p)) ELSE one

(* mdss_source_pipe_config: what the first pipe reads, in 3 bytes a pixel. *)
SourcePipe(p) == [base |-> "fb", ystride |-> p.w * 3, size |-> <<p.h, p.w>>]

(* mdp_dsi_video_config, mdp_dsi_cmd_config                                *)
MdpConfig(s, p) ==
  [Mdp(s) EXCEPT !.tg = IF p.cmd THEN @ ELSE OnEach(p, TgTimings(p)),
                 !.smp = SmpSetup(p), !.src = SourcePipe(p)]

(* dsi_panel_config                                                        *)
PanelConfig(s, p) ==
  [SetHost(s, Controllers(p), IF p.cmd THEN {"cmd"} ELSE {"video"}) EXCEPT
     !.link = IF p.cmd THEN @ ELSE OnEach(p, LinkTimings(p))]

-----------------------------------------------------------------------------
(* msm_display_config, msm_display_on, msm_display_init                    *)
MsmDisplayConfig(s, p) ==
  Then(DsiConfig(s, p), LAMBDA t : Done(PanelConfig(MdpConfig(t, p), p)))
(* mipi_dsi_on waits for a frame.                                          *)
MsmDisplayOn(s, p) ==
  LET run == [Mdp(s) EXCEPT !.engine = TRUE]
  IN  IF p.cmd THEN PostOn(run, p)
      ELSE Then(PostOn(run, p), LAMBDA t : Fallible(Dsi(t, {0}), -1, Done))

MsmDisplayInit(s, p) ==
  LET Lit(t)   == Then(MsmDisplayConfig([t EXCEPT !.fbcon = TRUE, !.refused = FALSE], p),
                       LAMBDA u : Then(MsmDisplayOn(u, p), LAMBDA v : BacklightCtrl(v, p, TRUE)))
      Clock(t) == Then(TargetPanelClock(t, p, TRUE), Lit)
  IN  Then(PanelPower(s, p, TRUE),
           LAMBDA t : Then(DfpsConfig(t, p), Clock))

(* The board's own panel or the one that was named; hx8379a's case of      *)
(* init_panel_data runs on into the next one's.  The MSM8992 splits what   *)
(* it sends to two links.                                                  *)
FallsTo(id) == IF id = "hx8379a_truly_fwvga_video" THEN "nt35597_wqxga_video" ELSE id
PanelData(id) ==
  LET p == Panels[FallsTo(id)]
  IN  IF board.m8992 /\ p.dual THEN [p EXCEPT !.dstSplit = TRUE] ELSE p

(* target_cont_splash_screen: is the picture to be kept?                   *)
ContSplash(s) == ~s.override /\ board.platform \in {"mtp", "liquid"}

(* msm_display_off                                                         *)
MsmDisplayOff(s) ==
  LET p == PanelData(s.panel)
      Stopped == IF p.cmd THEN Mdp(s) ELSE [Mdp(s) EXCEPT !.engine = FALSE]
      Dark(t) == Then(BacklightCtrl(t, p, FALSE),
                      LAMBDA u : Then(TargetPanelClock(u, p, FALSE),
                                      LAMBDA v : PanelPower(v, p, FALSE)))
  IN  IF s.panel = Nothing THEN Return(s, -1)
      ELSE IF ContSplash(s) THEN Done(Dsi(Mdp(s), Controllers(p)))
      ELSE Then(PanelShutdown(Stopped, p),
                LAMBDA t : Dark(SetHost(t, {0}, {})))

-----------------------------------------------------------------------------
(* oem_panel_select                                                        *)
DefaultPanel == IF board.platform = "liquid" THEN "jdi_4k_dualdsi_video"
                ELSE IF board.platform = "mtp" THEN "sharp_wqxga_dualdsi_video" ELSE Nothing
PanelId(name) == IF name \in DOMAIN Panels THEN name ELSE DefaultPanel

(* gcdb_display_init                                                       *)
GcdbDisplayInit(s, name) ==
  LET id == PanelId(name)
  IN  {[o EXCEPT !.s.enabled = o.ret = 0] :
         o \in IF id = Nothing THEN Return(s, -2) ELSE MsmDisplayInit([s EXCEPT !.panel = id], PanelData(id))}

(* set_panel_cmd_string and target_display_init, which is called without   *)
(* the name it reads.                                                      *)
Untouched(n) == n.skip \/ n.panel \in {"none", "sim", "hdmi"}
Keeps(n)     == ~n.disable /\ ~n.sim
TargetDisplayInitBug(s, n) ==
  IF Untouched(n) THEN {s}
  ELSE LET Tried(o) == IF o.ret = 0 THEN {o.s} ELSE {r.s : r \in MsmDisplayOff(o.s)}
       IN  {[t EXCEPT !.override = @ \/ ~Keeps(n)] :
              t \in UNION {Tried(o) : o \in GcdbDisplayInit(s, n.panel)}}

TargetDisplayInit(s, n) ==
  IF Untouched(n) THEN {s}
  ELSE LET Tried(o) == IF o.ret = 0 THEN {o.s}
                       ELSE {r.s : r \in MsmDisplayOff([o.s EXCEPT !.override = TRUE])}
       IN  {[t EXCEPT !.override = @ \/ ~Keeps(n)] :
              t \in UNION {Tried(o) : o \in GcdbDisplayInit(s, n.panel)}}

(* InitializeGraphicsOutput: a framebuffer that was set up is enough.      *)
GopOutcomes(s) == IF s.fbcon THEN BOOLEAN ELSE {FALSE}
Start ==
  /\ phase = "off"
  /\ \E n \in Named : \E t \in TargetDisplayInit(disp, n) :
       /\ \E gop \in GopOutcomes(t) : disp' = [t EXCEPT !.gop = gop]
       /\ phase' = IF t.enabled THEN "shown" ELSE "failed"
  /\ UNCHANGED board

(* gcdb_display_shutdown                                                   *)
Shutdown ==
  /\ phase \in {"shown", "failed"}
  /\ IF disp.enabled
     THEN /\ \E o \in MsmDisplayOff(disp) : disp' = o.s
          /\ phase' = IF ContSplash(disp) THEN "kept" ELSE "stopped"
     ELSE disp' = disp /\ phase' = "stopped"
  /\ UNCHANGED board

(* A second stage's target_display_init takes its framebuffer from the     *)
(* pipe's registers.                                                       *)
SecondStage == disp.src.base # Nothing /\ phase = "kept" /\ phase' = "handed"
               /\ UNCHANGED <<disp, board>>
SecondConfig == [base |-> disp.src.base, width |-> disp.src.ystride \div 3, height |-> disp.src.size[1]]

DisplayNext == Start \/ Shutdown \/ SecondStage
DisplaySpec == DisplayInit /\ [][DisplayNext]_displayVars

-----------------------------------------------------------------------------
(* Whatever fails on the way, no register is touched without its power and *)
(* clocks and nothing is sent that the panel cannot hear: except when the  *)
(* clocks themselves did not come up and the start is undone.              *)
TouchedWhenReady == disp.wrong # {} => disp.refused

(* A start that succeeded shows a picture: the panel was told to start,    *)
(* the engine and the light run on clocks that run, every pipe has its     *)
(* line buffers, and what the MDP sends is what the links expect.          *)
Blocks(who) == Cardinality({b \in (1..Len(disp.smp)) \X (1..3) :
                              /\ b[2] <= Len(disp.smp[b[1]])
                              /\ disp.smp[b[1]][b[2]] = who})
PictureIsShown ==
  phase \in {"shown", "kept"} =>
    LET p == PanelData(disp.panel)
        Uses(c) == c = 0 \/ p.dual
    IN  /\ disp.out /\ disp.engine /\ disp.light /\ disp.told
        /\ disp.lcd = p.lcd
        /\ \A c \in {0, 1} : Uses(c) => DsiOn(disp, c)
        /\ \A who \in {"left"} \cup (IF p.dualPipe THEN {"right"} ELSE {}) :
             Blocks(who) * 8192 >= (IF p.dualPipe THEN 1024 ELSE 2048) * 6
        /\ \A c \in {0, 1} : disp.tg[c] = disp.link[c] /\ (disp.tg[c] # Untimed <=> ~p.cmd /\ Uses(c))

(* A start that failed, and a stop that need not keep the picture, leave   *)
(* nothing on; a stop that keeps it leaves it as the second stage needs it.*)
OffOrKept ==
  /\ phase \in {"failed", "stopped"} =>
       /\ ~disp.gdsc /\ ~disp.light /\ ~disp.out /\ ~disp.lcd
       /\ \A c \in DOMAIN disp.clocks : disp.clocks[c] = 0
  /\ phase = "handed" =>
       SecondConfig = [base |-> "fb", width |-> PanelData(disp.panel).w, height |-> PanelData(disp.panel).h]
=============================================================================
