------------------------------ MODULE MmcSdhci ------------------------------
(***************************************************************************)
(* The eMMC and SD layer of SdhciMMCHSDxe: mmc_sdhci.c, the bus settings   *)
(* of sdhci.c and the tuning of sdhci_msm.c.  Each routine is its set of   *)
(* outcomes (see Routine); the state is described in MmcCard.              *)
(***************************************************************************)
EXTENDS MmcCard, Sequences, SequencesExt

CONSTANTS
  MAX_PHASES,              \* DLL phases that are tried
  MX_DRV_SUPPORTED_HS200,  \* drive types that are tried
  HcUnit,                  \* blocks an SD v2 card has per unit of c_size
  MAX_RPMB_CMDS, RpmbRetry \* commands of one RPMB request; its polls

-----------------------------------------------------------------------------
(* sdhci.c, sdhci_msm.c: the host's side of the bus.  clk is the card      *)
(* clock the mode asks for.                                                *)
SdhciSetUhsMode(s, mode) ==
  [s EXCEPT !.host.uhs = mode,
            !.host.clk = CASE mode = "SDR104" -> 200 [] mode = "SDR50" -> 100
                           [] mode \in {"DDR50", "SDR25"} -> 50
                           [] OTHER -> 25]

SaveTiming(s, timing) == [s EXCEPT !.host.timing = timing]

(* Bits are only ever added to HOST_CTRL1.                                 *)
SdhciSetBusWidth(s, width) == [s EXCEPT !.host.width = width]

(* The source of the controller's clock: the divided one for HS400, which  *)
(* is selected only while the tuning result waits for its calibration.     *)
SdhciMsmSetMciClk(s) ==
  IF s.host.timing = "HS400"
  THEN IF s.host.tuning_done /\ ~s.host.calibration_done
       THEN [s EXCEPT !.host.mclk = "HS400 calibrating"]
       ELSE [s EXCEPT !.host.mclk = "HS400"]
  ELSE [s EXCEPT !.host.mclk = "free"]

(* Waits for the DLL that may give up.                                     *)
MayFail(s) == Done(s) \cup IF s.faults > 0 THEN Return(Fault(s), 1) ELSE {}

SdhciMsmInitDll(s)          == MayFail(s)
SdhciMsmConfigDll(s, phase) == MayFail([s EXCEPT !.host.dll = phase])

SdhciMsmHs400Calibration(s) ==
  Then(Then(SdhciMsmInitDll(s),
            LAMBDA t : SdhciMsmConfigDll(t, t.host.saved_phase)),
       MayFail)

-----------------------------------------------------------------------------
(* The phases that passed, in ascending order, as rows of consecutive      *)
(* ones; the last row goes on with the first when both ends of the range   *)
(* passed.  The phase at three quarters of the first longest row is taken. *)
SubPhases(table) ==
  LET starts == {i \in DOMAIN table : i = 1 \/ table[i - 1] + 1 # table[i]}
      first  == SetToSortSeq(starts, <)
      row(k) == SubSeq(table, first[k], IF k = Len(first) THEN Len(table)
                                        ELSE first[k + 1] - 1)
      rows   == [k \in DOMAIN first |-> row(k)]
      found_loop == table[1] = 0 /\ table[Len(table)] = MAX_PHASES - 1
  IN  IF found_loop /\ Len(table) < MAX_PHASES
      THEN [rows EXCEPT ![Len(rows)] = @ \o rows[1], ![1] = <<>>]
      ELSE rows

RowPick(n) == LET i == (n * 3) \div 4 IN IF i > 0 THEN i ELSE 1

FindAppropriatePhase(table) ==
  LET rows == SubPhases(table)
      k    == CHOOSE i \in DOMAIN rows :
                /\ \A j \in DOMAIN rows : Len(rows[j]) <= Len(rows[i])
                /\ \A j \in 1..(i - 1) : Len(rows[j]) < Len(rows[i])
  IN  rows[k][RowPick(Len(rows[k]))]

(* A switch of the card's registers (CMD6), and the status that follows:   *)
(* the card must be in the transfer state without a switch error.          *)
MmcGetCardStatus(s) == Send(s, "CMD13", Unchanged)

MmcSwitchCmd(s, Effect(_)) ==
  Then(Send(s, "CMD6", Effect),
       LAMBDA t : {[s |-> o.s, ret |-> IF o.ret = 0 /\ o.r1.state = "tran"
                                       THEN 0 ELSE 1] :
                   o \in MmcGetCardStatus(t)})

SetTiming(s, timing) == SetCard(s, "timing", timing)

(* A drive type the card does not offer counts as changed.                 *)
MmcSetDrvType(s, type) ==
  IF type \in s.hw.drv_types
  THEN MmcSwitchCmd(s, LAMBDA t : SetTiming(t, "HS200"))
  ELSE Done(s)

(* One pass over the phases.  A tuning block arrives and matches, arrives  *)
(* and does not, or does not arrive at all, which sdhci_cmd_complete hides *)
(* from its caller: the buffer still holds the block before it.            *)
TuningResults == [0..(MAX_PHASES - 1) -> {"match", "differs", "nothing"}]

Counted(result, p) ==
  LET last == {q \in 0..p : result[q] # "nothing"}
  IN  last # {} /\ result[CHOOSE q \in last : \A r \in last : r <= q] = "match"

TunedPhases(result) ==
  SetToSortSeq({p \in 0..(MAX_PHASES - 1) : Counted(result, p)}, <)

TuningPass(s) ==
  Then(SdhciMsmConfigDll(s, MAX_PHASES - 1),
       LAMBDA t : {[s |-> [t EXCEPT !.host.tuned = TunedPhases(result),
                                    !.clash = @ \/ ~BusAgrees(t)],
                    ret |-> 0] : result \in TuningResults})

AllPassed(s) == Len(s.host.tuned) = MAX_PHASES

(* retry_tuning: while every phase passes, the next drive type is tried,   *)
(* and whether the last of them was changed decides if type 0 comes back.  *)
TryDriveType(s, drv) ==
  IF ~AllPassed(s) THEN Done(s)
  ELSE UNION {IF o.ret = 0 THEN TuningPass([o.s EXCEPT !.host.drv_changed = TRUE])
              ELSE Done([o.s EXCEPT !.host.drv_changed = FALSE]) :
                o \in MmcSetDrvType(s, drv)}

TuneWithDriveTypes(s) ==
  Then(Then(TuningPass([s EXCEPT !.host.drv_changed = FALSE]),
            LAMBDA t : ForEach(1, MX_DRV_SUPPORTED_HS200, t,
                               LAMBDA drv, u : TryDriveType(u, drv))),
       LAMBDA t : IF t.host.drv_changed
                  THEN Ignoring(MmcSetDrvType(t, 0), Done) ELSE Done(t))

SavePhase(s) ==
  IF s.host.tuned = <<>> THEN Return(s, 1)
  ELSE LET phase == FindAppropriatePhase(s.host.tuned)
       IN  {[s |-> IF o.ret = 0 THEN [o.s EXCEPT !.host.saved_phase = phase]
                   ELSE o.s, ret |-> 0] : o \in SdhciMsmConfigDll(s, phase)}

(* HS200: the card is tuned.  HS400 after a tuning: the phase is           *)
(* calibrated.  After a tuning in which every phase passed, one more       *)
(* tuning block is read, now and in every later call.                      *)
SdhciMsmExecuteTuning(s) ==
  LET calibrate == Then(SdhciMsmHs400Calibration(s), LAMBDA t :
                        Done([t EXCEPT !.host.calibration_done = TRUE]))
      tuned     == Then(Then(SdhciMsmInitDll(s), TuneWithDriveTypes),
                        LAMBDA t : SavePhase([t EXCEPT
                          !.attempt_cdr_unlock = @ \/ AllPassed(t)]))
      out(o)    == {[s |-> [t.s EXCEPT !.host.tuning_done = TRUE],
                     ret |-> o.ret] :
                    t \in IF o.s.attempt_cdr_unlock
                          THEN SendData(o.s, "CMD21", Reads) ELSE Done(o.s)}
  IN  UNION {out(o) : o \in IF /\ s.host.timing = "HS400"
                                /\ s.host.tuning_done
                                /\ ~s.host.calibration_done
                             THEN calibrate ELSE tuned}

-----------------------------------------------------------------------------
(* mmc_sdhci.c: the modes.  "DDR" is always asked for at eight bits.       *)
MmcSetBusWidth(s, width) ==
  MmcSwitchCmd(s, LAMBDA t : [t EXCEPT !.card.width = width,
                                       !.card.ddr = FALSE])

MmcSetHsInterface(s) ==
  Then(MmcSwitchCmd(s, LAMBDA t : SetTiming(t, "HS")),
       LAMBDA t : Done(SdhciSetUhsMode(SaveTiming(t, "SDR25"), "SDR25")))

MmcSetDdrMode(s) ==
  Then(MmcSwitchCmd(s, LAMBDA t : [t EXCEPT !.card.width = 8,
                                            !.card.ddr = TRUE]),
       LAMBDA t : Done(SdhciSetUhsMode(SaveTiming(t, "DDR50"), "DDR50")))

SupportsHs400(s) == s.hw.hs400_support /\ "HS400" \in s.hw.device_type
SupportsHs200(s) == s.hw.sdr104_support /\ "HS200" \in s.hw.device_type
SupportsDdr(s)   == s.hw.ddr_support /\ "DDR" \in s.hw.device_type

MmcSetHs200Mode(s, width) ==
  LET clocked(t) == IF SupportsHs400(t)
                    THEN SdhciMsmSetMciClk(SaveTiming(t, "HS400"))
                    ELSE t
      after(o) == [s |-> IF o.s.host.timing = "HS400"
                         THEN SdhciMsmSetMciClk(SaveTiming(o.s, "HS200"))
                         ELSE SaveTiming(o.s, "HS200"),
                   ret |-> o.ret]
  IN  Then(Then(MmcSetBusWidth(s, width),
                LAMBDA t : MmcSwitchCmd(t, LAMBDA u : SetTiming(u, "HS200"))),
           LAMBDA t : {after(o) : o \in SdhciMsmExecuteTuning(
                                    clocked(SdhciSetUhsMode(t, "SDR104")))})

(* HS400 is reached through HS200, whose tuning it needs, and DDR.         *)
MmcSetHs400Mode(s, width) ==
  LET slow(t)  == Done(SdhciSetUhsMode(SaveTiming(t, "SDR12"), "SDR12"))
      hs400(t) == SdhciMsmSetMciClk(SdhciSetUhsMode(SaveTiming(t, "HS400"),
                                                    "SDR104"))
  IN  IF width # 8 THEN Return(s, 1)
      ELSE Then(Then(Then(Then(Then(MmcSetHs200Mode(s, width), slow),
                               MmcSetHsInterface),
                          MmcSetDdrMode),
                     LAMBDA t : MmcSwitchCmd(t,
                                  LAMBDA u : SetTiming(u, "HS400"))),
                LAMBDA t : SdhciMsmExecuteTuning(hs400(t)))

-----------------------------------------------------------------------------
(* Identification.  The polls for a card that powers up end in its answer  *)
(* or in the driver's patience.                                            *)
PollCard(s, cmd, Ready(_)) ==
  Send(s, cmd, Ready) \cup IF s.faults > 0 THEN Return(Fault(s), 1) ELSE {}

MmcSendOpCond(s) ==
  Then(PollCard(s, "CMD1", LAMBDA t : SetCard(t, "state", "ready")),
       LAMBDA t : Done([t EXCEPT !.dev.type = t.hw.kind]))

MmcResetCardAndSendOp(s) ==
  Then(Done(GoIdle(s)) \cup IF s.faults > 0 THEN Return(Fault(s), 1) ELSE {},
       MmcSendOpCond)

MmcSendAppCmd(s) == Send(s, "CMD55", Unchanged)

MmcSdCardInit(s) ==
  Then(Then(Then(PollCard(s, "CMD8_IF_COND", Unchanged), MmcSendAppCmd),
            LAMBDA t : PollCard(t, "ACMD41",
                                LAMBDA u : SetCard(u, "state", "ready"))),
       LAMBDA t : Done([t EXCEPT !.dev.type = t.hw.kind]))

MmcIdentifyCard(s) ==
  Then(Then(Then(Then(Send(s, "CMD2", LAMBDA t : SetCard(t, "state", "ident")),
                      LAMBDA t : Send(t, "CMD3",
                                   LAMBDA u : SetCard(u, "state", "stby"))),
                 LAMBDA t : Send(t, "CMD9", Unchanged)),
            LAMBDA t : Send(t, "CMD7", LAMBDA u : SetCard(u, "state", "tran"))),
       LAMBDA t : Done([t EXCEPT !.dev.status = "ACTIVE"]))

(* The EXT_CSD goes to a new buffer, in place before it is read.           *)
MmcGetExtCsd(s) ==
  Then(SendData([s EXCEPT !.dev.ext_csd = "unread"], "CMD8", Reads),
       LAMBDA t : Done([t EXCEPT !.dev.ext_csd = "read"]))

AppCommand(s, cmd, Effect(_)) ==
  Then(MmcSendAppCmd(s), LAMBDA t : Send(t, cmd, Effect))

MmcSdGetCardScr(s) ==
  Then(Then(MmcSendAppCmd(s), LAMBDA t : SendData(t, "ACMD51", Reads)),
       LAMBDA t : Done([t EXCEPT !.dev.bus_widths = t.hw.bus_widths]))
MmcSdGetCardSsr(s) ==
  Then(MmcSendAppCmd(s), LAMBDA t : SendData(t, "ACMD13", Reads))

MmcSdSetBusWidth(s, width) ==
  AppCommand(s, "ACMD6", LAMBDA t : SetCard(t, "width", width))

MmcSdSetHs(s) ==
  Then(SendData(s, "CMD6", LAMBDA t, whole : SetTiming(t, "HS")),
       LAMBDA t : Done(SdhciSetUhsMode(t, "SDR25")))

(* Blocks the card says it has.                                            *)
DecodeCapacity(s) ==
  LET csd == s.hw.csd
  IN  CASE s.dev.type = "SDHC" -> (1 + csd.c_size) * HcUnit
        [] s.dev.type = "MMCHC" /\ csd.c_size = 4095 -> csd.sec_count
        [] OTHER -> ((2 ^ (csd.c_size_mult + 2)) * (csd.c_size + 1)
                      * csd.read_blk_len) \div MMC_BLK_SZ

MmcDecodeAndSaveCsd(s) ==
  Done([s EXCEPT !.dev.capacity = DecodeCapacity(s)])

(* The width of the board, as far as the host has the lines for it.        *)
BusWidth(s) ==
  CASE s.hw.bus_width = 8 /\ s.hw.bus_width_8bit -> 8
    [] s.hw.bus_width = 4 -> 4
    [] OTHER -> 1

SelectMode(s, width) ==
  CASE SupportsHs400(s) -> MmcSetHs400Mode(s, width)
    [] ~SupportsHs400(s) /\ SupportsHs200(s) -> MmcSetHs200Mode(s, width)
    [] ~SupportsHs400(s) /\ ~SupportsHs200(s) /\ SupportsDdr(s)
         -> MmcSetDdrMode(s)
    [] OTHER -> Then(MmcSetHsInterface(s),
                     LAMBDA t : MmcSetBusWidth(t, width))

SetMmcBusBug(s) == SelectMode(s, BusWidth(s))

SetMmcBus(s) ==
  SelectMode(SdhciSetBusWidth(s, BusWidth(s)), BusWidth(s))

SetSdBus(s) ==
  LET width == IF 4 \in s.dev.bus_widths THEN 4 ELSE 1
  IN  Then(MmcSdSetBusWidth(s, width),
           LAMBDA t : Done(SdhciSetBusWidth(t, width)))

(* The reset pin of the device.  An SD card has no EXT_CSD: what the null  *)
(* pointer reads decides, and the switch is one an SD card does not know.  *)
EnableResetPin(s) ==
  IF IsSd(s) THEN Done(s) \cup Return(s, 1)
  ELSE IF s.hw.rst_n THEN Done(s) ELSE MmcSwitchCmd(s, Unchanged)

MmcCardInit(s) ==
  LET inactive == [s EXCEPT !.dev.status = "INACTIVE"]
      sd(t) == t.dev.type \in {"SDHC", "STD_SD"}
  IN  Then(Then(Then(Then(Then(Then(
        OrElse(MmcResetCardAndSendOp(inactive), MmcSdCardInit),
        MmcIdentifyCard),
        LAMBDA t : IF sd(t) THEN MmcSdSetHs(t) ELSE MmcSetHsInterface(t)),
        LAMBDA t : IF sd(t) THEN Then(MmcSdGetCardScr(t), MmcSdGetCardSsr)
                   ELSE MmcGetExtCsd(t)),
        MmcDecodeAndSaveCsd),
        LAMBDA t : IF sd(t) THEN SetSdBus(t) ELSE SetMmcBus(t)),
        EnableResetPin)

(* The controller is reset, its clock set and the data of an earlier       *)
(* tuning forgotten.                                                       *)
MmcHostInit(s) ==
  Done([s EXCEPT !.host = [@ EXCEPT !.width = 1, !.uhs = "SDR12", !.clk = 0,
                             !.timing = "SDR12", !.mclk = "free",
                             !.tuning_done = FALSE,
                             !.calibration_done = FALSE]])

MmcInit(s) == Then(MmcHostInit(s), MmcCardInit)
=============================================================================
