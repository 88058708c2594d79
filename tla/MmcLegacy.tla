----------------------------- MODULE MmcLegacy -----------------------------
(***************************************************************************)
(* The eMMC and SD stack of MMCHSDxe: mmc.c and MMCHS.c on the older MCI   *)
(* controller, with its three ways to move data: the FIFO by hand, the ADM *)
(* and the BAM.  Routines and state are as in MmcCard; what differs:       *)
(*   host    width and ddr, the card clock, and data_ctl: the data path    *)
(*           is armed                                                      *)
(*   pipes   the two BAM pipes, read and write                             *)
(*   stale   history: a descriptor was left behind by a call that failed    *)
(* A controller that never sets a status bit hangs the driver in a loop    *)
(* without a limit; such a hang is no outcome here.                        *)
(***************************************************************************)
EXTENDS MmcCard, BamPipe

CONSTANTS
  Boards,      \* boards and cards the system may be started with
  MaxReadBlocks, MaxWriteBlocks, \* 0xffff and 0xFFFFFF / 512 in the code
  MAX_ROW_NUM, RowsPerBlock,     \* rows of an ADM box; of a block
  LegacyFaults, LegacyCalls      \* bounds: commands that fail; calls

VARIABLES legacy, legacyCall, legacyCalls
legacyVars == <<legacy, legacyCall, legacyCalls>>

NoLegacyCall == [op |-> "none", lba |-> 0, n |-> 0, status |-> "none"]

LegacyInit ==
  /\ \E hw \in Boards :
       legacy = [hw |-> hw,
            card |-> [state |-> "idle", width |-> 1, ddr |-> FALSE,
                      timing |-> "legacy", part |-> "user", wp |-> {},
                      erased |-> {}],
            host |-> [width |-> 1, ddr |-> FALSE, clk |-> "off",
                      data_ctl |-> FALSE],
            dev |-> [type |-> "none", block_size |-> 0, capacity |-> 0,
                     published |-> FALSE],
            pipes |-> [read |-> BamPipeInit, write |-> BamPipeInit],
            moved |-> <<>>, stale |-> FALSE, clash |-> FALSE,
            faults |-> LegacyFaults]
  /\ legacyCall = NoLegacyCall /\ legacyCalls = 0

-----------------------------------------------------------------------------
(* The clock register.  Enabling the clock writes the whole of it: the     *)
(* width and the DDR bit go.                                               *)
MciClock(t, rate) == [t EXCEPT !.host.clk = rate, !.host.width = 1,
                               !.host.ddr = FALSE]

Fast(t) == t.card.timing # "legacy"

LegacyBusAgrees(t) ==
  /\ t.host.ddr = t.card.ddr
  /\ t.host.width = t.card.width
  /\ t.host.clk = "50MHz" => Fast(t)
  /\ t.host.clk = "96MHz" => t.card.timing = "HS200" \/ t.card.ddr

LegacyData(t, cmd, Effect(_, _)) ==
  SendDataOn(t, cmd, LegacyBusAgrees(t), Effect)

HighCapacity(t) == t.dev.type \in {"MMCHC", "SDHC"}

(* Addressed in bytes, the block length comes first.                       *)
SetBlockLen(t) == IF HighCapacity(t) THEN Done(t)
                  ELSE Send(t, "CMD16", Unchanged)

Arm(t)    == [t EXCEPT !.host.data_ctl = TRUE]
Disarm(t) == [t EXCEPT !.host.data_ctl = FALSE]

(* mmc_boot_bam_setup_desc: what it returns is never looked at.            *)
SetupDesc(t, dir, at, n) ==
  IF t.hw.dm # "bam" THEN t
  ELSE [t EXCEPT !.pipes[dir] = BamAddDesc(@, legacyCalls + 1, at, n).s]

(* The boxes of an ADM transfer: rows of a FIFO each, in units of rows.    *)
AdmBoxes(rows) ==
  LET num[left \in 0..rows] ==
        IF left = 0 THEN <<>>
        ELSE LET row_num == IF left > MAX_ROW_NUM THEN MAX_ROW_NUM ELSE left
             IN  << [at |-> rows - left, rows |-> row_num] >>
                   \o num[left - row_num]
  IN  num[rows]

(* Which blocks of this call's buffer the engine touches, one for each of   *)
(* the n blocks the card moves.                                            *)
OwnSlot(t, dir, at, n) ==
  CASE t.hw.dm = "fifo" -> [k \in 1..n |-> at + k]
    [] t.hw.dm = "adm" ->
         LET boxes == AdmBoxes(n * RowsPerBlock)
             hit(k) == \A r \in ((k - 1) * RowsPerBlock)..(k * RowsPerBlock - 1) :
                         \E i \in DOMAIN boxes :
                           r \in boxes[i].at..(boxes[i].at + boxes[i].rows - 1)
         IN  [k \in 1..n |-> IF hit(k) THEN at + k ELSE 0]
    [] OTHER ->
         LET given == Given(t.pipes[dir])
             blocks[i \in 0..Len(given)] ==
               IF i = 0 THEN <<>>
               ELSE blocks[i - 1] \o [j \in 1..given[i].n |->
                      IF given[i].call = legacyCalls + 1 THEN given[i].at + j ELSE 0]
             all == blocks[Len(given)]
         IN  [k \in 1..n |-> IF k \in DOMAIN all THEN all[k] ELSE 0]

LegacyExchange(t, dir, blk, at, n) ==
  LET own == OwnSlot(t, dir, at, n)
  IN  [t EXCEPT !.moved = [b \in DOMAIN @ |->
         IF \E k \in 1..n : own[k] = b
         THEN blk + (CHOOSE k \in 1..n : own[k] = b) - 1 ELSE @[b]]]

(* The end of a BAM transfer, and the failure that leaves its descriptors. *)
BamEnds(t, dir) ==
  IF t.hw.dm # "bam" THEN t
  ELSE [t EXCEPT !.pipes[dir] = BamReadOffsetUpdate(EngineRuns(@))]
LeavesDesc(t) == IF t.hw.dm = "bam" THEN [t EXCEPT !.stale = TRUE] ELSE t

-----------------------------------------------------------------------------
(* mmc_boot_read_from_card.  An MMC card is told how many blocks to send   *)
(* and stops by itself; an SD card is stopped.  A failure returns at once: *)
(* the data path stays armed, the descriptors stay in the ring.            *)
MultiRead(t, n) == n > 1 /\ t.dev.type \in {"MMCHC", "STD_MMC"}

SendStopBug(t) == Send(t, "CMD13", Unchanged)

SendStop(t) == Send(t, "CMD12", LAMBDA u : SetCard(u, "state", "tran"))

ReadFromCard(t, blk, at, n) ==
  LET counted == MultiRead(t, n)
      sends(u, whole) ==
        SetCard(IF whole THEN LegacyExchange(u, "read", blk, at, n) ELSE u, "state",
                IF n = 1 \/ counted THEN "tran" ELSE "data")
      read(u) == LegacyData(SetupDesc(Arm(u), "read", at, n),
                            IF n = 1 THEN "CMD17" ELSE "CMD18", sends)
      moved(u) == {IF o.ret = 0 THEN [o EXCEPT !.s = BamEnds(@, "read")]
                   ELSE [o EXCEPT !.s = LeavesDesc(@)] : o \in read(u)}
  IN  Then(Then(Then(Then(SetBlockLen(t),
        LAMBDA u : IF counted THEN Send(u, "CMD23", Unchanged) ELSE Done(u)),
        LAMBDA u : moved(u)),
        LAMBDA u : IF n > 1 /\ ~counted THEN SendStop(u) ELSE Done(u)),
        LAMBDA u : Done(Disarm(u)))

(* mmc_boot_write_to_card.  The path is armed after the command; a failed  *)
(* transfer of several blocks is stopped before it is reported.            *)
WriteToCard(t, blk, at, n) ==
  LET takes(u, whole) ==
        SetCard(IF whole THEN LegacyExchange(u, "write", blk, at, n) ELSE u, "state",
                IF n = 1 THEN "tran" ELSE "rcv")
      write(u) == LegacyData(SetupDesc(u, "write", at, n),
                             IF n = 1 THEN "CMD24" ELSE "CMD25", takes)
      failed(o) == LET u == LeavesDesc(o.s)
                   IN  IF o.r1 = NoAnswer THEN Return(u, 1)
                       ELSE IF n = 1 THEN Return(Arm(u), 1)
                       ELSE {[s |-> p.s, ret |-> 1] : p \in SendStop(Arm(u))}
      ends(u) == IF n > 1 THEN SendStop(u) ELSE Send(u, "CMD13", Unchanged)
  IN  Then(Then(SetBlockLen(t),
        LAMBDA u : UNION {IF o.ret # 0 THEN failed(o)
                          ELSE ends(Arm(BamEnds(o.s, "write"))) : o \in write(u)}),
        LAMBDA u : Done(Disarm(u)))

(* mmc_read and mmc_write of mmc.c: in pieces.                             *)
MmcLegacyTransfer(t, dir, lba, n) ==
  LET limit  == IF dir = "read" THEN MaxReadBlocks ELSE MaxWriteBlocks
      pieces == (n - 1) \div limit + 1
      size(k) == IF k < pieces THEN limit ELSE n - (pieces - 1) * limit
      piece(k, u) == IF dir = "read"
                     THEN ReadFromCard(u, lba + (k - 1) * limit, (k - 1) * limit,
                                       size(k))
                     ELSE WriteToCard(u, lba + (k - 1) * limit, (k - 1) * limit,
                                      size(k))
  IN  ForEach(1, pieces, [t EXCEPT !.moved = [k \in 1..n |-> -1]], piece)

LegacyLastBlock == legacy.dev.capacity - 1

LegacyBlocksCall(op, media, lba, n, odd, buffer) ==
  /\ legacy.dev.published /\ legacyCalls < LegacyCalls /\ legacyCalls' = legacyCalls + 1
  /\ LET refusal == Refusal(LegacyLastBlock, media, lba, n, odd, buffer)
     IN  IF refusal # "none"
         THEN /\ legacyCall' = [op |-> op, lba |-> lba, n |-> 0, status |-> refusal]
              /\ legacy' = [legacy EXCEPT !.moved = <<>>]
         ELSE \E o \in MmcLegacyTransfer(legacy, op, lba, n) :
                /\ legacy' = o.s
                /\ legacyCall' = [op |-> op, lba |-> lba, n |-> n,
                            status |-> IF o.ret = 0 THEN "EFI_SUCCESS"
                                       ELSE "EFI_DEVICE_ERROR"]

LegacyReadBlocks == \E lba \in {0, 1, Blocks - 1, Blocks}, n \in 1..Blocks :
  LegacyBlocksCall("read", FALSE, lba, n, FALSE, TRUE)
LegacyWriteBlocks == \E lba \in 0..1, n \in 0..Blocks,
                        media, odd, buffer \in BOOLEAN :
  /\ n > 2 => ~media /\ ~odd /\ buffer
  /\ LegacyBlocksCall("write", media, lba, n, odd, buffer)

-----------------------------------------------------------------------------
(* Identification and the modes.                                           *)
MmcBootSwitchCmd(t, Effect(_)) ==
  Then(Send(t, "CMD6", Effect),
       LAMBDA u : {[s |-> o.s, ret |-> IF o.ret = 0 /\ o.r1.state = "tran"
                                       THEN 0 ELSE 1] :
                   o \in Send(u, "CMD13", Unchanged)})

HostWidth(t, width) == Done([t EXCEPT !.host.width = width])

MmcBootSetBusWidth(t, width, ddr) ==
  Then(MmcBootSwitchCmd(t, LAMBDA u : [u EXCEPT !.card.width = width,
                                                !.card.ddr = ddr]),
       LAMBDA u : HostWidth(u, width))

AdjustInterfaceSpeed(t) ==
  Then(MmcBootSwitchCmd(t, LAMBDA u : SetCard(u, "timing", "HS")),
       LAMBDA u : Done(MciClock(u, "50MHz")))

(* The clock goes up before the card is switched; no tuning is done.       *)
LegacySetHs200Mode(t) ==
  Then(MmcBootSetBusWidth(MciClock(t, "96MHz"), t.hw.bus_width, FALSE),
       LAMBDA u : MmcBootSwitchCmd(u, LAMBDA v : SetCard(v, "timing", "HS200")))

(* Enabling the clock clears the width, and all the width bits are set     *)
(* again, which is the eight bit mode.  Any other width: nothing is done,  *)
(* and that is a success.                                                  *)
LegacySetDdrMode(t) ==
  IF t.hw.bus_width \notin {4, 8} THEN Done(t)
  ELSE Then(MmcBootSetBusWidth(t, t.hw.bus_width, TRUE),
            LAMBDA u : Done([MciClock(u, "96MHz") EXCEPT !.host.ddr = TRUE,
                                                         !.host.width = 8]))

(* CMD1 until the card is ready.                                           *)
SendOpCond(t) ==
  LET ready(u) == SetCard(u, "state", "ready")
  IN  {[s |-> [o.s EXCEPT !.dev.type = IF o.ret = 0 THEN t.hw.kind ELSE @],
        ret |-> o.ret] : o \in Send(t, "CMD1", ready)}

(* CMD8 is tried three times, its last failure ignored; then ACMD41.       *)
SdInitCard(t) ==
  LET if_cond == ForEach(1, 3, t, LAMBDA i, u :
                   {[s |-> o.s, ret |-> 1 - o.ret] :
                      o \in Send(u, "CMD8_IF_COND", Unchanged)})
  IN  Then(Ignoring(if_cond, LAMBDA u : Send(u, "CMD55", Unchanged)),
           LAMBDA u : Then(Send(u, "ACMD41", LAMBDA v : SetCard(v, "state", "ready")),
                           LAMBDA v : Done([v EXCEPT !.dev.type = v.hw.kind])))

(* A card that does not answer CMD1 is tried as an SD card; only the other *)
(* way sets the block size.  A card that stays busy is given up.           *)
InitCard(t) ==
  LET reset == Done(GoIdle(t)) \cup IF t.faults > 0 THEN Return(Fault(t), 1)
                                    ELSE {}
      busy(u) == IF u.faults > 0 /\ ~IsSd(u) THEN Return(Fault(u), 1) ELSE {}
  IN  Then(reset, LAMBDA u : busy(u) \cup
        UNION {IF o.ret = 0 THEN Done([o.s EXCEPT !.dev.block_size = MMC_BLK_SZ])
               ELSE SdInitCard(o.s) : o \in SendOpCond(u)})

(* CMD8 with data into the buffer; the path is disarmed unless the command *)
(* itself failed.                                                          *)
SendExtCmd(t) ==
  LET read(u) == LegacyData(Arm(SetupDesc(u, "read", 0, 1)), "CMD8", Reads)
  IN  Then(SetBlockLen(t), LAMBDA u :
        {IF o.r1 = NoAnswer THEN [o EXCEPT !.s = LeavesDesc(@)]
         ELSE [o EXCEPT !.s = Disarm(IF o.ret = 0 THEN BamEnds(@, "read")
                                     ELSE LeavesDesc(@))] : o \in read(u)})

(* Blocks the card says it has, computed in 32 bits but for the EXT_CSD's. *)
LegacyCapacity(t) ==
  LET csd == t.hw.csd
  IN  IF t.dev.type \in {"MMCHC", "STD_MMC"} /\ csd.c_size = 4095
      THEN csd.sec_count
      ELSE (csd.bytes % (AddrWidth * MMC_BLK_SZ)) \div MMC_BLK_SZ

IdentifyCard(t) ==
  LET step(u, cmd, state) == Send(u, cmd, LAMBDA v : SetCard(v, "state", state))
  IN  Then(Then(Then(Then(Then(
        step(t, "CMD2", "ident"),
        LAMBDA u : step(u, "CMD3", "stby")),
        LAMBDA u : Send(u, "CMD9", Unchanged)),
        LAMBDA u : step(u, "CMD7", "tran")),
        LAMBDA u : IF u.dev.type \in {"STD_MMC", "MMCHC"} THEN SendExtCmd(u)
                   ELSE Done(u)),
        LAMBDA u : Done([u EXCEPT !.dev.capacity = LegacyCapacity(u)]))

(* mmc_boot_read_reg: the path is armed for a descriptor nobody set up,    *)
(* and never disarmed.                                                     *)
ReadReg(t, cmd, Effect(_, _)) == LegacyData(Arm(t), cmd, Effect)

SetSdBusWidth(t, width) ==
  Then(Then(Send(t, "CMD55", Unchanged),
            LAMBDA u : Send(u, "ACMD6", LAMBDA v : SetCard(v, "width", width))),
       LAMBDA u : HostWidth(u, width))

SetSdHs(t) ==
  Then(ReadReg(t, "CMD6", LAMBDA u, whole : SetCard(u, "timing", "HS")),
       LAMBDA u : Done(MciClock(u, "50MHz")))

SetMmcMode(t) ==
  CASE "HS200" \in t.hw.device_type -> LegacySetHs200Mode(t)
    [] "HS200" \notin t.hw.device_type /\ "DDR" \in t.hw.device_type
         -> LegacySetDdrMode(t)
    [] OTHER -> MmcBootSetBusWidth(t, t.hw.bus_width, FALSE)

InitAndIdentify(t) ==
  LET sd(u) == u.dev.type \in {"SDHC", "STD_SD"}
      bus(u) == IF sd(u)
                THEN Then(SetSdHs(u), LAMBDA v : OrElse(SetSdBusWidth(v, 4),
                            LAMBDA w : SetSdBusWidth(w, 1)))
                ELSE Then(AdjustInterfaceSpeed(u), SetMmcMode)
  IN  Then(Then(Then(InitCard(t), IdentifyCard), bus),
           LAMBDA u : {[s |-> o.s, ret |-> IF o.ret = 0 /\ o.r1.state = "tran"
                                           THEN 0 ELSE 1] :
                       o \in Send(u, "CMD13", Unchanged)})

(* mmc_boot_main and PlatformCallbackInitSlot.  An SD card comes without a *)
(* block size, by which the capacity is divided.                           *)
LegacyInitSlot ==
  /\ legacyCall.op = "none"
  /\ \E o \in InitAndIdentify(MciClock(legacy, "400KHz")) :
       legacy' = [o.s EXCEPT !.dev.published = (o.ret = 0 /\ o.s.dev.block_size # 0)]
  /\ legacyCall' = [NoLegacyCall EXCEPT !.op = "init"] /\ UNCHANGED legacyCalls

-----------------------------------------------------------------------------
(* What else mmc.c offers.                                                 *)
LegacyApi(op, outcomes) ==
  /\ legacy.dev.published /\ legacyCalls < LegacyCalls /\ legacyCalls' = legacyCalls + 1
  /\ \E o \in outcomes :
       /\ legacy' = o.s
       /\ legacyCall' = [NoLegacyCall EXCEPT !.op = op,
                     !.status = IF o.ret = 0 THEN "EFI_SUCCESS" ELSE "failed"]

(* Whole erase groups; less than one is a block of zeroes instead.  The    *)
(* last group is counted in blocks also where the first is in bytes.       *)
MmcEraseCard(t, lba, n) ==
  LET grp == t.hw.erase_grp
      loop_count == n \div grp
      unit == IF HighCapacity(t) THEN 1 ELSE MMC_BLK_SZ
      last == (lba * unit + grp * (loop_count - 1)) \div unit
      groups == {b \in 0..(Blocks - 1) : b \div grp \in (lba \div grp)..(last \div grp)}
  IN  IF loop_count < 1
      THEN MmcLegacyTransfer([t EXCEPT !.card.erased = {lba}], "write", lba, 1)
      ELSE Then(Then(Then(Then(
             Send(t, "CMD35", Unchanged),
             LAMBDA u : Send(u, "CMD36", Unchanged)),
             LAMBDA u : Send(u, "CMD13", Unchanged)),
             LAMBDA u : Send(u, "CMD38", LAMBDA v : SetCard(v, "erased", groups))),
             LAMBDA u : Send(u, "CMD13", Unchanged))

LegacyErase == \E lba \in 0..1, n \in 1..3 :
  LegacyApi("erase", MmcEraseCard(legacy, lba, n))

MmcWp(t, grp, n, set) ==
  LET status(u) == ReadReg(u, "CMD31", Reads)
      group(i, u) ==
        Then(Send(u, "CMD28", LAMBDA v : SetCard(v, "wp",
                IF set THEN v.card.wp \cup {grp + i - 1}
                ELSE v.card.wp \ {grp + i - 1})),
             LAMBDA v : Send(v, "CMD13", Unchanged))
      set_clr(u) == Then(Then(Then(MmcBootSwitchCmd(u, Unchanged), SendExtCmd),
                              LAMBDA v : MmcBootSwitchCmd(v, Unchanged)),
                         LAMBDA v : ForEach(1, n, v, group))
  IN  Then(Then(status(t), set_clr), status)

LegacyWp == \E set \in BOOLEAN : LegacyApi("wp", MmcWp(legacy, 0, 2, set))

LegacyPutCardToSleep ==
  LegacyApi("sleep", Ignoring(
    Then(Send(legacy, "CMD7", LAMBDA t : SetCard(t, "state", "stby")),
         LAMBDA t : Send(t, "CMD5", LAMBDA u : SetCard(u, "state", "slp"))), Done))

LegacyNext ==
  \/ LegacyInitSlot \/ LegacyReadBlocks \/ LegacyWriteBlocks
  \/ LegacyErase \/ LegacyWp \/ LegacyPutCardToSleep

LegacySpec == LegacyInit /\ [][LegacyNext]_legacyVars

-----------------------------------------------------------------------------
(* Data is only on the bus while controller and card use the same width    *)
(* and data rate, at a clock the card's timing allows.                     *)
LegacyBusesAgree == ~legacy.clash

(* A call that reports success exchanged exactly the blocks it was given,   *)
(* in order, with its own buffer, over all its pieces, descriptors and     *)
(* rows, unless an earlier call failed with its descriptors in the ring.    *)
LegacySuccessMovesTheRange ==
  legacyCall.status = "EFI_SUCCESS" /\ legacyCall.n > 0 /\ ~legacy.stale =>
    \A k \in 1..legacyCall.n : legacy.moved[k] = legacyCall.lba + k - 1

(* A transfer that reports success leaves the card ready for the next      *)
(* command and the controller's data path disarmed.                        *)
SuccessLeavesCardReady ==
  legacyCall.status = "EFI_SUCCESS" /\ legacyCall.n > 0 =>
    legacy.card.state = "tran" /\ ~legacy.host.data_ctl
=============================================================================
