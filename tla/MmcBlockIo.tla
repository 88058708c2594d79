----------------------------- MODULE MmcBlockIo -----------------------------
(***************************************************************************)
(* The uses of an eMMC or SD device: MMCHS.c, which publishes it as a      *)
(* block device, the transfers, erasure, protection, sleep and RPMB of     *)
(* mmc_sdhci.c, and the search of the device tree for slots.  One action   *)
(* is one call of the driver; s is described in MmcCard.                   *)
(***************************************************************************)
EXTENDS MmcSdhci

CONSTANTS
  Worlds,         \* boards and cards the system may be started with
  SDHCI_ADMA_DESC_LINE_SZ, \* bytes one descriptor can hold (65536)
  MaxTransBlocks, \* SDHCI_ADMA_MAX_TRANS_SZ in blocks
  MaxFaults,      \* bound: commands that go wrong
  MaxCalls        \* bound: calls of the block device

VARIABLES s, call, calls
mmcVars == <<s, call, calls>>

NoCall == [op |-> "none", lba |-> 0, n |-> 0, status |-> "none"]

MmcBlockIoInit ==
  /\ \E hw \in Worlds :
       s = [hw |-> hw,
            card |-> [state |-> "idle", width |-> 1, ddr |-> FALSE,
                      timing |-> "legacy", part |-> "user",
                      boot |-> "kept", wp |-> {}],
            host |-> [width |-> 1, uhs |-> "SDR12", clk |-> 0,
                      timing |-> "SDR12", mclk |-> "free", dll |-> 0,
                      tuned |-> <<>>, saved_phase |-> -1,
                      tuning_done |-> FALSE, calibration_done |-> FALSE,
                      drv_changed |-> FALSE],
            dev |-> [status |-> "none", type |-> "none", ext_csd |-> "none",
                     bus_widths |-> {1}, capacity |-> 0, published |-> FALSE,
                     rpmb |-> "none"],
            moved |-> <<>>, attempt_cdr_unlock |-> FALSE, clash |-> FALSE,
            faults |-> MaxFaults]
  /\ call = NoCall /\ calls = 0

-----------------------------------------------------------------------------
(* Transfers.  moved[k] is the block of the card that the k-th block of    *)
(* the caller's buffer was exchanged with, -1 if it was not.               *)
ParseResponse(r1) == IF r1.error \/ r1.state # "tran" THEN 1 ELSE 0

MmcStopCommand(t) ==
  {[s |-> o.s, ret |-> IF o.ret # 0 THEN 1 ELSE ParseResponse(o.r1)] :
     o \in Send(t, "CMD12", LAMBDA u : SetCard(u, "state", "tran"))}

(* Byte addresses for a standard MMC, block addresses for everything else; *)
(* the card of standard capacity takes bytes.                              *)
Argument(t, blk) == IF t.dev.type = "STD_MMC" THEN blk * MMC_BLK_SZ ELSE blk
Addressed(t, arg) ==
  IF t.hw.kind \in {"STD_MMC", "STD_SD"} THEN arg \div MMC_BLK_SZ ELSE arg

(* sdhci_prep_desc_table: descriptors of one line each and one of the      *)
(* rest, whose 16 bit length field is 0 for a whole line.                  *)
PrepDescTable(len) ==
  LET sg_len == (len + SDHCI_ADMA_DESC_LINE_SZ - 1) \div SDHCI_ADMA_DESC_LINE_SZ
      left(i) == len - (i - 1) * SDHCI_ADMA_DESC_LINE_SZ
  IN  [i \in 1..sg_len |->
         [addr |-> (i - 1) * SDHCI_ADMA_DESC_LINE_SZ,
          len  |-> (IF i < sg_len THEN SDHCI_ADMA_DESC_LINE_SZ ELSE left(i))
                     % SDHCI_ADMA_DESC_LINE_SZ]]

Covered(table, byte) ==
  \E i \in DOMAIN table :
    LET len == IF table[i].len = 0 THEN SDHCI_ADMA_DESC_LINE_SZ ELSE table[i].len
    IN  byte \in table[i].addr..(table[i].addr + len - 1)

(* The engine exchanges the bytes its descriptors cover.                   *)
Exchange(t, blk, n, at) ==
  LET table == PrepDescTable(n * MMC_BLK_SZ)
      whole(k) == \A b \in (k * MMC_BLK_SZ)..((k + 1) * MMC_BLK_SZ - 1) :
                    Covered(table, b)
  IN  [t EXCEPT !.moved = [k \in DOMAIN @ |->
     IF k - 1 \in at..(at + n - 1) /\ whole(k - 1 - at)
     THEN Addressed(t, Argument(t, blk)) + (k - 1 - at) ELSE @[k]]]

(* mmc_sdhci_read and mmc_sdhci_write.  A single block's answer is judged  *)
(* by its response alone.                                                  *)
MmcSdhciTransfer(t, blk, n, at) ==
  LET cmd == IF n = 1 THEN "CMD17" ELSE "CMD18"
      effect(u, whole) == IF whole THEN Exchange(u, blk, n, at)
                          ELSE IF n = 1 THEN u
                          ELSE SetCard(u, "state", "data")
  IN  UNION {IF o.ret # 0 /\ n > 1 THEN MmcStopCommand(o.s)
             ELSE Return(o.s, ParseResponse(o.r1)) :
               o \in SendData(t, cmd, effect)}

(* mmc_read and mmc_write of MMCHS.c: pieces the descriptors can hold.     *)
Pieces(n) == (n - 1) \div MaxTransBlocks

Transfer(t, lba, n) ==
  LET piece(k, u) == MmcSdhciTransfer(u, lba + (k - 1) * MaxTransBlocks,
                       IF k <= Pieces(n) THEN MaxTransBlocks
                       ELSE n - Pieces(n) * MaxTransBlocks,
                       (k - 1) * MaxTransBlocks)
  IN  ForEach(1, Pieces(n) + 1, [t EXCEPT !.moved = [k \in 1..n |-> -1]], piece)

LastBlock == s.dev.capacity - 1

BlocksCall(op, media, lba, n, odd, buffer) ==
  /\ s.dev.published /\ calls < MaxCalls /\ calls' = calls + 1
  /\ LET refusal == Refusal(LastBlock, media, lba, n, odd, buffer)
     IN  IF refusal # "none"
         THEN /\ call' = [op |-> op, lba |-> lba, n |-> 0, status |-> refusal]
              /\ s' = [s EXCEPT !.moved = <<>>]
         ELSE \E o \in Transfer(s, lba, n) :
                /\ s' = o.s
                /\ call' = [op |-> op, lba |-> lba, n |-> n,
                            status |-> IF o.ret = 0 THEN "EFI_SUCCESS"
                                       ELSE "EFI_DEVICE_ERROR"]

MMCHSReadBlocks == \E lba \in {0, 1, Blocks}, n \in 1..Blocks :
  BlocksCall("read", FALSE, lba, n, FALSE, TRUE)
MMCHSWriteBlocks == \E lba \in {1, Blocks}, n \in 0..2,
                       media, odd, buffer \in BOOLEAN :
  /\ n = 2 => ~media /\ ~odd /\ buffer
  /\ BlocksCall("write", media, lba, n, odd, buffer)

-----------------------------------------------------------------------------
(* What else mmc_sdhci.c offers.                                           *)
Api(op, outcomes) ==
  /\ s.dev.published /\ calls < MaxCalls /\ calls' = calls + 1
  /\ \E o \in outcomes :
       /\ s' = o.s
       /\ call' = [NoCall EXCEPT !.op = op,
                     !.status = IF o.ret = 0 THEN "EFI_SUCCESS" ELSE "failed"]

(* The boot bits written back are those of the EXT_CSD buffer.             *)
SwitchPart(t, type) ==
  MmcSwitchCmd(t, LAMBDA u : [u EXCEPT !.card.part = type,
                 !.card.boot = IF u.dev.ext_csd = "read" THEN @ ELSE "lost"])

(* One command of a request: its count, itself, and the polls of its       *)
(* status, which share their patience with the other commands.             *)
RpmbCommand(t) ==
  Then(Then(Send(t, "CMD23_RPMB", Unchanged),
            LAMBDA u : SendData(u, "CMD18", Reads)),
       LAMBDA u : Then(MmcGetCardStatus(u), Done))

RpmbPatience(t, n) ==
  IF n >= RpmbRetry THEN {[s |-> o.s, ret |-> 1] : o \in RpmbCommand(t)}
  ELSE RpmbCommand(t)

RpmbSend(t, n) ==
  LET commands(u) == ForEach(1, n, u, LAMBDA i, v : RpmbPatience(v, i))
      restored(o) == {[s |-> r.s, ret |-> IF r.ret # 0 THEN 1 ELSE o.ret] :
                        r \in SwitchPart(o.s, "user")}
  IN  Then(SwitchPart(t, "rpmb"),
           LAMBDA u : UNION {restored(o) : o \in commands(u)})

MmcSdhciRpmbSend ==
  \E n \in 1..MAX_RPMB_CMDS :
    /\ ~IsSd(s) /\ s.dev.published /\ calls < MaxCalls /\ calls' = calls + 1
    /\ \E o \in RpmbSend(s, n) :
         /\ s' = [o.s EXCEPT !.dev.rpmb = IF o.ret = 0 THEN @ ELSE "failed"]
         /\ call' = [NoCall EXCEPT !.op = "rpmb",
                       !.status = IF o.ret = 0 THEN "EFI_SUCCESS" ELSE "failed"]

(* Groups are protected one command at a time.                             *)
SetClrPowerOnWpUser(t, grp, n, set) ==
  LET group(i, u) ==
        Then(Send(u, "CMD28", LAMBDA v : SetCard(v, "wp",
                IF set THEN v.card.wp \cup {grp + i - 1}
                ELSE v.card.wp \ {grp + i - 1})),
             MmcGetCardStatus)
  IN  Then(Then(Then(MmcSwitchCmd(t, Unchanged), MmcGetExtCsd),
                LAMBDA u : MmcSwitchCmd(u, Unchanged)),
           LAMBDA u : ForEach(1, n, u, group))

MmcSetClrPowerOnWpUser == \E set \in BOOLEAN :
  ~IsSd(s) /\ Api("wp", SetClrPowerOnWpUser(s, 0, 2, set))
MmcGetWpStatus == ~IsSd(s) /\ Api("wp status", SendData(s, "CMD31", Reads))

(* The groups are named by their first blocks.                             *)
MmcSdhciErase ==
  /\ ~IsSd(s)
  /\ Api("erase", Then(Then(Then(Send(s, "CMD35", Unchanged),
                                 LAMBDA t : Send(t, "CMD36", Unchanged)),
                            LAMBDA t : Send(t, "CMD38", Unchanged)),
                       MmcGetCardStatus))

(* The card is deselected without an answer, then put to sleep.            *)
MmcPutCardToSleep ==
  Api("sleep", Ignoring(Send(SetCard(s, "state", "stby"), "CMD5",
                             LAMBDA t : SetCard(t, "state", "slp")), Done))

-----------------------------------------------------------------------------
(* LibQcomTargetMmcSdhciInit: what is made of a node of the device tree.   *)
(* A property that is missing or malformed, or pins that are incomplete,   *)
(* pass over the node; a slot other than 1 and 2 ends the search.  The     *)
(* pins must include the return clock, which only slot 1 uses.             *)
Properties == {"qcom,bus-width", "qcom,clk-rates", "qcom,msm-bus,name", "reg",
               "interrupts", "pinctrl-0"}
PinGroups  == {"clk", "cmd", "data", "rclk"}

ParseNode(node) ==
  CASE ~(Properties \subseteq node.properties) -> "skip"
    [] Properties \subseteq node.properties /\ ~(PinGroups \subseteq node.pins)
         -> "skip"
    [] OTHER -> IF node.slot \in {1, 2} THEN "init" ELSE "stop"

Reached(nodes, i) == \A j \in 1..(i - 1) : ParseNode(nodes[j]) # "stop"

(* The last node of the board is the one this model follows.               *)
PlatformCallbackInitSlot ==
  /\ s.dev.status = "none" /\ call.op = "none"
  /\ LET nodes == s.hw.nodes
         here  == Reached(nodes, Len(nodes)) /\ ParseNode(Last(nodes)) = "init"
     IN  IF ~here THEN s' = [s EXCEPT !.dev.status = "no slot"]
         ELSE \E o \in MmcInit(s) :
                s' = [o.s EXCEPT !.dev.published = (o.ret = 0)]
  /\ call' = [NoCall EXCEPT !.op = "init"] /\ UNCHANGED calls

MmcBlockIoNext ==
  \/ PlatformCallbackInitSlot \/ MMCHSReadBlocks \/ MMCHSWriteBlocks
  \/ MmcSdhciRpmbSend \/ MmcSetClrPowerOnWpUser \/ MmcGetWpStatus
  \/ MmcSdhciErase \/ MmcPutCardToSleep

MmcBlockIoSpec == MmcBlockIoInit /\ [][MmcBlockIoNext]_mmcVars

-----------------------------------------------------------------------------
(* Whenever data is on the bus, the controller and the card are set to the *)
(* same width and mode, through every order in which the two are switched  *)
(* and every failure on the way.  DDR on a board with fewer than eight     *)
(* lines is left out: mmc_set_ddr_mode sets the card to eight anyway.      *)
BusesAgree ==
  s.clash => /\ s.card.ddr /\ BusWidth(s) # 8

(* A call that reports success exchanged exactly the blocks it was given,  *)
(* in order, over all its pieces; but a piece of a single block, which may *)
(* have failed (the run sdhci_single shows it).                              *)
SuccessMovesTheRange ==
  call.status = "EFI_SUCCESS" /\ call.n > 0 =>
    \A k \in 1..call.n :
      \/ s.moved[k] = call.lba + k - 1
      \/ k = call.n /\ call.n % MaxTransBlocks = 1 /\ s.moved[k] = -1

(* MMCHS.c:82 and 134: "Return : 0 on Success".                            *)
SuccessIsTransfer ==
  call.status = "EFI_SUCCESS" =>
    \A k \in 1..call.n : s.moved[k] = call.lba + k - 1

(* The block device addresses the user area and the boot configuration of  *)
(* the card is never rewritten, unless an earlier RPMB request or read of  *)
(* the EXT_CSD reported its failure.                                       *)
PartitionIsUser ==
  /\ s.dev.published /\ s.dev.rpmb # "failed" => s.card.part = "user"
  /\ s.dev.ext_csd = "read" => s.card.boot = "kept"

(* The saved phase lies in a longest run of phases counted as passed, the  *)
(* run going on from the last phase to the first, three quarters into it.  *)
PhaseFromLongestRun ==
  LET passed == Range(s.host.tuned)
      at(a, k) == (a + k) % MAX_PHASES
      Arc(a, n) == \A k \in 0..(n - 1) : at(a, k) \in passed
      length == CHOOSE n \in 0..MAX_PHASES :
                  /\ \E a \in 0..(MAX_PHASES - 1) : Arc(a, n)
                  /\ n < MAX_PHASES => \A a \in 0..(MAX_PHASES - 1) :
                                          ~Arc(a, n + 1)
  IN  s.dev.published /\ s.host.saved_phase # -1 =>
        \E a \in 0..(MAX_PHASES - 1) :
          /\ Arc(a, length)
          /\ s.host.saved_phase = at(a, RowPick(length) - 1)
=============================================================================
