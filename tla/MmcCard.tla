------------------------------ MODULE MmcCard ------------------------------
(***************************************************************************)
(* What the two card drivers talk to: an eMMC device or an SD card, as    *)
(* they use it, and a command as the card layer sees it, with the outcomes *)
(* SdhciCommand shows sdhci_send_command to have; and the checks both      *)
(* MMCHS.c drivers make before a transfer.                                 *)
(*                                                                         *)
(* The state s of the whole stack is a record:                             *)
(*   hw      the card, the board's configuration and the host's abilities  *)
(*   card    the card's own state                                          *)
(*   host    struct sdhci_host and the controller's registers              *)
(*   dev     struct mmc_card and what is published of it                   *)
(*   medium  what each block holds                                         *)
(*   faults  how many more commands may go wrong                           *)
(*   clash   history: a data command was sent while the two ends of the    *)
(*           bus were set differently                                      *)
(***************************************************************************)
EXTENDS Routine

CONSTANTS Blocks,     \* number of blocks of the card
          MMC_BLK_SZ, \* bytes of a block
          AddrWidth   \* a block address is computed modulo this

NoAnswer == [state |-> "idle", error |-> FALSE]

(* Card states in which a command is answered; "part" is RPMB's or the     *)
(* user area.                                                              *)
AnsweredIn(cmd) ==
  CASE cmd \in {"CMD1", "CMD8_IF_COND", "ACMD41"} -> {"idle"}
    [] cmd = "CMD55" -> {"idle", "stby", "tran"}
    [] cmd = "CMD2" -> {"ready"}
    [] cmd = "CMD3" -> {"ident"}
    [] cmd = "CMD9" -> {"stby"}
    [] cmd = "CMD7" -> {"stby", "tran"}
    [] cmd = "CMD12" -> {"data", "rcv"}
    [] cmd = "CMD13" -> {"stby", "tran", "data", "rcv", "prg"}
    [] cmd = "CMD5" -> {"stby"}
    [] cmd = "CMD21" -> {"tran"}
    [] OTHER -> {"tran"}

OnlyMmc == {"CMD1", "CMD21", "CMD31", "CMD23_RPMB"}
OnlySd  == {"CMD8_IF_COND", "CMD55", "ACMD41", "ACMD51", "ACMD13", "ACMD6"}
IsSd(s) == s.hw.kind \in {"SDHC", "STD_SD"}

Answers(s, cmd) ==
  /\ s.card.state \in AnsweredIn(cmd)
  /\ IF IsSd(s) THEN cmd \notin OnlyMmc ELSE cmd \notin OnlySd
  /\ cmd = "CMD21" => s.card.timing = "HS200"

(* The controller's mode that goes with the card's.                        *)
ModeOf(card) ==
  CASE card.timing = "legacy" -> "SDR12"
    [] card.timing = "HS" -> IF card.ddr THEN "DDR50" ELSE "SDR25"
    [] OTHER -> "SDR104"

BusAgrees(s) == /\ s.host.width = s.card.width
                /\ s.host.uhs = ModeOf(s.card)
                /\ s.card.timing = "HS400" => s.host.timing = "HS400"

Fault(s)  == [s EXCEPT !.faults = @ - 1]

(* sdhci_send_command for a command that has an effect on the card: it may *)
(* not arrive, arrive with its response lost, or succeed.                  *)
Send(s, cmd, Effect(_)) ==
  LET out(t, code, answer) == [s |-> t, ret |-> code, r1 |-> answer]
      now == [state |-> s.card.state, error |-> FALSE]
  IN  IF ~Answers(s, cmd) THEN {out(s, 1, NoAnswer)}
      ELSE {out(Effect(s), 0, now)}
           \cup IF s.faults = 0 THEN {}
                ELSE {out(Fault(s), 1, NoAnswer),
                      out(Effect(Fault(s)), 1, NoAnswer)}

(* The same with data: the response may come and the data fail.            *)
(* Effect(t, whole) is the card after the data moved, or did not.          *)
(* agrees: the two ends of the bus are set alike.                          *)
SendDataOn(s, cmd, agrees, Effect(_, _)) ==
  LET out(t, code, answer) == [s |-> t, ret |-> code, r1 |-> answer]
      now == [state |-> s.card.state, error |-> FALSE]
      t   == [s EXCEPT !.clash = @ \/ ~agrees]
  IN  IF ~Answers(s, cmd) THEN {out(t, 1, NoAnswer)}
      ELSE {out(Effect(t, TRUE), 0, now)}
           \cup IF s.faults = 0 THEN {}
                ELSE {out(Fault(t), 1, NoAnswer),
                      out(Effect(Fault(t), FALSE), 1, now),
                      out(Effect(Fault(t), TRUE), 1, now)}

SendData(s, cmd, Effect(_, _)) == SendDataOn(s, cmd, BusAgrees(s), Effect)

SetCard(s, field, value) == [s EXCEPT !.card = [@ EXCEPT ![field] = value]]
Unchanged(s) == s
Reads(s, whole) == s

GoIdle(s) == [s EXCEPT !.card = [@ EXCEPT !.state = "idle", !.width = 1,
                                 !.ddr = FALSE, !.timing = "legacy",
                                 !.part = "user"]]

-----------------------------------------------------------------------------
(* What ReadBlocks and WriteBlocks check, in their order and on unsigned   *)
(* numbers.  media: the caller's MediaId is another; odd: the size is no   *)
(* multiple of a block; "none" lets the transfer start.                    *)
Refusal(lastBlock, media, lba, n, odd, buffer) ==
  CASE media -> "EFI_MEDIA_CHANGED"
    [] ~media /\ \/ lba > lastBlock
                 \/ (lba + n - 1) % AddrWidth > lastBlock
         -> "EFI_INVALID_PARAMETER"
    [] OTHER -> IF odd THEN "EFI_BAD_BUFFER_SIZE"
                ELSE IF ~buffer THEN "EFI_INVALID_PARAMETER"
                ELSE IF n = 0 THEN "EFI_SUCCESS" ELSE "none"
============================================================================
