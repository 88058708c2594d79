---------------------------- MODULE SdhciCommand ----------------------------
(***************************************************************************)
(* One command on the SD host controller: sdhci_send_command,              *)
(* sdhci_cmd_complete and sdhci_reset of sdhci.c, polling the controller   *)
(* while it works.  A poll is one action: the reads of the two status      *)
(* registers in one turn of a loop are taken together.                     *)
(*                                                                         *)
(* The controller is modelled from what the driver expects of it: it       *)
(* answers, reports an error, or stays silent; a software reset frees the  *)
(* lines and clears the status registers.                                  *)
(***************************************************************************)
EXTENDS Integers, FiniteSets

CONSTANTS
  SDHCI_MAX_CMD_RETRY,    \* polls for the response
  SDHCI_MAX_TRANS_RETRY,  \* polls for the data or the end of busy
  LineRetry,              \* polls for free lines (10 in the code)
  MaxCommands             \* bound: commands sent

ASSUME SdhciCommandAssumption ==
  {SDHCI_MAX_CMD_RETRY, SDHCI_MAX_TRANS_RETRY, LineRetry, MaxCommands}
    \subseteq Nat \ {0}

(* A command with no data, one that keeps the card busy (R1B), one with    *)
(* data, and the tuning block, whose errors are expected.                  *)
Kinds == {"plain", "busy", "data", "tuning"}

CmdErrors  == {"CMD_CRC", "CMD_TIMEOUT"}
DataErrors == {"DAT_TIMEOUT", "DAT_CRC", "ADMA"}

VARIABLES
  pc,             \* "idle", "lines", "cmd", "trans", "err"
  kind, sent, retry,
  cmdline, datline, \* SDHCI_PRESENT_STATE_REG: the lines in use
  sts, errsts,    \* SDHCI_NRML_INT_STS_REG, SDHCI_ERR_INT_STS_REG
  sg_list,        \* the descriptors the engine walks: "none", "live", "freed"
  trans_complete,
  ret,
  answered, moved,  \* history: this command's response came, its data moved
  silent            \* history: the driver gave up on a silent controller

drvVars == <<pc, kind, sent, retry, sg_list, trans_complete, ret, silent>>
hwVars  == <<cmdline, datline, sts, errsts, answered, moved>>
sdhciCmdVars == <<drvVars, hwVars>>

HasData == kind \in {"data", "tuning"}
Tuning  == kind = "tuning"

SdhciCommandInit ==
  /\ pc = "idle" /\ kind = "plain" /\ sent = 0 /\ retry = 0
  /\ cmdline = FALSE /\ datline = FALSE /\ sts = {} /\ errsts = {}
  /\ sg_list = "none" /\ trans_complete = FALSE /\ ret = 0
  /\ answered = FALSE /\ moved = FALSE /\ silent = FALSE

-----------------------------------------------------------------------------
(* sdhci_reset(SOFT_RESET_CMD | SOFT_RESET_DATA)                           *)
Reset == /\ cmdline' = FALSE /\ datline' = FALSE
         /\ sts' = {} /\ errsts' = {}

(* The descriptors are freed whatever the outcome.                         *)
Returns(code) ==
  /\ pc' = "idle" /\ ret' = code
  /\ sg_list' = IF sg_list = "live" THEN "freed" ELSE sg_list

SendCommand(k) ==
  /\ pc = "idle" /\ sent < MaxCommands
  /\ pc' = "lines" /\ kind' = k /\ sent' = sent + 1 /\ retry' = 0
  /\ answered' = FALSE /\ moved' = FALSE /\ trans_complete' = FALSE
  /\ ret' = 0
  /\ UNCHANGED <<cmdline, datline, sts, errsts, sg_list, silent>>

(* PRESENT_STATE is polled, then the command and its descriptors go to the *)
(* controller.                                                             *)
WaitForLines ==
  /\ pc = "lines"
  /\ IF cmdline \/ datline
     THEN /\ retry' = retry + 1
          /\ IF retry' = LineRetry THEN Returns(1)
             ELSE UNCHANGED <<pc, ret, sg_list>>
          /\ UNCHANGED <<cmdline, datline>>
     ELSE /\ pc' = "cmd" /\ retry' = 0 /\ cmdline' = TRUE
          /\ datline' = (HasData \/ kind = "busy")
          /\ sg_list' = IF HasData THEN "live" ELSE "none"
          /\ UNCHANGED ret
  /\ UNCHANGED <<kind, sent, trans_complete, silent, sts, errsts, answered,
                 moved>>

PollAgainBug(limit) ==
  /\ retry' = IF errsts = {} THEN retry + 1 ELSE retry
  /\ IF retry' = limit THEN pc' = "err" /\ ret' = 1 ELSE UNCHANGED <<pc, ret>>
  /\ silent' = (silent \/ retry' = limit)
  /\ UNCHANGED <<sg_list, cmdline, datline, sts, errsts>>

(* A poll that found nothing counts; at the limit the driver gives up.     *)
PollAgain(limit) ==
  /\ retry' = retry + 1
  /\ IF retry' = limit THEN pc' = "err" /\ ret' = 1 ELSE UNCHANGED <<pc, ret>>
  /\ silent' = (silent \/ (retry' = limit /\ errsts = {}))
  /\ UNCHANGED <<sg_list, cmdline, datline, sts, errsts>>

PollResponse ==
  /\ pc = "cmd"
  /\ \/ /\ "CMD_COMPLETE" \in sts
        /\ sts' = sts \ {"CMD_COMPLETE"}
        /\ pc' = IF HasData \/ kind = "busy" THEN "trans" ELSE "err"
        /\ retry' = 0
        /\ UNCHANGED <<ret, silent, sg_list, cmdline, datline, errsts>>
     \/ /\ "CMD_COMPLETE" \notin sts /\ errsts # {} /\ ~Tuning
        /\ pc' = "err"
        /\ UNCHANGED <<retry, ret, silent, sg_list, cmdline, datline, sts,
                       errsts>>
     \/ /\ "CMD_COMPLETE" \notin sts /\ Tuning
        /\ errsts \cap CmdErrors # {}
        /\ Reset /\ Returns(0) /\ UNCHANGED <<retry, silent>>
     \/ /\ "CMD_COMPLETE" \notin sts
        /\ IF Tuning THEN errsts \cap CmdErrors = {} ELSE errsts = {}
        /\ PollAgain(SDHCI_MAX_CMD_RETRY)
  /\ UNCHANGED <<kind, sent, trans_complete, answered, moved>>

(* A data timeout alone does not end the wait: the controller may still    *)
(* complete the transfer.                                                  *)
PollTransfer ==
  /\ pc = "trans"
  /\ LET done == "TRANS_COMPLETE" \in sts
         ends == errsts # {} /\ ~Tuning /\ "DAT_TIMEOUT" \notin errsts
         lost == Tuning /\ errsts \cap {"DAT_TIMEOUT", "DAT_CRC"} # {}
     IN  \/ /\ done /\ trans_complete' = TRUE
            /\ sts' = sts \ {"TRANS_COMPLETE"} /\ pc' = "err"
            /\ UNCHANGED <<retry, ret, silent, sg_list, cmdline, datline,
                           errsts>>
         \/ /\ ~done /\ ends /\ pc' = "err"
            /\ UNCHANGED <<retry, ret, silent, sg_list, cmdline, datline, sts,
                           errsts, trans_complete>>
         \/ /\ ~done /\ lost
            /\ Reset /\ Returns(0) /\ UNCHANGED <<retry, silent, trans_complete>>
         \/ /\ ~done /\ ~ends /\ ~lost
            /\ PollAgain(SDHCI_MAX_TRANS_RETRY) /\ UNCHANGED trans_complete
  /\ UNCHANGED <<kind, sent, answered, moved>>

(* The label err, which every command reaches in the end.                  *)
CheckErrorsBug ==
  /\ pc = "err"
  /\ IF errsts # {}
     THEN /\ Returns(IF "DAT_TIMEOUT" \in errsts THEN 0 ELSE 1)
          /\ Reset
     ELSE Returns(ret) /\ UNCHANGED <<cmdline, datline, sts, errsts>>
  /\ UNCHANGED <<kind, sent, retry, trans_complete, silent, answered, moved>>

CheckErrors ==
  /\ pc = "err"
  /\ IF errsts # {}
     THEN /\ Returns(IF "DAT_TIMEOUT" \in errsts /\ trans_complete THEN 0
                     ELSE 1)
          /\ Reset
     ELSE Returns(ret) /\ UNCHANGED <<cmdline, datline, sts, errsts>>
  /\ UNCHANGED <<kind, sent, retry, trans_complete, silent, answered, moved>>

-----------------------------------------------------------------------------
(* The controller.                                                         *)
HwResponds ==
  /\ cmdline /\ cmdline' = FALSE
  /\ \/ /\ sts' = sts \cup {"CMD_COMPLETE"} /\ answered' = TRUE
        /\ UNCHANGED errsts
     \/ \E e \in CmdErrors : errsts' = errsts \cup {e}
        /\ UNCHANGED <<sts, answered>>
  /\ UNCHANGED <<datline, moved>> /\ UNCHANGED drvVars

HwTransfers ==
  /\ ~cmdline /\ datline /\ answered
  /\ errsts \subseteq {"DAT_TIMEOUT"}
  /\ \/ /\ datline' = FALSE /\ sts' = sts \cup {"TRANS_COMPLETE"}
        /\ moved' = TRUE
        /\ UNCHANGED errsts
     \/ /\ HasData
        /\ \E e \in DataErrors : errsts' = errsts \cup {e}
        /\ UNCHANGED <<datline, sts, moved>>
     \/ /\ kind = "busy" /\ errsts' = errsts \cup {"DAT_TIMEOUT"}
        /\ UNCHANGED <<datline, sts, moved>>
  /\ UNCHANGED <<cmdline, answered>> /\ UNCHANGED drvVars

SdhciCommandCaller == \E k \in Kinds : SendCommand(k)
SdhciCommandDriver ==
  WaitForLines \/ PollResponse \/ PollTransfer \/ CheckErrors

SdhciCommandNext ==
  SdhciCommandCaller \/ SdhciCommandDriver \/ HwResponds \/ HwTransfers

SdhciCommandSpec == SdhciCommandInit /\ [][SdhciCommandNext]_sdhciCmdVars

(* Only the driver is fair: the controller may hang.                       *)
FairSdhciCommandSpec ==
  SdhciCommandSpec /\ WF_sdhciCmdVars(SdhciCommandDriver)

-----------------------------------------------------------------------------
(* What the layers above are told of a command of kind k: MmcCard builds   *)
(* its commands on these outcomes.                                         *)
CommandOutcomes(k) ==
  LET o(r, a, m) == [ret |-> r, answered |-> a, moved |-> m]
  IN  {o(1, FALSE, FALSE)}
      \cup (IF k = "plain" THEN {o(0, TRUE, FALSE)}
            ELSE {o(0, TRUE, TRUE), o(1, TRUE, FALSE), o(1, TRUE, TRUE)})
      \cup (IF k = "tuning" THEN {o(0, FALSE, FALSE), o(0, TRUE, FALSE)}
            ELSE {})

(* However the polls and the controller interleave, sdhci_send_command     *)
(* returns one of the outcomes the card layer is written for: 0 only with  *)
(* this command's own response and, if it has data, the whole transfer,    *)
(* except while tuning.  A command that found the controller silent before *)
(* is not covered: nothing resets the lines then.                          *)
ResultIsAnOutcome ==
  pc = "idle" /\ sent > 0 /\ ~silent =>
    [ret |-> ret, answered |-> answered, moved |-> moved]
      \in CommandOutcomes(kind)

(* When the call returns and the descriptors are freed, the engine is not  *)
(* walking them any more, and no status bit is left for the next command   *)
(* to take for its own.                                                    *)
ReturnsQuiet ==
  pc = "idle" /\ ~silent => /\ ~cmdline /\ ~datline
                            /\ sts = {} /\ errsts = {}

(* A call ends with a result and a controller the next call can build on.  *)
CommandEndsClean == ResultIsAnOutcome /\ ReturnsQuiet

(* A call returns whatever the controller does.                            *)
EveryCommandReturns == pc # "idle" ~> pc = "idle"
=============================================================================
