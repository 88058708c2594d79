---------------------------- MODULE BootProofs -----------------------------
(***************************************************************************)
(* What starting the board rests on: a command on the SD host controller   *)
(* ends clean, memory goes back to the firmware as it came, the boot       *)
(* options are registered once, the drivers find the devices that the      *)
(* board's tree describes, and memory is used as it describes it.          *)
(***************************************************************************)
EXTENDS SdhciCommand, Heap, BootManager, FdtClient, BootMemory, FiniteSetTheorems,
        WellFoundedInduction, TLAPS

Pcs == {"idle", "lines", "cmd", "trans", "err"}

TypeOK ==
  /\ pc \in Pcs /\ kind \in Kinds
  /\ cmdline \in BOOLEAN /\ datline \in BOOLEAN
  /\ sts \in SUBSET {"CMD_COMPLETE", "TRANS_COMPLETE"}
  /\ errsts \in SUBSET (CmdErrors \cup DataErrors)
  /\ trans_complete \in BOOLEAN /\ ret \in {0, 1}
  /\ answered \in BOOLEAN /\ moved \in BOOLEAN /\ silent \in BOOLEAN

Quiet == ~cmdline /\ ~datline /\ sts = {} /\ errsts = {}
Fresh == ~answered /\ ~moved /\ ~trans_complete /\ ret = 0
UsesData == kind # "plain"

(* The command is out and nothing has come back, or only an error.         *)
Unanswered ==
  /\ ~answered /\ ~moved /\ sts = {}
  /\ cmdline => errsts = {}
  /\ ~cmdline => errsts # {} /\ errsts \subseteq CmdErrors

(* The response has come; the data moves, has moved, or fails.             *)
InTransfer ==
  /\ answered /\ ~cmdline
  /\ errsts \subseteq DataErrors
  /\ moved => ~datline /\ errsts \subseteq {"DAT_TIMEOUT"}
  /\ UsesData /\ ~moved => datline
  /\ ~UsesData => ~datline /\ ~moved /\ errsts = {}

TransInSts == "TRANS_COMPLETE" \in sts <=> moved

(* What the driver may still tell apart in each of its waits.              *)
Awaiting ==
  \/ Unanswered /\ (datline <=> UsesData)
  \/ InTransfer /\ "CMD_COMPLETE" \in sts /\ TransInSts
Transferring ==
  UsesData /\ InTransfer /\ "CMD_COMPLETE" \notin sts /\ TransInSts

(* The ways to the label err: an error of the command; the response to a   *)
(* command without data; the transfer over; an error of the transfer.      *)
Ending ==
  \/ Unanswered /\ ~cmdline /\ ~trans_complete
  \/ ~UsesData /\ InTransfer /\ sts = {} /\ ret = 0
  \/ UsesData /\ InTransfer /\ moved /\ trans_complete /\ sts = {} /\ ret = 0
  \/ UsesData /\ InTransfer /\ errsts # {} /\ ~trans_complete

(* What a driver that has not given up can rely on.                        *)
Sound ==
  /\ pc \in {"idle", "lines"} => Quiet
  /\ pc = "lines" => Fresh
  /\ pc = "cmd"   => Awaiting /\ ~trans_complete /\ ret = 0
  /\ pc = "trans" => Transferring /\ ~trans_complete /\ ret = 0
  /\ pc = "err"   => Ending
  /\ ResultIsAnOutcome

CommandInv == TypeOK /\ (~silent => Sound)

-----------------------------------------------------------------------------
(* Types are kept by every action: the flags stay truth values and the     *)
(* controller raises only the bits the driver knows.                       *)
LEMMA TypeStep == TypeOK /\ [SdhciCommandNext]_sdhciCmdVars => TypeOK'
<1> SUFFICES ASSUME TypeOK, [SdhciCommandNext]_sdhciCmdVars PROVE TypeOK'
  OBVIOUS
<1> USE DEF TypeOK, Pcs, Kinds, CmdErrors, DataErrors
<1>1. CASE SdhciCommandCaller
  BY <1>1 DEF SdhciCommandCaller, SendCommand
<1>2. CASE WaitForLines
  BY <1>2 DEF WaitForLines, Returns
<1>3. CASE PollResponse
  BY ZenonT(60), <1>3 DEF PollResponse, PollAgain, Reset, Returns
<1>4. CASE PollTransfer
  BY ZenonT(60), <1>4 DEF PollTransfer, PollAgain, Reset, Returns
<1>5. CASE CheckErrors
  BY <1>5 DEF CheckErrors, Reset, Returns
<1>6. CASE HwResponds
  BY ZenonT(60), <1>6 DEF HwResponds, drvVars
<1>7. CASE HwTransfers
  BY ZenonT(60), <1>7 DEF HwTransfers, drvVars
<1>8. CASE UNCHANGED sdhciCmdVars
  BY <1>8 DEF sdhciCmdVars, drvVars, hwVars
<1> QED
  BY <1>1, <1>2, <1>3, <1>4, <1>5, <1>6, <1>7, <1>8
  DEF SdhciCommandNext, SdhciCommandDriver

-----------------------------------------------------------------------------
(* The driver starts between commands, with the controller at rest.        *)
LEMMA CommandInvInit == SdhciCommandInit => CommandInv
<1> SUFFICES ASSUME SdhciCommandInit PROVE CommandInv
  OBVIOUS
<1>1. TypeOK
  BY DEF SdhciCommandInit, TypeOK, Pcs, Kinds
<1>2. Quiet /\ pc = "idle" /\ sent = 0
  BY DEF SdhciCommandInit, Quiet
<1>3. ResultIsAnOutcome
  BY <1>2 DEF ResultIsAnOutcome
<1> QED
  BY <1>1, <1>2, <1>3 DEF CommandInv, Sound

(* One step per action; a driver that gives up has nothing left to show.   *)
LEMMA SoundStep ==
  CommandInv /\ [SdhciCommandNext]_sdhciCmdVars /\ ~silent' => Sound'
<1> SUFFICES ASSUME CommandInv, [SdhciCommandNext]_sdhciCmdVars, ~silent' PROVE Sound'
  OBVIOUS
<1> USE DEF Sound
<1>0. ~silent => Sound
  BY DEF CommandInv
<1>t. TypeOK /\ TypeOK'
  BY TypeStep DEF CommandInv
<1>1. CASE SdhciCommandCaller
  <2>1. ~silent /\ pc = "idle" /\ pc' = "lines"
    BY <1>1 DEF SdhciCommandCaller, SendCommand
  <2>2. Quiet'
    BY <1>0, <1>1, <2>1 DEF SdhciCommandCaller, SendCommand, Quiet
  <2>3. Fresh'
    BY <1>1 DEF SdhciCommandCaller, SendCommand, Fresh
  <2> QED
    BY <2>1, <2>2, <2>3 DEF ResultIsAnOutcome
<1>2. CASE WaitForLines
  <2>1. ~silent /\ pc = "lines" /\ Quiet /\ Fresh
    BY <1>0, <1>2 DEF WaitForLines
  <2>2. /\ pc' = "cmd" /\ cmdline' /\ (datline' <=> UsesData) /\ ret' = 0
        /\ UNCHANGED <<kind, sts, errsts, answered, moved, trans_complete>>
    BY <1>2, <1>t, <2>1 DEF WaitForLines, Quiet, Fresh, HasData, UsesData, TypeOK, Kinds
  <2>3. Awaiting' /\ ~trans_complete'
    BY <2>1, <2>2 DEF Quiet, Fresh, Awaiting, Unanswered, UsesData
  <2> QED
    BY <2>2, <2>3 DEF ResultIsAnOutcome
<1>3. CASE PollResponse
  <2>1. ~silent /\ pc = "cmd" /\ Awaiting /\ ~trans_complete /\ ret = 0
    BY <1>0, <1>3, <1>t DEF PollResponse, PollAgain, TypeOK
  <2>2. CASE "CMD_COMPLETE" \in sts
    <3>1. InTransfer /\ TransInSts
      BY <2>1, <2>2 DEF Awaiting, Unanswered
    <3>2. /\ sts' = sts \ {"CMD_COMPLETE"}
          /\ pc' = IF UsesData THEN "trans" ELSE "err"
          /\ UNCHANGED <<kind, ret, cmdline, datline, errsts, answered, moved, trans_complete>>
      BY <1>3, <1>t, <2>2 DEF PollResponse, HasData, UsesData, TypeOK, Kinds
    <3>3. InTransfer' /\ TransInSts' /\ "CMD_COMPLETE" \notin sts'
      BY <3>1, <3>2 DEF InTransfer, TransInSts, UsesData
    <3>4. CASE UsesData
      BY <2>1, <3>2, <3>3, <3>4 DEF Transferring, UsesData, ResultIsAnOutcome
    <3>5. CASE ~UsesData
      <4>1. sts' = {}
        BY <1>t, <3>1, <3>2, <3>3, <3>5 DEF TypeOK, TransInSts, InTransfer
      <4> QED
        BY <2>1, <3>2, <3>3, <3>5, <4>1 DEF Ending, UsesData, ResultIsAnOutcome
    <3> QED
      BY <3>4, <3>5
  <2>3. CASE "CMD_COMPLETE" \notin sts
    <3>1. Unanswered /\ (datline <=> UsesData)
      BY <2>1, <2>3 DEF Awaiting
    <3>2. CASE /\ errsts # {} /\ ~Tuning /\ pc' = "err"
               /\ UNCHANGED <<ret, cmdline, datline, sts, errsts>>
      <4>1. UNCHANGED <<kind, answered, moved, trans_complete>>
        BY <1>3 DEF PollResponse
      <4> QED
        BY <2>1, <3>1, <3>2, <4>1 DEF Ending, Unanswered, ResultIsAnOutcome
    <3>3. CASE Tuning /\ Reset /\ Returns(0)
      <4>1. UNCHANGED <<kind, answered, moved>>
        BY <1>3 DEF PollResponse
      <4>2. Quiet' /\ pc' = "idle" /\ ret' = 0
        BY <3>3 DEF Quiet, Reset, Returns
      <4>3. ~answered' /\ ~moved' /\ kind' = "tuning"
        BY <3>1, <3>3, <4>1 DEF Unanswered, Tuning
      <4> QED
        BY <1>t, <4>2, <4>3 DEF ResultIsAnOutcome, CommandOutcomes, TypeOK
    <3>4. CASE errsts = {} /\ PollAgain(SDHCI_MAX_CMD_RETRY)
      <4>1. /\ pc' = pc
            /\ UNCHANGED <<ret, cmdline, datline, sts, errsts>>
            /\ UNCHANGED <<kind, answered, moved, trans_complete>>
        BY <1>3, <3>4 DEF PollResponse, PollAgain
      <4> QED
        BY <2>1, <3>1, <4>1 DEF Awaiting, Unanswered, UsesData, ResultIsAnOutcome
    <3>5. errsts \cap CmdErrors = {} => errsts = {}
      BY <3>1 DEF Unanswered
    <3> QED
      BY <1>3, <2>3, <3>2, <3>3, <3>4, <3>5 DEF PollResponse
  <2> QED
    BY <2>2, <2>3
<1>4. CASE PollTransfer
  <2>1. ~silent /\ pc = "trans" /\ Transferring /\ ~trans_complete /\ ret = 0
    BY <1>0, <1>4, <1>t DEF PollTransfer, PollAgain, TypeOK
  <2>2. UNCHANGED <<kind, answered, moved>>
    BY <1>4 DEF PollTransfer
  <2>3. UsesData /\ UsesData' /\ InTransfer /\ TransInSts
    BY <2>1, <2>2 DEF Transferring, UsesData
  <2>4. CASE /\ "TRANS_COMPLETE" \in sts /\ trans_complete' /\ sts' = sts \ {"TRANS_COMPLETE"}
             /\ pc' = "err" /\ UNCHANGED <<ret, cmdline, datline, errsts>>
    <3>1. sts' = {} /\ moved'
      BY <1>t, <2>1, <2>2, <2>3, <2>4 DEF TypeOK, Transferring, TransInSts
    <3>2. InTransfer'
      BY <2>2, <2>3, <2>4 DEF InTransfer, UsesData
    <3> QED
      BY <2>1, <2>3, <2>4, <3>1, <3>2 DEF Ending, ResultIsAnOutcome
  <2>5. CASE /\ errsts # {} /\ pc' = "err"
             /\ UNCHANGED <<cmdline, datline, sts, errsts, trans_complete>>
    <3>1. InTransfer'
      BY <2>2, <2>3, <2>5 DEF InTransfer, UsesData
    <3> QED
      BY <2>1, <2>3, <2>5, <3>1 DEF Ending, ResultIsAnOutcome
  <2>6. CASE Tuning /\ Reset /\ Returns(0)
    <3>1. Quiet' /\ pc' = "idle" /\ ret' = 0
      BY <2>6 DEF Quiet, Reset, Returns
    <3>2. answered' /\ kind' = "tuning"
      BY <2>2, <2>3, <2>6 DEF InTransfer, Tuning
    <3> QED
      BY <1>t, <3>1, <3>2 DEF ResultIsAnOutcome, CommandOutcomes, TypeOK
  <2>7. CASE /\ UNCHANGED <<pc, ret, cmdline, datline, sts, errsts, trans_complete>>
    BY <2>1, <2>2, <2>7
    DEF Transferring, InTransfer, TransInSts, UsesData, ResultIsAnOutcome
  <2>8. CASE PollAgain(SDHCI_MAX_TRANS_RETRY) /\ UNCHANGED trans_complete
    BY <2>5, <2>7, <2>8 DEF PollAgain
  <2> QED
    BY <1>4, <2>4, <2>5, <2>6, <2>8 DEF PollTransfer
<1>5. CASE CheckErrors
  <2>1. ~silent /\ pc = "err" /\ Ending
    BY <1>0, <1>5 DEF CheckErrors
  <2>2. UNCHANGED <<kind, answered, moved>> /\ pc' = "idle"
    BY <1>5 DEF CheckErrors, Returns
  <2>3. CASE errsts # {}
    <3>1. Quiet' /\ ret' = IF "DAT_TIMEOUT" \in errsts /\ trans_complete THEN 0 ELSE 1
      BY <1>5, <2>3 DEF CheckErrors, Returns, Reset, Quiet
    <3>2. [ret |-> ret', answered |-> answered, moved |-> moved] \in CommandOutcomes(kind)
      <4>1. CASE Unanswered /\ ~trans_complete
        BY <1>t, <3>1, <4>1 DEF Unanswered, CommandOutcomes, TypeOK
      <4>2. CASE UsesData /\ InTransfer /\ moved /\ trans_complete
        <5>1. answered /\ moved /\ errsts \subseteq {"DAT_TIMEOUT"}
          BY <4>2 DEF InTransfer
        <5>2. ret' = 0
          BY <2>3, <3>1, <4>2, <5>1
        <5> QED
          BY <1>t, <4>2, <5>1, <5>2 DEF UsesData, CommandOutcomes, TypeOK
      <4>3. CASE UsesData /\ InTransfer /\ ~trans_complete
        BY <1>t, <3>1, <4>3 DEF UsesData, InTransfer, CommandOutcomes, TypeOK
      <4>4. CASE ~UsesData /\ InTransfer
        BY <2>3, <4>4 DEF InTransfer
      <4> QED
        BY <2>1, <4>1, <4>2, <4>3, <4>4 DEF Ending
    <3> QED
      BY <2>2, <3>1, <3>2 DEF ResultIsAnOutcome
  <2>4. CASE errsts = {}
    <3>1. UNCHANGED <<cmdline, datline, sts, errsts, ret>>
      BY <1>5, <2>4 DEF CheckErrors, Returns
    <3>2. CASE ~UsesData /\ InTransfer /\ sts = {} /\ ret = 0
      <4>1. Quiet'
        BY <2>4, <3>1, <3>2 DEF Quiet, InTransfer
      <4>2. [ret |-> ret', answered |-> answered', moved |-> moved'] \in CommandOutcomes(kind')
        BY <1>t, <2>2, <3>1, <3>2 DEF InTransfer, UsesData, CommandOutcomes, TypeOK
      <4> QED
        BY <2>2, <4>1, <4>2 DEF ResultIsAnOutcome
    <3>3. CASE UsesData /\ InTransfer /\ moved /\ sts = {} /\ ret = 0
      <4>1. Quiet'
        BY <2>4, <3>1, <3>3 DEF Quiet, InTransfer
      <4>2. [ret |-> ret', answered |-> answered', moved |-> moved'] \in CommandOutcomes(kind')
        BY <1>t, <2>2, <3>1, <3>3 DEF InTransfer, UsesData, CommandOutcomes, TypeOK
      <4> QED
        BY <2>2, <4>1, <4>2 DEF ResultIsAnOutcome
    <3> QED
      BY <2>1, <2>4, <3>2, <3>3 DEF Ending, Unanswered
  <2> QED
    BY <2>3, <2>4
<1>6. CASE HwResponds
  <2>1. /\ cmdline /\ ~cmdline' /\ UNCHANGED <<pc, kind, sent, ret>>
        /\ UNCHANGED <<trans_complete, silent, datline, moved>>
    BY <1>6 DEF HwResponds, drvVars
  <2>2. pc = "cmd" /\ Unanswered /\ (datline <=> UsesData) /\ ~trans_complete /\ ret = 0
    BY <1>0, <1>t, <2>1
    DEF TypeOK, Pcs, Quiet, Awaiting, Transferring, Ending, Unanswered, InTransfer
  <2>3. CASE sts' = sts \cup {"CMD_COMPLETE"} /\ answered' /\ UNCHANGED errsts
    <3>1. InTransfer'
      BY <2>1, <2>2, <2>3 DEF InTransfer, Unanswered, UsesData
    <3>2. TransInSts' /\ "CMD_COMPLETE" \in sts'
      BY <2>1, <2>2, <2>3 DEF TransInSts, Unanswered
    <3> QED
      BY <2>1, <2>2, <3>1, <3>2 DEF Awaiting, ResultIsAnOutcome
  <2>4. CASE \E e \in CmdErrors : errsts' = errsts \cup {e} /\ UNCHANGED <<sts, answered>>
    <3>1. Unanswered'
      BY <2>1, <2>2, <2>4 DEF Unanswered
    <3> QED
      BY <2>1, <2>2, <3>1 DEF Awaiting, UsesData, ResultIsAnOutcome
  <2> QED
    BY <1>6, <2>3, <2>4 DEF HwResponds
<1>7. CASE HwTransfers
  <2>1. /\ datline /\ answered /\ ~cmdline /\ ~cmdline' /\ answered'
        /\ UNCHANGED <<pc, kind, sent, ret, trans_complete, silent>>
    BY <1>7, <1>t DEF HwTransfers, drvVars, TypeOK
  <2>2. UsesData /\ InTransfer /\ ~moved /\ UsesData'
    BY <1>0, <1>t, <2>1
    DEF TypeOK, Pcs, Quiet, Awaiting, Transferring, Ending, Unanswered, InTransfer, UsesData
  <2>3. InTransfer' /\ errsts \subseteq errsts'
    <3>1. CASE ~datline' /\ moved' /\ UNCHANGED errsts
      BY <1>7, <2>1, <2>2, <3>1 DEF HwTransfers, InTransfer
    <3>2. CASE (\E e \in DataErrors : errsts' = errsts \cup {e}) /\ UNCHANGED <<datline, moved>>
      BY <2>1, <2>2, <3>2 DEF InTransfer
    <3> QED
      BY <1>7, <2>1, <3>1, <3>2 DEF HwTransfers, DataErrors
  <2>4. ("CMD_COMPLETE" \in sts' <=> "CMD_COMPLETE" \in sts)
        /\ (TransInSts => TransInSts')
    <3>1. CASE sts' = sts \cup {"TRANS_COMPLETE"} /\ moved'
      BY <3>1 DEF TransInSts
    <3>2. CASE UNCHANGED <<sts, moved>>
      BY <3>2 DEF TransInSts
    <3> QED
      BY <1>7, <3>1, <3>2 DEF HwTransfers
  <2>5. pc \in {"cmd", "trans", "err"}
    <3>1. ~silent /\ Sound
      BY <1>0, <2>1
    <3> QED
      BY <1>t, <2>1, <3>1 DEF TypeOK, Pcs, Quiet
  <2>6. CASE pc = "cmd"
    BY <1>0, <2>1, <2>2, <2>3, <2>4, <2>6 DEF Awaiting, Unanswered, ResultIsAnOutcome
  <2>7. CASE pc = "trans"
    BY <1>0, <2>1, <2>2, <2>3, <2>4, <2>7 DEF Transferring, ResultIsAnOutcome
  <2>8. CASE pc = "err"
    <3>1. errsts # {} /\ ~trans_complete
      BY <1>0, <2>1, <2>2, <2>8 DEF Ending, Unanswered
    <3> QED
      BY <2>1, <2>2, <2>3, <2>8, <3>1 DEF Ending, ResultIsAnOutcome
  <2> QED
    BY <2>5, <2>6, <2>7, <2>8
<1>8. CASE UNCHANGED sdhciCmdVars
  BY <1>0, <1>8
  DEF sdhciCmdVars, drvVars, hwVars, Quiet, Fresh, Awaiting, Transferring, Ending, Unanswered,
      InTransfer, TransInSts, UsesData, ResultIsAnOutcome, CommandOutcomes
<1> QED
  BY <1>1, <1>2, <1>3, <1>4, <1>5, <1>6, <1>7, <1>8
  DEF SdhciCommandNext, SdhciCommandDriver

(* CommandEndsClean: what sdhci_send_command returns is an outcome of this *)
(* command, and the lines, the status and the descriptors are at rest,     *)
(* unless the controller fell silent before.                               *)
THEOREM CommandsEndClean == SdhciCommandSpec => []CommandEndsClean
<1>1. CommandInv /\ [SdhciCommandNext]_sdhciCmdVars => CommandInv'
  BY TypeStep, SoundStep DEF CommandInv
<1>2. CommandInv => CommandEndsClean
  BY DEF CommandInv, Sound, Quiet, CommandEndsClean, ResultIsAnOutcome, ReturnsQuiet
<1> QED
  BY CommandInvInit, <1>1, <1>2, PTL DEF SdhciCommandSpec

-----------------------------------------------------------------------------
(* Every block is as memalign made it, and the firmware gave what that     *)
(* took, whatever the layout of the head.                                  *)
Given(h)   == Amount(h.type, NodeSize(h.size, h.boundary), 0)
IsBlock(h) == /\ h.size \in Nat /\ h.boundary \in Nat \ {0}
              /\ h = BlockHead(h.size, h.boundary)
HeapInv == /\ DOMAIN taken = DOMAIN heap
           /\ \A p \in DOMAIN heap : IsBlock(heap[p]) /\ taken[p] = Given(heap[p])

LEMMA AlignedIs ==
  ASSUME NEW n \in Nat, NEW b \in Nat \ {0}
  PROVE  AlignValue(n, b) \in Nat /\ AlignValue(n, b) % b = 0
<1>1. PICK q \in Nat : q = (n + b - 1) \div b
  OBVIOUS
<1>2. AlignValue(n, b) = q * b
  BY <1>1 DEF AlignValue
<1>3. q * b \in Nat /\ (q * b) % b = 0
  OBVIOUS
<1> QED
  BY <1>2, <1>3

(* Data is behind the aligned head exactly when nothing follows it there.  *)
LEMMA BaseIsFound ==
  ASSUME NEW h, IsBlock(h)
  PROVE  Returned(h) = Given(h) <=> DataOffset = HeadSize
<1>1. PICK a \in Nat : a = AlignValue(HeadSize, h.boundary)
  BY AlignedIs, HeapAssumption DEF IsBlock
<1>2. h.data = a - HeadSize + DataOffset
  BY <1>1 DEF IsBlock, BlockHead
<1>3. /\ Returned(h).at = h.data - a /\ Given(h).at = 0
      /\ h.data - a = 0 => Returned(h) = Given(h)
  BY <1>1 DEF Returned, Given, Amount
<1> QED
  BY <1>2, <1>3, HeapAssumption

(* A new block, in the place of those it was made from.                    *)
LEMMA HeadsTell ==
  ASSUME HeapInv, NEW p, NEW size \in Nat, NEW b \in Nat \ {0}, NEW from \in SUBSET DOMAIN heap,
         TakenWith(p, size, b, from), Gives(p, size, b, from)
  PROVE  HeapInv'
<1> DEFINE head == BlockHead(size, b)
<1>1. /\ IsBlock(head)
      /\ Given(head) = Amount(head.type, NodeSize(size, b), 0)
  BY DEF BlockHead, IsBlock, Given
<1>2. /\ DOMAIN heap' = {p} \cup (DOMAIN heap \ from)
      /\ heap'[p] = head
      /\ \A x \in DOMAIN heap' \ {p} : heap'[x] = heap[x]
  BY DEF TakenWith
<1>3. /\ DOMAIN taken' = {p} \cup (DOMAIN taken \ from)
      /\ taken'[p] = Given(head)
      /\ \A x \in DOMAIN taken' \ {p} : taken'[x] = taken[x]
  BY <1>1 DEF Gives
<1> HIDE DEF head
<1> QED
  BY <1>1, <1>2, <1>3 DEF HeapInv

(* A block that goes back.                                                 *)
LEMMA FreeKeepsHeads ==
  ASSUME HeapInv, NEW p \in DOMAIN heap, FreeBlock(p)
  PROVE  HeapInv'
BY DEF HeapInv, FreeBlock

LEMMA WhatReallocDoes ==
  ASSUME HeapInv, Realloc
  PROVE  \E p \in DOMAIN heap :
           \/ FreeBlock(p)
           \/ \E q \in Pointers, new \in Nat :
                /\ TakenWith(q, new, Pool, {p}) /\ Gives(q, new, Pool, {p})
                /\ misuse' = (misuse \/ GivesBack(p))
<1>1. PICK p \in DOMAIN heap, new \in Sizes :
        LET old == heap[p].size
            n   == NumCpy(old, new)
        IN  /\ new # old
            /\ IF new = 0 THEN FreeBlock(p)
               ELSE \E q \in Pointers \ DOMAIN heap :
                      /\ TakenWith(q, new, Pool, {p}) /\ Gives(q, new, Pool, {p})
                      /\ misuse' = (misuse \/ GivesBack(p) \/ n > old \/ n > new)
  BY DEF Realloc
<1>2. /\ new \in Nat
      /\ ~(NumCpy(heap[p].size, new) > heap[p].size) /\ ~(NumCpy(heap[p].size, new) > new)
  BY HeapAssumption DEF HeapInv, IsBlock, NumCpy
<1>3. CASE new = 0
  BY <1>1, <1>3
<1>4. CASE new # 0
  <2>1. PICK q \in Pointers \ DOMAIN heap :
          /\ TakenWith(q, new, Pool, {p}) /\ Gives(q, new, Pool, {p})
          /\ misuse' = (misuse \/ GivesBack(p))
    BY <1>1, <1>2, <1>4
  <2> QED
    BY <1>2, <2>1
<1> QED
  BY <1>3, <1>4

LEMMA HeapStep == HeapInv /\ [HeapNext]_heapVars => HeapInv'
<1> SUFFICES ASSUME HeapInv, [HeapNext]_heapVars PROVE HeapInv'
  OBVIOUS
<1>1. CASE UNCHANGED heapVars
  BY <1>1 DEF heapVars, HeapInv
<1>2. CASE Memalign
  BY <1>2, HeadsTell, HeapAssumption DEF Memalign
<1>3. CASE Free
  BY <1>3, FreeKeepsHeads DEF Free
<1>4. CASE Realloc
  <2>1. Pool \in Nat \ {0} /\ \A p \in DOMAIN heap : {p} \in SUBSET DOMAIN heap
    BY DEF Pool
  <2> QED
    BY <1>4, <2>1, WhatReallocDoes, FreeKeepsHeads, HeadsTell
<1> QED
  BY <1>1, <1>2, <1>3, <1>4 DEF HeapNext

LEMMA HeapInvInit == HeapInit => HeapInv
BY DEF HeapInit, HeapInv, NoBlocks

(* BlocksComeBackWhole, where the data directly follows the head, as on    *)
(* ARM: however a block came and however often it was resized, free and    *)
(* realloc give back exactly the amount the firmware gave, from the        *)
(* address it gave, copy no more than both blocks have, and the caller's   *)
(* pointer has the boundary it asked for.                                  *)
THEOREM EveryBlockComesBackWhole ==
  ASSUME DataOffset = HeadSize
  PROVE  HeapSpec => []BlocksComeBackWhole
<1> DEFINE Inv == HeapInv /\ ~misuse
<1>1. HeapInit => Inv
  BY HeapInvInit DEF HeapInit
<1>2. Inv /\ [HeapNext]_heapVars => Inv'
  <2> SUFFICES ASSUME HeapInv, ~misuse, [HeapNext]_heapVars PROVE ~misuse'
    BY HeapStep
  <2>1. \A p \in DOMAIN heap : ~GivesBack(p)
    BY BaseIsFound DEF HeapInv, GivesBack
  <2>2. CASE UNCHANGED heapVars
    BY <2>2 DEF heapVars
  <2>3. CASE Memalign
    BY <2>3 DEF Memalign
  <2>4. CASE Free
    BY <2>1, <2>4 DEF Free, FreeBlock
  <2>5. CASE Realloc
    BY <2>1, <2>5, WhatReallocDoes DEF FreeBlock
  <2> QED
    BY <2>2, <2>3, <2>4, <2>5 DEF HeapNext
<1>3. Inv => BlocksComeBackWhole
  <2> SUFFICES ASSUME HeapInv, NEW p \in DOMAIN heap PROVE heap[p].data % heap[p].boundary = 0
    BY DEF BlocksComeBackWhole, RegionsAreReclaimed
  <2>1. PICK b \in Nat \ {0} : b = heap[p].boundary
    BY DEF HeapInv, IsBlock
  <2>2. AlignValue(HeadSize, b) \in Nat /\ AlignValue(HeadSize, b) % b = 0
    BY AlignedIs, HeapAssumption
  <2>3. heap[p].data = AlignValue(HeadSize, b) - HeadSize + DataOffset
    BY <2>1 DEF HeapInv, IsBlock, BlockHead
  <2>4. heap[p].data = AlignValue(HeadSize, b)
    BY <2>2, <2>3, HeapAssumption
  <2> QED
    BY <2>1, <2>2, <2>4
<1> QED
  BY <1>1, <1>2, <1>3, PTL DEF HeapSpec

(* With any other layout, AARCH64's among them, no block that is held can  *)
(* be given back right: free would not find where it begins.               *)
THEOREM OtherLayoutsLoseTheBase ==
  HeapSpec => [](\A p \in DOMAIN heap : GivesBack(p) <=> DataOffset # HeadSize)
<1>1. HeapInv => \A p \in DOMAIN heap : GivesBack(p) <=> DataOffset # HeadSize
  BY BaseIsFound DEF HeapInv, GivesBack
<1> QED
  BY HeapInvInit, HeapStep, <1>1, PTL DEF HeapSpec

-----------------------------------------------------------------------------

(* The options, in their order, and the keys.  A file is listed once; the  *)
(* keys open the menu.                                                     *)
Listed(options, keys) ==
  /\ \A i, j \in DOMAIN options : options[i].file = options[j].file => i = j
  /\ \A k \in keys : \E i \in DOMAIN options :
       options[i].number = k[2] /\ options[i].file = "menu"
BootManagerInv ==
  /\ DOMAIN bm = {"pc", "boots", "options", "keys", "conIn", "conOut", "errOut", "mode"}
  /\ bm = [x \in DOMAIN bm |-> bm[x]]
  /\ \E S : bm.options \in Seq(S)
  /\ Listed(bm.options, bm.keys)

(* Where the options are after an insertion or a removal.                  *)
LEMMA Appended ==
  ASSUME NEW S, NEW s \in Seq(S), NEW x
  PROVE  /\ Append(s, x) \in Seq(S \cup {x}) /\ DOMAIN Append(s, x) = 1..(Len(s) + 1)
         /\ Append(s, x)[Len(s) + 1] = x
         /\ \A i \in DOMAIN s : i \in 1..Len(s) /\ i # Len(s) + 1 /\ Append(s, x)[i] = s[i]
<1>1. s \in Seq(S \cup {x}) /\ x \in S \cup {x}
  OBVIOUS
<1> QED
  BY <1>1

(* RemoveAt of the community modules: the places behind the removed one    *)
(* move up.                                                                *)
LEMMA Unlisted ==
  ASSUME NEW S, NEW s \in Seq(S), NEW i \in DOMAIN s
  PROVE  /\ RemoveAt(s, i) \in Seq(S) /\ Len(RemoveAt(s, i)) = Len(s) - 1
         /\ \A j \in 1..(Len(s) - 1) :
              RemoveAt(s, i)[j] = s[IF j < i THEN j ELSE j + 1]
<1> DEFINE front == SubSeq(s, 1, i - 1)
           rest  == SubSeq(s, i + 1, Len(s))
<1>1. i \in 1..Len(s) /\ Len(s) \in Nat
  OBVIOUS
<1>2. /\ front \in Seq(S) /\ Len(front) = i - 1
      /\ \A j \in 1..(i - 1) : front[j] = s[j]
  BY <1>1
<1>3. /\ rest \in Seq(S) /\ Len(rest) = Len(s) - i
      /\ \A j \in 1..(Len(s) - i) : rest[j] = s[i + j]
  BY <1>1
<1>4. RemoveAt(s, i) = front \o rest
  BY DEF RemoveAt
<1> HIDE DEF front, rest
<1>5. front \o rest \in Seq(S) /\ Len(front \o rest) = Len(s) - 1
  BY <1>1, <1>2, <1>3
<1>6. ASSUME NEW j \in 1..(Len(s) - 1)
      PROVE  (front \o rest)[j] = s[IF j < i THEN j ELSE j + 1]
  <2>1. CASE j < i
    BY SMTT(40), <1>1, <1>2, <1>3, <2>1
  <2>2. CASE ~(j < i)
    <3>1. (front \o rest)[j] = rest[j - (i - 1)]
      BY SMTT(40), <1>1, <1>2, <1>3, <2>2
    <3>2. j - (i - 1) \in 1..(Len(s) - i) /\ i + (j - (i - 1)) = j + 1
      BY <1>1, <2>2
    <3> QED
      BY <1>3, <2>2, <3>1, <3>2
  <2> QED
    BY <2>1, <2>2
<1> QED
  BY <1>4, <1>5, <1>6

(* Registering a file lists it, once.                                      *)
LEMMA Registered ==
  ASSUME BootManagerInv, NEW file
  PROVE  LET s == RegisterFvBootOption(bm, file)
         IN  /\ \E S : s.options \in Seq(S)
             /\ Listed(s.options, bm.keys) /\ Known(s, file)
             /\ s = [bm EXCEPT !.options = s.options]
             /\ DOMAIN s = DOMAIN bm
<1>1. CASE Known(bm, file)
  BY <1>1 DEF RegisterFvBootOption, BootManagerInv
<1>2. CASE ~Known(bm, file)
  <2> DEFINE new == [file |-> file, number |-> FreeNumber(bm)]
             all == Append(bm.options, new)
  <2>1. RegisterFvBootOption(bm, file) = [bm EXCEPT !.options = all]
    BY <1>2 DEF RegisterFvBootOption
  <2>2. new.file = file
    OBVIOUS
  <2> HIDE DEF new
  <2>3. PICK S : bm.options \in Seq(S)
    BY DEF BootManagerInv
  <2>4. /\ all \in Seq(S \cup {new}) /\ DOMAIN all = 1..(Len(bm.options) + 1)
        /\ all[Len(bm.options) + 1] = new
        /\ \A i \in DOMAIN bm.options : i \in 1..Len(bm.options) /\ i # Len(bm.options) + 1 /\ all[i] = bm.options[i]
    BY <2>3, Appended
  <2>5. Len(bm.options) \in Nat /\ DOMAIN bm.options = 1..Len(bm.options)
    BY <2>3
  <2> HIDE DEF all
  <2>6. DOMAIN all = DOMAIN bm.options \cup {Len(bm.options) + 1}
    BY <2>4, <2>5
  <2>7. \A i \in DOMAIN bm.options : bm.options[i].file # file
    BY <1>2 DEF Known
  <2>8. Listed(all, bm.keys)
    BY SMTT(40), <2>2, <2>4, <2>6, <2>7 DEF Listed, BootManagerInv
  <2>9. Known([bm EXCEPT !.options = all], file)
    BY <2>2, <2>4, <2>6 DEF Known, BootManagerInv
  <2> QED
    BY <2>1, <2>4, <2>8, <2>9 DEF BootManagerInv
<1> QED
  BY <1>1, <1>2

(* A step that keeps the shape of the record and lists options and keys.   *)
LEMMA RecordStep ==
  ASSUME BootManagerInv, NEW options, NEW keys,
         NEW S, options \in Seq(S), Listed(options, keys),
         DOMAIN bm' = DOMAIN bm, bm' = [x \in DOMAIN bm |-> bm'[x]],
         bm'.options = options, bm'.keys = keys
  PROVE  BootManagerInv'
<1>1. (\E T : options \in Seq(T)) /\ DOMAIN bm' = DOMAIN bm
  OBVIOUS
<1>2. Listed(bm'.options, bm'.keys)
  OBVIOUS
<1>3. DOMAIN bm = {"pc", "boots", "options", "keys", "conIn", "conOut", "errOut", "mode"}
  BY DEF BootManagerInv
<1> QED
  BY <1>1, <1>2, <1>3 DEF BootManagerInv

(* The user adds, removes and reorders options in the menu.                *)
LEMMA UserKeepsListed ==
  ASSUME BootManagerInv, UserChanges
  PROVE  BootManagerInv'
<1>1. PICK i \in DOMAIN bm.options :
        \/ bm' = [bm EXCEPT !.options = RemoveAt(@, i),
                            !.keys = {k \in @ : k[2] # bm.options[i].number}]
        \/ bm' = [bm EXCEPT !.options = <<bm.options[i]>> \o RemoveAt(@, i)]
  BY DEF UserChanges
<1>2. PICK S : bm.options \in Seq(S)
  BY DEF BootManagerInv
<1> DEFINE old == bm.options
           n == Len(old)
           left == RemoveAt(old, i)
           reordered == <<old[i]>> \o left
           kept == {k \in bm.keys : k[2] # old[i].number}
<1>3. /\ n \in Nat /\ DOMAIN old = 1..n /\ i \in 1..n /\ old[i] \in S
  BY <1>2
<1>4. /\ left \in Seq(S) /\ Len(left) = n - 1
      /\ \A j \in 1..(n - 1) : left[j] = old[IF j < i THEN j ELSE j + 1]
  BY <1>2, Unlisted
<1> HIDE DEF left
<1>5. /\ reordered \in Seq(S) /\ Len(reordered) = n
      /\ reordered[1] = old[i] /\ \A j \in 2..n : reordered[j] = left[j - 1]
  BY <1>3, <1>4
<1>6. /\ DOMAIN left = 1..(n - 1) /\ DOMAIN reordered = 1..n
  BY <1>3, <1>4, <1>5
<1> HIDE DEF reordered
<1>7. Listed(old, bm.keys)
  BY DEF BootManagerInv
<1> HIDE DEF old, n
<1>8. \A j \in DOMAIN left : \E m \in 1..n : /\ m # i /\ left[j] = old[m]
                                             /\ m = IF j < i THEN j ELSE j + 1
  BY <1>3, <1>4, <1>6
<1>9. \A m \in 1..n : m # i => \E j \in DOMAIN left : left[j] = old[m]
  <2> TAKE m \in 1..n
  <2> HAVE m # i
  <2>1. CASE m < i
    BY <1>3, <1>4, <1>6, <2>1
  <2>2. CASE m > i
    <3>1. m - 1 \in 1..(n - 1) /\ ~(m - 1 < i) /\ (m - 1) + 1 = m
      BY <1>3, <2>2
    <3> QED
      BY <1>4, <1>6, <3>1
  <2> QED
    BY <1>3, <2>1, <2>2
<1>10. \A j, k \in DOMAIN left : left[j].file = left[k].file => j = k
  <2> SUFFICES ASSUME NEW j \in DOMAIN left, NEW k \in DOMAIN left,
                      left[j].file = left[k].file
               PROVE  j = k
    OBVIOUS
  <2>1. PICK a \in 1..n : a # i /\ left[j] = old[a] /\ a = IF j < i THEN j ELSE j + 1
    BY <1>8
  <2>2. PICK b \in 1..n : b # i /\ left[k] = old[b] /\ b = IF k < i THEN k ELSE k + 1
    BY <1>8
  <2>3. a = b
    BY <1>3, <1>7, <2>1, <2>2 DEF Listed
  <2> QED
    BY <1>3, <1>6, <2>1, <2>2, <2>3
<1>11. \A j \in DOMAIN left : left[j].file # old[i].file
  BY <1>3, <1>7, <1>8 DEF Listed
<1>12. Listed(left, kept)
  <2>1. ASSUME NEW k \in kept
        PROVE  \E j \in DOMAIN left : left[j].number = k[2] /\ left[j].file = "menu"
    <3>1. PICK m \in 1..n : old[m].number = k[2] /\ old[m].file = "menu"
      BY <1>3, <1>7 DEF Listed
    <3>2. m # i
      BY <3>1
    <3> QED
      BY <1>9, <3>1, <3>2
  <2> QED
    BY <1>10, <2>1 DEF Listed
<1>13. Listed(reordered, bm.keys)
  <2>1. \A j \in 2..n : j - 1 \in DOMAIN left /\ reordered[j] = left[j - 1]
    BY <1>3, <1>5, <1>6
  <2>2. \A j, k \in DOMAIN reordered : reordered[j].file = reordered[k].file => j = k
    <3> SUFFICES ASSUME NEW j \in 1..n, NEW k \in 1..n, reordered[j].file = reordered[k].file
                 PROVE  j = k
      BY <1>6
    <3>1. \A x \in 1..n : x = 1 \/ x \in 2..n
      BY <1>3
    <3>2. CASE j = 1 /\ k \in 2..n
      BY <1>5, <1>11, <2>1, <3>2
    <3>3. CASE k = 1 /\ j \in 2..n
      BY <1>5, <1>11, <2>1, <3>3
    <3>4. CASE j \in 2..n /\ k \in 2..n
      <4>1. j - 1 = k - 1
        BY <1>10, <2>1, <3>4
      <4> QED
        BY <3>4, <4>1
    <3> QED
      BY <3>1, <3>2, <3>3, <3>4
  <2>3. ASSUME NEW k \in bm.keys
        PROVE  \E j \in DOMAIN reordered : reordered[j].number = k[2] /\ reordered[j].file = "menu"
    <3>1. PICK m \in 1..n : old[m].number = k[2] /\ old[m].file = "menu"
      BY <1>3, <1>7 DEF Listed
    <3>2. CASE m = i
      BY <1>3, <1>5, <1>6, <3>1, <3>2
    <3>3. CASE m # i
      <4>1. PICK j \in DOMAIN left : left[j] = old[m]
        BY <1>9, <3>3
      <4>2. j + 1 \in 2..n /\ (j + 1) - 1 = j /\ j + 1 \in 1..n
        BY <1>3, <1>6
      <4> QED
        BY <1>5, <1>6, <3>1, <4>1, <4>2
    <3> QED
      BY <3>2, <3>3
  <2> QED
    BY <2>2, <2>3 DEF Listed
<1>14. \/ bm' = [bm EXCEPT !.options = left, !.keys = kept]
       \/ bm' = [bm EXCEPT !.options = reordered]
  BY <1>1 DEF left, reordered, old
<1>15. /\ DOMAIN bm' = DOMAIN bm /\ bm' = [x \in DOMAIN bm |-> bm'[x]]
       /\ \/ bm'.options = left /\ bm'.keys = kept
          \/ bm'.options = reordered /\ bm'.keys = bm.keys
  <2> HIDE DEF kept
  <2> QED
    BY <1>14 DEF BootManagerInv
<1> HIDE DEF kept
<1>16. CASE bm'.options = left /\ bm'.keys = kept
  BY <1>4, <1>12, <1>15, <1>16, RecordStep
<1>17. CASE bm'.options = reordered /\ bm'.keys = bm.keys
  BY <1>5, <1>13, <1>15, <1>17, RecordStep
<1> QED
  BY <1>15, <1>16, <1>17

(* OptionsRegisteredOnce: however often the board starts or is cut off     *)
(* while it does, and whatever the user does to the options meanwhile, no  *)
(* option is there twice and every key opens the menu.                     *)
THEOREM OptionsAreRegisteredOnce == BootManagerSpec => []OptionsRegisteredOnce
<1>1. BootManagerInit => BootManagerInv
  <2> SUFFICES ASSUME BootManagerInit PROVE BootManagerInv
    OBVIOUS
  <2>1. bm.options = <<>> /\ bm.keys = {}
    BY DEF BootManagerInit
  <2>2. Listed(bm.options, bm.keys) /\ bm.options \in Seq({})
    BY <2>1 DEF Listed
  <2>3. /\ DOMAIN bm = {"pc", "boots", "options", "keys", "conIn", "conOut", "errOut", "mode"}
        /\ bm = [x \in DOMAIN bm |-> bm[x]]
    BY DEF BootManagerInit
  <2> QED
    BY <2>2, <2>3 DEF BootManagerInv
<1>2. BootManagerInv /\ [BootManagerNext]_bmVars => BootManagerInv'
  <2> SUFFICES ASSUME BootManagerInv, [BootManagerNext]_bmVars PROVE BootManagerInv'
    OBVIOUS
  <2>0. /\ Listed(bm.options, bm.keys)
        /\ DOMAIN bm = {"pc", "boots", "options", "keys", "conIn", "conOut", "errOut", "mode"}
        /\ \E S : bm.options \in Seq(S)
    BY DEF BootManagerInv
  <2>1. CASE UNCHANGED bmVars
    BY <2>1 DEF bmVars, BootManagerInv
  <2>2. CASE AddConsoles \/ Restart
    <3>1. /\ DOMAIN bm' = DOMAIN bm /\ bm' = [x \in DOMAIN bm |-> bm'[x]]
          /\ bm'.options = bm.options /\ bm'.keys = bm.keys
      BY <2>0, <2>2 DEF AddConsoles, Restart, BootManagerInv
    <3> QED
      BY <2>0, <3>1, RecordStep
  <2>3. ASSUME NEW file,
               \E at, mode : bm' = [RegisterFvBootOption(bm, file) EXCEPT !.pc = at, !.mode = mode]
        PROVE  BootManagerInv'
    <3> DEFINE s == RegisterFvBootOption(bm, file)
    <3>1. /\ \E S : s.options \in Seq(S)
          /\ Listed(s.options, bm.keys)
          /\ s = [bm EXCEPT !.options = s.options] /\ DOMAIN s = DOMAIN bm
      BY Registered
    <3>2. PICK at, mode : bm' = [s EXCEPT !.pc = at, !.mode = mode]
      BY <2>3
    <3> HIDE DEF s
    <3>3. /\ DOMAIN bm' = DOMAIN bm /\ bm' = [x \in DOMAIN bm |-> bm'[x]]
          /\ bm'.options = s.options /\ bm'.keys = bm.keys
      BY <2>0, <3>1, <3>2
    <3> QED
      BY <3>1, <3>3, RecordStep
  <2>4. CASE RegisterUi
    <3> DEFINE s == RegisterFvBootOption(bm, "ui")
    <3>1. s = [bm EXCEPT !.options = s.options] /\ DOMAIN s = DOMAIN bm
      BY Registered
    <3>2. bm' = [s EXCEPT !.pc = "keys"]
      BY <2>4 DEF RegisterUi
    <3> HIDE DEF s
    <3>3. bm' = [s EXCEPT !.pc = "keys", !.mode = s.mode]
      BY <2>0, <3>1, <3>2
    <3> QED
      BY <2>3, <3>3 DEF s
  <2>5. CASE AfterConsole
    BY <2>3, <2>5 DEF AfterConsole
  <2>6. CASE RegisterOptionsAndKeys
    <3> DEFINE s == RegisterFvBootOption(bm, "menu")
               no == NumberOf(s, "menu")
               keys == bm.keys \cup {<<"F2", no>>, <<"Esc", no>>}
    <3>1. /\ \E S : s.options \in Seq(S)
          /\ Listed(s.options, bm.keys) /\ Known(s, "menu")
          /\ s = [bm EXCEPT !.options = s.options] /\ DOMAIN s = DOMAIN bm
      BY Registered
    <3>2. bm' = [s EXCEPT !.pc = "after", !.keys = @ \cup {<<"F2", no>>, <<"Esc", no>>}]
      BY <2>6 DEF RegisterOptionsAndKeys
    <3> HIDE DEF s
    <3>3. \E i \in DOMAIN s.options : s.options[i].number = no /\ s.options[i].file = "menu"
      BY <3>1 DEF Known, NumberOf
    <3> HIDE DEF no
    <3>4. s.keys = bm.keys
      BY <2>0, <3>1
    <3>5. Listed(s.options, keys)
      BY <3>1, <3>3 DEF Listed
    <3>6. /\ DOMAIN bm' = DOMAIN bm /\ bm' = [x \in DOMAIN bm |-> bm'[x]]
          /\ bm'.options = s.options /\ bm'.keys = keys
      BY <2>0, <3>1, <3>2, <3>4
    <3> HIDE DEF keys
    <3> QED
      BY <3>1, <3>5, <3>6, RecordStep
  <2>7. CASE UserChanges
    BY <2>7, UserKeepsListed
  <2> QED
    BY <2>1, <2>2, <2>4, <2>5, <2>6, <2>7 DEF BootManagerNext
<1>3. BootManagerInv => OptionsRegisteredOnce
  BY DEF BootManagerInv, Listed, OptionsRegisteredOnce
<1> QED
  BY <1>1, <1>2, <1>3, PTL DEF BootManagerSpec
-----------------------------------------------------------------------------
(* Every set of naturals has a least one.                                  *)
LEMMA LeastNatural ==
  ASSUME NEW T, T \subseteq Nat, T # {}
  PROVE  \E x \in T : \A y \in T : x <= y
<1>1. IsWellFoundedOn(OpToRel(<, Nat), Nat)
  BY NatLessThanWellFounded
<1>2. PICK x \in T : \A y \in T : ~ (<<y, x>> \in OpToRel(<, Nat))
  BY <1>1, WFMin
<1>3. \A y \in T : ~(y < x)
  BY <1>2 DEF OpToRel
<1> QED
  BY <1>3

-----------------------------------------------------------------------------
(* The device tree.                                                        *)

LEMMA LeastOr0Is ==
  ASSUME NEW T, T \subseteq Nat \ {0}
  PROVE  \/ T = {} /\ LeastOr0(T) = 0
         \/ LeastOr0(T) \in T /\ \A y \in T : LeastOr0(T) <= y
BY LeastNatural DEF LeastOr0

(* The tree of a walk.                                                     *)
LEMMA NodesAre ==
  ASSUME NEW t \in Trees
  PROVE  /\ Len(t) \in Nat \ {0} /\ DOMAIN t = 1..Len(t)
         /\ \A n \in DOMAIN t : t[n] \in TreeNodes /\ t[n].depth \in Nat /\ t[n].ok \in BOOLEAN
         /\ \A n \in 2..Len(t) : t[n].depth \in 1..(t[n - 1].depth + 1)
         /\ t[1].depth = 0
<1>1. t \in Seq(TreeNodes) /\ t # <<>> /\ InOrder(t)
  BY TreesAssumption
<1>2. \A n \in DOMAIN t : t[n] \in TreeNodes
  BY <1>1
<1> QED
  BY <1>1, <1>2 DEF InOrder, TreeNodes

Subnodes(t, n) == {m \in 2..Len(t) : ParentNode(t, m) = n}

(* The parent is the node above: what is between belongs to it.            *)
LEMMA ParentIs ==
  ASSUME NEW t \in Trees, NEW m \in 2..Len(t)
  PROVE  /\ ParentNode(t, m) \in 1..(m - 1)
         /\ t[m].depth = t[ParentNode(t, m)].depth + 1
         /\ \A k \in (ParentNode(t, m) + 1)..m : t[k].depth >= t[m].depth
<1> DEFINE up == {k \in DOMAIN t : k < m /\ t[k].depth < t[m].depth}
           back == {m - k : k \in up}
<1>0. PICK p : p = ParentNode(t, m)
  OBVIOUS
<1>a. /\ Len(t) \in Nat /\ m \in Nat /\ 2 <= m /\ m <= Len(t) /\ DOMAIN t = 1..Len(t) /\ up \subseteq 1..(m - 1)
      /\ \A k \in 1..Len(t) : t[k].depth \in Nat
  BY NodesAre
<1>b. m \in Nat /\ 2 <= m /\ m <= Len(t) /\ Len(t) \in Nat
  BY <1>a
<1>1. 1 \in up
  <2>1. m \in DOMAIN t /\ 1 \in DOMAIN t /\ 1 < m /\ t[1].depth = 0
    BY NodesAre
  <2>2. t[m].depth \in 1..(t[m - 1].depth + 1)
    BY NodesAre
  <2> QED
    BY <2>1, <2>2
<1>2. back \subseteq Nat /\ back # {}
  <2>1. m - 1 \in back
    BY <1>1
  <2> QED
    BY <1>a, <2>1
<1>3. PICK b \in back : \A c \in back : b <= c
  <2> HIDE DEF back
  <2> QED
    BY <1>2, LeastNatural
<1>4. \E x \in up : \A k \in up : k <= x
  <2>1. PICK x \in up : b = m - x
    BY <1>3
  <2>2. \A k \in up : m - x <= m - k /\ k \in Nat
    BY SMTT(40), <1>3, <2>1, NodesAre
  <2>3. x \in Nat
    BY <2>1, NodesAre
  <2> QED
    BY <2>1, <2>2, <2>3
<1>5. p \in up /\ \A k \in up : k <= p
  BY <1>0, <1>4 DEF ParentNode
<1>6. p \in 1..(m - 1) /\ t[p].depth < t[m].depth
  BY <1>5, <1>a
<1>7. ASSUME NEW k \in (p + 1)..m PROVE t[k].depth >= t[m].depth
  <2>1. k \in 1..m /\ k > p /\ p \in Nat
    BY <1>6, <1>7, <1>b
  <2>2. k \in DOMAIN t /\ t[k].depth \in Nat /\ t[m].depth \in Nat
    BY <2>1, <1>a, <1>b
  <2>3. k = m \/ k < m
    BY <2>1, <1>b
  <2>4. k \notin up
    <3> HIDE DEF up
    <3> QED
      BY <1>5, <2>1
  <2> QED
    BY <2>2, <2>3, <2>4
<1>8. t[p + 1].depth \in 1..(t[p].depth + 1) /\ t[p + 1].depth >= t[m].depth
  <2>1. p + 1 \in 2..Len(t) /\ p + 1 \in (p + 1)..m /\ p + 1 - 1 = p
    BY <1>6, <1>b
  <2>2. \A q \in 2..Len(t) : t[q].depth \in 1..(t[q - 1].depth + 1)
    BY NodesAre
  <2>3. PICK q : q = p + 1
    OBVIOUS
  <2>4. t[q].depth \in 1..(t[p].depth + 1) /\ t[q].depth >= t[m].depth
    <3>1. q \in 2..Len(t) /\ q - 1 = p /\ q \in (p + 1)..m
      BY <1>6, <1>b, <2>1, <2>3
    <3>2. t[q].depth \in 1..(t[q - 1].depth + 1)
      BY <2>2, <3>1
    <3>3. t[q].depth >= t[m].depth
      BY <1>7, <3>1
    <3> QED
      BY <3>1, <3>2, <3>3
  <2> QED
    BY <2>3, <2>4
<1>9. t[m].depth \in Nat /\ t[p].depth \in Nat
  BY <1>6, NodesAre
<1> QED
  BY SMTT(40), <1>0, <1>6, <1>7, <1>8, <1>9

(* And any node with those two marks is the parent.                        *)
LEMMA IsParent ==
  ASSUME NEW t \in Trees, NEW m \in 2..Len(t), NEW n \in 1..(m - 1),
         t[n].depth < t[m].depth, \A k \in (n + 1)..m : t[k].depth >= t[m].depth
  PROVE  ParentNode(t, m) = n
<1> DEFINE up == {k \in DOMAIN t : k < m /\ t[k].depth < t[m].depth}
<1>1. n \in up
  BY NodesAre
<1>2. \A k \in up : k <= n
  <2> SUFFICES ASSUME NEW k \in up, k > n PROVE FALSE
    BY NodesAre
  <2>1. k \in (n + 1)..m /\ t[k].depth \in Nat /\ t[m].depth \in Nat
    BY NodesAre
  <2> QED
    BY <2>1
<1>3. \A x, y \in up : x <= y /\ y <= x => x = y
  BY NodesAre
<1> HIDE DEF up
<1>4. \A x \in up : (\A k \in up : k <= x) => x = n
  BY <1>1, <1>2, <1>3
<1> QED
  BY <1>1, <1>2, <1>4 DEF ParentNode, up

LEMMA FirstSubnodeIs ==
  ASSUME NEW t \in Trees, NEW n \in DOMAIN t
  PROVE  LET f == FirstSubnode(t, n)
         IN  \/ f = 0 /\ Subnodes(t, n) = {}
             \/ f \in Subnodes(t, n) /\ \A m \in Subnodes(t, n) : f <= m
<1> DEFINE S == {m \in DOMAIN t : m = n + 1 /\ t[m].depth = t[n].depth + 1}
<1>1. n \in Nat \ {0} /\ t[n].depth \in Nat
  BY NodesAre
<1>2. ASSUME NEW m \in Subnodes(t, n)
      PROVE  n + 1 \in S /\ n + 1 <= m
  <2>1. /\ m \in 2..Len(t) /\ n \in 1..(m - 1) /\ t[m].depth = t[n].depth + 1
        /\ t[n + 1].depth >= t[m].depth
    <3>1. m \in 2..Len(t) /\ ParentNode(t, m) = n
      BY <1>2 DEF Subnodes
    <3>2. n \in 1..(m - 1) /\ t[m].depth = t[n].depth + 1
          /\ \A k \in (n + 1)..m : t[k].depth >= t[m].depth
      BY <3>1, ParentIs
    <3> QED
      BY <3>1, <3>2
  <2>2. n + 1 \in 2..Len(t) /\ n + 1 - 1 = n
    BY <2>1, <1>1
  <2>3. t[n + 1].depth \in 1..(t[n].depth + 1)
    BY <2>2, NodesAre
  <2> QED
    BY SMTT(40), <1>1, <2>1, <2>2, <2>3, NodesAre
<1>3. ASSUME n + 1 \in S PROVE n + 1 \in Subnodes(t, n)
  <2>1. n + 1 \in 2..Len(t) /\ n \in 1..(n + 1 - 1)
    BY <1>1, <1>3, NodesAre
  <2>2. t[n].depth < t[n + 1].depth /\ \A k \in (n + 1)..(n + 1) : t[k].depth >= t[n + 1].depth
    BY <1>1, <1>3
  <2> QED
    BY <2>1, <2>2, IsParent DEF Subnodes
<1>4. S = {} \/ S = {n + 1}
  OBVIOUS
<1>5. S \subseteq Nat \ {0}
  BY NodesAre
<1>6. \/ S = {} /\ FirstSubnode(t, n) = 0
      \/ S = {n + 1} /\ FirstSubnode(t, n) = n + 1
  <2> HIDE DEF S
  <2>1. \/ S = {} /\ LeastOr0(S) = 0
        \/ LeastOr0(S) \in S /\ \A y \in S : LeastOr0(S) <= y
    BY <1>5, LeastOr0Is
  <2>2. FirstSubnode(t, n) = LeastOr0(S)
    BY DEF FirstSubnode, S
  <2> QED
    BY <1>4, <2>1, <2>2
<1> QED
  BY <1>2, <1>3, <1>6

LEMMA NextSubnodeIs ==
  ASSUME NEW t \in Trees, NEW n \in DOMAIN t, NEW m \in Subnodes(t, n)
  PROVE  LET f == NextSubnode(t, m)
             later == {x \in Subnodes(t, n) : x > m}
         IN  \/ f = 0 /\ later = {}
             \/ f \in later /\ \A x \in later : f <= x
<1> DEFINE S == {x \in DOMAIN t : x > m /\ t[x].depth = t[m].depth
                                  /\ \A k \in (m + 1)..x : t[k].depth >= t[m].depth}
           later == {x \in Subnodes(t, n) : x > m}
<1>1. /\ m \in 2..Len(t) /\ n \in 1..(m - 1) /\ t[m].depth = t[n].depth + 1
      /\ \A k \in (n + 1)..m : t[k].depth >= t[m].depth
  <2>1. m \in 2..Len(t) /\ ParentNode(t, m) = n
    BY DEF Subnodes
  <2> QED
    BY <2>1, ParentIs
<1>2. t[n].depth \in Nat /\ t[m].depth \in Nat /\ n \in Nat /\ m \in Nat
  BY <1>1, NodesAre
<1>3. ASSUME NEW x \in later PROVE x \in S
  <2>1. x \in 2..Len(t) /\ ParentNode(t, x) = n /\ x > m
    BY <1>3 DEF Subnodes
  <2>2. t[x].depth = t[n].depth + 1 /\ \A k \in (n + 1)..x : t[k].depth >= t[x].depth
    BY <2>1, ParentIs
  <2>3. (m + 1)..x \subseteq (n + 1)..x
    BY <1>1, <2>1
  <2> QED
    BY <1>1, <2>1, <2>2, <2>3, NodesAre
<1>4. ASSUME NEW x \in S PROVE x \in later
  <2>1. x \in 2..Len(t) /\ n \in 1..(x - 1) /\ t[n].depth < t[x].depth
    BY SMTT(40), <1>1, <1>2, <1>4, NodesAre
  <2>2. ASSUME NEW k \in (n + 1)..x PROVE t[k].depth >= t[x].depth
    <3>1. k \in (n + 1)..m \/ k \in (m + 1)..x
      BY <1>2, <2>1
    <3> QED
      BY <1>1, <1>4, <3>1
  <2>3. ParentNode(t, x) = n
    BY <2>1, <2>2, IsParent
  <2> QED
    BY <1>4, <2>1, <2>3 DEF Subnodes
<1>5. S = later
  BY <1>3, <1>4
<1>6. S \subseteq Nat \ {0}
  BY NodesAre
<1>7. \/ S = {} /\ LeastOr0(S) = 0
      \/ LeastOr0(S) \in S /\ \A y \in S : LeastOr0(S) <= y
  <2> HIDE DEF S
  <2> QED
    BY <1>6, LeastOr0Is
<1>8. NextSubnode(t, m) = LeastOr0(S)
  BY DEF NextSubnode
<1> HIDE DEF S, later
<1>9. \/ NextSubnode(t, m) = 0 /\ later = {}
      \/ NextSubnode(t, m) \in later /\ \A x \in later : NextSubnode(t, m) <= x
  BY <1>5, <1>7, <1>8
<1> QED
  BY <1>9 DEF later

(* What a device of keys has below it comes before the next such device.   *)
LEMMA DevicesAreApart ==
  ASSUME NEW t \in Trees, NEW s \in {GpioKeysNode, PonNode},
         NEW n \in DOMAIN t, Compatible(t, n, s),
         NEW x \in 2..Len(t), Compatible(t, ParentNode(t, x), s), ParentNode(t, x) < n
  PROVE  x < n
<1>0. PICK p : p = ParentNode(t, x)
  OBVIOUS
<1>b. /\ Len(t) \in Nat /\ DOMAIN t = 1..Len(t)
      /\ \A k \in 1..Len(t) : t[k].depth \in Nat
  BY NodesAre
<1>a. /\ Len(t) \in Nat /\ x \in Nat /\ x <= Len(t) /\ n \in Nat /\ 1 <= n /\ n <= Len(t)
      /\ DOMAIN t = 1..Len(t)
      /\ \A k \in 1..Len(t) : t[k].depth \in Nat
  BY <1>b
<1>1. /\ p \in 1..(x - 1) /\ t[x].depth = t[p].depth + 1
      /\ \A k \in (p + 1)..x : t[k].depth >= t[x].depth
  BY <1>0, ParentIs
<1>2. p \in DOMAIN t /\ p \in Nat /\ t[p].depth \in Nat
  BY <1>1, <1>a
<1>3. PICK k \in (p + 1)..n : t[k].depth <= t[p].depth
  <2>1. Apart(t, s) /\ Compatible(t, p, s) /\ p < n
    BY <1>0, TreesAssumption
  <2> QED
    BY <1>2, <2>1 DEF Apart
<1>4. k \in Nat /\ k \in DOMAIN t /\ t[k].depth \in Nat
  BY <1>2, <1>3, <1>a
<1>5. ~(k <= x)
  <2> SUFFICES ASSUME k <= x PROVE FALSE
    OBVIOUS
  <2>1. k \in (p + 1)..x
    BY <1>a, <1>2, <1>3, <1>4
  <2>2. t[k].depth >= t[x].depth /\ t[x].depth = t[p].depth + 1
    BY <1>1, <2>1
  <2> QED
    BY <1>2, <1>3, <1>4, <2>2
<1> QED
  BY <1>3, <1>4, <1>5, <1>a

-----------------------------------------------------------------------------
(* What the nodes say.                                                     *)
KeyTypes   == {"unknown", "TLMM", "PM8X41", "PON"}
KeyRecords == [type : KeyTypes, gpio : Int, low : BOOLEAN, pon : Int, valid : BOOLEAN]

LEMMA PropertyIs ==
  ASSUME NEW t \in Trees, NEW n \in DOMAIN t, NEW name, HasNodeProperty(t, n, name)
  PROVE  NodeProperty(t, n, name) \in Seq(Int)
<1>1. t[n] \in TreeNodes
  BY NodesAre
<1>2. t[n].props \subseteq STRING \X Seq(Int)
  BY <1>1 DEF TreeNodes
<1>3. PICK p \in t[n].props : p[1] = name /\ NodeProperty(t, n, name) = p[2]
  BY DEF HasNodeProperty, NodeProperty
<1> QED
  BY <1>2, <1>3

LEMMA FirstCellIs ==
  ASSUME NEW t \in Trees, NEW n \in DOMAIN t, NEW name, Sized(t, n, name, 1)
  PROVE  NodeProperty(t, n, name)[1] \in Int
<1>1. NodeProperty(t, n, name) \in Seq(Int) /\ Len(NodeProperty(t, n, name)) = 1
  BY PropertyIs DEF Sized
<1> QED
  BY <1>1

LEMMA PonTypeIs ==
  ASSUME NEW t \in Trees, NEW n \in DOMAIN t, HasPonType(t, n)
  PROVE  PonType(t, n) \in Int
BY FirstCellIs, Zenon DEF HasPonType, PonType

(* A node that says nothing of a GPIO that is there leaves type and        *)
(* validity as they are; one that does sets both.  One that names a GPIO   *)
(* sets number and polarity.                                               *)
LEMMA GpioKeyIs ==
  ASSUME NEW t \in Trees, NEW n \in DOMAIN t, NEW key \in KeyRecords
  PROVE  /\ GpioKey(t, n, key) \in KeyRecords /\ GpioKey(t, n, NoKey) \in KeyRecords
         /\ GpioKey(t, n, key).pon = key.pon
         /\ GpioKey(t, n, NoKey).valid =>
              /\ GpioKey(t, n, key).valid
              /\ GpioKey(t, n, key).type = GpioKey(t, n, NoKey).type
         /\ ~GpioKey(t, n, NoKey).valid =>
              (GpioKey(t, n, key).valid <=> key.valid) /\ GpioKey(t, n, key).type = key.type
         /\ HasGpios(t, n) => /\ GpioKey(t, n, key).gpio = GpioKey(t, n, NoKey).gpio
                              /\ GpioKey(t, n, key).low = GpioKey(t, n, NoKey).low
         /\ ~HasGpios(t, n) => GpioKey(t, n, key) = key
<1>1. PICK g : g = NodeProperty(t, n, "gpios")
  OBVIOUS
<1>2. PICK type : type = GpioType(t, FindNodeByPHandle(t, g[1]))
  OBVIOUS
<1>3. PICK number : number = g[2] % 256
  OBVIOUS
<1>4. PICK low \in BOOLEAN : low = (g[3] % 2 = 1)
  OBVIOUS
<1>5. HasGpios(t, n) => number \in Int
  <2> SUFFICES ASSUME HasGpios(t, n) PROVE number \in Int
    OBVIOUS
  <2>1. g \in Seq(Int) /\ Len(g) >= 3
    BY <1>1, PropertyIs DEF HasGpios
  <2> QED
    BY <1>3, <2>1
<1>6. type \in {"unknown", "TLMM", "PM8X41"}
  BY <1>2, Zenon DEF GpioType
<1>7. type # "unknown" => type \in KeyTypes
  BY <1>6 DEF KeyTypes
<1>8. \A k : GpioKey(t, n, k) =
               IF ~HasGpios(t, n) THEN k
               ELSE IF type = "unknown" THEN [k EXCEPT !.gpio = number, !.low = low]
               ELSE [k EXCEPT !.gpio = number, !.low = low, !.type = type, !.valid = TRUE]
  BY <1>1, <1>2, <1>3, <1>4, ZenonT(60) DEF GpioKey
<1>9. ASSUME NEW k \in KeyRecords
      PROVE  /\ GpioKey(t, n, k) \in KeyRecords /\ GpioKey(t, n, k).pon = k.pon
             /\ ~HasGpios(t, n) => GpioKey(t, n, k) = k
             /\ HasGpios(t, n) => GpioKey(t, n, k).gpio = number /\ GpioKey(t, n, k).low = low
             /\ HasGpios(t, n) /\ type # "unknown" =>
                  GpioKey(t, n, k).valid /\ GpioKey(t, n, k).type = type
             /\ ~(HasGpios(t, n) /\ type # "unknown") =>
                  (GpioKey(t, n, k).valid <=> k.valid) /\ GpioKey(t, n, k).type = k.type
  <2>1. CASE ~HasGpios(t, n)
    BY <1>8, <2>1
  <2>2. CASE HasGpios(t, n) /\ type = "unknown"
    <3>1. GpioKey(t, n, k) = [k EXCEPT !.gpio = number, !.low = low]
      BY <1>8, <2>2, Zenon
    <3>2. number \in Int
      BY <1>5, <2>2
    <3>3. [k EXCEPT !.gpio = number, !.low = low] \in KeyRecords
      BY <3>2 DEF KeyRecords
    <3> QED
      BY <2>2, <3>1, <3>3 DEF KeyRecords
  <2>3. CASE HasGpios(t, n) /\ type # "unknown"
    <3>1. GpioKey(t, n, k) = [k EXCEPT !.gpio = number, !.low = low, !.type = type, !.valid = TRUE]
      BY <1>8, <2>3, Zenon
    <3>2. number \in Int /\ type \in KeyTypes
      BY <1>5, <1>7, <2>3
    <3>3. [k EXCEPT !.gpio = number, !.low = low, !.type = type, !.valid = TRUE] \in KeyRecords
      BY <3>2 DEF KeyRecords
    <3> QED
      BY <2>3, <3>1, <3>3 DEF KeyRecords
  <2> QED
    BY <2>1, <2>2, <2>3
<1>10. NoKey \in KeyRecords /\ ~NoKey.valid
  BY DEF NoKey, KeyRecords, KeyTypes
<1> QED
  BY <1>9, <1>10

LEMMA PonKeyIs ==
  ASSUME NEW t \in Trees, NEW n \in DOMAIN t, NEW key \in KeyRecords
  PROVE  /\ PonKey(t, n, key) \in KeyRecords
         /\ PonKey(t, n, NoKey).valid <=> HasPonType(t, n)
         /\ HasPonType(t, n) => /\ PonKey(t, n, key).valid /\ PonKey(t, n, key).type = "PON"
                                /\ PonKey(t, n, key).pon = PonKey(t, n, NoKey).pon
         /\ PonKey(t, n, key).gpio = key.gpio /\ PonKey(t, n, key).low = key.low
         /\ ~HasPonType(t, n) => PonKey(t, n, key) = key
<1>1. NoKey \in KeyRecords /\ ~NoKey.valid
  BY DEF NoKey, KeyRecords, KeyTypes
<1>2. CASE HasPonType(t, n)
  <2>1. PonType(t, n) \in Int
    BY <1>2, PonTypeIs
  <2>2. \A k : PonKey(t, n, k) = [k EXCEPT !.type = "PON", !.pon = PonType(t, n), !.valid = TRUE]
    BY <1>2 DEF PonKey
  <2>3. "PON" \in KeyTypes
    BY DEF KeyTypes
  <2>4. PICK a \in Int : a = PonType(t, n)
    BY <2>1
  <2>5. ASSUME NEW k \in KeyRecords
        PROVE  /\ PonKey(t, n, k) \in KeyRecords /\ PonKey(t, n, k).pon = a
               /\ PonKey(t, n, k).valid /\ PonKey(t, n, k).type = "PON"
               /\ PonKey(t, n, k).gpio = k.gpio /\ PonKey(t, n, k).low = k.low
    <3>1. PonKey(t, n, k) = [k EXCEPT !.type = "PON", !.pon = a, !.valid = TRUE]
      BY <2>2, <2>4, Zenon
    <3>2. [k EXCEPT !.type = "PON", !.pon = a, !.valid = TRUE] \in KeyRecords
      BY <2>3 DEF KeyRecords
    <3> QED
      BY <3>1, <3>2 DEF KeyRecords
  <2> QED
    BY <1>1, <1>2, <2>5
<1>3. CASE ~HasPonType(t, n)
  BY <1>1, <1>3 DEF PonKey
<1> QED
  BY <1>2, <1>3

-----------------------------------------------------------------------------
(* The walk: what has been read, and what the keys and busses are then.    *)
BussesOf(t) == {BusOf(t, n) : n \in DOMAIN t}
FdtTypes ==
  /\ fdt \in [tree : Trees, pc : {"next", "first", "key", "sibling", "bus"},
              string : {GpioKeysNode, PonNode, I2cNode, "done"}, node : Nat, sub : Nat,
              keys : [Keys -> KeyRecords],
              busses : Seq(BussesOf(fdt.tree)), pins : {fdt.pins}]
  /\ fdt.node \in DOMAIN fdt.tree
WhereItIs ==
  /\ fdt.pc \in {"first", "key", "sibling"} =>
       fdt.string \in {GpioKeysNode, PonNode} /\ Compatible(fdt.tree, fdt.node, fdt.string)
  /\ fdt.pc \in {"key", "sibling"} =>
       fdt.sub \in Subnodes(fdt.tree, fdt.node) /\ fdt.tree[fdt.sub].ok
  /\ fdt.pc = "bus" => fdt.string = I2cNode /\ Compatible(fdt.tree, fdt.node, I2cNode)
  /\ fdt.string = "done" => fdt.pc = "next"

(* The subnodes of the devices that have been come to.                     *)
Passed(s) == fdt.string \in {I2cNode, "done"} \/ (s = GpioKeysNode /\ fdt.string = PonNode)
Read(s) ==
  {m \in 2..Len(fdt.tree) :
     LET p == ParentNode(fdt.tree, m)
     IN  /\ Compatible(fdt.tree, p, s)
         /\ \/ Passed(s)
            \/ fdt.string = s /\ p < fdt.node
            \/ /\ fdt.string = s /\ p = fdt.node
               /\ \/ fdt.pc = "next"
                  \/ fdt.pc = "key" /\ m < fdt.sub
                  \/ fdt.pc = "sibling" /\ m <= fdt.sub}
Told(s, code) == {m \in Read(s) : Describes(fdt.tree, m, s, code)}
Named(code) == {m \in Read(GpioKeysNode) : Names(fdt.tree, m, code)}
KeysSoFar ==
  \A code \in Keys :
    KeySays(fdt.keys[code], fdt.tree, Told(GpioKeysNode, code), Told(PonNode, code), Named(code))
BussesSoFar ==
  /\ fdt.string \in {GpioKeysNode, PonNode} => fdt.busses = <<>>
  /\ fdt.string = I2cNode =>
       \A i \in DOMAIN fdt.busses : \A n \in BussesAt(fdt.tree, fdt.busses[i]) :
         n <= fdt.node /\ (fdt.pc = "bus" => n < fdt.node)
FdtInv == FdtTypes /\ WhereItIs /\ KeysSoFar /\ BussesSoFar /\ BussesAreTheTrees

LEMMA LoopsDiffer ==
  /\ GpioKeysNode # PonNode /\ GpioKeysNode # I2cNode /\ PonNode # I2cNode
  /\ GpioKeysNode # "done" /\ PonNode # "done" /\ I2cNode # "done"
  /\ After(GpioKeysNode) = PonNode /\ After(PonNode) = I2cNode /\ After(I2cNode) = "done"
BY Zenon DEF GpioKeysNode, PonNode, I2cNode, After

(* As long as no subnode is read the keys stay as they are.                *)
LEMMA KeysStay ==
  ASSUME KeysSoFar, fdt'.tree = fdt.tree, fdt'.keys = fdt.keys,
         Read(GpioKeysNode)' = Read(GpioKeysNode), Read(PonNode)' = Read(PonNode)
  PROVE  KeysSoFar'
BY DEF KeysSoFar, Told, Named

LEMMA BussesStay ==
  ASSUME BussesAreTheTrees, fdt'.tree = fdt.tree, fdt'.busses = fdt.busses, fdt'.pins = fdt.pins
  PROVE  BussesAreTheTrees'
BY DEF BussesAreTheTrees, PinsAreSet

LEMMA FdtInvInit == FdtInit => FdtInv
<1> SUFFICES ASSUME FdtInit PROVE FdtInv
  OBVIOUS
<1>1. PICK t \in Trees :
        fdt = [tree |-> t, pc |-> "next", string |-> GpioKeysNode, node |-> 1, sub |-> 0,
               keys |-> [k \in Keys |-> NoKey], busses |-> <<>>, pins |-> <<>>]
  BY DEF FdtInit
<1>2. 1 \in DOMAIN t /\ NoKey \in KeyRecords /\ ~NoKey.valid
  BY NodesAre DEF NoKey, KeyRecords, KeyTypes
<1>3. FdtTypes
  BY <1>1, <1>2 DEF FdtTypes
<1>4. WhereItIs
  BY <1>1, LoopsDiffer DEF WhereItIs
<1>5. \A s \in {GpioKeysNode, PonNode} : Read(s) = {}
  <2> SUFFICES ASSUME NEW s \in {GpioKeysNode, PonNode}, NEW m \in Read(s) PROVE FALSE
    OBVIOUS
  <2>1. /\ m \in 2..Len(t) /\ Compatible(t, ParentNode(t, m), s)
        /\ ParentNode(t, m) < 1 \/ ParentNode(t, m) = 1
    BY <1>1, LoopsDiffer DEF Read, Passed
  <2>2. ParentNode(t, m) \in 1..(m - 1)
    BY <2>1, ParentIs
  <2> QED
    BY <2>1, <2>2, TreesAssumption
<1>6. KeysSoFar
  BY <1>1, <1>2, <1>5 DEF KeysSoFar, Told, Named, KeySays
<1>7. BussesSoFar /\ BussesAreTheTrees
  BY <1>1, LoopsDiffer DEF BussesSoFar, BussesAreTheTrees
<1> QED
  BY <1>3, <1>4, <1>6, <1>7 DEF FdtInv

(* The steps of the walk.                                                  *)
LEMMA NextCompatibleIs ==
  ASSUME NEW t \in Trees, NEW n \in DOMAIN t, NEW s
  PROVE  LET f == FindNextCompatibleNode(t, n, s)
         IN  \/ f = 0 /\ \A m \in DOMAIN t : Compatible(t, m, s) => m <= n
             \/ /\ f \in DOMAIN t /\ f > n /\ Compatible(t, f, s)
                /\ \A m \in DOMAIN t : Compatible(t, m, s) => m <= n \/ f <= m
<1> DEFINE S == {m \in DOMAIN t : m > n /\ Compatible(t, m, s)}
<1>1. S \subseteq Nat \ {0} /\ \A m \in DOMAIN t : m \in Nat
  BY NodesAre
<1>2. \/ S = {} /\ LeastOr0(S) = 0
      \/ LeastOr0(S) \in S /\ \A y \in S : LeastOr0(S) <= y
  <2> HIDE DEF S
  <2> QED
    BY <1>1, LeastOr0Is
<1>3. FindNextCompatibleNode(t, n, s) = LeastOr0(S)
  BY DEF FindNextCompatibleNode
<1>4. \A m \in DOMAIN t : Compatible(t, m, s) => m <= n \/ m \in S
  BY <1>1
<1>5. \A m \in S : m \in DOMAIN t /\ m > n /\ Compatible(t, m, s)
  OBVIOUS
<1> HIDE DEF S
<1> QED
  BY <1>2, <1>3, <1>4, <1>5

(* Which parents Read looks at.                                            *)
LEMMA ReadIs ==
  ASSUME FdtTypes, NEW m \in 2..Len(fdt.tree)
  PROVE  /\ ParentNode(fdt.tree, m) \in DOMAIN fdt.tree /\ ParentNode(fdt.tree, m) \in Nat
         /\ m \in DOMAIN fdt.tree /\ m \in Nat
<1>1. fdt.tree \in Trees
  BY DEF FdtTypes
<1> QED
  BY <1>1, ParentIs, NodesAre

LEMMA FindNextKeeps ==
  ASSUME FdtInv, FindNext
  PROVE  FdtInv'
<1> DEFINE t == fdt.tree
           n == FindNextCompatibleNode(t, fdt.node, fdt.string)
<1>1. FdtTypes /\ WhereItIs /\ KeysSoFar /\ BussesSoFar /\ BussesAreTheTrees
  BY DEF FdtInv
<1>2. t \in Trees /\ fdt.node \in DOMAIN t /\ fdt.node \in Nat /\ 1 \in DOMAIN t
  BY <1>1, NodesAre DEF FdtTypes
<1>3. fdt.pc = "next" /\ fdt.string \in {GpioKeysNode, PonNode, I2cNode}
  BY <1>1 DEF FdtTypes, FindNext
<1>4. \/ n = 0 /\ \A m \in DOMAIN t : Compatible(t, m, fdt.string) => m <= fdt.node
      \/ /\ n \in DOMAIN t /\ n > fdt.node /\ Compatible(t, n, fdt.string)
         /\ \A m \in DOMAIN t : Compatible(t, m, fdt.string) => m <= fdt.node \/ n <= m
  BY <1>2, NextCompatibleIs
<1>5. fdt' = IF n = 0 THEN [fdt EXCEPT !.string = After(@), !.node = 1]
             ELSE [fdt EXCEPT !.node = n, !.pc = IF fdt.string = I2cNode THEN "bus" ELSE "first"]
  BY DEF FindNext
<1>6. /\ fdt'.tree = t /\ fdt'.keys = fdt.keys /\ fdt'.busses = fdt.busses
      /\ fdt'.pins = fdt.pins /\ fdt'.sub = fdt.sub
      /\ fdt'.string = IF n = 0 THEN After(fdt.string) ELSE fdt.string
      /\ fdt'.node = IF n = 0 THEN 1 ELSE n
      /\ fdt'.pc = IF n = 0 THEN "next" ELSE IF fdt.string = I2cNode THEN "bus" ELSE "first"
  BY <1>1, <1>3, <1>5 DEF FdtTypes
<1>7. n = 0 \/ (n \in DOMAIN t /\ n \in Nat /\ n # 0)
  BY <1>2, <1>4, NodesAre
<1>8. After(fdt.string) \in {PonNode, I2cNode, "done"}
  BY <1>3, LoopsDiffer
<1> HIDE DEF n
<1>9. FdtTypes'
  <2>1. CASE n = 0
    BY <1>1, <1>2, <1>5, <1>6, <1>8, <2>1 DEF FdtTypes
  <2>2. CASE n # 0
    <3>1. n \in DOMAIN t /\ n \in Nat /\ (IF fdt.string = I2cNode THEN "bus" ELSE "first") \in {"bus", "first"}
      BY <1>7, <2>2
    <3> QED
      BY <1>1, <1>5, <1>6, <2>2, <3>1 DEF FdtTypes
  <2> QED
    BY <2>1, <2>2
<1>10. WhereItIs'
  BY <1>3, <1>4, <1>6, <1>8, LoopsDiffer DEF WhereItIs
<1>11. \A s \in {GpioKeysNode, PonNode} : Read(s)' = Read(s)
  <2> SUFFICES ASSUME NEW s \in {GpioKeysNode, PonNode}, NEW m \in 2..Len(t)
               PROVE  m \in Read(s)' <=> m \in Read(s)
    BY <1>6 DEF Read
  <2>1. PICK p : p = ParentNode(t, m)
    OBVIOUS
  <2>2. p \in DOMAIN t /\ p \in Nat /\ m \in Nat
    BY <1>1, <2>1, ReadIs
  <2>3. Compatible(t, p, s) => p # 1
    BY <1>2, TreesAssumption
  <2>4. 1 <= p
    BY <1>2, <2>2, NodesAre
  <2>5. m \in Read(s) <=> /\ Compatible(t, p, s)
                          /\ Passed(s) \/ (fdt.string = s /\ p <= fdt.node)
    BY <1>2, <1>3, <2>1, <2>2 DEF Read
  <2>6. CASE n = 0
    <3>1. m \in Read(s)' <=> /\ Compatible(t, p, s)
                             /\ Passed(s)' \/ (fdt'.string = s /\ p <= 1)
      BY <1>6, <2>1, <2>2, <2>6 DEF Read
    <3>2. Compatible(t, p, s) /\ fdt.string = s => p <= fdt.node
      BY <1>4, <2>2, <2>6
    <3>3. Passed(s)' <=> Passed(s) \/ fdt.string = s
      BY <1>3, <1>6, <2>6, LoopsDiffer DEF Passed
    <3>4. ~(Compatible(t, p, s) /\ p <= 1)
      BY <2>2, <2>3, <2>4
    <3> QED
      BY <2>5, <3>1, <3>2, <3>3, <3>4
  <2>7. CASE n # 0
    <3>1. m \in Read(s)' <=> /\ Compatible(t, p, s)
                             /\ Passed(s)' \/ (fdt.string = s /\ p < n)
      BY <1>6, <2>1, <2>2, <2>7 DEF Read
    <3>2. Compatible(t, p, s) /\ fdt.string = s => (p <= fdt.node <=> p < n)
      BY <1>2, <1>4, <1>7, <2>2, <2>7
    <3>3. Passed(s)' <=> Passed(s)
      BY <1>6, <2>7 DEF Passed
    <3> QED
      BY <2>5, <3>1, <3>2, <3>3
  <2> QED
    BY <2>6, <2>7
<1>12. KeysSoFar'
  BY <1>1, <1>6, <1>11, KeysStay
<1>13. BussesAreTheTrees'
  BY <1>1, <1>6, BussesStay
<1>14. BussesSoFar'
  <2>1. CASE n = 0
    BY <1>1, <1>3, <1>6, <2>1, LoopsDiffer DEF BussesSoFar
  <2>2. CASE n # 0
    <3>1. \A b : \A x \in BussesAt(t, b) : x \in Nat
      BY <1>2, NodesAre DEF BussesAt
    <3> QED
      <4>1. fdt.string \in {GpioKeysNode, PonNode} => fdt'.busses = <<>>
        BY <1>1, <1>6 DEF BussesSoFar
      <4>2. n \in Nat /\ n > fdt.node
        BY <1>4, <1>7, <2>2
      <4>3. ASSUME fdt.string = I2cNode, NEW i \in DOMAIN fdt.busses, NEW x \in BussesAt(t, fdt.busses[i])
            PROVE  x <= n /\ x < n
        <5>1. x \in Nat /\ x <= fdt.node
          BY <1>1, <3>1, <4>3 DEF BussesSoFar
        <5> QED
          BY <1>2, <4>2, <5>1
      <4> QED
        BY <1>6, <2>2, <4>1, <4>3 DEF BussesSoFar
  <2> QED
    BY <2>1, <2>2
<1> QED
  BY <1>9, <1>10, <1>12, <1>13, <1>14 DEF FdtInv

LEMMA ComesToKeeps ==
  ASSUME FdtInv, NEW m, ComesTo(m),
         \/ fdt.pc = "first" /\ m = FirstSubnode(fdt.tree, fdt.node)
         \/ fdt.pc = "sibling" /\ m = NextSubnode(fdt.tree, fdt.sub)
  PROVE  FdtInv'
<1> DEFINE t == fdt.tree
           later == {x \in Subnodes(t, fdt.node) : fdt.pc = "sibling" => x > fdt.sub}
<1>1. FdtTypes /\ WhereItIs /\ KeysSoFar /\ BussesSoFar /\ BussesAreTheTrees
  BY DEF FdtInv
<1>2. t \in Trees /\ fdt.node \in DOMAIN t /\ fdt.node \in Nat
      /\ fdt.string \in {GpioKeysNode, PonNode} /\ fdt.pc \in {"first", "sibling"}
  BY <1>1 DEF FdtTypes, WhereItIs
<1>3. \/ m = 0 /\ later = {}
      \/ m \in later /\ \A x \in later : m <= x
  <2>1. CASE fdt.pc = "first"
    BY <1>2, <2>1, FirstSubnodeIs
  <2>2. CASE fdt.pc = "sibling"
    <3>1. fdt.sub \in Subnodes(t, fdt.node)
      BY <1>1, <2>2 DEF WhereItIs
    <3> QED
      BY <1>2, <2>2, <3>1, NextSubnodeIs
  <2> QED
    BY <1>2, <2>1, <2>2
<1>4. later \subseteq Subnodes(t, fdt.node) /\ \A x \in Subnodes(t, fdt.node) : x \in Nat /\ x # 0
  BY DEF Subnodes
<1>5. \A x \in Subnodes(t, fdt.node) : x \in later <=> (fdt.pc = "sibling" => x > fdt.sub)
  OBVIOUS
<1> HIDE DEF later
<1>6. CASE m # 0 /\ ~t[m].ok
  <2>1. fdt' = fdt
    BY <1>6 DEF ComesTo
  <2>2. FdtTypes' /\ WhereItIs' /\ BussesSoFar'
    BY <1>1, <2>1 DEF FdtTypes, WhereItIs, BussesSoFar
  <2>3. \A s \in {GpioKeysNode, PonNode} : Read(s)' = Read(s)
    BY <2>1 DEF Read, Passed
  <2>4. KeysSoFar' /\ BussesAreTheTrees'
    BY <1>1, <2>1, <2>3, KeysStay, BussesStay
  <2> QED
    BY <2>2, <2>4 DEF FdtInv
<1>7. CASE m = 0 \/ t[m].ok
  <2>1. fdt' = IF m = 0 THEN [fdt EXCEPT !.pc = "next"] ELSE [fdt EXCEPT !.sub = m, !.pc = "key"]
    BY <1>7 DEF ComesTo
  <2>2. m = 0 \/ (m \in Subnodes(t, fdt.node) /\ m \in Nat /\ m # 0)
    BY <1>3, <1>4
  <2>3. /\ fdt'.tree = t /\ fdt'.keys = fdt.keys /\ fdt'.busses = fdt.busses
        /\ fdt'.pins = fdt.pins /\ fdt'.string = fdt.string /\ fdt'.node = fdt.node
        /\ fdt'.sub = IF m = 0 THEN fdt.sub ELSE m
        /\ fdt'.pc = IF m = 0 THEN "next" ELSE "key"
    BY <1>1, <2>1 DEF FdtTypes
  <2>4. FdtTypes'
    BY <1>1, <2>1, <2>2, <2>3 DEF FdtTypes
  <2>5. WhereItIs'
    BY <1>1, <1>2, <1>7, <2>2, <2>3, LoopsDiffer DEF WhereItIs
  <2>6. \A s \in {GpioKeysNode, PonNode} : Read(s)' = Read(s)
    <3> SUFFICES ASSUME NEW s \in {GpioKeysNode, PonNode}, NEW x \in 2..Len(t)
                 PROVE  x \in Read(s)' <=> x \in Read(s)
      BY <2>3 DEF Read
    <3>1. PICK p : p = ParentNode(t, x)
      OBVIOUS
    <3>2. p \in Nat /\ x \in Nat /\ (p = fdt.node <=> x \in Subnodes(t, fdt.node))
      BY <1>1, <3>1, ReadIs DEF Subnodes
    <3>3. Passed(s)' <=> Passed(s)
      BY <2>3 DEF Passed
    <3>4. p = fdt.node /\ fdt.pc = "sibling" => fdt.sub \in Nat
      BY <1>1 DEF FdtTypes
    <3>5. p = fdt.node => ((m = 0 \/ x < m) <=> (fdt.pc = "sibling" /\ x <= fdt.sub))
      BY <1>2, <1>3, <1>4, <1>5, <2>2, <3>2, <3>4
    <3>6. x \in Read(s) <=> /\ Compatible(t, p, s)
                            /\ \/ Passed(s)
                               \/ fdt.string = s /\ p < fdt.node
                               \/ fdt.string = s /\ p = fdt.node /\ fdt.pc = "sibling" /\ x <= fdt.sub
      BY <1>2, <3>1 DEF Read
    <3>7. x \in Read(s)' <=> /\ Compatible(t, p, s)
                             /\ \/ Passed(s)'
                                \/ fdt.string = s /\ p < fdt.node
                                \/ fdt.string = s /\ p = fdt.node /\ (m = 0 \/ x < m)
      BY <2>3, <3>1 DEF Read
    <3> QED
      BY <3>3, <3>5, <3>6, <3>7
  <2>7. KeysSoFar'
    BY <1>1, <2>3, <2>6, KeysStay
  <2>8. BussesSoFar' /\ BussesAreTheTrees'
    BY <1>1, <1>2, <2>3, BussesStay, LoopsDiffer DEF BussesSoFar
  <2> QED
    BY <2>4, <2>5, <2>7, <2>8 DEF FdtInv
<1> QED
  BY <1>6, <1>7

LEMMA LatestIs ==
  ASSUME NEW T, T \subseteq Nat, NEW m \in Nat, \A x \in T : x < m
  PROVE  Latest(T \cup {m}) = m
<1>1. \A x \in T \cup {m} : (\A y \in T \cup {m} : y <= x) => x = m
  OBVIOUS
<1>2. m \in T \cup {m} /\ \A y \in T \cup {m} : y <= m
  OBVIOUS
<1> QED
  BY <1>1, <1>2 DEF Latest

(* A key after one more subnode was read.                                  *)
LEMMA GpioSays ==
  ASSUME NEW t \in Trees, NEW m \in DOMAIN t, NEW key \in KeyRecords,
         NEW T, T \subseteq Nat, \A x \in T : x < m,
         NEW N, N \subseteq Nat, \A x \in N : x < m, KeySays(key, t, T, {}, N)
  PROVE  KeySays(GpioKey(t, m, key), t, IF GpioKey(t, m, NoKey).valid THEN T \cup {m} ELSE T, {},
                 IF HasGpios(t, m) THEN N \cup {m} ELSE N)
<1> DEFINE new == GpioKey(t, m, key)
           gpio == IF GpioKey(t, m, NoKey).valid THEN T \cup {m} ELSE T
           named == IF HasGpios(t, m) THEN N \cup {m} ELSE N
<1>1. m \in Nat /\ Latest(T \cup {m}) = m /\ Latest(N \cup {m}) = m
  <2>1. m \in Nat
    BY NodesAre
  <2> QED
    BY <2>1, LatestIs
<1>2. (new.valid <=> gpio # {}) /\ (gpio # {} => new.type = GpioKey(t, Latest(gpio), NoKey).type)
  <2>1. CASE GpioKey(t, m, NoKey).valid
    BY <1>1, <2>1, GpioKeyIs
  <2>2. CASE ~GpioKey(t, m, NoKey).valid
    BY <2>2, GpioKeyIs DEF KeySays
  <2> QED
    BY <2>1, <2>2
<1>3. LET last == IF named = {} THEN NoKey ELSE GpioKey(t, Latest(named), NoKey)
      IN  new.gpio = last.gpio /\ new.low = last.low
  <2>1. CASE HasGpios(t, m)
    BY <1>1, <2>1, GpioKeyIs
  <2>2. CASE ~HasGpios(t, m)
    <3>1. new = key
      BY <2>2, GpioKeyIs
    <3> QED
      BY <2>2, <3>1 DEF KeySays
  <2> QED
    BY <2>1, <2>2
<1> HIDE DEF new, gpio, named
<1>4. KeySays(new, t, gpio, {}, named)
  BY <1>2, <1>3 DEF KeySays
<1> QED
  BY <1>4 DEF new, gpio, named

LEMMA PonSays ==
  ASSUME NEW t \in Trees, NEW m \in DOMAIN t, NEW key \in KeyRecords, NEW T, T \subseteq Nat,
         \A x \in T : x < m, NEW gpio, NEW named, KeySays(key, t, gpio, T, named)
  PROVE  KeySays(PonKey(t, m, key), t, gpio, IF PonKey(t, m, NoKey).valid THEN T \cup {m} ELSE T,
                 named)
<1>1. m \in Nat
  BY NodesAre
<1>2. CASE HasPonType(t, m)
  <2>1. PICK new : new = PonKey(t, m, key)
    OBVIOUS
  <2>2. /\ PonKey(t, m, NoKey).valid /\ new.valid /\ new.type = "PON"
        /\ new.pon = PonKey(t, m, NoKey).pon
        /\ new.gpio = key.gpio /\ new.low = key.low
    BY <1>2, <2>1, PonKeyIs
  <2>3. Latest(T \cup {m}) = m
    BY <1>1, LatestIs
  <2>4. KeySays(new, t, gpio, T \cup {m}, named)
    BY <2>2, <2>3 DEF KeySays
  <2> QED
    BY <2>1, <2>2, <2>4
<1>3. CASE ~HasPonType(t, m)
  BY <1>3, PonKeyIs DEF KeySays
<1> QED
  BY <1>2, <1>3

LEMMA ReadKeyKeeps ==
  ASSUME FdtInv, ReadKey
  PROVE  FdtInv'
<1>0. PICK s : s = fdt.string
  OBVIOUS
<1> DEFINE t == fdt.tree
           m == fdt.sub
           code == KeyCode(t, m)
           key  == fdt.keys[code]
           new  == IF s = GpioKeysNode THEN GpioKey(t, m, key) ELSE PonKey(t, m, key)
           says == IF s = GpioKeysNode THEN GpioKey(t, m, NoKey).valid ELSE PonKey(t, m, NoKey).valid
<1>1. FdtTypes /\ WhereItIs /\ KeysSoFar /\ BussesSoFar /\ BussesAreTheTrees
  BY DEF FdtInv
<1>2. /\ t \in Trees /\ fdt.node \in DOMAIN t /\ fdt.node \in Nat
      /\ fdt.pc = "key" /\ s \in {GpioKeysNode, PonNode}
      /\ Compatible(t, fdt.node, s) /\ m \in Subnodes(t, fdt.node) /\ t[m].ok
  BY <1>0, <1>1 DEF FdtTypes, WhereItIs, ReadKey
<1>3. m \in 2..Len(t) /\ ParentNode(t, m) = fdt.node /\ m \in DOMAIN t /\ m \in Nat
      /\ fdt.node < m
  <2>1. m \in 2..Len(t) /\ ParentNode(t, m) = fdt.node
    BY <1>2 DEF Subnodes
  <2> QED
    BY <1>2, <2>1, ParentIs, NodesAre
<1>4. \A x \in Read(s) : x < m /\ x \in Nat
  <2> SUFFICES ASSUME NEW x \in Read(s) PROVE x < m /\ x \in Nat
    OBVIOUS
  <2>1. x \in 2..Len(t) /\ Compatible(t, ParentNode(t, x), s)
        /\ (ParentNode(t, x) < fdt.node \/ x < m)
    BY <1>0, <1>2, LoopsDiffer DEF Read, Passed
  <2>2. ParentNode(t, x) < fdt.node => x < fdt.node
    BY <1>2, <2>1, DevicesAreApart
  <2> QED
    BY <1>2, <1>3, <2>1, <2>2
<1>5. fdt' = IF code \notin Keys THEN [fdt EXCEPT !.pc = "sibling"]
             ELSE [fdt EXCEPT !.pc = "sibling", !.keys[code] = new]
  BY <1>0 DEF ReadKey
<1>6. code \in Keys => key \in KeyRecords /\ new \in KeyRecords
  <2> SUFFICES ASSUME code \in Keys PROVE key \in KeyRecords /\ new \in KeyRecords
    OBVIOUS
  <2>1. key \in KeyRecords
    BY <1>1 DEF FdtTypes
  <2> QED
    BY <1>2, <1>3, <2>1, GpioKeyIs, PonKeyIs
<1> HIDE DEF new, says
<1>7. /\ fdt'.tree = t /\ fdt'.busses = fdt.busses /\ fdt'.pins = fdt.pins
      /\ fdt'.string = s /\ fdt'.node = fdt.node /\ fdt'.sub = m /\ fdt'.pc = "sibling"
      /\ code \in Keys => fdt'.keys[code] = new
      /\ \A c \in Keys : c # code => fdt'.keys[c] = fdt.keys[c]
  BY <1>0, <1>1, <1>5 DEF FdtTypes
<1>8. FdtTypes'
  BY <1>1, <1>5, <1>6, <1>7 DEF FdtTypes
<1>9. WhereItIs' /\ BussesSoFar' /\ BussesAreTheTrees'
  BY <1>0, <1>1, <1>2, <1>7, BussesStay, LoopsDiffer DEF WhereItIs, BussesSoFar
<1>10. Read(s)' = Read(s) \cup {m}
  <2> SUFFICES ASSUME NEW x \in 2..Len(t)
               PROVE  x \in Read(s)' <=> x \in Read(s) \/ x = m
    BY <1>3, <1>7 DEF Read
  <2>1. x \in Nat
    OBVIOUS
  <2>2. x <= m <=> x < m \/ x = m
    BY <1>3, <2>1
  <2>3. ~Passed(s) /\ ~Passed(s)'
    BY <1>0, <1>2, <1>7, LoopsDiffer DEF Passed
  <2>4. x \in Read(s)' <=> /\ Compatible(t, ParentNode(t, x), s)
                           /\ ParentNode(t, x) < fdt.node \/ (ParentNode(t, x) = fdt.node /\ x <= m)
    BY <1>7, <2>3 DEF Read
  <2>5. x \in Read(s) <=> /\ Compatible(t, ParentNode(t, x), s)
                          /\ ParentNode(t, x) < fdt.node \/ (ParentNode(t, x) = fdt.node /\ x < m)
    BY <1>0, <1>2, <2>3 DEF Read
  <2> QED
    BY <1>2, <1>3, <2>2, <2>4, <2>5
<1>11. \A r \in {GpioKeysNode, PonNode} : r # s => Read(r)' = Read(r)
  BY <1>0, <1>7 DEF Read, Passed
<1>12. s = GpioKeysNode => Read(PonNode) = {}
  BY <1>0, LoopsDiffer DEF Read, Passed
<1>13. \A c \in Keys : Describes(t, m, s, c) <=> (c = code /\ says)
  <2>1. m > 1 /\ t[fdt.node].ok /\ s \in Range(t[fdt.node].compatible)
    BY <1>2, <1>3 DEF Compatible, Range
  <2> QED
    BY <1>2, <1>3, <2>1 DEF Describes, Belongs, says
<1>14. ASSUME NEW c \in Keys
       PROVE  Told(s, c)' = IF c = code /\ says THEN Told(s, c) \cup {m} ELSE Told(s, c)
  BY <1>7, <1>10, <1>13 DEF Told
<1>15. ASSUME NEW c \in Keys, NEW r \in {GpioKeysNode, PonNode}, r # s
       PROVE  Told(r, c)' = Told(r, c)
  BY <1>7, <1>11, <1>15 DEF Told
<1>16. \A c \in Keys : Told(s, c) \subseteq Nat /\ \A x \in Told(s, c) : x < m
  BY <1>4 DEF Told
<1>17. ASSUME NEW c \in Keys
       PROVE  Named(c)' = IF s = GpioKeysNode /\ c = code /\ HasGpios(t, m) THEN Named(c) \cup {m}
                          ELSE Named(c)
  <2>1. CASE s = GpioKeysNode
    <3>1. m > 1 /\ t[fdt.node].ok /\ s \in Range(t[fdt.node].compatible)
      BY <1>2, <1>3 DEF Compatible, Range
    <3>2. Names(t, m, c) <=> c = code /\ HasGpios(t, m)
      BY <1>2, <1>3, <2>1, <3>1 DEF Names, Belongs
    <3> QED
      BY <1>7, <1>10, <2>1, <3>2 DEF Named
  <2>2. CASE s # GpioKeysNode
    BY <1>7, <1>11, <2>2 DEF Named
  <2> QED
    BY <2>1, <2>2
<1>18. s = GpioKeysNode => \A c \in Keys : Named(c) \subseteq Nat /\ \A x \in Named(c) : x < m
  BY <1>4 DEF Named
<1>19. ASSUME NEW c \in Keys
       PROVE  KeySays(fdt'.keys[c], t, Told(GpioKeysNode, c)', Told(PonNode, c)', Named(c)')
  <2>1. KeySays(fdt.keys[c], t, Told(GpioKeysNode, c), Told(PonNode, c), Named(c))
    BY <1>1 DEF KeysSoFar
  <2>2. CASE c # code
    BY <1>2, <1>7, <1>14, <1>15, <1>17, <2>1, <2>2
  <2>3. CASE c = code /\ s = GpioKeysNode
    <3>1. Told(PonNode, c) = {} /\ Told(PonNode, c)' = {}
      <4>1. Told(PonNode, c) = {}
        BY <1>12, <2>3 DEF Told
      <4> QED
        BY <1>15, <2>3, <4>1, LoopsDiffer
    <3>2. fdt'.keys[c] = GpioKey(t, m, key) /\ (says <=> GpioKey(t, m, NoKey).valid)
      BY <1>7, <2>3 DEF new, says
    <3>3. KeySays(GpioKey(t, m, key), t,
                  IF GpioKey(t, m, NoKey).valid THEN Told(s, c) \cup {m} ELSE Told(s, c), {},
                  IF HasGpios(t, m) THEN Named(c) \cup {m} ELSE Named(c))
      BY <1>2, <1>3, <1>6, <1>16, <1>18, <2>1, <2>3, <3>1, GpioSays
    <3> QED
      BY <1>14, <1>17, <2>3, <3>1, <3>2, <3>3
  <2>4. CASE c = code /\ s # GpioKeysNode
    <3>1. s = PonNode /\ Told(GpioKeysNode, c)' = Told(GpioKeysNode, c)
      BY <1>2, <1>15, <2>4
    <3>2. fdt'.keys[c] = PonKey(t, m, key) /\ (says <=> PonKey(t, m, NoKey).valid)
      BY <1>7, <2>4 DEF new, says
    <3>3. KeySays(PonKey(t, m, key), t, Told(GpioKeysNode, c),
                  IF PonKey(t, m, NoKey).valid THEN Told(s, c) \cup {m} ELSE Told(s, c), Named(c))
      BY <1>2, <1>3, <1>6, <1>16, <2>1, <2>4, <3>1, PonSays
    <3> QED
      BY <1>14, <1>17, <2>4, <3>1, <3>2, <3>3
  <2> QED
    BY <2>2, <2>3, <2>4
<1>20. KeysSoFar'
  BY <1>7, <1>19 DEF KeysSoFar
<1> QED
  BY <1>8, <1>9, <1>20 DEF FdtInv

(* Induction up to a bound, for a property given as the set of what has it.*)
LEMMA UpToN ==
  ASSUME NEW N \in Nat, NEW T, 0 \in T,
         \A m \in 1..N : m - 1 \in T => m \in T
  PROVE  0..N \subseteq T
<1> DEFINE Bad == (0..N) \ T
<1>1. SUFFICES ASSUME Bad # {} PROVE FALSE
  OBVIOUS
<1>2. PICK m \in Bad : \A k \in Bad : m <= k
  <2>1. Bad \subseteq Nat
    OBVIOUS
  <2> HIDE DEF Bad
  <2> QED
    BY <1>1, <2>1, LeastNatural
<1>3. m \in 1..N /\ m - 1 \in 0..N /\ ~(m <= m - 1)
  BY <1>2
<1>4. m - 1 \in T
  BY <1>2, <1>3
<1> QED
  BY <1>2, <1>3, <1>4

(* The pins of a bus: a group of pins that is complete is set, and no pin  *)
(* is forgotten.                                                           *)
Configured(t, n, pins) == IF PinsComplete(t, n) THEN PinSettings(t, n, pins) ELSE pins

LEMMA ConfiguredHas ==
  ASSUME NEW t, NEW n, NEW pins
  PROVE  /\ DOMAIN pins \subseteq DOMAIN Configured(t, n, pins)
         /\ PinsComplete(t, n) => PinCells(t, ParentNode(t, n)) \subseteq DOMAIN Configured(t, n, pins)
<1>1. DOMAIN PinSettings(t, n, pins) = PinCells(t, ParentNode(t, n)) \cup DOMAIN pins
  BY Zenon DEF PinSettings
<1> QED
  BY <1>1 DEF Configured

LEMMA PinsAreConfigured ==
  ASSUME NEW t \in Trees, NEW h \in Seq(Int)
  PROVE  /\ DOMAIN fdt.pins \subseteq DOMAIN ConfigurePins(t, h)
         /\ \A k \in DOMAIN h :
              LET pin == FindNodeByPHandle(t, h[k])
              IN  PinsComplete(t, pin) =>
                    PinCells(t, ParentNode(t, pin)) \subseteq DOMAIN ConfigurePins(t, h)
<1> DEFINE N == Len(h)
           Next(pins, i) == Configured(t, FindNodeByPHandle(t, h[i]), pins)
           Is(g, n) == g = [i \in 0..n |-> IF i = 0 THEN fdt.pins ELSE Next(g[i - 1], i)]
           Reached  == {n \in 0..N : \E g : Is(g, n)}
<1>1. N \in Nat /\ DOMAIN h = 1..N
  OBVIOUS
<1> HIDE DEF N, Next
<1>2. 0 \in Reached
  <2> DEFINE g == [i \in 0..0 |-> fdt.pins]
  <2>1. Is(g, 0)
    OBVIOUS
  <2> HIDE DEF Is, g
  <2> QED
    BY <1>1, <2>1
<1>3. ASSUME NEW n \in 1..N, n - 1 \in Reached PROVE n \in Reached
  <2>1. PICK f : Is(f, n - 1)
    BY <1>3
  <2> DEFINE g == [i \in 0..n |-> IF i = n THEN Next(f[n - 1], n) ELSE f[i]]
  <2>2. n \in Nat /\ n # 0 /\ n \in 0..N
    BY <1>1
  <2>3. ASSUME NEW i \in 0..n PROVE g[i] = IF i = 0 THEN fdt.pins ELSE Next(g[i - 1], i)
    <3>1. CASE i = n
      <4>1. n - 1 \in 0..n /\ n - 1 # n
        BY <2>2
      <4> QED
        BY <2>2, <3>1, <4>1
    <3>2. CASE i # n
      <4>1. i \in 0..(n - 1) /\ g[i] = f[i]
        BY <2>2, <3>2
      <4>2. f[i] = IF i = 0 THEN fdt.pins ELSE Next(f[i - 1], i)
        BY <2>1, <4>1
      <4>3. i # 0 => i - 1 \in 0..n /\ i - 1 # n
        BY <2>2, <3>2
      <4> QED
        BY <4>1, <4>2, <4>3
    <3> QED
      BY <3>1, <3>2
  <2>4. Is(g, n)
    BY <2>3
  <2> HIDE DEF Is, g
  <2> QED
    BY <2>2, <2>4
<1>4. 0..N \subseteq Reached
  <2> HIDE DEF Reached
  <2> QED
    BY <1>1, <1>2, <1>3, UpToN
<1>5. \E g : Is(g, N)
  <2>1. N \in Reached
    <3> HIDE DEF Reached
    <3> QED
      BY <1>1, <1>4
  <2> HIDE DEF Is
  <2> QED
    BY <2>1
<1>6. PICK done : Is(done, N) /\ ConfigurePins(t, h) = done[N]
  <2>1. ConfigurePins(t, h) = (CHOOSE g : Is(g, N))[N]
    BY Zenon DEF ConfigurePins, Configured, Next, N
  <2> HIDE DEF Is
  <2> QED
    BY <1>5, <2>1
<1>7. /\ done[0] = fdt.pins
      /\ \A i \in 1..N : done[i] = Next(done[i - 1], i)
  <2>1. \A i \in 0..N : done[i] = IF i = 0 THEN fdt.pins ELSE Next(done[i - 1], i)
    BY ONLY <1>6
  <2> HIDE DEF Is
  <2> QED
    BY <1>1, <2>1
<1> HIDE DEF Is
<1>8. ASSUME NEW i \in 1..N
      PROVE  /\ DOMAIN done[i - 1] \subseteq DOMAIN done[i]
             /\ LET pin == FindNodeByPHandle(t, h[i])
                IN  PinsComplete(t, pin) =>
                      PinCells(t, ParentNode(t, pin)) \subseteq DOMAIN done[i]
  BY <1>7, ConfiguredHas DEF Next
<1> DEFINE Kept == {i \in 0..N :
             /\ DOMAIN fdt.pins \subseteq DOMAIN done[i]
             /\ \A k \in 1..i :
                  LET pin == FindNodeByPHandle(t, h[k])
                  IN  PinsComplete(t, pin) => PinCells(t, ParentNode(t, pin)) \subseteq DOMAIN done[i]}
<1>9. 0 \in Kept
  BY <1>1, <1>7
<1>10. ASSUME NEW i \in 1..N, i - 1 \in Kept PROVE i \in Kept
  <2>1. i \in 0..N /\ \A k \in 1..i : k = i \/ k \in 1..(i - 1)
    BY <1>1
  <2> QED
    BY <1>8, <1>10, <2>1
<1>11. 0..N \subseteq Kept
  <2> HIDE DEF Kept, N
  <2> QED
    BY <1>1, <1>9, <1>10, UpToN
<1>12. N \in 0..N
  BY <1>1
<1>13. N \in Kept
  <2> HIDE DEF Kept, N
  <2> QED
    BY <1>11, <1>12
<1> QED
  BY <1>1, <1>6, <1>13

-----------------------------------------------------------------------------
(* The nodes a bus could be from.                                          *)
LEMMA BussesAtIs ==
  ASSUME NEW t \in Trees, NEW n \in Busses(t)
  PROVE  /\ BussesAt(t, BusOf(t, n)) = {n} /\ Cardinality({n}) = 1
         /\ n \in DOMAIN t /\ n \in Nat /\ BusPins(t, n) \in Seq(Int)
<1>1. n \in DOMAIN t /\ Compatible(t, n, I2cNode) /\ BusDescribed(t, n)
  BY DEF Busses
<1>2. \A x \in DOMAIN t : Compatible(t, x, I2cNode)
                            <=> t[x].ok /\ I2cNode \in Range(t[x].compatible)
  BY DEF Compatible, Range
<1>3. BusOf(t, n).base = BusBase(t, n)
  BY DEF BusOf
<1>4. BussesAt(t, BusOf(t, n)) = {x \in Busses(t) : BusBase(t, x) = BusBase(t, n)}
  BY <1>2, <1>3 DEF BussesAt, Busses
<1>5. \A x \in Busses(t) : BusBase(t, x) = BusBase(t, n) => x = n
  BY TreesAssumption
<1>6. Cardinality({n}) = 1
  BY FS_Singleton
<1>7. BusPins(t, n) \in Seq(Int)
  BY <1>1, PropertyIs DEF BusDescribed, BusPins
<1> QED
  BY <1>1, <1>4, <1>5, <1>6, <1>7, NodesAre

LEMMA AddBusKeeps ==
  ASSUME FdtInv, AddBus
  PROVE  FdtInv'
<1> DEFINE t == fdt.tree
           n == fdt.node
           bus == BusOf(t, n)
           pins == ConfigurePins(t, BusPins(t, n))
<1>1. FdtTypes /\ WhereItIs /\ KeysSoFar /\ BussesSoFar /\ BussesAreTheTrees
  BY DEF FdtInv
<1>2. /\ t \in Trees /\ n \in DOMAIN t /\ n \in Nat
      /\ fdt.pc = "bus" /\ fdt.string = I2cNode /\ Compatible(t, n, I2cNode)
      /\ fdt.busses \in Seq(BussesOf(t))
  BY <1>1 DEF FdtTypes, WhereItIs, AddBus
<1>3. \A i \in DOMAIN fdt.busses : \A x \in BussesAt(t, fdt.busses[i]) : x < n
  BY <1>1, <1>2, LoopsDiffer DEF BussesSoFar
<1>4. ASSUME fdt'.tree = t, fdt'.keys = fdt.keys, fdt'.string = I2cNode, fdt'.node = n,
             fdt'.pc = "next"
      PROVE  WhereItIs' /\ KeysSoFar'
  <2>1. \A s \in {GpioKeysNode, PonNode} : Read(s)' = Read(s)
    BY <1>2, <1>4, LoopsDiffer DEF Read, Passed
  <2>2. WhereItIs'
    BY <1>4, LoopsDiffer DEF WhereItIs
  <2> QED
    BY <1>1, <1>4, <2>1, <2>2, KeysStay
<1>5. ASSUME fdt'.tree = t, fdt'.string = I2cNode, fdt'.node = n, fdt'.pc = "next",
             fdt'.busses = fdt.busses, DOMAIN fdt.pins \subseteq DOMAIN fdt'.pins
      PROVE  BussesSoFar' /\ BussesAreTheTrees'
  <2>1. \A b : \A x \in BussesAt(t, b) : x \in Nat
    BY <1>2, NodesAre DEF BussesAt
  <2>2. BussesSoFar'
    <3>1. ASSUME NEW i \in DOMAIN fdt.busses, NEW x \in BussesAt(t, fdt.busses[i])
          PROVE  x <= n
      <4>1. x < n /\ x \in Nat
        BY <1>3, <2>1
      <4> QED
        BY <1>2, <4>1
    <3> QED
      BY <1>5, <3>1, LoopsDiffer DEF BussesSoFar
  <2>3. \A x : PinsAreSet(t, x) => PinsAreSet(t, x)'
    BY <1>5 DEF PinsAreSet
  <2>4. BussesAreTheTrees'
    BY <1>1, <1>5, <2>3 DEF BussesAreTheTrees
  <2> QED
    BY <2>2, <2>4
<1>6. CASE ~BusDescribed(t, n)
  <2>1. fdt' = [fdt EXCEPT !.pc = "next"]
    BY <1>6 DEF AddBus
  <2>2. /\ fdt'.tree = t /\ fdt'.keys = fdt.keys /\ fdt'.string = I2cNode /\ fdt'.node = n
        /\ fdt'.pc = "next" /\ fdt'.busses = fdt.busses /\ fdt'.pins = fdt.pins
    BY <1>1, <1>2, <2>1 DEF FdtTypes
  <2>3. FdtTypes'
    BY <1>1, <2>1, <2>2 DEF FdtTypes
  <2> QED
    BY <1>4, <1>5, <2>2, <2>3 DEF FdtInv
<1>7. CASE BusDescribed(t, n)
  <2>1. n \in Busses(t)
    BY <1>2, <1>7 DEF Busses
  <2>2. /\ BussesAt(t, bus) = {n} /\ Cardinality({n}) = 1 /\ BusPins(t, n) \in Seq(Int)
        /\ bus \in BussesOf(t)
    BY <1>2, <2>1, BussesAtIs DEF BussesOf
  <2>3. /\ DOMAIN fdt.pins \subseteq DOMAIN pins
        /\ \A k \in DOMAIN BusPins(t, n) :
             LET pin == FindNodeByPHandle(t, BusPins(t, n)[k])
             IN  PinsComplete(t, pin) => PinCells(t, ParentNode(t, pin)) \subseteq DOMAIN pins
    BY <1>2, <2>2, PinsAreConfigured
  <2>4. fdt' \in {[fdt EXCEPT !.pc = "next", !.pins = pins],
                  [[fdt EXCEPT !.pc = "next", !.pins = pins] EXCEPT !.busses = Append(@, bus)]}
    BY <1>7 DEF AddBus
  <2> HIDE DEF pins, bus
  <2>5. CASE fdt' = [fdt EXCEPT !.pc = "next", !.pins = pins]
    <3>1. /\ fdt'.tree = t /\ fdt'.keys = fdt.keys /\ fdt'.string = I2cNode /\ fdt'.node = n
          /\ fdt'.pc = "next" /\ fdt'.busses = fdt.busses /\ fdt'.pins = pins
      BY <1>1, <1>2, <2>5 DEF FdtTypes
    <3>2. FdtTypes'
      BY <1>1, <2>5, <3>1 DEF FdtTypes
    <3> QED
      BY <1>4, <1>5, <2>3, <3>1, <3>2 DEF FdtInv
  <2>6. CASE fdt' = [[fdt EXCEPT !.pc = "next", !.pins = pins] EXCEPT !.busses = Append(@, bus)]
    <3> DEFINE all == Append(fdt.busses, bus)
               last == Len(fdt.busses) + 1
    <3>1. /\ all \in Seq(BussesOf(t)) /\ DOMAIN all = 1..last /\ last \in Nat /\ all[last] = bus
          /\ DOMAIN fdt.busses = 1..(last - 1)
          /\ \A i \in DOMAIN fdt.busses : all[i] = fdt.busses[i]
      BY <1>2, <2>2
    <3>2. /\ fdt'.tree = t /\ fdt'.keys = fdt.keys /\ fdt'.string = I2cNode /\ fdt'.node = n
          /\ fdt'.pc = "next" /\ fdt'.busses = all /\ fdt'.pins = pins
      BY <1>1, <1>2, <2>6 DEF FdtTypes
    <3>3. FdtTypes'
      BY <1>1, <2>6, <3>1, <3>2 DEF FdtTypes
    <3>4. \A i \in 1..last : i = last \/ (i \in DOMAIN fdt.busses /\ i < last)
      BY <3>1
    <3> HIDE DEF all, last
    <3>5. BussesSoFar'
      <4> SUFFICES ASSUME NEW i \in 1..last, NEW x \in BussesAt(t, all[i]) PROVE x <= n
        BY <3>1, <3>2, LoopsDiffer DEF BussesSoFar
      <4>1. CASE i = last
        BY <1>2, <2>2, <3>1, <4>1
      <4>2. CASE i # last
        <5>1. x < n /\ x \in Nat
          BY SMTT(40), <1>2, <1>3, <3>1, <3>4, <4>2, NodesAre DEF BussesAt
        <5> QED
          BY <1>2, <5>1
      <4> QED
        BY <4>1, <4>2
    <3>6. PinsAreSet(t, n)' /\ \A x : PinsAreSet(t, x) => PinsAreSet(t, x)'
      BY <2>3, <3>2 DEF PinsAreSet
    <3>7. ASSUME NEW i \in 1..last
          PROVE  /\ Cardinality(BussesAt(t, all[i])) = 1
                 /\ \A x \in BussesAt(t, all[i]) : PinsAreSet(t, x)'
      <4>1. CASE i = last
        <5>1. BussesAt(t, all[i]) = {n}
          BY <2>2, <3>1, <4>1
        <5>2. Cardinality(BussesAt(t, all[i])) = 1
          BY <2>2, <5>1
        <5>3. \A x \in BussesAt(t, all[i]) : x = n
          BY <5>1
        <5>4. \A x : x = n => PinsAreSet(t, x)'
          BY <2>3, <3>2 DEF PinsAreSet
        <5> QED
          BY <5>2, <5>3, <5>4
      <4>2. CASE i # last
        BY <1>1, <3>1, <3>4, <3>6, <4>2 DEF BussesAreTheTrees
      <4> QED
        BY <4>1, <4>2
    <3>8. ASSUME NEW i \in 1..last, NEW j \in 1..last, i < j,
                 NEW x \in BussesAt(t, all[i]), NEW y \in BussesAt(t, all[j])
          PROVE  x < y
      <4>1. i \in DOMAIN fdt.busses /\ all[i] = fdt.busses[i]
        BY <3>1, <3>4, <3>8
      <4>2. CASE j = last
        BY <1>3, <2>2, <3>1, <4>1, <4>2
      <4>3. CASE j # last
        BY <1>1, <3>1, <3>4, <3>8, <4>1, <4>3 DEF BussesAreTheTrees
      <4> QED
        BY <4>2, <4>3
    <3>9. BussesAreTheTrees'
      BY <3>1, <3>2, <3>7, <3>8 DEF BussesAreTheTrees
    <3> QED
      BY <1>4, <3>2, <3>3, <3>5, <3>9 DEF FdtInv
  <2> QED
    BY <2>4, <2>5, <2>6
<1> QED
  BY <1>6, <1>7

(* At the end every subnode of every device has been read.                 *)
LEMMA FdtInvIsEnough == FdtInv => DevicesAreTheTrees
<1> SUFFICES ASSUME FdtInv, fdt.string = "done" PROVE KeysAreTheTrees
  BY DEF FdtInv, DevicesAreTheTrees, KeysAreTheTrees
<1> DEFINE t == fdt.tree
<1>1. KeysSoFar /\ t \in Trees
  BY DEF FdtInv, FdtTypes
<1>2. \A s : Read(s) = {m \in 2..Len(t) : Compatible(t, ParentNode(t, m), s)}
  BY LoopsDiffer DEF Read, Passed
<1>3. \A s, code : \A m \in 2..Len(t) : Belongs(t, m, s, code) => Compatible(t, ParentNode(t, m), s)
  BY DEF Belongs, Compatible, Range
<1>4. ASSUME NEW s, NEW code \in Keys
      PROVE  Told(s, code) = {m \in 2..Len(t) : Describes(t, m, s, code)}
  BY <1>2, <1>3 DEF Told, Describes
<1>5. ASSUME NEW code \in Keys
      PROVE  Named(code) = {m \in 2..Len(t) : Names(t, m, code)}
  BY <1>2, <1>3 DEF Named, Names
<1> QED
  BY ZenonT(60), <1>1, <1>4, <1>5 DEF KeysSoFar, KeysAreTheTrees

(* DevicesAreTheTrees: whatever the board's tree, when the walks are over  *)
(* a key is valid if an enabled subnode of an enabled node describes it,   *)
(* and is read from the controller that the last one names; its GPIO and   *)
(* polarity are of the last node that has a "gpios" for it, refused or     *)
(* not; the busses are there once each, in the order of their nodes, with  *)
(* their pins set.                                                         *)
THEOREM DriversFindTheirDevices == FdtSpec => []DevicesAreTheTrees
<1>1. FdtInv /\ [FdtNext]_fdtVars => FdtInv'
  <2> SUFFICES ASSUME FdtInv, [FdtNext]_fdtVars PROVE FdtInv'
    OBVIOUS
  <2>1. CASE UNCHANGED fdtVars
    <3>1. fdt' = fdt
      BY <2>1 DEF fdtVars
    <3>2. FdtTypes' /\ WhereItIs' /\ BussesSoFar'
      BY <3>1 DEF FdtInv, FdtTypes, WhereItIs, BussesSoFar
    <3>3. \A s \in {GpioKeysNode, PonNode} : Read(s)' = Read(s)
      BY <3>1 DEF Read, Passed
    <3> QED
      BY <3>1, <3>2, <3>3, KeysStay, BussesStay DEF FdtInv
  <2>2. CASE FindNext
    BY <2>2, FindNextKeeps
  <2>3. CASE FindSubNode
    BY <2>3, ComesToKeeps DEF FindSubNode
  <2>4. CASE FindNextSubNode
    BY <2>4, ComesToKeeps DEF FindNextSubNode
  <2>5. CASE ReadKey
    BY <2>5, ReadKeyKeeps
  <2>6. CASE AddBus
    BY <2>6, AddBusKeeps
  <2> QED
    BY <2>1, <2>2, <2>3, <2>4, <2>5, <2>6 DEF FdtNext
<1> QED
  BY <1>1, FdtInvInit, FdtInvIsEnough, PTL DEF FdtSpec

-----------------------------------------------------------------------------
(* The memory of a board.                                                  *)
(* Every bounded set of naturals has a greatest one.                       *)
LEMMA GreatestNatural ==
  ASSUME NEW T, T \subseteq Nat, T # {}, NEW b \in Nat, \A x \in T : x <= b
  PROVE  \E x \in T : \A y \in T : y <= x
<1> DEFINE back == {b - x : x \in T}
<1>1. back \subseteq Nat /\ back # {}
  <2>1. \A x \in T : b - x \in Nat
    OBVIOUS
  <2>2. PICK x \in T : TRUE
    OBVIOUS
  <2>3. b - x \in back
    OBVIOUS
  <2> QED
    BY <2>1, <2>3
<1>2. PICK z \in back : \A y \in back : z <= y
  <2> HIDE DEF back
  <2> QED
    BY <1>1, LeastNatural
<1>3. PICK x \in T : z = b - x
  OBVIOUS
<1>4. ASSUME NEW y \in T PROVE y <= x
  <2>1. b - y \in back
    OBVIOUS
  <2>2. z <= b - y
    BY <1>2, <2>1
  <2>3. x \in Nat /\ y \in Nat
    OBVIOUS
  <2> QED
    BY <1>3, <2>2, <2>3
<1> QED
  BY <1>4

LEMMA NumbersAre ==
  /\ FdSize \in Nat /\ UefiRegionSize \in Nat /\ PageSize \in Nat /\ StackSize \in Nat
  /\ MaxAddress \in Nat /\ CellShift \in Nat /\ TopOfMemory \in Nat
  /\ FdSize > 0 /\ UefiRegionSize > 0 /\ PageSize > 0
  /\ TopOfMemory <= PageSize * CellShift
BY BootMemoryAssumption

(* What a board is.                                                        *)
LEMMA MachineIs ==
  ASSUME NEW m \in Machines
  PROVE  /\ m.tags \in BOOLEAN /\ m.cells \in {1, 2} /\ m.fd \in Nat
         /\ m.ranges \in Seq(Regions) /\ m.removed \in Seq(Regions)
         /\ Ranges(m) \subseteq Regions /\ Ranges(m) # {}
         /\ m.nomap \subseteq Regions /\ Removed(m) \subseteq Regions
         /\ \A r \in Ranges(m) : End(r) <= TopOfMemory /\ r.base % PageSize = 0
         /\ \A r, q \in Ranges(m) : r # q => ~Overlap(r, q)
         /\ \E r \in Ranges(m) : Within(Region(m.fd, FdSize), r)
         /\ RoomIn(FindMemnode(m)) >= 2 * UefiRegionSize + FdSize + PageSize
         /\ ~m.tags => /\ \A r \in m.nomap : Within(r, HighestRange(m))
                       /\ \A r \in Removed(m) : Within(r, HighestRange(m))
                       /\ \A r \in m.nomap : ~Overlap(r, Region(m.fd, FdSize))
<1>1. /\ m.tags \in BOOLEAN /\ m.cells \in {1, 2} /\ m.fd \in Nat
      /\ m.ranges \in Seq(Regions) \ {<<>>} /\ m.removed \in Seq(Regions)
      /\ m.nomap \subseteq Regions
      /\ \A r \in Ranges(m) : End(r) <= TopOfMemory /\ r.base % PageSize = 0
      /\ \A i, j \in DOMAIN m.ranges : i # j => ~Overlap(m.ranges[i], m.ranges[j])
      /\ \E r \in Ranges(m) : Within(Region(m.fd, FdSize), r)
      /\ RoomIn(FindMemnode(m)) >= 2 * UefiRegionSize + FdSize + PageSize
      /\ ~m.tags => /\ \A r \in m.nomap \cup Removed(m) : Within(r, HighestRange(m))
                    /\ \A r \in m.nomap : ~Overlap(r, Region(m.fd, FdSize))
  BY BootMemoryAssumption
<1>2. Ranges(m) \subseteq Regions /\ Removed(m) \subseteq Regions
  BY <1>1 DEF Ranges, Removed
<1>3. Ranges(m) # {}
  <2>1. 1 \in DOMAIN m.ranges
    BY <1>1
  <2> QED
    BY <2>1 DEF Ranges
<1>4. \A r, q \in Ranges(m) : r # q => ~Overlap(r, q)
  BY <1>1 DEF Ranges
<1> QED
  BY <1>1, <1>2, <1>3, <1>4

LEMMA RegionIs ==
  ASSUME NEW r \in Regions
  PROVE  /\ r.base \in Nat /\ r.size \in Nat /\ r.size > 0
         /\ End(r) = r.base + r.size /\ End(r) \in Nat /\ r.base < End(r)
BY DEF Regions, End

LEMMA RegionHas ==
  ASSUME NEW b, NEW n
  PROVE  Region(b, n).base = b /\ Region(b, n).size = n /\ End(Region(b, n)) = b + n
BY DEF Region, End

(* What FindMemnode finds: the end of the highest range, above everything  *)
(* that must not be mapped.                                                *)
LEMMA MemnodeIs ==
  ASSUME NEW m \in Machines
  PROVE  LET h == HighestRange(m)
             r == FindMemnode(m)
         IN  /\ h \in Ranges(m) /\ r \in Regions
             /\ h.base <= r.base /\ End(r) = End(h)
             /\ \A q \in Ranges(m) : q.base <= h.base
             /\ ~m.tags => \A n \in m.nomap : End(n) <= r.base
             /\ 2 * UefiRegionSize + FdSize + PageSize <= End(r) - r.base
             /\ 2 * UefiRegionSize + FdSize + PageSize <= MaxAddress + 1 - r.base
<1> DEFINE h == HighestRange(m)
           r == FindMemnode(m)
           bases == {q.base : q \in Ranges(m)}
<1>1. bases \subseteq Nat /\ bases # {} /\ \A x \in bases : x <= TopOfMemory
  <2>1. ASSUME NEW q \in Ranges(m) PROVE q.base \in Nat /\ q.base <= TopOfMemory
    <3>1. q \in Regions /\ End(q) <= TopOfMemory
      BY MachineIs
    <3> QED
      BY <3>1, RegionIs, NumbersAre
  <2> QED
    BY <2>1, MachineIs
<1>2. PICK b \in bases : \A y \in bases : y <= b
  <2> HIDE DEF bases
  <2> QED
    BY <1>1, NumbersAre, GreatestNatural
<1>3. h \in Ranges(m) /\ \A q \in Ranges(m) : q.base <= h.base
  BY <1>2 DEF HighestRange
<1>4. h \in Regions
  BY <1>3, MachineIs
<1> HIDE DEF h
<1>6. ASSUME ~m.tags
      PROVE  /\ r \in Regions /\ h.base <= r.base /\ End(r) = End(h)
             /\ \A n \in m.nomap : End(n) <= r.base
  <2> DEFINE ends == {End(n) : n \in m.nomap} \cup {0}
  <2>1. ASSUME NEW n \in m.nomap PROVE End(n) \in Nat /\ End(n) <= End(h)
    <3>1. n \in Regions /\ Within(n, h)
      BY <1>6, MachineIs DEF h
    <3> QED
      BY <3>1, RegionIs DEF Within
  <2>2. End(h) \in Nat
    BY <1>4, RegionIs
  <2>3. ends \subseteq Nat /\ ends # {} /\ \A e \in ends : e <= End(h)
    BY <2>1, <2>2
  <2>4. PICK e \in ends : \A f \in ends : f <= e
    <3> HIDE DEF ends
    <3> QED
      BY <2>2, <2>3, GreatestNatural
  <2>5. HighestNoMap(m) \in ends /\ \A f \in ends : f <= HighestNoMap(m)
    BY <2>4 DEF HighestNoMap
  <2> DEFINE top == HighestNoMap(m)
  <2>6. top \in Nat /\ top <= End(h) /\ \A n \in m.nomap : End(n) <= top
    BY <2>3, <2>5
  <2> HIDE DEF ends, top
  <2>7. r = From(h, top)
    BY <1>6 DEF FindMemnode, h, top
  <2>8. /\ h.base \in Nat /\ h.size \in Nat /\ h.size > 0 /\ End(h) = h.base + h.size
        /\ End(h) \in Nat /\ h.base < End(h)
    BY <1>4, RegionIs
  <2>9. h.base <= r.base /\ End(r) = End(h) /\ top <= r.base
    <3>1. CASE h.base < top
      <4>1. r = Region(top, h.size - (top - h.base))
        BY <2>7, <3>1 DEF From
      <4>2. r.base = top /\ End(r) = top + (h.size - (top - h.base))
        BY <4>1, RegionHas
      <4> QED
        BY <4>2, <2>6, <2>8, <3>1
    <3>2. CASE ~(h.base < top)
      BY <2>6, <2>7, <2>8, <3>2 DEF From
    <3> QED
      BY <3>1, <3>2
  <2>10. r.base \in Nat /\ r = Region(r.base, r.size) /\ r.size \in Int
    <3>1. CASE h.base < top
      <4>1. r = Region(top, h.size - (top - h.base))
        BY <2>7, <3>1 DEF From
      <4> QED
        BY <4>1, <2>6, <2>8 DEF Region
    <3>2. CASE ~(h.base < top)
      <4>1. r = h
        BY <2>7, <3>2 DEF From
      <4> QED
        BY <4>1, <1>4 DEF Region, Regions
    <3> QED
      BY <3>1, <3>2
  <2>11. \A n \in m.nomap : End(n) <= r.base
    BY <2>1, <2>6, <2>9, <2>10
  <2>12. End(r) - r.base > 0
    <3>1. LeastOf(End(r), MaxAddress + 1) - r.base >= 2 * UefiRegionSize + FdSize + PageSize
      BY MachineIs DEF RoomIn, r
    <3> QED
      BY <3>1, NumbersAre, <2>8, <2>9, <2>10 DEF LeastOf
  <2>13. r \in Regions
    <3>1. r.size > 0
      <4>1. End(r) = r.base + r.size
        BY DEF End
      <4> QED
        BY <4>1, <2>10, <2>12
    <3> QED
      BY <2>10, <3>1 DEF Region, Regions
  <2> QED
    BY <1>6, <2>9, <2>11, <2>13
<1>7. r \in Regions /\ h.base <= r.base /\ End(r) = End(h)
      /\ (~m.tags => \A n \in m.nomap : End(n) <= r.base)
  <2>1. CASE m.tags
    <3>1. r = h
      BY <2>1 DEF FindMemnode, h
    <3> QED
      BY <3>1, <1>4, RegionIs, <2>1
  <2> QED
    BY <2>1, <1>6
<1>8. /\ 2 * UefiRegionSize + FdSize + PageSize <= End(r) - r.base
      /\ 2 * UefiRegionSize + FdSize + PageSize <= MaxAddress + 1 - r.base
  <2>1. LeastOf(End(r), MaxAddress + 1) - r.base >= 2 * UefiRegionSize + FdSize + PageSize
    BY MachineIs DEF RoomIn, r
  <2>2. r.base \in Nat /\ End(r) \in Nat
    BY <1>7, RegionIs
  <2> HIDE DEF r
  <2> QED
    BY <2>1, <2>2, NumbersAre DEF LeastOf
<1> QED
  BY <1>3, <1>7, <1>8 DEF h

-----------------------------------------------------------------------------
(* The region above system memory, the firmware, and the pieces of it the  *)
(* core is told of.                                                        *)
SysParts(s) ==
  IF End(s) - 1 > MaxAddress
  THEN {Region(s.base, MaxAddress - s.base + 1),
        Region(MaxAddress + 1, End(s) - MaxAddress - 1)}
  ELSE {s}

LEMMA PartsAre ==
  ASSUME NEW s \in Regions, s.base <= MaxAddress
  PROVE  /\ SysParts(s) \subseteq Regions
         /\ \A p \in SysParts(s) : Within(p, s)
         /\ \A p, q \in SysParts(s) : p # q => ~Overlap(p, q)
         /\ \A a \in Nat : s.base <= a /\ a < End(s) =>
               \E p \in SysParts(s) : p.base <= a /\ a < End(p)
<1>1. /\ s.base \in Nat /\ s.size \in Nat /\ s.size > 0 /\ End(s) = s.base + s.size
      /\ End(s) \in Nat /\ MaxAddress \in Nat
  BY RegionIs, NumbersAre
<1>2. CASE End(s) - 1 > MaxAddress
  <2> DEFINE lo == Region(s.base, MaxAddress - s.base + 1)
             hi == Region(MaxAddress + 1, End(s) - MaxAddress - 1)
  <2>1. SysParts(s) = {lo, hi}
    BY <1>2 DEF SysParts
  <2>2. /\ lo.base = s.base /\ End(lo) = s.base + (MaxAddress - s.base + 1)
        /\ hi.base = MaxAddress + 1 /\ End(hi) = MaxAddress + 1 + (End(s) - MaxAddress - 1)
    BY RegionHas
  <2>3. /\ MaxAddress - s.base + 1 \in Nat /\ MaxAddress - s.base + 1 > 0
        /\ End(s) - MaxAddress - 1 \in Nat /\ End(s) - MaxAddress - 1 > 0
    BY <1>1, <1>2
  <2>4. lo \in Regions /\ hi \in Regions
    BY <1>1, <2>3 DEF Region, Regions
  <2>5. End(lo) = MaxAddress + 1 /\ End(hi) = End(s)
    BY <1>1, <2>2
  <2> HIDE DEF lo, hi
  <2>6. Within(lo, s) /\ Within(hi, s)
    BY <1>1, <1>2, <2>2, <2>5 DEF Within
  <2>7. ~Overlap(lo, hi) /\ ~Overlap(hi, lo)
    BY <1>1, <2>2, <2>5 DEF Overlap
  <2>8. \A a \in Nat : s.base <= a /\ a < End(s) =>
          (lo.base <= a /\ a < End(lo)) \/ (hi.base <= a /\ a < End(hi))
    BY <1>1, <2>2, <2>5
  <2> QED
    BY <2>1, <2>4, <2>6, <2>7, <2>8
<1>3. CASE ~(End(s) - 1 > MaxAddress)
  <2>1. SysParts(s) = {s}
    BY <1>3 DEF SysParts
  <2>2. Within(s, s)
    BY <1>1 DEF Within
  <2> QED
    BY <2>1, <2>2
<1> QED
  BY <1>2, <1>3

(* Two regions apart have no address in common.                            *)
LEMMA NoSharedAddress ==
  ASSUME NEW r \in Regions, NEW q \in Regions, ~Overlap(r, q), NEW a \in Nat,
         r.base <= a, a < End(r), q.base <= a, a < End(q)
  PROVE  FALSE
BY RegionIs DEF Overlap

(* The firmware starts in memory that is its own.                          *)
LEMMA StackIsFree ==
  ASSUME board \in Machines, sys = FindMemnode(board),
         uefi = Region(StackTop - UefiRegionSize, UefiRegionSize)
  PROVE  /\ \E r \in Ranges(board) : Within(uefi, r)
         /\ Within(uefi, sys)
         /\ Overlap(uefi, Fd) => End(uefi) = Fd.base + 1 \/ End(sys) > MaxAddress
         /\ ~board.tags => \A n \in board.nomap : ~Overlap(uefi, n)
<1>1. PICK m \in Machines : m = board
  OBVIOUS
<1>2. PICK h : h = HighestRange(m)
  OBVIOUS
<1>3. PICK s : s = sys
  OBVIOUS
<1>4. /\ h \in Ranges(m) /\ s \in Regions /\ h.base <= s.base /\ End(s) = End(h)
      /\ ~m.tags => \A n \in m.nomap : End(n) <= s.base
      /\ 2 * UefiRegionSize + FdSize + PageSize <= End(s) - s.base
      /\ 2 * UefiRegionSize + FdSize + PageSize <= MaxAddress + 1 - s.base
  <2>1. s = FindMemnode(m)
    BY <1>1, <1>3
  <2> QED
    BY <2>1, <1>2, MemnodeIs
<1>5. h \in Regions /\ m.fd \in Nat
  BY <1>4, MachineIs
<1>6. /\ h.base \in Nat /\ End(h) \in Nat /\ s.base \in Nat /\ s.size \in Nat
      /\ End(s) = s.base + s.size
  BY <1>4, <1>5, RegionIs
<1> DEFINE last == IF End(s) - 1 > MaxAddress THEN MaxAddress ELSE End(s) - 1
           room == last - (m.fd + FdSize - 1)
<1>7. PICK t : t = StackTop
  OBVIOUS
<1>8. t = IF room < 0 \/ room >= UefiRegionSize
          THEN IF last = MaxAddress THEN last + 1 - PageSize ELSE last + 1
          ELSE m.fd + 1
  BY <1>1, <1>3, <1>7 DEF StackTop
<1>9. /\ last \in Nat /\ last + 1 <= End(s) /\ (last + 1 < End(s) => last = MaxAddress)
      /\ 2 * UefiRegionSize + FdSize + PageSize <= last + 1 - s.base
      /\ (last = MaxAddress => End(s) > MaxAddress)
  BY <1>4, <1>6, NumbersAre
<1> HIDE DEF last
<1>10. /\ t \in Int /\ t <= End(s) /\ s.base + UefiRegionSize <= t
       /\ (t # m.fd + 1 /\ last # MaxAddress => t = last + 1 /\ (room < 0 \/ room >= UefiRegionSize))
  BY <1>5, <1>6, <1>8, <1>9, NumbersAre
<1>11. uefi.base = t - UefiRegionSize /\ End(uefi) = t - UefiRegionSize + UefiRegionSize
  BY <1>7, RegionHas
<1>12. PICK u : u = uefi
  OBVIOUS
<1>13. u.base = t - UefiRegionSize /\ End(u) = t /\ u.base \in Nat /\ s.base <= u.base /\ End(u) <= End(s)
  BY <1>6, <1>10, <1>11, <1>12, NumbersAre
<1>14. Within(u, s) /\ Within(u, h)
  BY <1>4, <1>6, <1>13, <1>10 DEF Within
<1>15. ASSUME ~m.tags, NEW n \in m.nomap PROVE ~Overlap(u, n)
  <2>1. n \in Regions /\ End(n) <= s.base
    BY <1>4, <1>15, MachineIs
  <2> QED
    BY <2>1, <1>6, <1>13, RegionIs DEF Overlap
<1>16. Fd.base = m.fd /\ End(Fd) = m.fd + FdSize
  BY <1>1, RegionHas DEF Fd
<1>17. ASSUME Overlap(u, Fd), End(u) # m.fd + 1, ~(End(s) > MaxAddress)
       PROVE  FALSE
  <2>1. u.base < m.fd + FdSize /\ m.fd < End(u)
    BY <1>16, <1>17 DEF Overlap
  <2>2. t = last + 1 /\ (room < 0 \/ room >= UefiRegionSize)
    BY <1>9, <1>10, <1>13, <1>17
  <2>3. last + 1 = End(s)
    BY <1>6, <1>9, <1>17, NumbersAre
  <2>4. room < 0
    BY <2>1, <2>2, <1>5, <1>9, <1>13, NumbersAre
  <2>5. m.fd < End(h) /\ End(h) < m.fd + FdSize
    BY <2>1, <2>2, <2>3, <2>4, <1>4, <1>5, <1>6, <1>9, <1>13, NumbersAre
  <2>6. PICK r \in Ranges(m) : Within(Region(m.fd, FdSize), r)
    BY MachineIs
  <2>7. r.base <= m.fd /\ m.fd + FdSize <= End(r)
    BY <2>6, RegionHas DEF Within
  <2>8. r \in Regions /\ r.base \in Nat /\ End(r) \in Nat
    BY <2>6, MachineIs, RegionIs
  <2>9. r # h
    BY <2>5, <2>7, <2>8, <1>5, <1>6, NumbersAre
  <2>10. Overlap(r, h)
    BY <2>5, <2>7, <2>8, <1>4, <1>5, <1>6, RegionIs, NumbersAre DEF Overlap
  <2> QED
    BY <2>6, <2>9, <2>10, <1>4, MachineIs
<1> QED
  BY <1>1, <1>3, <1>4, <1>12, <1>14, <1>15, <1>16, <1>17

-----------------------------------------------------------------------------
(* The entries of the table: MemoryMap's own, then one for every region    *)
(* the core was told of after.                                             *)
Entries == [region : [base : Nat, size : Nat], cached : BOOLEAN]

LEMMA EntryHas ==
  ASSUME NEW r, NEW c
  PROVE  Entry(r, c).region = r /\ Entry(r, c).cached = c
BY DEF Entry

AddedOk(m, parts, map, k) ==
  /\ k.gcd \subseteq Regions /\ parts \subseteq k.gcd
  /\ \A r \in k.gcd : r \notin parts => r \in Ranges(m)
  /\ \A r, q \in k.gcd : r # q => ~Overlap(r, q)
  /\ k.mmu \in Seq(Entries) /\ Len(map) <= Len(k.mmu)
  /\ \A i \in 1..Len(map) : k.mmu[i] = map[i]
  /\ \A i \in 1..Len(k.mmu) : i > Len(map) =>
       k.mmu[i].cached /\ k.mmu[i].region \in k.gcd \ parts
  /\ \A r \in k.gcd : r \notin parts =>
       \E i \in 1..Len(k.mmu) : i > Len(map) /\ k.mmu[i].region = r

(* A range the core is told of is one of the board's, or nothing at all.   *)
OfBoard(m, r) == r \in Ranges(m) \/ End(r) > TopOfMemory

LEMMA AddKeepsOk ==
  ASSUME NEW m \in Machines, NEW parts, NEW map \in Seq(Entries), NEW k, AddedOk(m, parts, map, k),
         NEW r, OfBoard(m, r)
  PROVE  AddedOk(m, parts, map, AddMemorySpace(k, r))
<1>1. CASE Refused(k.gcd, r)
  BY <1>1 DEF AddMemorySpace
<1>2. CASE ~Refused(k.gcd, r)
  <2> DEFINE e == Entry(r, TRUE)
  <2>1. PICK n : n = AddMemorySpace(k, r)
    OBVIOUS
  <2>2. n.gcd = k.gcd \cup {r} /\ n.mmu = Append(k.mmu, e)
    BY <1>2, <2>1 DEF AddMemorySpace
  <2>3. r \in Ranges(m) /\ r \in Regions
    <3>1. ~(End(r) > TopOfMemory)
      BY <1>2 DEF Refused
    <3> QED
      BY <3>1, MachineIs DEF OfBoard
  <2>4. \A q \in k.gcd : ~Overlap(r, q)
    BY <1>2 DEF Refused
  <2>5. r \notin k.gcd
    <3>1. Overlap(r, r)
      BY <2>3, RegionIs DEF Overlap
    <3> QED
      BY <2>4, <3>1
  <2>6. k.mmu \in Seq(Entries) /\ Len(map) \in Nat /\ Len(map) <= Len(k.mmu)
        /\ k.gcd \subseteq Regions /\ parts \subseteq k.gcd
    BY DEF AddedOk
  <2>7. e \in Entries /\ e.region = r /\ e.cached = TRUE
    BY <2>3 DEF Entry, Entries, Regions
  <2> HIDE DEF e
  <2>8. PICK l \in Nat : l = Len(k.mmu)
    BY <2>6
  <2>9. /\ n.mmu \in Seq(Entries) /\ Len(n.mmu) = l + 1
        /\ \A i \in 1..l : n.mmu[i] = k.mmu[i]
        /\ n.mmu[l + 1] = e
    BY <2>2, <2>6, <2>7, <2>8
  <2>10. \A q, p \in n.gcd : q # p => ~Overlap(q, p)
    <3>1. \A q, p \in k.gcd : q # p => ~Overlap(q, p)
      BY DEF AddedOk
    <3>2. \A q \in k.gcd : ~Overlap(q, r)
      BY <2>4 DEF Overlap
    <3> QED
      BY <2>2, <2>4, <3>1, <3>2
  <2>11. \A q \in n.gcd : q \notin parts => q \in Ranges(m)
    BY <2>2, <2>3 DEF AddedOk
  <2>12. \A i \in 1..Len(map) : n.mmu[i] = map[i]
    <3>1. \A i \in 1..Len(map) : i \in 1..l /\ k.mmu[i] = map[i]
      BY <2>6, <2>8 DEF AddedOk
    <3> QED
      BY <3>1, <2>9
  <2>13. ASSUME NEW i \in 1..Len(n.mmu), i > Len(map)
         PROVE  n.mmu[i].cached /\ n.mmu[i].region \in n.gcd \ parts
    <3>1. CASE i = l + 1
      BY <3>1, <2>2, <2>5, <2>6, <2>7, <2>9
    <3>2. CASE i # l + 1
      <4>1. i \in 1..l
        BY <2>9, <2>13, <3>2
      <4>2. k.mmu[i].cached /\ k.mmu[i].region \in k.gcd \ parts
        BY <4>1, <2>8, <2>13 DEF AddedOk
      <4> QED
        BY <4>1, <4>2, <2>2, <2>9
    <3> QED
      BY <3>1, <3>2
  <2>14. ASSUME NEW q \in n.gcd, q \notin parts
         PROVE  \E i \in 1..Len(n.mmu) : i > Len(map) /\ n.mmu[i].region = q
    <3>1. CASE q = r
      <4>1. l + 1 \in 1..Len(n.mmu) /\ l + 1 > Len(map) /\ n.mmu[l + 1].region = q
        BY <3>1, <2>6, <2>7, <2>8, <2>9
      <4> QED
        BY <4>1
    <3>2. CASE q # r
      <4>1. q \in k.gcd
        BY <2>2, <3>2
      <4>2. PICK i \in 1..Len(k.mmu) : i > Len(map) /\ k.mmu[i].region = q
        BY <4>1, <2>14 DEF AddedOk
      <4>3. i \in 1..Len(n.mmu) /\ n.mmu[i].region = q
        BY <4>2, <2>8, <2>9
      <4> QED
        BY <4>2, <4>3
    <3> QED
      BY <3>1, <3>2
  <2>15. n.gcd \subseteq Regions /\ parts \subseteq n.gcd /\ Len(map) <= Len(n.mmu)
    BY <2>2, <2>3, <2>6, <2>8, <2>9
  <2> QED
    BY <2>1, <2>9, <2>10, <2>11, <2>12, <2>13, <2>14, <2>15 DEF AddedOk
<1> QED
  BY <1>1, <1>2

(* The ranges the tree has, read in two cells each.                        *)
LEMMA FarAway ==
  ASSUME NEW a \in Nat, NEW b \in Nat, a # b, a % PageSize = 0, b % PageSize = 0
  PROVE  a + b >= PageSize
<1>1. PICK p \in Nat : p = PageSize /\ p > 0
  BY NumbersAre
<1>2. \A x \in Nat : x < p => x % p = x
  BY <1>1
<1> QED
  BY <1>1, <1>2

LEMMA Higher ==
  ASSUME NEW a \in Nat, NEW p \in Nat, NEW c \in Nat, a >= p
  PROVE  p * c <= a * c
<1>1. PICK d \in Nat : a = p + d
  <2>1. a - p \in Nat /\ a = p + (a - p)
    OBVIOUS
  <2> QED
    BY <2>1
<1>2. a * c = p * c + d * c /\ d * c \in Nat /\ p * c \in Nat
  BY <1>1
<1> QED
  BY <1>2

LEMMA RegsAreOfBoard ==
  ASSUME board \in Machines
  PROVE  Len(Regs) \in Nat /\ \A i \in 1..Len(Regs) : OfBoard(board, Regs[i])
<1>1. PICK m \in Machines : m = board
  OBVIOUS
<1>2. PICK g : g = m.ranges
  OBVIOUS
<1>3. g \in Seq(Regions) /\ Len(g) \in Nat /\ DOMAIN g = 1..Len(g)
  BY <1>2, MachineIs
<1>4. \A i \in 1..Len(g) : g[i] \in Ranges(m) /\ g[i] \in Regions
  BY <1>2, <1>3, MachineIs DEF Ranges
<1>5. CASE m.tags \/ m.cells = 2
  <2>1. Regs = g
    BY <1>1, <1>2, <1>5 DEF Regs
  <2> QED
    BY <2>1, <1>1, <1>3, <1>4 DEF OfBoard
<1>6. CASE ~(m.tags \/ m.cells = 2) /\ Len(g) % 2 = 1
  <2>1. Regs = <<>>
    BY <1>1, <1>2, <1>6 DEF Regs
  <2> QED
    BY <2>1
<1>7. CASE ~(m.tags \/ m.cells = 2) /\ Len(g) % 2 # 1
  <2> DEFINE n == Len(g) \div 2
             at(i) == Region(g[2 * i - 1].base * CellShift + g[2 * i - 1].size,
                             g[2 * i].base * CellShift + g[2 * i].size)
  <2>1. Regs = [i \in 1..n |-> at(i)]
    BY <1>1, <1>2, <1>7 DEF Regs
  <2>2. n \in Nat /\ \A i \in 1..n : 2 * i - 1 \in 1..Len(g) /\ 2 * i \in 1..Len(g)
    BY <1>3
  <2>3. ASSUME NEW i \in 1..n PROVE End(at(i)) > TopOfMemory
    <3>1. PICK x \in 1..Len(g), y \in 1..Len(g) : x = 2 * i - 1 /\ y = 2 * i /\ x # y
      <4>1. 2 * i - 1 # 2 * i
        BY <2>2
      <4> QED
        BY <2>2, <4>1
    <3>2. /\ g[x].base \in Nat /\ g[x].size \in Nat /\ g[x].size > 0 /\ End(g[x]) = g[x].base + g[x].size
          /\ g[y].base \in Nat /\ g[y].size \in Nat /\ g[y].size > 0 /\ End(g[y]) = g[y].base + g[y].size
          /\ g[x].base % PageSize = 0 /\ g[y].base % PageSize = 0
      BY <1>4, RegionIs, MachineIs
    <3>3. ~Overlap(g[x], g[y])
      BY <3>1, <1>2, <1>3, BootMemoryAssumption
    <3>4. g[x].base # g[y].base
      BY <3>2, <3>3 DEF Overlap
    <3>5. PICK a \in Nat, b \in Nat, c \in Nat : a = g[x].base /\ b = g[y].base /\ c = CellShift
      BY <3>2, NumbersAre
    <3>6. a + b >= PageSize
      BY <3>2, <3>4, <3>5, FarAway
    <3>7. PageSize * c <= (a + b) * c
      BY <3>6, NumbersAre, Higher
    <3>8. TopOfMemory <= PageSize * c
      BY <3>5, NumbersAre
    <3>9. (a + b) * c = a * c + b * c /\ a * c \in Nat /\ b * c \in Nat /\ PageSize * c \in Nat
      BY NumbersAre
    <3>10. End(at(i)) = a * c + g[x].size + (b * c + g[y].size)
      BY <3>1, <3>5, RegionHas
    <3>11. PICK ac \in Nat, bc \in Nat, pz \in Nat : ac = a * c /\ bc = b * c /\ pz = PageSize * c
      BY <3>9
    <3>12. TopOfMemory <= pz /\ pz <= ac + bc
      BY <3>7, <3>8, <3>9, <3>11
    <3>13. End(at(i)) = ac + g[x].size + (bc + g[y].size)
      BY <3>10, <3>11
    <3> HIDE DEF at, n
    <3> QED
      BY SMTT(40), <3>2, <3>12, <3>13, NumbersAre
  <2> HIDE DEF at, n
  <2>4. Len(Regs) = n /\ \A i \in 1..n : Regs[i] = at(i)
    BY <2>1, <2>2
  <2> QED
    BY <2>2, <2>3, <2>4 DEF OfBoard
<1> QED
  BY <1>5, <1>6, <1>7

-----------------------------------------------------------------------------
(* The table before the core runs: system memory, what is below and above  *)
(* it, the firmware, and from a tree what it removes.                      *)
NotMapped == {Region(0, sys.base), Region(End(sys), TopOfMemory - End(sys))}

MapIsKnown(map, k) ==
  /\ map \in Seq(Entries) /\ k \in 1..Len(map)
  /\ map[1] = Entry(sys, TRUE)
  /\ \A i \in 1..k : IF map[i].cached THEN map[i].region \in {sys, Fd}
                                        ELSE map[i].region \in NotMapped
  /\ \A i \in 1..Len(map) : i > k =>
       ~board.tags /\ ~map[i].cached /\ map[i].region \in Removed(board)
  /\ ~board.tags => \A x \in Removed(board) :
       \E i \in 1..Len(map) : i > k /\ map[i].region = x

(* Sequences put together.                                                 *)
LEMMA Joined ==
  ASSUME NEW S, NEW s \in Seq(S), NEW t \in Seq(S)
  PROVE  /\ s \o t \in Seq(S) /\ Len(s \o t) = Len(s) + Len(t)
         /\ Len(s) \in Nat /\ Len(t) \in Nat
         /\ \A i \in 1..Len(s) : (s \o t)[i] = s[i]
         /\ \A i \in 1..Len(t) : (s \o t)[Len(s) + i] = t[i]
OBVIOUS

Consists(map, S, a, b, c, d, low, t) ==
  /\ a \in S /\ b \in S /\ c \in S /\ d \in S
  /\ low = <<>> \/ low = <<b>>
  /\ t \in Seq(S)
  /\ map = <<a>> \o low \o <<c, d>> \o t

LEMMA PutTogether ==
  ASSUME NEW map, NEW S, NEW a, NEW b, NEW c, NEW d, NEW low, NEW t,
         Consists(map, S, a, b, c, d, low, t)
  PROVE  /\ map \in Seq(S) /\ map[1] = a /\ Len(t) \in Nat
         /\ \E k \in 3..4 :
              /\ Len(map) = k + Len(t)
              /\ \A i \in 1..k : map[i] \in {a, b, c, d}
              /\ \A i \in 1..Len(t) : map[k + i] = t[i]
<1>a. /\ a \in S /\ b \in S /\ c \in S /\ d \in S
      /\ low = <<>> \/ low = <<b>>
      /\ t \in Seq(S) /\ map = <<a>> \o low \o <<c, d>> \o t
  BY DEF Consists
<1>1. PICK p, q : p = <<a>> \o low /\ q = <<c, d>>
  OBVIOUS
<1>2. /\ p \in Seq(S) /\ Len(p) \in 1..2 /\ p[1] = a
      /\ \A i \in 1..Len(p) : p[i] = a \/ p[i] = b
  <2>1. CASE low = <<>>
    <3>1. p = <<a>>
      BY <1>1, <2>1
    <3> QED
      BY <3>1, <1>a
  <2>2. CASE low = <<b>>
    <3>1. p = <<a>> \o <<b>>
      BY <1>1, <2>2
    <3>2. Len(p) = 2 /\ p[1] = a /\ p[2] = b /\ p \in Seq(S)
      BY <3>1, <1>a
    <3>3. \A i \in 1..2 : i = 1 \/ i = 2
      OBVIOUS
    <3> QED
      BY <3>2, <3>3
  <2> QED
    BY <2>1, <2>2, <1>a
<1>3. q \in Seq(S) /\ Len(q) = 2 /\ \A i \in 1..2 : q[i] = c \/ q[i] = d
  BY <1>1, <1>a
<1>4. p \in Seq(S) /\ q \in Seq(S)
  BY <1>2, <1>3
<1>5. PICK s : s = p \o q
  OBVIOUS
<1>6. /\ s \in Seq(S) /\ Len(s) = Len(p) + Len(q) /\ Len(p) \in Nat
      /\ \A i \in 1..Len(p) : s[i] = p[i]
      /\ \A i \in 1..Len(q) : s[Len(p) + i] = q[i]
  BY <1>4, <1>5
<1>7. map = s \o t /\ s \in Seq(S)
  BY <1>a, <1>1, <1>5, <1>6
<1>8. /\ map \in Seq(S) /\ Len(map) = Len(s) + Len(t) /\ Len(t) \in Nat
      /\ \A i \in 1..Len(s) : map[i] = s[i]
      /\ \A i \in 1..Len(t) : map[Len(s) + i] = t[i]
  <2>1. t \in Seq(S)
    BY <1>a
  <2> QED
    BY ONLY <1>7, <2>1
<1>9. PICK l \in 1..2, k \in 3..4 : l = Len(p) /\ k = Len(s) /\ k = l + 2
  <2>1. PICK l \in 1..2, n \in Nat, k \in {Len(s)} : l = Len(p) /\ n = Len(q) /\ k = Len(s)
    BY <1>2, <1>3
  <2>2. k = l + n /\ n = 2
    BY ONLY <1>3, <1>6, <2>1
  <2>3. k \in 3..4 /\ k = l + 2
    BY ONLY <2>2, l \in 1..2
  <2> QED
    BY ONLY <2>1, <2>3, l \in 1..2
<1>10. ASSUME NEW i \in 1..k PROVE map[i] \in {a, b, c, d}
  <2>1. map[i] = s[i]
    BY <1>8, <1>9
  <2>2. CASE i \in 1..l
    <3>1. s[i] = p[i] /\ (p[i] = a \/ p[i] = b)
      BY <2>2, <1>2, <1>6, <1>9
    <3> QED
      BY <2>1, <3>1
  <2>3. CASE i \notin 1..l
    <3>1. PICK j \in 1..2 : i = l + j
      <4>1. i - l \in 1..2 /\ i = l + (i - l)
        BY <2>3, <1>9
      <4> QED
        BY <4>1
    <3>2. s[l + j] = q[j]
      BY <1>3, <1>6, <1>9
    <3>3. q[j] = c \/ q[j] = d
      BY <1>3
    <3> QED
      BY <2>1, <3>1, <3>2, <3>3
  <2> QED
    BY <2>2, <2>3
<1>11. map[1] = a
  <2>1. 1 \in 1..l /\ 1 \in 1..k
    BY <1>9
  <2> QED
    BY <2>1, <1>2, <1>6, <1>8, <1>9
<1> QED
  BY <1>8, <1>9, <1>10, <1>11

LEMMA RemovedListed ==
  ASSUME NEW rem \in Seq(Regions)
  PROVE  LET t == [i \in DOMAIN rem |-> Entry(rem[i], FALSE)]
         IN  /\ t \in Seq(Entries)
             /\ \A i \in 1..Len(t) : ~t[i].cached /\ t[i].region \in {rem[j] : j \in DOMAIN rem}
             /\ \A x \in {rem[j] : j \in DOMAIN rem} : \E i \in 1..Len(t) : t[i].region = x
<1>1. /\ Len(rem) \in Nat /\ DOMAIN rem = 1..Len(rem)
      /\ \A i \in 1..Len(rem) : rem[i] \in Regions
  OBVIOUS
<1>2. \A i \in 1..Len(rem) : Entry(rem[i], FALSE) \in Entries
  BY <1>1 DEF Entry, Entries, Regions
<1>3. PICK t : t = [i \in DOMAIN rem |-> Entry(rem[i], FALSE)]
  OBVIOUS
<1>4. PICK n \in Nat : n = Len(rem) /\ DOMAIN rem = 1..n
  BY <1>1
<1>5. t = [i \in 1..n |-> Entry(rem[i], FALSE)]
  BY <1>3, <1>4
<1>6. /\ t \in Seq(Entries) /\ Len(t) = n
      /\ \A i \in 1..n : t[i] = Entry(rem[i], FALSE)
  <2> DEFINE At(i) == Entry(rem[i], FALSE)
  <2>1. \A i \in 1..n : At(i) \in Entries
    BY <1>2, <1>4
  <2>2. t = [i \in 1..n |-> At(i)]
    BY <1>5
  <2> HIDE DEF At
  <2>3. t \in Seq(Entries) /\ Len(t) = n /\ \A i \in 1..n : t[i] = At(i)
    BY ONLY <2>1, <2>2, n \in Nat
  <2> QED
    BY <2>3 DEF At
<1>7. \A i \in 1..n : t[i].region = rem[i] /\ ~t[i].cached
  <2>1. ASSUME NEW i \in 1..n PROVE t[i].region = rem[i] /\ t[i].cached = FALSE
    <3>1. t[i] = Entry(rem[i], FALSE)
      BY <1>6
    <3> QED
      BY ONLY <3>1 DEF Entry
  <2> QED
    BY <2>1
<1> QED
  BY <1>3, <1>4, <1>6, <1>7

LEMMA MapIs ==
  ASSUME board \in Machines, sys \in Regions, End(sys) <= TopOfMemory
  PROVE  \E k \in Nat : MapIsKnown(MemoryMap, k)
<1>1. board.tags \in BOOLEAN /\ board.fd \in Nat /\ board.removed \in Seq(Regions)
      /\ sys.base \in Nat /\ sys.size \in Nat /\ End(sys) \in Nat
  BY MachineIs, RegionIs
<1>2. PICK a \in Entries, b \in Entries, c \in Entries, d \in Entries :
        /\ a = Entry(sys, TRUE) /\ b = Entry(Region(0, sys.base), FALSE)
        /\ c = Entry(Region(End(sys), TopOfMemory - End(sys)), FALSE) /\ d = Entry(Fd, TRUE)
  <2>1. \A r \in [base : Nat, size : Nat], c \in BOOLEAN : Entry(r, c) \in Entries
    BY DEF Entry, Entries
  <2>2. \A x, y \in Nat : Region(x, y) \in [base : Nat, size : Nat]
    BY DEF Region
  <2>3. Fd \in [base : Nat, size : Nat]
    BY <1>1, <2>2, NumbersAre DEF Fd
  <2>4. sys \in [base : Nat, size : Nat]
    BY DEF Regions
  <2>5. TopOfMemory - End(sys) \in Nat
    BY <1>1, NumbersAre
  <2>6. Region(0, sys.base) \in [base : Nat, size : Nat]
        /\ Region(End(sys), TopOfMemory - End(sys)) \in [base : Nat, size : Nat]
    BY <1>1, <2>2, <2>5
  <2> QED
    BY <2>1, <2>3, <2>4, <2>6
<1>3. PICK low : low = Below /\ (low = <<>> \/ low = <<b>>)
  BY <1>2 DEF Below
<1>4. PICK own : own = IF board.tags THEN <<>> ELSE RemovedEntries
  OBVIOUS
<1>5. /\ own \in Seq(Entries)
      /\ \A i \in 1..Len(own) : ~board.tags /\ ~own[i].cached /\ own[i].region \in Removed(board)
      /\ ~board.tags => \A x \in Removed(board) : \E i \in 1..Len(own) : own[i].region = x
  <2>1. CASE board.tags
    BY <1>4, <2>1
  <2>2. CASE ~board.tags
    <3>1. PICK rem \in Seq(Regions) : rem = board.removed
      BY <1>1
    <3>2. own = [i \in DOMAIN rem |-> Entry(rem[i], FALSE)]
      BY <1>4, <2>2, <3>1 DEF RemovedEntries
    <3>3. Removed(board) = {rem[j] : j \in DOMAIN rem}
      BY <3>1 DEF Removed
    <3> QED
      BY ZenonT(60), <2>2, <3>2, <3>3, RemovedListed
  <2> QED
    BY <1>1, <2>1, <2>2
<1>6. PICK map : map = <<a>> \o low \o <<c, d>> \o own
  OBVIOUS
<1>7. MemoryMap = map
  BY <1>2, <1>3, <1>4, <1>6 DEF MemoryMap
<1>8. PICK k \in 3..4 :
        /\ map \in Seq(Entries) /\ map[1] = a /\ Len(own) \in Nat
        /\ Len(map) = k + Len(own)
        /\ \A i \in 1..k : map[i] \in {a, b, c, d}
        /\ \A i \in 1..Len(own) : map[k + i] = own[i]
  <2>1. own \in Seq(Entries)
    BY <1>5
  <2>2. low = <<>> \/ low = <<b>>
    BY <1>3
  <2>3. /\ map \in Seq(Entries) /\ map[1] = a /\ Len(own) \in Nat
        /\ \E k \in 3..4 :
             /\ Len(map) = k + Len(own)
             /\ \A i \in 1..k : map[i] \in {a, b, c, d}
             /\ \A i \in 1..Len(own) : map[k + i] = own[i]
    <3>1. Consists(map, Entries, a, b, c, d, low, own)
      BY <2>1, <2>2, <1>6 DEF Consists
    <3> QED
      BY ONLY <3>1, PutTogether
  <2> QED
    BY <2>3
<1>9. ASSUME NEW i \in 1..k
      PROVE  IF map[i].cached THEN map[i].region \in {sys, Fd}
                              ELSE map[i].region \in NotMapped
  <2>1. map[i] = a \/ map[i] = b \/ map[i] = c \/ map[i] = d
    BY <1>8
  <2>2. /\ a.region = sys /\ a.cached = TRUE
        /\ b.region = Region(0, sys.base) /\ b.cached = FALSE
        /\ c.region = Region(End(sys), TopOfMemory - End(sys)) /\ c.cached = FALSE
        /\ d.region = Fd /\ d.cached = TRUE
    BY <1>2, EntryHas
  <2> QED
    BY <2>1, <2>2 DEF NotMapped
<1>10. ASSUME NEW i \in 1..Len(map), i > k
       PROVE  ~board.tags /\ ~map[i].cached /\ map[i].region \in Removed(board)
  <2>1. i - k \in 1..Len(own) /\ i = k + (i - k)
    BY <1>8, <1>10
  <2> QED
    BY ZenonT(60), <2>1, <1>5, <1>8
<1>11. ASSUME ~board.tags, NEW x \in Removed(board)
       PROVE  \E i \in 1..Len(map) : i > k /\ map[i].region = x
  <2>1. PICK j \in 1..Len(own) : own[j].region = x
    BY <1>5, <1>11
  <2>2. k + j > k /\ k + j \in 1..Len(map) /\ map[k + j].region = x
    BY <1>8, <2>1
  <2> QED
    BY <2>2
<1>12. k \in 1..Len(map) /\ k \in Nat
  BY <1>8
<1>13. MapIsKnown(map, k)
  BY <1>2, <1>8, <1>9, <1>10, <1>11, <1>12 DEF MapIsKnown
<1> QED
  BY <1>7, <1>12, <1>13

-----------------------------------------------------------------------------
(* How an address is mapped: by the last entry that has it.                *)
LEMMA LastEntryTells ==
  ASSUME Len(mmu) \in Nat, DOMAIN mmu = 1..Len(mmu), NEW a, NEW i0 \in 1..Len(mmu), Covers(i0, a)
  PROVE  \E i \in 1..Len(mmu) : /\ Covers(i, a) /\ i0 <= i
                               /\ \A j \in 1..Len(mmu) : Covers(j, a) => j <= i
                               /\ (Cached(a) <=> mmu[i].cached)
<1> DEFINE over == {i \in DOMAIN mmu : Covers(i, a)}
           last == CHOOSE i \in over : \A j \in over : j <= i
<1>1. over \subseteq Nat /\ over # {} /\ \A i \in over : i <= Len(mmu)
  OBVIOUS
<1>2. \E i \in over : \A j \in over : j <= i
  <2> HIDE DEF over
  <2> QED
    BY <1>1, GreatestNatural
<1>3. last \in over /\ \A j \in over : j <= last
  BY <1>2
<1>4. Cached(a) <=> mmu[last].cached
  <2>1. Cached(a) <=> over # {} /\ mmu[last].cached
    BY Zenon DEF Cached
  <2> QED
    BY <1>1, <2>1
<1> QED
  BY <1>3, <1>4

LEMMA Uncovered ==
  ASSUME DOMAIN mmu = 1..Len(mmu), NEW a, \A j \in 1..Len(mmu) : ~Covers(j, a)
  PROVE  ~Cached(a)
BY DEF Cached

(* What the machine, the memory it found and the table of it are, and what *)
(* the core was told of since.                                             *)
Described == /\ board \in Machines /\ sys = FindMemnode(board)
         /\ AddedOk(board, SysParts(sys), MemoryMap, [gcd |-> gcd, mmu |-> mmu])

LEMMA KnownSays ==
  ASSUME Described
  PROVE  \E h \in Ranges(board), k \in Nat :
           /\ h \in Regions /\ sys \in Regions
           /\ h.base <= sys.base /\ End(sys) = End(h) /\ End(sys) <= TopOfMemory
           /\ sys.base <= MaxAddress
           /\ ~board.tags => /\ \A n \in board.nomap : End(n) <= sys.base /\ Within(n, h)
                             /\ \A x \in Removed(board) : Within(x, h)
           /\ MapIsKnown(MemoryMap, k)
<1>1. PICK m \in Machines : m = board
  BY DEF Described
<1>2. PICK h : h = HighestRange(m)
  OBVIOUS
<1>3. sys = FindMemnode(m)
  BY <1>1 DEF Described
<1>4. /\ h \in Ranges(m) /\ sys \in Regions /\ h.base <= sys.base /\ End(sys) = End(h)
      /\ ~m.tags => \A n \in m.nomap : End(n) <= sys.base
      /\ 2 * UefiRegionSize + FdSize + PageSize <= MaxAddress + 1 - sys.base
  BY <1>2, <1>3, MemnodeIs
<1>5. h \in Regions /\ End(h) <= TopOfMemory
  BY <1>4, MachineIs
<1>6. sys.base <= MaxAddress
  BY <1>4, RegionIs, NumbersAre
<1>7. ~m.tags => /\ \A n \in m.nomap : Within(n, h)
                 /\ \A x \in Removed(m) : Within(x, h)
  BY <1>2, MachineIs
<1>8. PICK k \in Nat : MapIsKnown(MemoryMap, k)
  BY <1>1, <1>4, <1>5, MapIs
<1> QED
  BY <1>1, <1>4, <1>5, <1>6, <1>7, <1>8

LEMMA MemoryIsMapped ==
  ASSUME Described
  PROVE  /\ \A r, q \in gcd : r # q => ~Overlap(r, q)
         /\ \A r \in gcd : \A a \in r.base..(End(r) - 1) :
              /\ \E q \in Ranges(board) : q.base <= a /\ a < End(q)
              /\ Cached(a) <=> board.tags \/ \A x \in Removed(board) : a < x.base \/ a >= End(x)
         /\ ~board.tags =>
              \A n \in board.nomap : \A a \in n.base..(End(n) - 1) : ~Cached(a)
<1>1. PICK h \in Ranges(board), k \in Nat :
           /\ h \in Regions /\ sys \in Regions
           /\ h.base <= sys.base /\ End(sys) = End(h) /\ End(sys) <= TopOfMemory
           /\ sys.base <= MaxAddress
           /\ ~board.tags => /\ \A n \in board.nomap : End(n) <= sys.base /\ Within(n, h)
                             /\ \A x \in Removed(board) : Within(x, h)
           /\ MapIsKnown(MemoryMap, k)
  BY KnownSays
<1>2. PICK m \in Machines : m = board
  BY DEF Described
<1>3. PICK s \in Regions : s = sys
  BY <1>1
<1>4. PICK map, parts : map = MemoryMap /\ parts = SysParts(s)
  OBVIOUS
<1>5. /\ gcd \subseteq Regions /\ parts \subseteq gcd
      /\ \A r \in gcd : r \notin parts => r \in Ranges(m)
      /\ \A r, q \in gcd : r # q => ~Overlap(r, q)
      /\ mmu \in Seq(Entries) /\ Len(map) <= Len(mmu)
      /\ \A i \in 1..Len(map) : mmu[i] = map[i]
      /\ \A i \in 1..Len(mmu) : i > Len(map) => mmu[i].cached /\ mmu[i].region \in gcd \ parts
      /\ \A r \in gcd : r \notin parts =>
           \E i \in 1..Len(mmu) : i > Len(map) /\ mmu[i].region = r
  BY <1>2, <1>3, <1>4 DEF Described, AddedOk
<1>6. /\ map \in Seq(Entries) /\ k \in 1..Len(map)
      /\ map[1] = Entry(s, TRUE)
      /\ \A i \in 1..k : IF map[i].cached THEN map[i].region \in {s, Fd}
                                            ELSE map[i].region \in NotMapped
      /\ \A i \in 1..Len(map) : i > k =>
           ~m.tags /\ ~map[i].cached /\ map[i].region \in Removed(m)
      /\ ~m.tags => \A x \in Removed(m) : \E i \in 1..Len(map) : i > k /\ map[i].region = x
  BY <1>1, <1>2, <1>3, <1>4 DEF MapIsKnown
<1>7. PICK l \in Nat, n \in Nat :
        l = Len(map) /\ n = Len(mmu) /\ l <= n /\ k <= l /\ 1 <= k /\ DOMAIN mmu = 1..Len(mmu)
  BY <1>5, <1>6
<1>8. /\ s.base \in Nat /\ End(s) \in Nat /\ s.base < End(s)
      /\ h.base \in Nat /\ End(h) \in Nat /\ h.base <= s.base /\ End(s) = End(h)
  BY <1>1, <1>3, RegionIs
<1>9. /\ parts \subseteq Regions
      /\ \A p \in parts : Within(p, s)
      /\ \A a \in Nat : s.base <= a /\ a < End(s) => \E p \in parts : p.base <= a /\ a < End(p)
  BY <1>1, <1>3, <1>4, PartsAre
\* A region told of later is a range, but not the highest one.
<1>10. ASSUME NEW r \in gcd, r \notin parts, NEW a \in Nat, r.base <= a, a < End(r)
       PROVE  r \in Ranges(m) /\ ~(h.base <= a /\ a < End(h))
  <2>1. r \in Ranges(m) /\ r \in Regions
    BY <1>5, <1>10
  <2>2. PICK p \in parts : p.base <= s.base /\ s.base < End(p)
    BY <1>8, <1>9
  <2>3. ~Overlap(r, p) /\ p \in Regions
    BY <1>5, <1>9, <1>10, <2>2
  <2>4. r # h
    <3>1. SUFFICES ASSUME r = h PROVE FALSE
      OBVIOUS
    <3> QED
      BY <3>1, <1>8, <2>1, <2>2, <2>3, NoSharedAddress
  <2>5. ~Overlap(r, h)
    BY <1>1, <1>2, <2>1, <2>4, MachineIs
  <2> QED
    BY <1>1, <1>10, <2>1, <2>5, NoSharedAddress
<1>11. ASSUME NEW r \in gcd, NEW a \in r.base..(End(r) - 1)
       PROVE  /\ \E q \in Ranges(m) : q.base <= a /\ a < End(q)
              /\ Cached(a) <=> m.tags \/ \A x \in Removed(m) : a < x.base \/ a >= End(x)
  <2>1. r \in Regions /\ a \in Nat /\ r.base <= a /\ a < End(r)
    BY <1>5, RegionIs
  <2>2. CASE r \in parts
    <3>1. s.base <= a /\ a < End(s) /\ h.base <= a /\ a < End(h)
      BY <1>8, <1>9, <2>1, <2>2, RegionIs DEF Within
    \* Of what was added later nothing covers a.
    <3>2. ASSUME NEW j \in 1..n, Covers(j, a), j > l PROVE FALSE
      <4>1. PICK q \in gcd : q \notin parts /\ q = mmu[j].region
        BY <1>5, <1>7, <3>2
      <4>2. q.base <= a /\ a < End(q)
        BY <3>2, <4>1 DEF Covers
      <4> QED
        BY <1>10, <2>1, <3>1, <4>1, <4>2
    <3>3. ASSUME NEW j \in 1..k, Covers(j, a) PROVE mmu[j].cached
      <4>1. mmu[j] = map[j] /\ j \in 1..Len(map)
        BY <1>5, <1>7
      <4>2. SUFFICES ASSUME ~mmu[j].cached PROVE FALSE
        OBVIOUS
      <4>3. mmu[j].region \in NotMapped
        BY <1>6, <4>1, <4>2
      <4>4. /\ Region(0, sys.base).base = 0 /\ End(Region(0, sys.base)) = 0 + sys.base
            /\ Region(End(sys), TopOfMemory - End(sys)).base = End(sys)
        BY RegionHas
      <4>5. a < s.base \/ End(s) <= a
        BY <1>3, <1>8, <2>1, <3>3, <4>3, <4>4 DEF NotMapped, Covers
      <4> QED
        BY <1>8, <2>1, <3>1, <4>5
    <3>4. Covers(1, a) /\ 1 \in 1..n
      <4>1. 1 \in 1..Len(map) /\ 1 \in 1..n
        BY <1>7
      <4>2. mmu[1] = Entry(s, TRUE)
        BY <1>5, <1>6, <4>1
      <4>3. mmu[1].region = s
        BY ONLY <4>2 DEF Entry
      <4> QED
        BY <3>1, <4>1, <4>3 DEF Covers
    <3>5. PICK i \in 1..n : /\ Covers(i, a) /\ 1 <= i
                            /\ \A j \in 1..n : Covers(j, a) => j <= i
                            /\ Cached(a) <=> mmu[i].cached
      BY <1>7, <3>4, LastEntryTells
    <3>6. i <= l
      BY <1>7, <3>2, <3>5
    <3>7. CASE i <= k
      <4>1. Cached(a)
        BY <1>7, <3>3, <3>5, <3>7
      <4>2. ASSUME ~m.tags, NEW x \in Removed(m) PROVE a < x.base \/ a >= End(x)
        <5>1. PICK j \in 1..Len(map) : j > k /\ map[j].region = x
          BY <1>6, <4>2
        <5>2. j \in 1..n /\ mmu[j].region = x
          BY <1>5, <1>7, <5>1
        <5>3. ~Covers(j, a)
          BY <1>7, <3>5, <3>7, <5>1, <5>2
        <5>4. x \in Regions
          BY MachineIs
        <5> QED
          BY <2>1, <5>2, <5>3, <5>4, RegionIs DEF Covers
      <4> QED
        BY <1>1, <1>2, <3>1, <4>1, <4>2, MachineIs
    <3>8. CASE ~(i <= k)
      <4>1. i \in 1..Len(map) /\ i > k /\ mmu[i] = map[i]
        BY <1>5, <1>7, <3>6, <3>8
      <4>2. ~m.tags /\ ~mmu[i].cached /\ mmu[i].region \in Removed(m)
        BY <1>6, <4>1
      <4>3. mmu[i].region.base <= a /\ a < End(mmu[i].region)
        BY <3>5 DEF Covers
      <4>4. mmu[i].region \in Regions
        BY <4>2, MachineIs
      <4>5. ~(\A x \in Removed(m) : a < x.base \/ a >= End(x))
        BY <2>1, <4>2, <4>3, <4>4, RegionIs
      <4> QED
        BY <1>1, <1>2, <3>1, <3>5, <4>2, <4>5
    <3> QED
      BY <3>7, <3>8
  <2>3. CASE r \notin parts
    <3>1. r \in Ranges(m) /\ ~(h.base <= a /\ a < End(h))
      BY <1>10, <2>1, <2>3
    <3>2. PICK i0 \in 1..n : i0 > l /\ mmu[i0].region = r
      BY <1>5, <1>7, <2>3
    <3>3. Covers(i0, a)
      BY <2>1, <3>2 DEF Covers
    <3>4. PICK i \in 1..n : i0 <= i /\ (Cached(a) <=> mmu[i].cached)
      BY <1>7, <3>3, LastEntryTells
    <3>5. Cached(a)
      BY <1>5, <1>7, <3>2, <3>4
    <3>6. ASSUME ~m.tags, NEW x \in Removed(m) PROVE a < x.base \/ a >= End(x)
      <4>1. Within(x, h) /\ x \in Regions
        BY <1>1, <1>2, <3>6, MachineIs
      <4> QED
        BY <1>8, <2>1, <3>1, <4>1, RegionIs DEF Within
    <3> QED
      BY <2>1, <3>1, <3>5, <3>6, MachineIs
  <2> QED
    BY <2>2, <2>3
<1>12. ASSUME ~m.tags, NEW o \in m.nomap, NEW a \in o.base..(End(o) - 1)
       PROVE  ~Cached(a)
  <2>1. o \in Regions /\ Within(o, h) /\ End(o) <= s.base /\ ~Overlap(o, Region(m.fd, FdSize))
    BY <1>1, <1>2, <1>3, <1>12, MachineIs
  <2>2. a \in Nat /\ o.base <= a /\ a < End(o) /\ h.base <= a /\ a < End(h) /\ a < s.base
    BY <1>8, <2>1, RegionIs DEF Within
  <2>3. Fd \in Regions /\ ~Overlap(o, Fd)
    <3>1. Fd = Region(m.fd, FdSize)
      BY <1>2 DEF Fd
    <3>2. m.fd \in Nat /\ FdSize \in Nat \ {0}
      BY MachineIs, NumbersAre
    <3> QED
      BY <2>1, <3>1, <3>2 DEF Region, Regions
  <2>4. ASSUME NEW j \in 1..n, Covers(j, a) PROVE ~mmu[j].cached
    <3>1. mmu[j].region.base <= a /\ a < End(mmu[j].region)
      BY <2>4 DEF Covers
    <3>2. CASE j > l
      <4>1. mmu[j].region \in gcd /\ mmu[j].region \notin parts
        BY <1>5, <1>7, <3>2
      <4> QED
        BY <1>10, <2>2, <3>1, <4>1
    <3>3. CASE j <= l /\ j > k
      <4>1. mmu[j] = map[j] /\ j \in 1..Len(map)
        BY <1>5, <1>7, <3>3
      <4> QED
        BY <1>6, <3>3, <4>1
    <3>4. CASE j <= k
      <4>1. mmu[j] = map[j] /\ j \in 1..k
        BY <1>5, <1>7, <3>4
      <4>2. SUFFICES ASSUME mmu[j].cached PROVE FALSE
        OBVIOUS
      <4>3. mmu[j].region = s \/ mmu[j].region = Fd
        BY <1>6, <4>1, <4>2
      <4>4. mmu[j].region # s
        BY <1>8, <2>2, <3>1
      <4>5. Fd.base <= a /\ a < End(Fd)
        BY <3>1, <4>3, <4>4
      <4> QED
        BY <2>1, <2>2, <2>3, <4>5, NoSharedAddress
    <3> QED
      BY <1>7, <3>2, <3>3, <3>4
  <2>5. CASE \A j \in 1..n : ~Covers(j, a)
    BY <1>7, <2>5, Uncovered
  <2>6. CASE ~(\A j \in 1..n : ~Covers(j, a))
    <3>1. PICK i0 \in 1..n : Covers(i0, a)
      BY <2>6
    <3>2. PICK i \in 1..n : Covers(i, a) /\ (Cached(a) <=> mmu[i].cached)
      BY <1>7, <3>1, LastEntryTells
    <3> QED
      BY <2>4, <3>2
  <2> QED
    BY <2>5, <2>6
<1> QED
  BY <1>2, <1>5, <1>11, <1>12

-----------------------------------------------------------------------------
(* The hand-off blocks: one tells of the tree, and the core finds it.      *)
TreeAt(f) ==
  /\ Len(hobs) \in Nat /\ f \in 1..Len(hobs)
  /\ hobs[f].type = "guid" /\ hobs[f].name = "fdt" /\ hobs[f].reg = Regs
  /\ \A i \in 1..Len(hobs) : hobs[i].type = "guid" => i = f \/ (i = f - 1 /\ hobs[i].name # "fdt")

LEMMA NextGuidIs ==
  ASSUME NEW f, TreeAt(f), NEW i \in 1..(Len(hobs) + 1)
  PROVE  LET h == GetNextHob("guid", i)
         IN  /\ i <= f => /\ h \in i..f
                          /\ h = f \/ (h = f - 1 /\ hobs[h].name # "fdt")
             /\ i > f => h = 0
<1> DEFINE found == {j \in i..Len(hobs) : hobs[j].type = "guid"}
           h == GetNextHob("guid", i)
<1>1. /\ Len(hobs) \in Nat /\ f \in 1..Len(hobs) /\ hobs[f].type = "guid"
      /\ \A j \in 1..Len(hobs) : hobs[j].type = "guid" => j = f \/ (j = f - 1 /\ hobs[j].name # "fdt")
  BY DEF TreeAt
<1>2. h = IF found = {} THEN 0 ELSE CHOOSE j \in found : \A x \in found : j <= x
  BY DEF GetNextHob
<1>3. ASSUME i <= f
      PROVE  h \in i..f /\ (h = f \/ (h = f - 1 /\ hobs[h].name # "fdt"))
  <2>1. f \in found /\ found \subseteq Nat
    BY <1>1, <1>3
  <2>2. \E j \in found : \A x \in found : j <= x
    <3> HIDE DEF found
    <3> QED
      BY <2>1, LeastNatural
  <2>3. h \in found /\ \A x \in found : h <= x
    <3>1. h = CHOOSE j \in found : \A x \in found : j <= x
      BY <1>2, <2>1
    <3> QED
      BY <2>2, <3>1
  <2> HIDE DEF h
  <2> QED
    BY <1>1, <2>1, <2>3
<1>4. ASSUME i > f PROVE h = 0
  <2>1. found = {}
    BY <1>1, <1>4
  <2> QED
    BY <1>2, <2>1
<1> QED
  BY <1>3, <1>4

LEMMA TreeIsFound ==
  ASSUME NEW f, TreeAt(f)
  PROVE  GetFirstGuidHob("fdt") = f
<1> DEFINE N == Len(hobs) + 1
           nx(i) == GetNextHob("guid", i)
           Is(g) == g = [i \in 1..N |-> IF nx(i) = 0 \/ hobs[nx(i)].name = "fdt" THEN nx(i)
                                        ELSE g[nx(i) + 1]]
           w == [i \in 1..N |-> IF i <= f THEN f ELSE 0]
<1>1. /\ Len(hobs) \in Nat /\ f \in 1..Len(hobs) /\ hobs[f].name = "fdt"
  BY DEF TreeAt
<1>2. /\ \A i \in 1..N : i <= f => nx(i) \in i..f /\ (nx(i) = f \/ (nx(i) = f - 1 /\ hobs[nx(i)].name # "fdt"))
      /\ \A i \in 1..N : i > f => nx(i) = 0
  BY NextGuidIs
<1>3. N \in Nat /\ f \in 1..N /\ f < N /\ 1 \in 1..N
  BY <1>1
<1> HIDE DEF N, nx
<1>4. Is(w)
  <2>1. ASSUME NEW i \in 1..N
        PROVE  w[i] = IF nx(i) = 0 \/ hobs[nx(i)].name = "fdt" THEN nx(i) ELSE w[nx(i) + 1]
    <3>1. CASE i > f
      BY <1>2, <1>3, <3>1
    <3>2. CASE i <= f /\ nx(i) = f
      BY <1>1, <1>3, <3>2
    <3>3. CASE i <= f /\ nx(i) # f
      <4>1. nx(i) = f - 1 /\ nx(i) # 0 /\ hobs[nx(i)].name # "fdt"
        BY <1>2, <1>3, <3>3
      <4>2. w[f] = f /\ w[i] = f /\ nx(i) + 1 = f
        BY <1>3, <3>3, <4>1
      <4> QED
        BY <4>1, <4>2
    <3> QED
      BY <1>3, <3>1, <3>2, <3>3
  <2> QED
    BY <2>1
<1>5. PICK g : Is(g) /\ GetFirstGuidHob("fdt") = g[1]
  <2>1. GetFirstGuidHob("fdt") = (CHOOSE g : Is(g))[1]
    BY DEF GetFirstGuidHob, nx, N
  <2> HIDE DEF Is, w
  <2> QED
    BY <1>4, <2>1
<1>6. \A i \in 1..N : g[i] = IF nx(i) = 0 \/ hobs[nx(i)].name = "fdt" THEN nx(i) ELSE g[nx(i) + 1]
  BY ONLY <1>5
<1> HIDE DEF Is
<1>7. g[f] = f
  <2>1. nx(f) = f
    BY <1>2, <1>3
  <2> QED
    BY <1>1, <1>3, <1>6, <2>1
<1>8. CASE nx(1) = f
  BY <1>1, <1>3, <1>5, <1>6, <1>8
<1>9. CASE nx(1) # f
  <2>1. nx(1) = f - 1 /\ nx(1) # 0 /\ hobs[nx(1)].name # "fdt" /\ nx(1) + 1 = f
    BY <1>2, <1>3, <1>9
  <2> QED
    BY <1>3, <1>5, <1>6, <1>7, <2>1
<1> QED
  BY <1>8, <1>9

(* What HighMem adds: the ranges of the tree one by one.                   *)
LEMMA AddingKeepsOk ==
  ASSUME NEW m \in Machines, NEW parts, NEW map \in Seq(Entries), NEW k0, AddedOk(m, parts, map, k0),
         NEW reg, Len(reg) \in Nat, \A i \in 1..Len(reg) : OfBoard(m, reg[i])
  PROVE  LET known[i \in 0..Len(reg)] == IF i = 0 THEN k0 ELSE AddMemorySpace(known[i - 1], reg[i])
         IN  AddedOk(m, parts, map, known[Len(reg)])
<1> DEFINE N == Len(reg)
           Next(x, i) == AddMemorySpace(x, reg[i])
           Is(g, n) == g = [i \in 0..n |-> IF i = 0 THEN k0 ELSE Next(g[i - 1], i)]
           Reached  == {n \in 0..N : \E g : Is(g, n)}
<1>1. N \in Nat
  OBVIOUS
<1>2. \A x : \A i \in 1..N : AddedOk(m, parts, map, x) => AddedOk(m, parts, map, Next(x, i))
  BY AddKeepsOk
<1> HIDE DEF N, Next
<1>3. 0 \in Reached
  <2> DEFINE g == [i \in 0..0 |-> k0]
  <2>1. Is(g, 0)
    OBVIOUS
  <2> HIDE DEF Is, g
  <2> QED
    BY <1>1, <2>1
<1>4. ASSUME NEW n \in 1..N, n - 1 \in Reached PROVE n \in Reached
  <2>1. PICK f : Is(f, n - 1)
    BY <1>4
  <2> DEFINE g == [i \in 0..n |-> IF i = n THEN Next(f[n - 1], n) ELSE f[i]]
  <2>2. n \in Nat /\ n # 0 /\ n \in 0..N
    BY <1>1
  <2>3. ASSUME NEW i \in 0..n PROVE g[i] = IF i = 0 THEN k0 ELSE Next(g[i - 1], i)
    <3>1. CASE i = n
      <4>1. n - 1 \in 0..n /\ n - 1 # n
        BY <2>2
      <4> QED
        BY <2>2, <3>1, <4>1
    <3>2. CASE i # n
      <4>1. i \in 0..(n - 1) /\ g[i] = f[i]
        BY <2>2, <3>2
      <4>2. f[i] = IF i = 0 THEN k0 ELSE Next(f[i - 1], i)
        BY <2>1, <4>1
      <4>3. i # 0 => i - 1 \in 0..n /\ i - 1 # n
        BY <2>2, <3>2
      <4> QED
        BY <4>1, <4>2, <4>3
    <3> QED
      BY <3>1, <3>2
  <2>4. Is(g, n)
    BY <2>3
  <2> HIDE DEF Is, g
  <2> QED
    BY <2>2, <2>4
<1>5. 0..N \subseteq Reached
  <2> HIDE DEF Reached
  <2> QED
    BY <1>1, <1>3, <1>4, UpToN
<1>6. \E g : Is(g, N)
  <2>1. N \in Reached
    <3> HIDE DEF Reached
    <3> QED
      BY <1>1, <1>5
  <2> HIDE DEF Is
  <2> QED
    BY <2>1
<1>7. PICK done : done = CHOOSE g : Is(g, N)
  OBVIOUS
<1>8. Is(done, N)
  <2> HIDE DEF Is
  <2> QED
    BY <1>6, <1>7
<1>9. \A i \in 0..N : done[i] = IF i = 0 THEN k0 ELSE Next(done[i - 1], i)
  BY ONLY <1>8
<1> DEFINE Kept == {i \in 0..N : AddedOk(m, parts, map, done[i])}
<1> HIDE DEF Is
<1>10. 0 \in Kept
  BY <1>1, <1>9
<1>11. ASSUME NEW i \in 1..N, i - 1 \in Kept PROVE i \in Kept
  <2>1. i \in 0..N /\ i # 0
    BY <1>1
  <2> QED
    BY <1>2, <1>9, <1>11, <2>1
<1>12. 0..N \subseteq Kept
  <2> HIDE DEF Kept
  <2> QED
    BY <1>1, <1>10, <1>11, UpToN
<1>13. AddedOk(m, parts, map, done[N])
  BY <1>1, <1>12
<1> QED
  BY <1>7, <1>13, Zenon DEF Is, Next, N

-----------------------------------------------------------------------------
(* The start, step by step: what each phase can rely on.                   *)
Resources == {hobs[i].region : i \in {j \in DOMAIN hobs : hobs[j].type = "resource"}}
Handed == (\E S : hobs \in Seq(S)) /\ Resources = SysParts(sys)

BootInv ==
  /\ phase \in {"entry", "stack", "memory", "platform", "core", "highmem", "up"}
  /\ board \in Machines
  /\ phase # "entry" => sys = FindMemnode(board)
  /\ phase \notin {"entry", "stack"} => uefi = Region(StackTop - UefiRegionSize, UefiRegionSize)
  /\ phase \in {"platform", "core", "highmem"} => mmu = MemoryMap
  /\ phase \in {"platform", "core"} => Handed
  /\ phase = "platform" => \A i \in DOMAIN hobs : hobs[i].type # "guid"
  /\ phase \in {"core", "highmem"} => \E f \in Nat : TreeAt(f)
  /\ phase = "highmem" => gcd = SysParts(sys)
  /\ phase = "up" => Described

LEMMA BootInvIsEnough == BootInv => MemoryAsDescribed
<1> SUFFICES ASSUME BootInv PROVE MemoryAsDescribed
  OBVIOUS
<1>1. UefiMemoryIsFree
  <2>1. SUFFICES ASSUME phase \notin {"entry", "stack"} PROVE UefiMemoryIsFree
    BY DEF UefiMemoryIsFree
  <2>2. /\ board \in Machines /\ sys = FindMemnode(board)
        /\ uefi = Region(StackTop - UefiRegionSize, UefiRegionSize)
    BY <2>1 DEF BootInv
  <2> QED
    BY <2>2, StackIsFree DEF UefiMemoryIsFree
<1>2. MappedForItsUse
  <2>1. SUFFICES ASSUME phase = "up" PROVE MappedForItsUse
    BY DEF MappedForItsUse
  <2>2. Described
    BY <2>1 DEF BootInv
  <2> QED
    BY <2>2, MemoryIsMapped, Zenon DEF MappedForItsUse
<1> QED
  BY <1>1, <1>2 DEF MemoryAsDescribed

Grows(list, old, S, a, b, c, d, e) ==
  /\ old \in Seq(S)
  /\ \E mid : /\ mid = <<>> \/ mid = <<c>>
              /\ list = old \o <<a, b>> \o mid \o <<d, e>>

Grown(list, old, a, b, c, d, e, n, f) ==
  /\ n = Len(old) /\ n < f /\ Len(list) = f + 1
  /\ list[f] = d /\ list[f + 1] = e
  /\ \A i \in 1..n : list[i] = old[i]
  /\ \A i \in (n + 1)..(f - 1) :
       list[i] = a \/ list[i] = b \/ (list[i] = c /\ i = f - 1)

LEMMA ListGrows ==
  ASSUME NEW list, NEW old, NEW S, NEW a, NEW b, NEW c, NEW d, NEW e,
         Grows(list, old, S, a, b, c, d, e)
  PROVE  /\ \E T : list \in Seq(T)
         /\ \E n, f \in Nat : Grown(list, old, a, b, c, d, e, n, f)
<1> DEFINE T == S \cup {a, b, c, d, e}
<1>a. PICK mid : /\ mid = <<>> \/ mid = <<c>>
                 /\ list = old \o <<a, b>> \o mid \o <<d, e>>
  BY Zenon DEF Grows
<1>b. old \in Seq(S)
  BY DEF Grows
<1>1. PICK ab, de : ab = <<a, b>> /\ de = <<d, e>>
  OBVIOUS
<1>2. /\ old \in Seq(T) /\ ab \in Seq(T) /\ de \in Seq(T) /\ Len(ab) = 2 /\ Len(de) = 2
      /\ ab[1] = a /\ ab[2] = b /\ de[1] = d /\ de[2] = e
  <2>1. old \in Seq(T)
    <3>1. \A i \in 1..Len(old) : old[i] \in T
      BY <1>b
    <3> HIDE DEF T
    <3> QED
      BY <1>b, <3>1
  <2> QED
    BY <1>1, <2>1
<1>3. mid \in Seq(T) /\ Len(mid) \in 0..1 /\ \A i \in 1..Len(mid) : mid[i] = c
  <2>1. CASE mid = <<>>
    BY <2>1
  <2>2. CASE mid = <<c>>
    BY <2>2
  <2> QED
    BY <1>a, <2>1, <2>2
<1> HIDE DEF T
<1>4. PICK p, q : p = old \o ab /\ q = p \o mid
  OBVIOUS
<1>5. list = q \o de
  BY <1>a, <1>1, <1>4
<1>6. old \in Seq(T) /\ ab \in Seq(T) /\ mid \in Seq(T) /\ de \in Seq(T)
  BY <1>2, <1>3
<1>7. /\ p \in Seq(T) /\ Len(p) = Len(old) + Len(ab) /\ Len(old) \in Nat /\ Len(ab) \in Nat
      /\ \A i \in 1..Len(old) : p[i] = old[i]
      /\ \A i \in 1..Len(ab) : p[Len(old) + i] = ab[i]
  BY ONLY <1>4, <1>6
<1>8. /\ q \in Seq(T) /\ Len(q) = Len(p) + Len(mid) /\ Len(mid) \in Nat
      /\ \A i \in 1..Len(p) : q[i] = p[i]
      /\ \A i \in 1..Len(mid) : q[Len(p) + i] = mid[i]
  <2>1. p \in Seq(T)
    BY <1>7
  <2> QED
    BY ONLY <1>4, <1>6, <2>1
<1>9. /\ list \in Seq(T) /\ Len(list) = Len(q) + Len(de) /\ Len(de) \in Nat
      /\ \A i \in 1..Len(q) : list[i] = q[i]
      /\ \A i \in 1..Len(de) : list[Len(q) + i] = de[i]
  <2>1. q \in Seq(T)
    BY <1>8
  <2> QED
    BY ONLY <1>5, <1>6, <2>1
<1>10. PICK n \in Nat, l \in Nat : n = Len(old) /\ l = Len(mid) /\ l \in 0..1
  BY <1>3, <1>7, <1>8
<1>11. Len(p) = n + 2
  BY ONLY <1>2, <1>7, <1>10
<1>12. Len(q) = n + 2 + l
  BY ONLY <1>8, <1>10, <1>11
<1>13. PICK f \in Nat : f = n + l + 3
  OBVIOUS
<1>14. Len(list) = f + 1
  BY ONLY <1>2, <1>9, <1>12, <1>13, n \in Nat, l \in Nat
<1>15. list[f] = d /\ list[f + 1] = e
  <2>1. list[n + 2 + l + 1] = de[1] /\ list[n + 2 + l + 2] = de[2]
    BY ONLY <1>2, <1>9, <1>12
  <2>2. n + 2 + l + 1 = f /\ n + 2 + l + 2 = f + 1
    BY ONLY <1>13, n \in Nat, l \in Nat
  <2> QED
    BY ONLY <1>2, <2>1, <2>2
<1>16. ASSUME NEW i \in 1..n PROVE list[i] = old[i]
  <2>1. i \in 1..(n + 2) /\ i \in 1..(n + 2 + l)
    BY ONLY i \in 1..n, n \in Nat, l \in Nat
  <2> QED
    BY ONLY <1>7, <1>8, <1>9, <1>10, <1>11, <1>12, <2>1, i \in 1..n
<1>17. ASSUME NEW i \in (n + 1)..(f - 1)
       PROVE  list[i] = a \/ list[i] = b \/ (list[i] = c /\ i = f - 1)
  <2>1. i \in 1..(n + 2 + l) /\ (i = n + 1 \/ i = n + 2 \/ (i = n + 2 + 1 /\ l = 1 /\ i = f - 1))
    <3>1. l = 0 \/ l = 1
      BY ONLY <1>10
    <3> QED
      BY ONLY <1>13, <3>1, i \in (n + 1)..(f - 1), n \in Nat
  <2>2. list[i] = q[i]
    BY ONLY <1>9, <1>12, <2>1
  <2>3. q[n + 1] = ab[1] /\ q[n + 2] = ab[2]
    <3>1. n + 1 \in 1..(n + 2) /\ n + 2 \in 1..(n + 2)
      BY ONLY n \in Nat
    <3>2. p[n + 1] = ab[1] /\ p[n + 2] = ab[2]
      BY ONLY <1>2, <1>7, <1>10
    <3> QED
      BY ONLY <1>8, <1>11, <3>1, <3>2
  <2>4. l = 1 => q[n + 2 + 1] = c
    BY ONLY <1>3, <1>8, <1>10, <1>11
  <2> QED
    BY ONLY <1>2, <2>1, <2>2, <2>3, <2>4
<1>18. n < f
  BY ONLY <1>13, n \in Nat, l \in Nat
<1>19. n = Len(old) /\ list \in Seq(T)
  BY <1>9, <1>10
<1>20. Grown(list, old, a, b, c, d, e, n, f)
  BY ONLY <1>14, <1>15, <1>16, <1>17, <1>18, <1>19 DEF Grown
<1> QED
  BY ONLY <1>19, <1>20, n \in Nat, f \in Nat

LEMMA Lists ==
  ASSUME NEW S, NEW a \in S, NEW b \in S, NEW c \in S
  PROVE  /\ <<a>> \o <<b>> \in Seq(S) /\ Len(<<a>> \o <<b>>) = 2
         /\ (<<a>> \o <<b>>)[1] = a /\ (<<a>> \o <<b>>)[2] = b
         /\ <<a>> \o <<b, c>> \in Seq(S) /\ Len(<<a>> \o <<b, c>>) = 3
         /\ (<<a>> \o <<b, c>>)[1] = a /\ (<<a>> \o <<b, c>>)[2] = b /\ (<<a>> \o <<b, c>>)[3] = c
OBVIOUS

LEMMA MemoryIsHanded ==
  ASSUME MemoryPeim
  PROVE  /\ Handed'
         /\ \A i \in DOMAIN hobs' : hobs'[i].type # "guid"
<1> DEFINE lo == Region(sys.base, MaxAddress - sys.base + 1)
           hi == Region(MaxAddress + 1, End(sys) - MaxAddress - 1)
<1>1. PICK h, list : h = [type |-> "handoff"] /\ list = hobs'
  OBVIOUS
<1>2. h.type = "handoff"
  BY <1>1
<1>3. \A r : Resource(r).type = "resource" /\ Resource(r).region = r
  BY DEF Resource
<1>4. SysParts(sys)' = SysParts(sys)
  BY DEF MemoryPeim, SysParts, End
<1>5. CASE End(sys) - 1 > MaxAddress
  <2>1. PICK x, y : x = Resource(lo) /\ y = Resource(hi)
    OBVIOUS
  <2>2. list = <<h>> \o <<x, y>>
    BY <1>1, <1>5, <2>1 DEF MemoryPeim
  <2>3. /\ x.type = "resource" /\ y.type = "resource" /\ x.region = lo /\ y.region = hi
    BY <1>3, <2>1
  <2>4. SysParts(sys) = {lo, hi}
    BY <1>5 DEF SysParts
  <2> HIDE DEF lo, hi
  <2>5. PICK S : S = {h, x, y}
    OBVIOUS
  <2>6. list \in Seq(S) /\ Len(list) = 3 /\ list[1] = h /\ list[2] = x /\ list[3] = y
    BY ONLY <2>2, <2>5, Lists
  <2>7. DOMAIN list = 1..3
    BY ONLY <2>6
  <2>8. \A i \in 1..3 : i = 1 \/ i = 2 \/ i = 3
    OBVIOUS
  <2>9. {list[i].region : i \in {j \in DOMAIN list : list[j].type = "resource"}} = {lo, hi}
    BY <1>2, <2>3, <2>6, <2>7, <2>8
  <2>10. \A i \in DOMAIN list : list[i].type # "guid"
    BY <1>2, <2>3, <2>6, <2>7, <2>8
  <2> QED
    BY <1>1, <1>4, <2>4, <2>6, <2>9, <2>10 DEF Handed, Resources
<1>6. CASE ~(End(sys) - 1 > MaxAddress)
  <2>1. PICK x : x = Resource(sys)
    OBVIOUS
  <2>2. list = <<h>> \o <<x>>
    BY <1>1, <1>6, <2>1 DEF MemoryPeim
  <2>3. x.type = "resource" /\ x.region = sys
    BY <1>3, <2>1
  <2>4. SysParts(sys) = {sys}
    BY <1>6 DEF SysParts
  <2>5. PICK S : S = {h, x}
    OBVIOUS
  <2>6. list \in Seq(S) /\ Len(list) = 2 /\ list[1] = h /\ list[2] = x
    BY ONLY <2>2, <2>5, Lists
  <2>7. DOMAIN list = 1..2
    BY ONLY <2>6
  <2>8. \A i \in 1..2 : i = 1 \/ i = 2
    OBVIOUS
  <2>9. {list[i].region : i \in {j \in DOMAIN list : list[j].type = "resource"}} = {sys}
    BY <1>2, <2>3, <2>6, <2>7, <2>8
  <2>10. \A i \in DOMAIN list : list[i].type # "guid"
    BY <1>2, <2>3, <2>6, <2>7, <2>8
  <2> QED
    BY <1>1, <1>4, <2>4, <2>6, <2>9, <2>10 DEF Handed, Resources
<1> QED
  BY <1>5, <1>6

LEMMA TreeIsHanded ==
  ASSUME PlatformPeim, Handed, \A i \in DOMAIN hobs : hobs[i].type # "guid"
  PROVE  Handed' /\ \E f \in Nat : TreeAt(f)'
<1>1. PICK a, b, c, d, e :
        /\ a = [type |-> "stack", region |-> Stack] /\ b = [type |-> "cpu"]
        /\ c = [type |-> "guid", name |-> "atags"]
        /\ d = [type |-> "guid", name |-> "fdt", reg |-> Regs] /\ e = [type |-> "fv"]
  OBVIOUS
<1>2. /\ a.type = "stack" /\ b.type = "cpu" /\ c.type = "guid" /\ c.name = "atags"
      /\ d.type = "guid" /\ d.name = "fdt" /\ d.reg = Regs /\ e.type = "fv"
  BY <1>1
<1>3. PICK old, list : old = hobs /\ list = hobs'
  OBVIOUS
<1>4. PICK mid : mid = IF board.tags THEN <<[type |-> "guid", name |-> "atags"]>> ELSE <<>>
  OBVIOUS
<1>5. list = old \o <<a, b>> \o mid \o <<d, e>>
  BY <1>1, <1>3, <1>4, Zenon DEF PlatformPeim
<1>6. mid = <<>> \/ mid = <<c>>
  BY <1>1, <1>4
<1>7. PICK S : old \in Seq(S)
  BY <1>3 DEF Handed
<1>8. Grows(list, old, S, a, b, c, d, e)
  BY <1>5, <1>6, <1>7, Zenon DEF Grows
<1>9. PICK T, n, f :
        /\ list \in Seq(T) /\ n \in Nat /\ f \in Nat /\ n = Len(old) /\ n < f /\ Len(list) = f + 1
        /\ list[f] = d /\ list[f + 1] = e
        /\ \A i \in 1..n : list[i] = old[i]
        /\ \A i \in (n + 1)..(f - 1) :
             list[i] = a \/ list[i] = b \/ (list[i] = c /\ i = f - 1)
  <2>1. PICK T : list \in Seq(T)
    BY ONLY <1>8, ListGrows
  <2>2. PICK n \in Nat, f \in Nat : Grown(list, old, a, b, c, d, e, n, f)
    BY ONLY <1>8, ListGrows
  <2> QED
    BY <2>1, <2>2, Zenon DEF Grown
<1>10. DOMAIN old = 1..n /\ DOMAIN list = 1..(f + 1)
  BY ONLY <1>7, <1>9
<1>11. \A i \in 1..n : old[i].type # "guid"
  BY <1>3, <1>10
<1>12. ASSUME NEW i \in 1..(f + 1), list[i].type = "guid"
       PROVE  i = f \/ (i = f - 1 /\ list[i].name # "fdt")
  <2>1. i \in 1..n \/ i \in (n + 1)..(f - 1) \/ i = f \/ i = f + 1
    BY ONLY i \in 1..(f + 1), <1>9
  <2>2. CASE i \in 1..n
    BY <2>2, <1>9, <1>11, <1>12
  <2>3. CASE i \in (n + 1)..(f - 1)
    BY <2>3, <1>2, <1>9, <1>12
  <2>4. CASE i = f + 1
    BY <2>4, <1>2, <1>9, <1>12
  <2> QED
    BY <2>1, <2>2, <2>3, <2>4
<1>13. TreeAt(f)'
  <2>1. Regs' = Regs
    BY DEF PlatformPeim, Regs
  <2>2. Len(list) \in Nat /\ f \in 1..Len(list)
    BY ONLY <1>9
  <2>3. list[f].type = "guid" /\ list[f].name = "fdt" /\ list[f].reg = Regs
    BY <1>2, <1>9
  <2>4. \A i \in 1..Len(list) : list[i].type = "guid" => i = f \/ (i = f - 1 /\ list[i].name # "fdt")
    BY <1>9, <1>12
  <2> QED
    BY <1>3, <2>1, <2>2, <2>3, <2>4 DEF TreeAt
<1>14. {list[i].region : i \in {j \in DOMAIN list : list[j].type = "resource"}}
         = {old[i].region : i \in {j \in DOMAIN old : old[j].type = "resource"}}
  <2>1. ASSUME NEW i \in 1..(f + 1), list[i].type = "resource" PROVE i \in 1..n
    <3>1. i \in 1..n \/ i \in (n + 1)..(f - 1) \/ i = f \/ i = f + 1
      BY ONLY i \in 1..(f + 1), <1>9
    <3> QED
      BY <1>2, <1>9, <2>1, <3>1
  <2>2. 1..n \subseteq 1..(f + 1)
    BY ONLY <1>9
  <2>3. {j \in DOMAIN list : list[j].type = "resource"} = {j \in DOMAIN old : old[j].type = "resource"}
    BY <1>9, <1>10, <2>1, <2>2
  <2>4. \A i \in {j \in DOMAIN old : old[j].type = "resource"} : list[i] = old[i]
    BY <1>9, <1>10
  <2> QED
    BY <2>3, <2>4
<1>15. Handed'
  <2>1. SysParts(sys)' = SysParts(sys)
    BY DEF PlatformPeim, SysParts, End
  <2>2. \E U : hobs' \in Seq(U)
    BY <1>3, <1>9, Zenon
  <2>3. Resources' = Resources
    BY <1>3, <1>14 DEF Resources
  <2> QED
    BY <2>1, <2>2, <2>3, Zenon DEF Handed
<1> QED
  BY <1>9, <1>13, <1>15, Zenon

LEMMA BootInvInit == BootInit => BootInv
BY DEF BootInit, BootInv

LEMMA BootInvStep == BootInv /\ [BootNext]_bootVars => BootInv'
<1> SUFFICES ASSUME BootInv, [BootNext]_bootVars PROVE BootInv'
  OBVIOUS
<1>1. CASE ArmPlatformPeiBootAction
  BY <1>1 DEF BootInv, ArmPlatformPeiBootAction
<1>2. CASE SetupStack
  <2>1. StackTop' = StackTop
    BY <1>2 DEF SetupStack, StackTop, End
  <2> QED
    BY <1>2, <2>1 DEF BootInv, SetupStack, Region
<1>3. CASE MemoryPeim
  <2>1. StackTop' = StackTop
    BY <1>3 DEF MemoryPeim, StackTop, End
  <2>2. MemoryMap' = MemoryMap
    BY <1>3 DEF MemoryPeim, MemoryMap, Below, RemovedEntries, Fd, End
  <2>3. Handed' /\ \A i \in DOMAIN hobs' : hobs'[i].type # "guid"
    BY <1>3, MemoryIsHanded
  <2>4. /\ board' = board /\ sys' = sys /\ uefi' = uefi /\ mmu' = MemoryMap
        /\ phase = "memory" /\ phase' = "platform"
    BY <1>3 DEF MemoryPeim
  <2> QED
    BY <2>1, <2>2, <2>3, <2>4 DEF BootInv, Region
<1>4. CASE PlatformPeim
  <2>1. StackTop' = StackTop
    BY <1>4 DEF PlatformPeim, StackTop, End
  <2>2. MemoryMap' = MemoryMap
    BY <1>4 DEF PlatformPeim, MemoryMap, Below, RemovedEntries, Fd, End
  <2>3. /\ board' = board /\ sys' = sys /\ uefi' = uefi /\ mmu' = mmu
        /\ phase = "platform" /\ phase' = "core"
    BY <1>4 DEF PlatformPeim
  <2>4. Handed' /\ \E f \in Nat : TreeAt(f)'
    BY <1>4, <2>3, TreeIsHanded DEF BootInv
  <2> QED
    BY <2>1, <2>2, <2>3, <2>4 DEF BootInv, Region
<1>5. CASE DxeCore
  <2>1. StackTop' = StackTop
    BY <1>5 DEF DxeCore, StackTop, End
  <2>2. MemoryMap' = MemoryMap
    BY <1>5 DEF DxeCore, MemoryMap, Below, RemovedEntries, Fd, End
  <2>3. /\ board' = board /\ sys' = sys /\ uefi' = uefi /\ mmu' = mmu /\ hobs' = hobs
        /\ phase = "core" /\ phase' = "highmem" /\ gcd' = Resources
    BY <1>5 DEF DxeCore, Resources
  <2>4. PICK f \in Nat : TreeAt(f)
    BY <2>3 DEF BootInv
  <2>5. Regs' = Regs
    BY <2>3 DEF Regs
  <2>6. TreeAt(f)'
    BY <2>3, <2>4, <2>5 DEF TreeAt
  <2>7. gcd' = SysParts(sys)'
    <3>1. SysParts(sys)' = SysParts(sys)
      BY <2>3 DEF SysParts, End
    <3> QED
      BY <2>3, <3>1 DEF BootInv, Handed
  <2> QED
    BY <2>1, <2>2, <2>3, <2>6, <2>7 DEF BootInv, Region
<1>6. CASE HighMem
  <2>1. StackTop' = StackTop
    BY <1>6 DEF HighMem, StackTop, End
  <2>2. MemoryMap' = MemoryMap
    BY <1>6 DEF HighMem, MemoryMap, Below, RemovedEntries, Fd, End
  <2>3. SysParts(sys)' = SysParts(sys)
    BY <1>6 DEF HighMem, SysParts, End
  <2>4. /\ board' = board /\ sys' = sys /\ uefi' = uefi
        /\ phase = "highmem" /\ phase' = "up"
    BY <1>6 DEF HighMem
  <2>5. /\ board \in Machines /\ sys = FindMemnode(board) /\ mmu = MemoryMap /\ gcd = SysParts(sys)
    BY <2>4 DEF BootInv
  <2>6. hobs[GetFirstGuidHob("fdt")].reg = Regs
    <3>1. PICK f \in Nat : TreeAt(f)
      BY <2>4 DEF BootInv
    <3> QED
      BY <3>1, TreeIsFound DEF TreeAt
  <2>7. PICK m, parts, map, reg, k0 :
          /\ m = board /\ parts = SysParts(sys) /\ map = MemoryMap /\ reg = Regs
          /\ k0 = [gcd |-> gcd, mmu |-> mmu]
    OBVIOUS
  <2>8. m \in Machines /\ map \in Seq(Entries) /\ AddedOk(m, parts, map, k0)
    <3>1. PICK h : h = HighestRange(m)
      OBVIOUS
    <3>2. /\ h \in Ranges(m) /\ sys \in Regions /\ End(sys) = End(h)
          /\ 2 * UefiRegionSize + FdSize + PageSize <= MaxAddress + 1 - sys.base
      BY <2>5, <2>7, <3>1, MemnodeIs
    <3>3. End(sys) <= TopOfMemory
      BY <2>5, <2>7, <3>2, MachineIs
    <3>4. sys.base <= MaxAddress
      BY <3>2, RegionIs, NumbersAre
    <3>5. PICK k \in Nat : MapIsKnown(map, k)
      BY <2>5, <2>7, <3>2, <3>3, MapIs
    <3>6. map \in Seq(Entries)
      BY <3>5 DEF MapIsKnown
    <3>7. parts \subseteq Regions /\ \A p, q \in parts : p # q => ~Overlap(p, q)
      BY <2>7, <3>2, <3>4, PartsAre
    <3>8. k0.gcd = parts /\ k0.mmu = map
      BY <2>5, <2>7
    <3>9. Len(map) \in Nat
      BY <3>6
    <3>10. AddedOk(m, parts, map, k0)
      BY <3>6, <3>7, <3>8, <3>9 DEF AddedOk
    <3> QED
      BY <2>5, <2>7, <3>6, <3>10
  <2>9. Len(reg) \in Nat /\ \A i \in 1..Len(reg) : OfBoard(m, reg[i])
    BY <2>5, <2>7, RegsAreOfBoard
  <2> DEFINE all == LET known[i \in 0..Len(reg)] == IF i = 0 THEN k0 ELSE AddMemorySpace(known[i - 1], reg[i])
                    IN  known[Len(reg)]
  <2>10. AddedOk(m, parts, map, all)
    BY <2>8, <2>9, AddingKeepsOk
  <2>11. gcd' = all.gcd /\ mmu' = all.mmu
    <3>1. PICK r0 : r0 = hobs[GetFirstGuidHob("fdt")].reg
      OBVIOUS
    <3>2. r0 = reg
      BY <2>6, <2>7, <3>1
    <3> QED
      BY <1>6, <2>7, <3>1, <3>2, ZenonT(60) DEF HighMem
  <2> HIDE DEF all
  <2>12. AddedOk(m, parts, map, [gcd |-> gcd', mmu |-> mmu'])
    BY <2>10, <2>11 DEF AddedOk
  <2>13. Described'
    BY <2>2, <2>3, <2>4, <2>5, <2>7, <2>12 DEF Described
  <2> QED
    BY <2>1, <2>4, <2>5, <2>13 DEF BootInv, Region
<1>7. CASE UNCHANGED bootVars
  <2>1. /\ phase' = phase /\ board' = board /\ sys' = sys /\ uefi' = uefi
        /\ hobs' = hobs /\ mmu' = mmu /\ gcd' = gcd
    BY <1>7 DEF bootVars
  <2>2. StackTop' = StackTop /\ SysParts(sys)' = SysParts(sys) /\ Regs' = Regs
    BY <2>1 DEF StackTop, SysParts, Regs, End
  <2>3. MemoryMap' = MemoryMap
    BY <2>1 DEF MemoryMap, Below, RemovedEntries, Fd, End
  <2>4. Described => Described'
    BY <2>1, <2>2, <2>3 DEF Described
  <2>5. Handed => Handed'
    BY <2>1, <2>2 DEF Handed, Resources
  <2>6. \A f \in Nat : TreeAt(f) => TreeAt(f)'
    BY <2>1, <2>2 DEF TreeAt
  <2> QED
    BY <2>1, <2>2, <2>3, <2>4, <2>5, <2>6 DEF BootInv, Region
<1> QED
  BY <1>1, <1>2, <1>3, <1>4, <1>5, <1>6, <1>7 DEF BootNext

(* From its first stack to the end the firmware uses memory as the tree    *)
(* describes it.                                                           *)
THEOREM MemoryIsAsDescribed == BootSpec => []MemoryAsDescribed
<1>1. BootInit => BootInv
  BY BootInvInit
<1>2. BootInv /\ [BootNext]_bootVars => BootInv'
  BY BootInvStep
<1>3. BootInv => MemoryAsDescribed
  BY BootInvIsEnough
<1> QED
  BY <1>1, <1>2, <1>3, PTL DEF BootSpec
=============================================================================
