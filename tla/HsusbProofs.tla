---------------------------- MODULE HsusbProofs ----------------------------
(***************************************************************************)
(* The ChipIdea controller's driver takes the steps of the request queue   *)
(* and no others, so that what is proved of the queue holds on it; and the *)
(* controller's one descriptor stays with the head of the queue.           *)
(***************************************************************************)
EXTENDS HsusbGadget, UsbTransferProofs

Erroring  == {"errors", "errors+ui"}
Resetting == {"reset", "reset+ui"} \cup Erroring

(* From a bus reset until its errors are delivered the controller is off   *)
(* and has nothing left to report.                                         *)
ControllerIsOff ==
  isr \in Resetting => /\ ~enabled /\ usb_config_value = 0
                       /\ COMPLETE = {} /\ item.state # "active"

(* When the errors are delivered Usb.c has heard of the reset: what the    *)
(* failed head leaves behind is an empty queue.                            *)
ResetWasTold ==
  isr \in Erroring => /\ mDeviceState = "Disconnected"
                      /\ restarting => mRequestQueue = <<>>

LinkIsConfigured ==
  isr \notin {"reset", "reset+ui"}
    => (usb_config_value = 1 <=> mDeviceState = "Connected")

(* req_complete is only ever called from the handler's two loops.          *)
RestartsInHandler == restarting => isr \in Erroring \cup {"completions"}

(* A bit that is being collected is the only one.                          *)
OneBitAtATime == isr = "completions" /\ todo # {} => COMPLETE = {}

NotRunningIsQuiet == life # "started" => isr = "none" /\ USBSTS = {}

(* The controller counts no more bytes than the descriptor asked for.      *)
CountFits == udc # None => item.actual <= xfer_len[udc]

ChipInv ==
  /\ HsusbInvariant
  /\ ControllerIsOff /\ ResetWasTold /\ LinkIsConfigured
  /\ RestartsInHandler /\ OneBitAtATime /\ NotRunningIsQuiet /\ CountFits

-----------------------------------------------------------------------------
(* What the invariant needs to know of the queue's operations.             *)

(* A queue whose only element is taken off is empty.                       *)
LEMMA LastTaken ==
  ASSUME NEW S, NEW s \in Seq(S), s # <<>>, Len(s) <= 1
  PROVE  Tail(s) = <<>>
  OBVIOUS

(* A queue cut after at most one element has at most one.                  *)
LEMMA CutQueue ==
  ASSUME UsbTypeOK, NotifyOffline
  PROVE  /\ Len(mRequestQueue') <= 1
         /\ mDeviceState' = "Disconnected"
         /\ UNCHANGED <<udc, xfer_len, life, restarting>>
<1> DEFINE keep == IF mRequestQueue # <<>> /\ mRequestState = "TRANSFER"
                     THEN 1 ELSE 0
<1>1. keep \in 0..1 /\ keep <= Len(mRequestQueue)
  BY DEF UsbTypeOK
<1>2. mRequestQueue' = SubSeq(mRequestQueue, 1, keep)
  BY DEF NotifyOffline, GadgetOffline
<1>3. Len(SubSeq(mRequestQueue, 1, keep)) = keep
  <2> HIDE DEF keep
  <2> QED BY <1>1, SubSeqFacts DEF UsbTypeOK
<1> QED
  BY <1>1, <1>2, <1>3 DEF NotifyOffline, GadgetOffline, entryVars

(* An idle queue has given nothing to the controller.                      *)
LEMMA IdleHasNone ==
  ASSUME QueueInv, mRequestState = "IDLE"
  PROVE  udc = None
  BY DEF QueueInv, CompletionHitsHead

(* A completion: the head is over, or its next chunk is with the           *)
(* controller; after an error it is over.                                  *)
LEMMA CompletionOutcome ==
  ASSUME QueueInv, NEW actual, NEW good \in BOOLEAN,
         ReqComplete(actual, good, TRUE)
  PROVE  /\ UNCHANGED <<life, mDeviceState>>
         /\ ~good => udc' = None /\ mRequestQueue' = Tail(mRequestQueue)
         /\ udc # None /\ mRequestQueue # <<>>
<1>1. udc # None /\ mRequestQueue # <<>> /\ mRequestState = "TRANSFER"
  BY DEF ReqComplete, QueueInv, CompletionHitsHead
<1>2. UNCHANGED <<life, mDeviceState>>
  BY DEF ReqComplete, deviceVars
<1>3. ~good => Finish(Head(mRequestQueue), "Failed")
  BY <1>1 DEF ReqComplete
<1> QED
  BY <1>1, <1>2, <1>3 DEF Finish

-----------------------------------------------------------------------------
(* Every step is a step of the queue, or none of its business.             *)
LEMMA HsusbStepIsUsbStep ==
  ASSUME QueueInv, ChipInv, [HsusbNext]_hsusbVars
  PROVE  [UsbNext]_usbVars
<1>t. UsbTypeOK /\ item.actual \in Nat
  BY DEF QueueInv, ChipInv, HsusbInvariant, HsusbTypeOK
<1>1. CASE GadgetStart
  BY <1>1 DEF GadgetStart, UsbNext
<1>2. CASE GadgetStop
  BY <1>2 DEF GadgetStop, UsbNext
<1>3. ASSUME NEW r \in Requests, GadgetTransfer(r) PROVE UsbNext
  <2>1. Transfer(r, TRUE)
    BY <1>3 DEF GadgetTransfer
  <2> QED
    BY <2>1 DEF UsbNext, Client
<1>4. CASE GadgetReport
  BY <1>4 DEF GadgetReport, UsbNext
<1>5. CASE HostStep \/ HwStep
  BY <1>5 DEF HostStep, HwStep, HostReset, HostSetConfiguration, HostMovesData
<1>6. ASSUME NEW actual, NEW good \in BOOLEAN, NEW dir,
             udc # None => actual \in 0..xfer_len[udc],
             EptComplete(dir, actual, good)
      PROVE  [UsbNext]_usbVars
  <2>1. CASE UNCHANGED usbVars
    BY <2>1
  <2>2. CASE ReqComplete(actual, good, TRUE)
    <3>1. actual \in Actual
      BY <1>6, <2>2 DEF Actual, ReqComplete
    <3>2. Complete
      BY <2>2, <3>1 DEF Complete
    <3> QED
      BY <3>2 DEF UsbNext
  <2> QED
    BY <1>6, <2>1, <2>2 DEF EptComplete
<1>7. CASE IsrEnter
  BY <1>7 DEF IsrEnter
<1>8. CASE IsrResetNotify
  BY <1>8 DEF IsrResetNotify, UsbNext
<1>9. CASE IsrErrors
  <2>1. CASE UNCHANGED usbVars
    BY <2>1
  <2>2. ASSUME NEW dir \in todo, EptComplete(dir, 0, FALSE)
        PROVE  [UsbNext]_usbVars
    <3>1. udc # None => 0 \in 0..xfer_len[udc]
      BY <1>t DEF UsbTypeOK
    <3> QED
      BY <1>6, <2>2, <3>1
  <2> QED
    BY <1>9, <2>1, <2>2 DEF IsrErrors
<1>10. CASE IsrSetup
  BY <1>10 DEF IsrSetup, HandleSetConfiguration, UsbNext
<1>11. CASE IsrCompletions
  <2>1. CASE UNCHANGED usbVars
    BY <2>1
  <2>2. ASSUME NEW dir \in todo,
               EptComplete(dir, item.actual, item.state = "done")
        PROVE  [UsbNext]_usbVars
    <3>1. udc # None => item.actual \in 0..xfer_len[udc]
      BY <1>t DEF UsbTypeOK, ChipInv, CountFits
    <3>2. (item.state = "done") \in BOOLEAN
      OBVIOUS
    <3> QED
      BY <1>6, <2>2, <3>1, <3>2
  <2> QED
    BY <1>11, <2>1, <2>2 DEF IsrCompletions
<1>12. CASE IsrRestart
  BY <1>12 DEF IsrRestart, Restart, UsbNext
<1>13. CASE UNCHANGED hsusbVars
  BY <1>13 DEF hsusbVars
<1> QED
  BY <1>1, <1>2, <1>3, <1>4, <1>5, <1>7, <1>8, <1>9, <1>10, <1>11, <1>12, <1>13
  DEF HsusbNext, IsrStep

-----------------------------------------------------------------------------
(* Nothing is configured, queued or pending at first.                      *)
LEMMA ChipInvInit == HsusbInit => ChipInv
<1> SUFFICES ASSUME HsusbInit PROVE ChipInv
  OBVIOUS
<1>1. UsbTypeOK
  BY QueueInvInit DEF HsusbInit, QueueInv
<1>2. /\ udc = None /\ ~restarting /\ mDeviceState = "Disconnected"
      /\ eptReq = {} /\ item = [state |-> "idle", actual |-> 0]
      /\ enabled = FALSE /\ usb_config_value = 0
      /\ USBSTS = {} /\ SETUPSTAT = "none" /\ COMPLETE = {}
      /\ isr = "none" /\ todo = {}
  BY DEF HsusbInit, UsbInit, NoItem
<1>3. HsusbTypeOK
  BY <1>1, <1>2 DEF HsusbTypeOK
<1>4. DescriptorOnOneEndpoint /\ CompletionBitIsFresh
  BY <1>2 DEF DescriptorOnOneEndpoint, CompletionBitIsFresh
<1>5. ResetStartsNothing /\ ConfiguredIsConnected
  BY <1>2 DEF ResetStartsNothing, ConfiguredIsConnected
<1>6. ControllerIsOff /\ ResetWasTold /\ LinkIsConfigured
  BY <1>2 DEF ControllerIsOff, ResetWasTold, LinkIsConfigured, Erroring, Resetting
<1>7. RestartsInHandler /\ OneBitAtATime /\ NotRunningIsQuiet /\ CountFits
  BY <1>2 DEF RestartsInHandler, OneBitAtATime, NotRunningIsQuiet, CountFits
<1> QED
  BY <1>3, <1>4, <1>5, <1>6, <1>7 DEF ChipInv, HsusbInvariant

(* Dir names an endpoint.                                                   *)
LEMMA DirIsEndpoint ==
  ASSUME NEW r \in Requests
  PROVE  Dir(r) \in {"in", "out"}
  BY DEF Dir

(* The client, ReportEvents, Start and Stop.                               *)
LEMMA ClientKeepsChip ==
  ASSUME QueueInv, QueueInv', ChipInv,
         \/ GadgetStart \/ GadgetStop \/ GadgetReport
         \/ \E r \in Requests : GadgetTransfer(r)
  PROVE  ChipInv'
<1> USE DEF ChipInv, HsusbInvariant
<1>t. UsbTypeOK /\ UsbTypeOK'
  BY DEF QueueInv
<1>1. CASE GadgetStart
  BY SMTT(40), <1>t, <1>1
  DEF GadgetStart, Start, HsusbTypeOK,
      DescriptorOnOneEndpoint, CompletionBitIsFresh, ResetStartsNothing,
      ConfiguredIsConnected, ControllerIsOff, ResetWasTold, LinkIsConfigured,
      RestartsInHandler, OneBitAtATime, NotRunningIsQuiet, CountFits,
      Erroring, Resetting, queueVars, entryVars, deviceVars, regVars, queueHw,
      isrVars, UsbTypeOK, Dir
<1>2. CASE GadgetStop
  BY <1>t, <1>2
  DEF GadgetStop, Stop, NoItem, HsusbTypeOK,
      DescriptorOnOneEndpoint, CompletionBitIsFresh, ResetStartsNothing,
      ConfiguredIsConnected, ControllerIsOff, ResetWasTold, LinkIsConfigured,
      RestartsInHandler, OneBitAtATime, NotRunningIsQuiet, CountFits,
      Erroring, Resetting, queueVars, entryVars, deviceVars, isrVars
<1>3. CASE GadgetReport
  <2>1. UNCHANGED <<mRequestQueue, xfer_len, mDeviceState, life, restarting, udc>>
    BY <1>3
    DEF GadgetReport, Report, ReportStart, ReportState, ReportLoop,
        ReportTransfer, queueVars, entryVars, deviceVars
  <2> QED
    BY <1>t, <1>3, <2>1
    DEF GadgetReport, HsusbTypeOK,
        DescriptorOnOneEndpoint, CompletionBitIsFresh, ResetStartsNothing,
        ConfiguredIsConnected, ControllerIsOff, ResetWasTold, LinkIsConfigured,
        RestartsInHandler, OneBitAtATime, NotRunningIsQuiet, CountFits,
        Erroring, Resetting, regVars, queueHw, isrVars, Dir
<1>4. ASSUME NEW r \in Requests, GadgetTransfer(r) PROVE ChipInv'
  <2>1. /\ isr = "none" /\ UNCHANGED <<regVars, isrVars>>
        /\ life = "started" /\ ~restarting
        /\ UNCHANGED <<mDeviceState, life, restarting>>
    BY <1>4 DEF GadgetTransfer, Transfer, deviceVars, LockFree
  <2>2. CASE mRequestState = "IDLE"
    <3>1. udc = None /\ eptReq = {} /\ COMPLETE = {}
      BY <2>1, <2>2, IdleHasNone
      DEF DescriptorOnOneEndpoint, CompletionBitIsFresh
    <3>2. udc' = r
      BY <1>4, <2>2 DEF GadgetTransfer, Transfer, ReqQueueRequest
    <3>3. eptReq' = {Dir(r)} /\ item' = [state |-> "active", actual |-> 0]
      BY <1>4, <2>2, <3>1, <3>2 DEF GadgetTransfer, PrimeIfQueued
    <3>4. r # None
      BY UsbTransferAssumption DEF UsbTransferAssumption
    <3>5. Dir(udc)' = Dir(r) /\ Dir(r) \in {"in", "out"}
      BY <3>2, DirIsEndpoint DEF Dir
    <3>6. xfer_len'[udc'] \in Nat
      BY <1>t, <3>2 DEF UsbTypeOK
    <3> QED
      BY <1>t, <2>1, <3>1, <3>2, <3>3, <3>4, <3>5, <3>6
      DEF HsusbTypeOK,
          DescriptorOnOneEndpoint, CompletionBitIsFresh, ResetStartsNothing,
          ConfiguredIsConnected, ControllerIsOff, ResetWasTold, LinkIsConfigured,
          RestartsInHandler, OneBitAtATime, NotRunningIsQuiet, CountFits,
          Erroring, Resetting, regVars, isrVars
  <2>3. CASE mRequestState # "IDLE"
    <3>1. UNCHANGED <<udc, xfer_len>>
      BY <1>4, <2>3 DEF GadgetTransfer, Transfer
    <3>2. UNCHANGED <<eptReq, item>>
      BY <1>4, <2>3 DEF GadgetTransfer, PrimeIfQueued
    <3> QED
      BY <1>t, <2>1, <3>1, <3>2
      DEF HsusbTypeOK,
          DescriptorOnOneEndpoint, CompletionBitIsFresh, ResetStartsNothing,
          ConfiguredIsConnected, ControllerIsOff, ResetWasTold, LinkIsConfigured,
          RestartsInHandler, OneBitAtATime, NotRunningIsQuiet, CountFits,
          Erroring, Resetting, regVars, isrVars, Dir
  <2> QED
    BY <2>2, <2>3
<1> QED
  BY <1>1, <1>2, <1>3, <1>4

(* The host and the controller.                                            *)
LEMMA HostKeepsChip ==
  ASSUME QueueInv, QueueInv', ChipInv, HostStep \/ HwStep
  PROVE  ChipInv'
<1> USE DEF ChipInv, HsusbInvariant
<1>t. UsbTypeOK /\ UsbTypeOK'
  BY DEF QueueInv
<1>1. CASE HostStep
  <2>1. /\ life = "started" /\ UNCHANGED <<usbVars, queueHw, isrVars>>
        /\ UNCHANGED <<enabled, usb_config_value, COMPLETE>>
        /\ USBSTS' \subseteq USBSTS \cup {"URI", "UI"}
        /\ SETUPSTAT' \in {SETUPSTAT, "0", "1"}
    BY <1>1 DEF HostStep, HostReset, HostSetConfiguration
  <2> QED
    BY <1>t, <2>1
    DEF HsusbTypeOK,
        DescriptorOnOneEndpoint, CompletionBitIsFresh, ResetStartsNothing,
        ConfiguredIsConnected, ControllerIsOff, ResetWasTold, LinkIsConfigured,
        RestartsInHandler, OneBitAtATime, NotRunningIsQuiet, CountFits,
        Erroring, Resetting, usbVars, queueVars, entryVars, deviceVars,
        queueHw, isrVars, Dir
<1>2. ASSUME NEW actual \in Actual, NEW state \in {"done", "error"},
             HostMovesData(actual, state)
      PROVE  ChipInv'
  <2>1. /\ life = "started" /\ enabled /\ item.state = "active" /\ udc # None
        /\ item' = [state |-> state, actual |-> actual]
        /\ COMPLETE' = COMPLETE \cup {Dir(udc)}
        /\ USBSTS' = USBSTS \cup {"UI"}
        /\ UNCHANGED <<usbVars, enabled, usb_config_value, SETUPSTAT, eptReq,
                       isrVars>>
    BY <1>2 DEF HostMovesData
  <2>2. actual \in Nat /\ actual <= xfer_len[udc]
    BY <1>t, <2>1 DEF Actual, UsbTypeOK
  <2>3. eptReq = {Dir(udc)} /\ Dir(udc) \in {"in", "out"}
    BY <1>t, <2>1, DirIsEndpoint DEF DescriptorOnOneEndpoint, UsbTypeOK
  <2>4. COMPLETE = {} /\ isr \notin Resetting
    BY <2>1, <2>3 DEF CompletionBitIsFresh, ControllerIsOff
  <2>5. isr = "completions" => todo = {}
    BY <2>1, <2>3 DEF CompletionBitIsFresh
  <2>6. UNCHANGED <<mRequestQueue, xfer_len, mDeviceState, life, restarting, udc>>
    BY <2>1 DEF usbVars, queueVars, entryVars, deviceVars
  <2> QED
    BY <1>t, <2>1, <2>2, <2>3, <2>4, <2>5, <2>6
    DEF HsusbTypeOK,
        DescriptorOnOneEndpoint, CompletionBitIsFresh, ResetStartsNothing,
        ConfiguredIsConnected, ControllerIsOff, ResetWasTold, LinkIsConfigured,
        RestartsInHandler, OneBitAtATime, NotRunningIsQuiet, CountFits,
        Erroring, Resetting, isrVars, Dir
<1> QED
  BY <1>1, <1>2 DEF HwStep

(* The handler, up to its two loops.                                       *)
LEMMA HandlerKeepsChip ==
  ASSUME QueueInv, QueueInv', ChipInv, IsrEnter \/ IsrResetNotify \/ IsrSetup
  PROVE  ChipInv'
<1> USE DEF ChipInv, HsusbInvariant
<1>t. UsbTypeOK /\ UsbTypeOK'
  BY DEF QueueInv
<1>1. CASE IsrEnter
  <2>1. UNCHANGED <<mRequestQueue, xfer_len, mDeviceState, life, restarting, udc>>
    BY <1>1 DEF IsrEnter, usbVars, queueVars, entryVars, deviceVars
  <2>2. life = "started"
    BY <1>1, <1>t DEF IsrEnter, NotRunningIsQuiet
  <2>3. ~restarting /\ isr = "none" /\ USBSTS' = {} /\ UNCHANGED <<eptReq, todo>>
    BY <1>1 DEF IsrEnter, LockFree
  <2>4. CASE /\ COMPLETE' = {} /\ SETUPSTAT' = "none"
             /\ enabled' = FALSE /\ usb_config_value' = 0
             /\ item' = IF item.state = "active" THEN NoItem ELSE item
             /\ isr' \in {"reset", "reset+ui"}
    <3>1. /\ item' \in [state : {"idle", "active", "done", "error"}, actual : Nat]
          /\ item'.state # "active"
          /\ udc # None => item'.actual <= xfer_len[udc]
      BY <1>t, <2>4 DEF NoItem, HsusbTypeOK, UsbTypeOK, CountFits
    <3> HIDE <2>4
    <3>2. /\ COMPLETE' = {} /\ SETUPSTAT' = "none"
          /\ enabled' = FALSE /\ usb_config_value' = 0
          /\ isr' \in {"reset", "reset+ui"}
      BY <2>4
    <3> QED
      BY <1>t, <2>1, <2>2, <2>3, <3>1, <3>2
      DEF HsusbTypeOK,
          DescriptorOnOneEndpoint, CompletionBitIsFresh, ResetStartsNothing,
          ConfiguredIsConnected, ControllerIsOff, ResetWasTold, LinkIsConfigured,
          RestartsInHandler, OneBitAtATime, NotRunningIsQuiet, CountFits,
          Erroring, Resetting, Dir
  <2>5. CASE /\ isr' = "ui"
             /\ UNCHANGED <<COMPLETE, SETUPSTAT, enabled, usb_config_value, item>>
    BY <1>t, <2>1, <2>2, <2>3, <2>5
    DEF HsusbTypeOK,
        DescriptorOnOneEndpoint, CompletionBitIsFresh, ResetStartsNothing,
        ConfiguredIsConnected, ControllerIsOff, ResetWasTold, LinkIsConfigured,
        RestartsInHandler, OneBitAtATime, NotRunningIsQuiet, CountFits,
        Erroring, Resetting, Dir
  <2> QED
    BY <1>1, <2>4, <2>5 DEF IsrEnter
<1>2. CASE IsrResetNotify
  <2>1. /\ Len(mRequestQueue') <= 1 /\ mDeviceState' = "Disconnected"
        /\ UNCHANGED <<udc, xfer_len, life, restarting>>
        /\ life = "started" /\ ~restarting
    BY <1>2, <1>t, CutQueue DEF IsrResetNotify, NotifyOffline, LockFree
  <2> QED
    BY <1>t, <1>2, <2>1
    DEF IsrResetNotify, HsusbTypeOK,
        DescriptorOnOneEndpoint, CompletionBitIsFresh, ResetStartsNothing,
        ConfiguredIsConnected, ControllerIsOff, ResetWasTold, LinkIsConfigured,
        RestartsInHandler, OneBitAtATime, NotRunningIsQuiet, CountFits,
        Erroring, Resetting, regVars, queueHw, Dir
<1>3. CASE IsrSetup
  <2>1. life = "started" /\ ~restarting /\ isr = "ui"
    BY <1>3 DEF IsrSetup, NotRunningIsQuiet, RestartsInHandler, Erroring
  <2>2. UNCHANGED <<xfer_len, life, restarting, udc>>
    BY <1>3
    DEF IsrSetup, HandleSetConfiguration, NotifyOnline, NotifyOffline,
        usbVars, queueVars, entryVars
  <2>3. usb_config_value' = 1 <=> mDeviceState' = "Connected"
    BY <1>t, <1>3, <2>1
    DEF IsrSetup, HandleSetConfiguration, NotifyOnline, NotifyOffline,
        GadgetOffline, LinkIsConfigured, usbVars, deviceVars, UsbTypeOK,
        HsusbTypeOK
  <2>4. enabled' \in BOOLEAN /\ usb_config_value' \in {0, 1}
    BY <1>3 DEF IsrSetup, HandleSetConfiguration, HsusbTypeOK
  <2>5. /\ SETUPSTAT' = "none" /\ todo' = COMPLETE /\ COMPLETE' = {}
        /\ isr' = "completions" /\ UNCHANGED <<eptReq, item, USBSTS>>
    BY <1>3 DEF IsrSetup, queueHw
  <2> QED
    BY <1>t, <2>1, <2>2, <2>3, <2>4, <2>5
    DEF HsusbTypeOK,
        DescriptorOnOneEndpoint, CompletionBitIsFresh, ResetStartsNothing,
        ConfiguredIsConnected, ControllerIsOff, ResetWasTold, LinkIsConfigured,
        RestartsInHandler, OneBitAtATime, NotRunningIsQuiet, CountFits,
        Erroring, Resetting, Dir
<1> QED
  BY <1>1, <1>2, <1>3

(* The handler's two loops: the one endpoint with a request is completed,  *)
(* and may be primed again unless a reset came first.                      *)
LEMMA LoopsKeepChip ==
  ASSUME QueueInv, QueueInv', ChipInv, IsrErrors \/ IsrCompletions \/ IsrRestart
  PROVE  ChipInv'
<1> USE DEF ChipInv, HsusbInvariant
<1>t. UsbTypeOK /\ UsbTypeOK'
  BY DEF QueueInv
<1>0. isr # "none" => life = "started"
  BY DEF NotRunningIsQuiet
<1>1. ASSUME isr \in Erroring \cup {"completions"}, life = "started",
             UNCHANGED <<life, mDeviceState, isr, regVars>>,
             todo' \subseteq todo,
             isr = "completions" => todo' = {} /\ COMPLETE = {},
             isr \in Erroring => udc' = None /\ mRequestQueue' = <<>>,
             PrimeIfQueued(udc' # None, {})
      PROVE  ChipInv'
  <2>1. CASE udc' = None
    <3>1. eptReq' = {} /\ item' = item
      BY <1>1, <2>1 DEF PrimeIfQueued
    <3>2. isr \in Erroring => Len(mRequestQueue') <= 1
      BY <1>1
    <3>3. COMPLETE = {}
      BY <1>1 DEF ControllerIsOff, Resetting
    <3> QED
      BY <1>t, <1>1, <2>1, <3>1, <3>2, <3>3
      DEF HsusbTypeOK,
          DescriptorOnOneEndpoint, CompletionBitIsFresh, ResetStartsNothing,
          ConfiguredIsConnected, ControllerIsOff, ResetWasTold, LinkIsConfigured,
          RestartsInHandler, OneBitAtATime, NotRunningIsQuiet, CountFits,
          Erroring, Resetting, regVars
  <2>2. CASE udc' # None
    <3>1. eptReq' = {Dir(udc')} /\ item' = [state |-> "active", actual |-> 0]
      BY <1>1, <2>2 DEF PrimeIfQueued
    <3>2. isr = "completions" /\ COMPLETE = {} /\ todo' = {}
      BY <1>1, <2>2
    <3>3. udc' \in Requests /\ xfer_len'[udc'] \in Nat
      BY <1>t, <2>2 DEF UsbTypeOK
    <3>4. Dir(udc') \in {"in", "out"}
      BY <3>3, DirIsEndpoint
    <3>5. Dir(udc)' = Dir(udc')
      BY DEF Dir
    <3> QED
      BY <1>t, <1>1, <2>2, <3>1, <3>2, <3>3, <3>4, <3>5
      DEF HsusbTypeOK,
          DescriptorOnOneEndpoint, CompletionBitIsFresh, ResetStartsNothing,
          ConfiguredIsConnected, ControllerIsOff, ResetWasTold, LinkIsConfigured,
          RestartsInHandler, OneBitAtATime, NotRunningIsQuiet, CountFits,
          Erroring, Resetting, regVars
  <2> QED
    BY <2>1, <2>2
<1>2. ASSUME NEW dir \in todo, NEW actual, NEW good \in BOOLEAN,
             EptComplete(dir, actual, good),
             isr \in Erroring \cup {"completions"},
             isr \in Erroring => ~good
      PROVE  ChipInv'
  <2>1. life = "started" /\ UNCHANGED <<isr, regVars>> /\ todo' = todo \ {dir}
    BY <1>0, <1>2 DEF EptComplete, Erroring
  <2>2. CASE ReqComplete(actual, good, TRUE)
             /\ PrimeIfQueued(udc' # None, eptReq \ {dir}) /\ dir \in eptReq
    <3>1. /\ UNCHANGED <<life, mDeviceState>>
          /\ ~good => udc' = None /\ mRequestQueue' = Tail(mRequestQueue)
          /\ udc # None /\ mRequestQueue # <<>>
      BY <1>2, <2>2, CompletionOutcome
    <3>2. eptReq \ {dir} = {}
      BY <2>1, <2>2, <3>1 DEF DescriptorOnOneEndpoint
    <3>3. isr \in Erroring => mRequestQueue' = <<>>
      BY <1>t, <1>2, <3>1, LastTaken DEF ResetStartsNothing, Erroring, UsbTypeOK
    <3>4. isr = "completions" => todo' = {} /\ COMPLETE = {}
      BY <1>2, <2>1, <2>2, <3>1
      DEF CompletionBitIsFresh, DescriptorOnOneEndpoint, OneBitAtATime
    <3> QED
      BY <1>1, <1>2, <2>1, <2>2, <3>1, <3>2, <3>3, <3>4
  <2>3. CASE UNCHANGED <<usbVars, queueHw>>
    <3>1. UNCHANGED <<mRequestQueue, xfer_len, mDeviceState, life, restarting,
                   udc, eptReq, item>>
      BY <2>3 DEF usbVars, queueVars, entryVars, deviceVars, queueHw
    <3> QED
      BY <1>t, <2>1, <3>1
      DEF HsusbTypeOK,
          DescriptorOnOneEndpoint, CompletionBitIsFresh, ResetStartsNothing,
          ConfiguredIsConnected, ControllerIsOff, ResetWasTold, LinkIsConfigured,
          RestartsInHandler, OneBitAtATime, NotRunningIsQuiet, CountFits,
          Erroring, Resetting, regVars, Dir
  <2> QED
    BY <1>2, <2>2, <2>3 DEF EptComplete
<1>3. ASSUME todo = {}, ~restarting,
             isr \in Erroring \cup {"completions"},
             isr = "completions" => isr' = "none",
             isr \in Erroring => isr' \in {"none", "ui"},
             UNCHANGED <<usbVars, regVars, queueHw, todo>>
      PROVE  ChipInv'
  <2>1. UNCHANGED <<mRequestQueue, xfer_len, mDeviceState, life, restarting,
                   udc, eptReq, item>>
    BY <1>3 DEF usbVars, queueVars, entryVars, deviceVars, queueHw
  <2>2. life = "started"
    BY <1>0, <1>3 DEF Erroring
  <2> QED
    BY <1>t, <1>3, <2>1, <2>2
    DEF HsusbTypeOK,
        DescriptorOnOneEndpoint, CompletionBitIsFresh, ResetStartsNothing,
        ConfiguredIsConnected, ControllerIsOff, ResetWasTold, LinkIsConfigured,
        RestartsInHandler, OneBitAtATime, NotRunningIsQuiet, CountFits,
        Erroring, Resetting, regVars, Dir
<1>4. CASE IsrErrors
  <2>1. isr \in Erroring /\ ~restarting
    BY <1>4 DEF IsrErrors, Erroring, LockFree
  <2> QED
    BY <1>2, <1>3, <1>4, <2>1 DEF IsrErrors, Erroring
<1>5. CASE IsrCompletions
  <2>1. isr = "completions" /\ ~restarting
    BY <1>5 DEF IsrCompletions, LockFree
  <2>2. (item.state = "done") \in BOOLEAN
    OBVIOUS
  <2> QED
    BY <1>2, <1>3, <1>5, <2>1, <2>2 DEF IsrCompletions, Erroring
<1>6. CASE IsrRestart
  <2>1. /\ isr \in Erroring \cup {"completions"} /\ life = "started"
        /\ UNCHANGED <<life, mDeviceState, isr, todo, regVars>>
    BY <1>0, <1>6
    DEF IsrRestart, RestartQueue, RestartsInHandler, Erroring, deviceVars, isrVars
  <2>2. udc = None /\ restarting
    BY <1>6, IdleHasNone DEF IsrRestart, RestartQueue, QueueInv, RestartingIsIdle
  <2>3. eptReq = {}
    BY <2>1, <2>2 DEF DescriptorOnOneEndpoint
  <2>4. isr = "completions" => todo' = {} /\ COMPLETE = {}
    BY <2>1, <2>3 DEF CompletionBitIsFresh
  <2>5. isr \in Erroring => udc' = None /\ mRequestQueue' = <<>>
    BY <1>6, <2>2 DEF IsrRestart, RestartQueue, ResetWasTold, queueVars
  <2>6. PrimeIfQueued(udc' # None, {})
    BY <1>6, <2>3 DEF IsrRestart
  <2> QED
    BY <1>1, <2>1, <2>4, <2>5, <2>6
<1> QED
  BY <1>4, <1>5, <1>6

(* The invariant is kept, given that the queue keeps its own.              *)
LEMMA ChipInvStep ==
  ASSUME QueueInv, QueueInv', ChipInv, [HsusbNext]_hsusbVars
  PROVE  ChipInv'
<1>1. CASE UNCHANGED hsusbVars
  BY <1>1
  DEF hsusbVars, usbVars, queueVars, entryVars, deviceVars, regVars, queueHw,
      isrVars, ChipInv, HsusbInvariant, HsusbTypeOK, QueueInv,
      DescriptorOnOneEndpoint, CompletionBitIsFresh, ResetStartsNothing,
      ConfiguredIsConnected, ControllerIsOff, ResetWasTold, LinkIsConfigured,
      RestartsInHandler, OneBitAtATime, NotRunningIsQuiet, CountFits,
      Erroring, Resetting, Dir
<1> QED
  BY <1>1, ClientKeepsChip, HostKeepsChip, HandlerKeepsChip, LoopsKeepChip
  DEF HsusbNext, IsrStep

-----------------------------------------------------------------------------
(* Both invariants support each other: the queue's makes sure that what is *)
(* primed is its head, the controller's that it never reports more bytes   *)
(* than the queue asked for.                                               *)
THEOREM HsusbInvariants == HsusbSpec => [](QueueInv /\ HandInv /\ ChipInv)
<1>1. HsusbInit => QueueInv /\ HandInv /\ ChipInv
  BY QueueInvInit, ChipInvInit DEF HsusbInit, UsbInit, HandInv
<1>2. QueueInv /\ HandInv /\ ChipInv /\ [HsusbNext]_hsusbVars
        => (QueueInv /\ HandInv /\ ChipInv)'
  BY HsusbStepIsUsbStep, QueueInvStep, HandInvStep, ChipInvStep
<1> QED
  BY <1>1, <1>2, PTL DEF HsusbSpec

(* HsusbInvariant: the one transfer descriptor is on the endpoint of the   *)
(* queue's head and nowhere else, a completion bit belongs to it, a bus    *)
(* reset starts nothing new, and a configured device is a connected one.   *)
THEOREM DescriptorGoesWithHead == HsusbSpec => []HsusbInvariant
BY HsusbInvariants, PTL DEF ChipInv

(* On the ChipIdea controller the queue behaves as UsbTransfer says: every *)
(* theorem about UsbSpec holds of HsusbSpec.                               *)
THEOREM HsusbImplementsQueue == HsusbSpec => UsbSpec
<1>1. HsusbInit => UsbInit
  BY DEF HsusbInit
<1>2. QueueInv /\ ChipInv /\ [HsusbNext]_hsusbVars => [UsbNext]_usbVars
  BY HsusbStepIsUsbStep
<1> QED
  BY HsusbInvariants, <1>1, <1>2, PTL DEF HsusbSpec, UsbSpec

(* ... so that no transfer over it is lost, freed or answered twice, the   *)
(* client's view is that of the protocol, and its answers are true.        *)
THEOREM HsusbKeepsPromises ==
  HsusbSpec => /\ []OneOwner
               /\ []AssignedOutcomeIsTrue
               /\ []AnswersKeepOrder
               /\ ImplementsProtocol
BY HsusbImplementsQueue, EveryTransferHasOneOwner, AssignedOutcomesAreTrue,
   AnswersAreInOrder, QueueImplementsProtocol
=============================================================================
