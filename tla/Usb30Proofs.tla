---------------------------- MODULE Usb30Proofs ----------------------------
(***************************************************************************)
(* Proofs about Usb30Gadget, for any set of transfers, any lengths, chunk  *)
(* and packet sizes and any bounds on events: Usb.c, the udc layer and the *)
(* bulk endpoints agree on the one transfer there is.                      *)
(*                                                                         *)
(* That agreement needs no byte count.  Which events are of which transfer *)
(* does, and there the padding of OUT transfers, which the queue's own     *)
(* invariant does not allow for, has to be let in.                         *)
(***************************************************************************)
EXTENDS Usb30Gadget, UsbTransferProofs

EpStates == {"INIT", "INACTIVE", "START_TRANSFER", "XFER_IN_PROG"}
Busy     == {"START_TRANSFER", "XFER_IN_PROG"}

LayerTypes ==
  /\ mRequestState \in {"IDLE", "TRANSFER"}
  /\ mRequestQueue \in Seq(Requests)
  /\ udc \in Requests \cup {None}
  /\ restarting \in BOOLEAN
  /\ epState \in [Dirs -> EpStates]
  /\ callback \in [Dirs -> BOOLEAN]
  /\ queued_req \in BOOLEAN
  /\ config_selected \in {0, 1}

(* Usb.c: what is with the controller is the head of a busy queue, and an  *)
(* idle queue holds something only while req_complete works it off.        *)
QueueAgrees ==
  /\ IdleQueueIsEmpty
  /\ restarting => mRequestState = "IDLE"
  /\ udc # None => /\ mRequestState = "TRANSFER"
                   /\ mRequestQueue # <<>>
                   /\ udc = Head(mRequestQueue)
  /\ mRequestState = "TRANSFER" => mRequestQueue # <<>> /\ udc # None

(* The layers below.  A configured controller has no endpoint in INIT:     *)
(* dwc_request_queue would refuse what the udc layer has already noted.    *)
EndpointsAgree ==
  /\ config_selected = 1 => \A d \in Dirs : epState[d] # "INIT"
  /\ queued_req <=> udc # None
  /\ \A d \in Dirs : epState[d] \in Busy =>
                        callback[d] /\ udc # None /\ Dir(udc) = d

LayersInv ==
  LayerTypes /\ (life # "stopped" => QueueAgrees /\ EndpointsAgree)

-----------------------------------------------------------------------------
(* usb30_udc_request_queue, called while nothing is queued and no endpoint *)
(* is busy: a request is taken by all layers or by none.                   *)
LEMMA FreeUdcAgrees ==
  ASSUME NEW asked \in Requests \cup {None},
         NEW states \in [Dirs -> EpStates], NEW calls \in [Dirs -> BOOLEAN],
         config_selected \in {0, 1},
         config_selected = 1 => \A d \in Dirs : states[d] # "INIT",
         \A d \in Dirs : states[d] \notin Busy,
         UdcRequestQueue(asked, FALSE, states, calls),
         udc' \in {asked, None}
  PROVE  /\ epState' \in [Dirs -> EpStates] /\ callback' \in [Dirs -> BOOLEAN]
         /\ queued_req' \in BOOLEAN
         /\ config_selected = 1 => \A d \in Dirs : epState'[d] # "INIT"
         /\ queued_req' <=> udc' # None
         /\ \A d \in Dirs : epState'[d] \in Busy =>
                               callback'[d] /\ udc' # None /\ Dir(udc') = d
<1> USE UsbTransferAssumption DEF UsbTransferAssumption, EpStates, Busy
<1>1. CASE asked = None
  <2>1. epState' = states /\ callback' = calls /\ queued_req' = FALSE /\ udc' = None
    BY <1>1 DEF UdcRequestQueue
  <2> QED
    BY <2>1
<1>2. CASE asked # None /\ udc' = asked
  <2>1. Dir(asked) \in Dirs
    BY DEF Dir, Dirs
  <2>2. /\ queued_req' = TRUE
        /\ epState' = [states EXCEPT ![Dir(asked)] = "START_TRANSFER"]
        /\ callback' = [calls EXCEPT ![Dir(asked)] = TRUE]
    BY <1>2 DEF UdcRequestQueue, DwcRequestQueue
  <2> QED
    BY <1>2, <2>1, <2>2
<1>3. CASE asked # None /\ udc' # asked
  <2>1. Dir(asked) \in Dirs
    BY DEF Dir, Dirs
  <2>2. /\ UdcRefuses(FALSE, states[Dir(asked)])
        /\ queued_req' = (FALSE \/ config_selected = 1)
        /\ epState' = states /\ callback' = calls
    BY <1>3 DEF UdcRequestQueue
  <2>3. config_selected = 0
    BY <2>1, <2>2 DEF UdcRefuses
  <2>4. ~(config_selected = 1)
    BY <2>3
  <2>5. queued_req' = FALSE
    BY <2>2, <2>4, Zenon
  <2>6. udc' = None /\ epState' = states /\ callback' = calls
    BY <1>3, <2>2
  <2> QED
    BY <2>4, <2>5, <2>6
<1> QED
  BY <1>1, <1>2, <1>3

-----------------------------------------------------------------------------
(* The steps, one by one.                                                  *)
LEMMA TransferAgrees ==
  ASSUME LayersInv, NEW r \in Requests, NEW ok \in BOOLEAN, Usb30Transfer(r, ok)
  PROVE  LayersInv'
<1> USE UsbTransferAssumption
<1> USE DEF UsbTransferAssumption, LayersInv, LayerTypes, QueueAgrees, IdleQueueIsEmpty
<1>0. /\ life = "started" /\ life' = life /\ ~restarting /\ restarting' = restarting
      /\ config_selected' = config_selected
  BY DEF Usb30Transfer, Transfer, LockFree
<1>1. CASE mRequestState = "IDLE"
  <2>1. mRequestQueue = <<>> /\ udc = None /\ queued_req = FALSE
    BY <1>0, <1>1 DEF EndpointsAgree
  <2>2. ReqQueueRequest(r, Append(mRequestQueue, r), mRequestQueue, 0, ok)
    BY <1>1 DEF Usb30Transfer, Transfer
  <2>3. /\ Append(mRequestQueue, r) \in Seq(Requests)
        /\ Append(mRequestQueue, r) # <<>>
        /\ Head(Append(mRequestQueue, r)) = r
    BY <2>1, AppendFacts
  <2>4. /\ mRequestState' \in {"IDLE", "TRANSFER"}
        /\ mRequestQueue' \in Seq(Requests) /\ udc' \in {r, None}
        /\ QueueAgrees'
    <3>1. /\ mRequestState' \in {"IDLE", "TRANSFER"}
          /\ mRequestQueue' \in Seq(Requests) /\ udc' \in {r, None}
          /\ udc' # None => /\ mRequestState' = "TRANSFER"
                            /\ mRequestQueue' # <<>>
                            /\ udc' = Head(mRequestQueue')
          /\ mRequestState' = "TRANSFER" => /\ mRequestQueue' # <<>>
                                            /\ udc' # None
          /\ mRequestState' # "TRANSFER" => mRequestQueue' = <<>>
      BY <2>1, <2>2, <2>3 DEF ReqQueueRequest
    <3> QED
      BY <1>0, <3>1
  <2>5. UdcRequestQueue(r, FALSE, epState, callback)
    BY <1>1, <2>1 DEF Usb30Transfer
  <2>6. \A d \in Dirs : epState[d] \notin Busy
    BY <1>0, <2>1 DEF EndpointsAgree
  <2>7. config_selected = 1 => \A d \in Dirs : epState[d] # "INIT"
    BY <1>0 DEF EndpointsAgree
  <2>8. /\ epState' \in [Dirs -> EpStates] /\ callback' \in [Dirs -> BOOLEAN]
        /\ queued_req' \in BOOLEAN /\ EndpointsAgree'
    BY <1>0, <2>4, <2>5, <2>6, <2>7, FreeUdcAgrees DEF EndpointsAgree
  <2> QED
    BY <1>0, <2>4, <2>8
<1>2. CASE mRequestState # "IDLE"
  <2>1. /\ mRequestQueue' = Append(mRequestQueue, r)
        /\ UNCHANGED <<mRequestState, udc>>
    BY <1>2 DEF Usb30Transfer, Transfer
  <2>2. UNCHANGED <<epState, callback, queued_req>>
    BY <1>2 DEF Usb30Transfer, UdcRequestQueue
  <2>3. /\ mRequestQueue' \in Seq(Requests) /\ mRequestQueue' # <<>>
        /\ mRequestQueue # <<>> => Head(mRequestQueue') = Head(mRequestQueue)
    BY <2>1, AppendFacts
  <2> QED
    BY <1>0, <1>2, <2>1, <2>2, <2>3 DEF EndpointsAgree, Dir
<1> QED
  BY <1>1, <1>2

LEMMA RestartAgrees ==
  ASSUME LayersInv, NEW ok \in BOOLEAN, Usb30Restart(ok)
  PROVE  LayersInv'
<1> USE UsbTransferAssumption
<1> USE DEF UsbTransferAssumption, LayersInv, LayerTypes, QueueAgrees, IdleQueueIsEmpty
<1> DEFINE asked == IF mRequestQueue = <<>> THEN None ELSE Head(mRequestQueue)
<1>0. /\ life' = life /\ restarting /\ restarting' \in BOOLEAN
      /\ config_selected' = config_selected
  BY DEF Usb30Restart, RestartQueue
<1>1. /\ mRequestState' \in {"IDLE", "TRANSFER"}
      /\ mRequestQueue' \in Seq(Requests)
      /\ udc' \in Requests \cup {None}
      /\ life # "stopped" => QueueAgrees' /\ udc' \in {asked, None}
  <2>1. CASE mRequestQueue # <<>>
    <3>1. /\ Head(mRequestQueue) \in Requests
          /\ Tail(mRequestQueue) \in Seq(Requests)
      BY <2>1, TailFacts
    <3>2. /\ ReqQueueRequest(Head(mRequestQueue), mRequestQueue, Tail(mRequestQueue),
                             bytes_written[Head(mRequestQueue)], ok)
          /\ restarting' = ~ok
      BY <2>1 DEF Usb30Restart, RestartQueue
    <3>3. /\ mRequestState' \in {"IDLE", "TRANSFER"}
          /\ mRequestQueue' \in Seq(Requests)
          /\ udc' \in {Head(mRequestQueue), None}
          /\ udc' # None => /\ mRequestState' = "TRANSFER"
                            /\ mRequestQueue' # <<>>
                            /\ udc' = Head(mRequestQueue')
          /\ mRequestState' = "TRANSFER" => /\ mRequestQueue' # <<>>
                                            /\ udc' # None
          /\ restarting' <=> mRequestState' = "IDLE"
      BY <2>1, <3>1, <3>2 DEF ReqQueueRequest
    <3> QED
      BY <1>0, <2>1, <3>1, <3>3
  <2>2. CASE mRequestQueue = <<>>
    <3>1. restarting' = FALSE /\ UNCHANGED <<mRequestState, mRequestQueue, udc>>
      BY <2>2 DEF Usb30Restart, RestartQueue, queueVars
    <3> QED
      BY <1>0, <2>2, <3>1
  <2> QED
    BY <2>1, <2>2
<1>2. asked \in Requests \cup {None}
  BY TailFacts
<1>3. UdcRequestQueue(asked, queued_req, epState, callback)
  BY DEF Usb30Restart
<1> HIDE DEF asked
<1>4. /\ epState' \in [Dirs -> EpStates] /\ callback' \in [Dirs -> BOOLEAN]
      /\ queued_req' \in BOOLEAN
  BY <1>2, <1>3 DEF UdcRequestQueue, DwcRequestQueue, EpStates
<1>5. ASSUME life # "stopped" PROVE EndpointsAgree'
  <2>1. udc = None /\ queued_req = FALSE
    BY <1>0, <1>5 DEF EndpointsAgree
  <2>2. /\ \A d \in Dirs : epState[d] \notin Busy
        /\ config_selected = 1 => \A d \in Dirs : epState[d] # "INIT"
    BY <1>5, <2>1 DEF EndpointsAgree
  <2> QED
    BY <1>0, <1>1, <1>2, <1>3, <1>5, <2>1, <2>2, FreeUdcAgrees DEF EndpointsAgree
<1> QED
  BY <1>0, <1>1, <1>4, <1>5

(* An endpoint that was busy gives its request back, and may be given the  *)
(* next chunk at once.                                                     *)
LEMMA ToInactiveAgrees ==
  ASSUME LayersInv, NEW d \in Dirs, epState[d] \in Busy,
         NEW actual, NEW good \in BOOLEAN, NEW ok \in BOOLEAN,
         ToInactive(d, actual, good, ok), config_selected' = config_selected
  PROVE  LayersInv'
<1> USE UsbTransferAssumption
<1> USE DEF UsbTransferAssumption, LayersInv, LayerTypes, QueueAgrees, IdleQueueIsEmpty
<1> DEFINE asked  == IF mRequestQueue # <<>> /\ mRequestState = "TRANSFER"
                          /\ good /\ HasMore(Head(mRequestQueue), actual)
                       THEN Head(mRequestQueue) ELSE None
           states == [epState EXCEPT ![d] = "INACTIVE"]
           calls  == [callback EXCEPT ![d] = FALSE]
<1>0. life' = life /\ ~restarting /\ udc # None
  BY DEF ToInactive, ReqComplete, LockFree
<1>1. UdcRequestQueue(asked, FALSE, states, calls)
  BY DEF ToInactive
<1>2. /\ states \in [Dirs -> EpStates] /\ calls \in [Dirs -> BOOLEAN]
      /\ asked \in Requests \cup {None}
  BY TailFacts DEF EpStates
<1>3. /\ mRequestState' \in {"IDLE", "TRANSFER"}
      /\ mRequestQueue' \in Seq(Requests)
      /\ udc' \in Requests \cup {None}
      /\ restarting' = (mRequestState' = "IDLE") \/ restarting' = (mRequestState = "IDLE")
      /\ life # "stopped" => QueueAgrees' /\ udc' \in {asked, None}
  <2>1. CASE mRequestQueue = <<>> \/ mRequestState # "TRANSFER"
    BY <1>0, <2>1 DEF ToInactive, ReqComplete, queueVars
  <2>2. CASE mRequestQueue # <<>> /\ mRequestState = "TRANSFER"
    <3> DEFINE r == Head(mRequestQueue)
    <3>1. r \in Requests /\ Tail(mRequestQueue) \in Seq(Requests)
      BY <2>2, TailFacts
    <3>2. restarting' = (mRequestState' = "IDLE")
      BY <2>2 DEF ToInactive, ReqComplete
    <3>3. CASE good /\ HasMore(r, actual)
      <4>1. ReqQueueRequest(r, mRequestQueue, Tail(mRequestQueue),
                            bytes_written[r] + actual, ok)
        BY <2>2, <3>3 DEF ToInactive, ReqComplete, HasMore, IsShortIn
      <4>2. asked = r
        BY <2>2, <3>3
      <4> HIDE DEF r, asked
      <4>3. /\ mRequestState' \in {"IDLE", "TRANSFER"}
            /\ mRequestQueue' \in Seq(Requests) /\ udc' \in {r, None}
            /\ udc' # None => /\ mRequestState' = "TRANSFER"
                              /\ mRequestQueue' # <<>>
                              /\ udc' = Head(mRequestQueue')
            /\ mRequestState' = "TRANSFER" => /\ mRequestQueue' # <<>>
                                              /\ udc' # None
        BY <2>2, <3>1, <4>1 DEF r, ReqQueueRequest
      <4> QED
        BY <3>1, <3>2, <4>2, <4>3
    <3>4. CASE ~(good /\ HasMore(r, actual))
      <4>1. /\ mRequestState' = "IDLE" /\ udc' = None
            /\ mRequestQueue' = Tail(mRequestQueue)
        BY <2>2, <3>4 DEF ToInactive, ReqComplete, Finish
      <4> QED
        BY <3>1, <3>2, <4>1
    <3> QED
      BY <3>3, <3>4
  <2> QED
    BY <2>1, <2>2
<1> HIDE DEF asked, states, calls
<1>4. /\ epState' \in [Dirs -> EpStates] /\ callback' \in [Dirs -> BOOLEAN]
      /\ queued_req' \in BOOLEAN
  BY <1>1, <1>2 DEF UdcRequestQueue, DwcRequestQueue, EpStates
<1>5. ASSUME life # "stopped" PROVE EndpointsAgree'
  <2>1. Dir(udc) = d
    BY <1>5 DEF EndpointsAgree
  <2>2. \A e \in Dirs : states[e] \notin Busy
    BY <1>5, <2>1 DEF states, EndpointsAgree, Busy
  <2>3. config_selected = 1 => \A e \in Dirs : states[e] # "INIT"
    BY <1>5 DEF states, EndpointsAgree
  <2> QED
    BY <1>1, <1>2, <1>3, <1>5, <2>2, <2>3, FreeUdcAgrees DEF EndpointsAgree
<1> QED
  BY <1>0, <1>3, <1>4, <1>5

(* A connection change shortens the queue behind the head a controller     *)
(* still has.                                                              *)
LEMMA OfflineAgrees ==
  ASSUME LayersInv, UdcOffline, UNCHANGED epVars
  PROVE  LayersInv'
<1> USE DEF LayersInv, LayerTypes, QueueAgrees, IdleQueueIsEmpty
<1> DEFINE keep == IF mRequestQueue # <<>> /\ mRequestState = "TRANSFER"
                     THEN 1 ELSE 0
<1>1. /\ mRequestQueue' = SubSeq(mRequestQueue, 1, keep)
      /\ UNCHANGED <<mRequestState, udc, life, restarting, queued_req>>
      /\ config_selected' = 0
      /\ UNCHANGED <<epState, callback>>
  BY DEF UdcOffline, NotifyOffline, GadgetOffline, epVars
<1>2. keep \in 0..1 /\ keep <= Len(mRequestQueue)
  BY TailFacts
<1>3. /\ mRequestQueue' \in Seq(Requests)
      /\ keep = 1 => /\ mRequestQueue' # <<>>
                     /\ Head(mRequestQueue') = Head(mRequestQueue)
      /\ keep = 0 => mRequestQueue' = <<>>
  BY <1>1, <1>2, SubSeqFacts
<1>4. life # "stopped" => QueueAgrees'
  BY <1>1, <1>3
<1>5. life # "stopped" => EndpointsAgree'
  BY <1>1 DEF EndpointsAgree, Dir
<1> QED
  BY <1>1, <1>3, <1>4, <1>5

(* What touches none of these variables.                                   *)
layerVars == <<mRequestState, mRequestQueue, udc, restarting, life, epState,
               callback, queued_req, config_selected>>
LEMMA OthersAgree ==
  ASSUME LayersInv, UNCHANGED layerVars
  PROVE  LayersInv'
BY DEF LayersInv, LayerTypes, QueueAgrees, IdleQueueIsEmpty, EndpointsAgree, Dir, layerVars

LEMMA InterruptAgrees ==
  ASSUME LayersInv, Interrupt
  PROVE  LayersInv'
<1>1. CASE DeviceReset \/ DeviceDisconnect
  BY <1>1, OfflineAgrees DEF DeviceReset, DeviceDisconnect
<1>2. CASE SetConfiguration
  <2>1. /\ epState' = [d \in Dirs |-> "INACTIVE"] /\ config_selected' = 1
        /\ UNCHANGED <<mRequestState, mRequestQueue, udc, restarting, life,
                       callback, queued_req>>
    BY <1>2 DEF SetConfiguration, NotifyOnline, usbVars, queueVars
  <2> QED
    BY <2>1 DEF LayersInv, LayerTypes, QueueAgrees, IdleQueueIsEmpty,
                EndpointsAgree, EpStates, Busy
<1>3. CASE ClearConfiguration
  <2>1. /\ config_selected' = 0
        /\ UNCHANGED <<mRequestState, mRequestQueue, udc, restarting, life,
                       epState, callback, queued_req>>
    BY <1>3 DEF ClearConfiguration, usbVars, queueVars, epVars
  <2> QED
    BY <2>1 DEF LayersInv, LayerTypes, QueueAgrees, IdleQueueIsEmpty,
                EndpointsAgree, Dir
<1>4. ASSUME NEW d \in Dirs, StartDone(d) PROVE LayersInv'
  <2>1. CASE epState[d] = "START_TRANSFER" /\ Head(events).status = 0
    <3>1. /\ epState' = [epState EXCEPT ![d] = "XFER_IN_PROG"]
          /\ UNCHANGED <<mRequestState, mRequestQueue, udc, restarting, life,
                         callback, queued_req, config_selected>>
      BY <1>4, <2>1 DEF StartDone, Ignore, usbVars, queueVars
    <3> QED
      BY <2>1, <3>1 DEF LayersInv, LayerTypes, QueueAgrees, IdleQueueIsEmpty,
                        EndpointsAgree, Dir, EpStates, Busy
  <2>2. CASE epState[d] = "START_TRANSFER" /\ Head(events).status # 0
    <3>1. PICK ok \in BOOLEAN : ToInactive(d, 0, FALSE, ok)
      BY <1>4, <2>2 DEF StartDone
    <3> QED
      BY <1>4, <2>2, <3>1, ToInactiveAgrees DEF StartDone, Busy
  <2>3. CASE epState[d] # "START_TRANSFER"
    BY <1>4, <2>3, OthersAgree
       DEF StartDone, Ignore, usbVars, queueVars, epVars, layerVars
  <2> QED
    BY <2>1, <2>2, <2>3
<1>5. ASSUME NEW d \in Dirs, EndDone(d) PROVE LayersInv'
  <2>1. CASE epState[d] = "XFER_IN_PROG"
    <3>1. PICK ok \in BOOLEAN : ToInactive(d, 0, FALSE, ok)
      BY <1>5, <2>1 DEF EndDone
    <3> QED
      BY <1>5, <2>1, <3>1, ToInactiveAgrees DEF EndDone, Busy
  <2>2. CASE epState[d] # "XFER_IN_PROG"
    BY <1>5, <2>2, OthersAgree
       DEF EndDone, Ignore, usbVars, queueVars, epVars, layerVars
  <2> QED
    BY <2>1, <2>2
<1>6. ASSUME NEW d \in Dirs, TransferComplete(d) PROVE LayersInv'
  <2>1. CASE epState[d] = "XFER_IN_PROG"
    <3>1. PICK ok \in BOOLEAN :
             ToInactive(d, bytes_queued[d] - Head(events).remaining,
                        Head(events).status = 0, ok)
      BY <1>6, <2>1 DEF TransferComplete
    <3> QED
      BY <1>6, <2>1, <3>1, ToInactiveAgrees DEF TransferComplete, Busy
  <2>2. CASE epState[d] # "XFER_IN_PROG"
    BY <1>6, <2>2, OthersAgree
       DEF TransferComplete, Ignore, usbVars, queueVars, epVars, layerVars
  <2> QED
    BY <2>1, <2>2
<1>7. ASSUME NEW ok \in BOOLEAN, Usb30Restart(ok) PROVE LayersInv'
  BY <1>7, RestartAgrees
<1> QED
  BY <1>1, <1>2, <1>3, <1>4, <1>5, <1>6, <1>7 DEF Interrupt

-----------------------------------------------------------------------------
LEMMA LayersInvInit == Usb30Init => LayersInv
<1> SUFFICES ASSUME Usb30Init PROVE LayersInv
  OBVIOUS
<1> USE UsbTransferAssumption DEF UsbTransferAssumption, Usb30Init, UsbInit
<1>1. LayerTypes
  <2>1. epState \in [Dirs -> EpStates] /\ callback \in [Dirs -> BOOLEAN]
    BY DEF EpStates
  <2>2. mRequestQueue \in Seq(Requests)
    OBVIOUS
  <2>3. /\ mRequestState \in {"IDLE", "TRANSFER"} /\ udc \in Requests \cup {None}
        /\ restarting \in BOOLEAN /\ queued_req \in BOOLEAN
        /\ config_selected \in {0, 1}
    OBVIOUS
  <2> QED
    BY <2>1, <2>2, <2>3 DEF LayerTypes
<1>2. QueueAgrees
  BY DEF QueueAgrees, IdleQueueIsEmpty
<1>3. EndpointsAgree
  <2>1. queued_req = FALSE /\ udc = None /\ config_selected = 0
    OBVIOUS
  <2>2. \A d \in Dirs : epState[d] \notin Busy
    BY DEF Busy
  <2> QED
    BY <2>1, <2>2 DEF EndpointsAgree
<1> QED
  BY <1>1, <1>2, <1>3 DEF LayersInv

LEMMA LayersInvStep == LayersInv /\ [Usb30Next]_usb30Vars => LayersInv'
<1> SUFFICES ASSUME LayersInv, [Usb30Next]_usb30Vars PROVE LayersInv'
  OBVIOUS
<1>1. CASE Usb30Start
  BY <1>1 DEF Usb30Start, Start, epVars, udcVars, queueVars, LayersInv, LayerTypes,
              QueueAgrees, IdleQueueIsEmpty, EndpointsAgree, Dir
<1>2. CASE Usb30Stop
  BY <1>2 DEF Usb30Stop, Stop, epVars, udcVars, queueVars, LayersInv, LayerTypes
<1>3. CASE Usb30Client
  BY <1>3, TransferAgrees DEF Usb30Client
<1>4. CASE Usb30Report
  <2>1. UNCHANGED layerVars
    BY <1>4 DEF Usb30Report, Report, ReportStart, ReportState, ReportTransfer,
                ReportLoop, TakeFinished, queueVars, epVars, udcVars, layerVars
  <2> QED
    BY <2>1, OthersAgree
<1>5. CASE Interrupt
  BY <1>5, InterruptAgrees
<1>6. CASE Hardware \/ Host \/ UNCHANGED usb30Vars
  <2>1. UNCHANGED layerVars
    BY <1>6 DEF Hardware, HwExecutes, HwMovesData, Host, HostEvent, usb30Vars, usbVars,
                queueVars, epVars, udcVars, layerVars
  <2> QED
    BY <2>1, OthersAgree
<1> QED
  BY <1>1, <1>2, <1>3, <1>4, <1>5, <1>6 DEF Usb30Next

(* What is with the controller is the transfer at the head of the queue of *)
(* Usb.c (Usb.c:121, req_queue_request).                                   *)
ControllerHasHead ==
  life # "stopped" /\ udc # None => mRequestQueue # <<>> /\ udc = Head(mRequestQueue)

(* Usb.c, the udc layer and the endpoints agree: an endpoint is busy with  *)
(* the transfer at the head of Usb.c's queue and will call back, and the   *)
(* udc layer remembers a request while there is one and no longer, through *)
(* resets, configurations and commands that end late (usb30_udc.c,         *)
(* usb30_dwc.c).                                                           *)
THEOREM LayersAgree ==
  Usb30Spec => [](BusyEndpointServesHead /\ UdcNotWedged /\ ControllerHasHead)
<1>1. LayersInv => BusyEndpointServesHead /\ UdcNotWedged /\ ControllerHasHead
  BY DEF LayersInv, EndpointsAgree, QueueAgrees, ControllerHasHead, BusyEndpointServesHead, UdcNotWedged, Active, Busy
<1> QED
  BY <1>1, LayersInvInit, LayersInvStep, PTL DEF Usb30Spec

-----------------------------------------------------------------------------
ControllerTypes ==
  /\ resource_idx \in [Dirs -> {0, 1}] /\ bytes_queued \in [Dirs -> Nat]
  /\ events \in Seq(EpEvents)
  /\ cmds \in [Dirs -> Seq(Commands)]
  /\ hw \in [Dirs -> [bytes : Nat, serial : Nat]]
  /\ serial \in Nat /\ hostEvents \in Nat

NoStartEvent(evs, d) == \A i \in 1..Len(evs) : ~(evs[i].kind = "start" /\ evs[i].ep = d)
NoStartCmd(cs, d)    == \A i \in 1..Len(cs[d]) : cs[d][i].cmd = "end"

(* An event, the commands from a place on, and the controller's transfer,  *)
(* when they are of the transfer started last.                             *)
Ours(e, d)        == /\ e.serial = serial
                     /\ e.kind = "complete" => e.remaining <= bytes_queued[d]
EndsOurs(d, from) == \A i \in 1..Len(cmds[d]) :
                        i > from => cmds[d][i].cmd = "end" /\ cmds[d][i].serial = serial
HwOurs(d)         == hw[d] # Idle => hw[d].serial = serial /\ hw[d].bytes = bytes_queued[d]

(* An endpoint in START_TRANSFER: its command waits, or its event.         *)
StartWritten(d) ==
  /\ NoStartEvent(events, d)
  /\ \E j \in 1..Len(cmds[d]) :
       /\ cmds[d][j].cmd = "start" /\ cmds[d][j].serial = serial
       /\ cmds[d][j].bytes = bytes_queued[d]
       /\ \A i \in 1..Len(cmds[d]) : i < j => cmds[d][i].cmd = "end"
       /\ EndsOurs(d, j)
StartRaised(d) ==
  /\ EndsOurs(d, 0) /\ HwOurs(d)
  /\ \E j \in 1..Len(events) :
       /\ events[j].kind = "start" /\ events[j].ep = d /\ events[j].serial = serial
       /\ \A i \in 1..Len(events) :
            events[i].ep = d => /\ (i # j => events[i].kind # "start")
                                /\ (i > j => Ours(events[i], d))
Running(d) ==
  /\ EndsOurs(d, 0) /\ HwOurs(d)
  /\ \A i \in 1..Len(events) :
       events[i].ep = d => events[i].kind # "start" /\ Ours(events[i], d)

(* A busy endpoint knows what is under way.  One that is not busy has no   *)
(* start left over, unless the udc layer waits for a transfer that no      *)
(* endpoint does any more: then nothing will be started.                   *)
EpAgrees(d) ==
  /\ epState[d] = "START_TRANSFER" => StartWritten(d) \/ StartRaised(d)
  /\ epState[d] = "XFER_IN_PROG" => Running(d)
  /\ epState[d] \notin Busy /\ (udc = None \/ \E e \in Dirs : epState[e] \in Busy)
       => NoStartEvent(events, d) /\ NoStartCmd(cmds, d)
EventsAgree ==
  /\ life # "stopped" => \A d \in Dirs : EpAgrees(d)
  /\ life = "stopped" => events = <<>>

WireInv == LayersInv /\ ControllerTypes /\ EventsAgree

-----------------------------------------------------------------------------
(* usb30_udc_request_queue, called while nothing of an earlier start is    *)
(* left.                                                                   *)
LEMMA StartedAgrees ==
  ASSUME ControllerTypes, NEW asked \in Requests \cup {None},
         NEW states \in [Dirs -> EpStates], NEW calls,
         \A d \in Dirs : states[d] \notin Busy,
         \A d \in Dirs : NoStartEvent(events', d) /\ NoStartCmd(cmds, d),
         UdcRequestQueue(asked, FALSE, states, calls)
  PROVE  \A d \in Dirs : EpAgrees(d)'
<1> USE UsbTransferAssumption DEF UsbTransferAssumption, Busy
<1>1. CASE epState' = states /\ cmds' = cmds
  BY <1>1 DEF EpAgrees
<1>2. CASE asked # None /\ udc' = asked
  <2> DEFINE a == Dir(asked)
             c == StartCmd(a, xfer_len'[asked], serial + 1)
  <2>1. a \in Dirs
    BY DEF Dir, Dirs
  <2>2. /\ epState' = [states EXCEPT ![a] = "START_TRANSFER"]
        /\ bytes_queued' = [bytes_queued EXCEPT ![a] = BytesQueued(a, xfer_len'[asked])]
        /\ serial' = serial + 1
        /\ cmds' = [cmds EXCEPT ![a] = Append(cmds[a], c)]
    BY <1>2 DEF UdcRequestQueue, DwcRequestQueue
  <2>3. /\ bytes_queued'[a] = c.bytes /\ c.serial = serial' /\ c.cmd = "start"
    BY <2>1, <2>2 DEF ControllerTypes, StartCmd, BytesQueued
  <2> HIDE DEF c
  <2>4. cmds'[a] = Append(cmds[a], c) /\ cmds[a] \in Seq(Commands)
    BY <2>1, <2>2 DEF ControllerTypes
  <2>5. /\ Len(cmds'[a]) = Len(cmds[a]) + 1 /\ Len(cmds[a]) \in Nat
        /\ cmds'[a][Len(cmds[a]) + 1] = c
        /\ \A i \in 1..Len(cmds[a]) : cmds'[a][i] = cmds[a][i]
    BY <2>4
  <2>6. StartWritten(a)'
    <3>0. PICK n \in Nat : n = Len(cmds[a]) + 1
      BY <2>5
    <3>1. NoStartEvent(events', a)
      BY <2>1
    <3>2. n \in 1..Len(cmds'[a]) /\ cmds'[a][n] = c
      BY <2>5, <3>0
    <3>3. \A i \in 1..Len(cmds'[a]) : i < n => cmds'[a][i].cmd = "end"
      <4>1. NoStartCmd(cmds, a)
        BY <2>1
      <4>2. \A i \in 1..Len(cmds[a]) : cmds[a][i].cmd = "end"
        BY <4>1 DEF NoStartCmd
      <4>3. ASSUME NEW i \in 1..Len(cmds'[a]), i < n PROVE i \in 1..Len(cmds[a])
        BY <4>3, <2>5, <3>0
      <4> QED
        BY <4>2, <4>3, <2>5
    <3>4. \A i \in 1..Len(cmds'[a]) : ~(i > n)
      BY <2>5, <3>0
    <3>5. EndsOurs(a, n)'
      BY <3>4 DEF EndsOurs
    <3> QED
      BY <2>3, <3>1, <3>2, <3>3, <3>5 DEF StartWritten, NoStartEvent
  <2>7. epState'[a] = "START_TRANSFER"
    BY <2>1, <2>2
  <2>8. \A d \in Dirs : d # a => epState'[d] \notin Busy /\ NoStartCmd(cmds', d)
    BY <2>1, <2>2 DEF ControllerTypes, NoStartCmd
  <2> QED
    BY <2>6, <2>7, <2>8 DEF EpAgrees
<1> QED
  BY <1>1, <1>2 DEF UdcRequestQueue

(* A busy endpoint that gives its request back leaves no start behind.     *)
LEMMA GivenBackIsClean ==
  ASSUME WireInv, life # "stopped", NEW d \in Dirs, epState[d] \in Busy,
         events # <<>>, Head(events).ep = d, events' = Tail(events),
         epState[d] = "START_TRANSFER" => Head(events).kind = "start"
  PROVE  \A e \in Dirs : NoStartEvent(events', e) /\ NoStartCmd(cmds, e)
<1> USE DEF WireInv
<1>0. /\ Len(events) \in Nat /\ Len(events) > 0 /\ Head(events) = events[1]
      /\ Len(events') = Len(events) - 1
      /\ \A i \in 1..Len(events') : events'[i] = events[i + 1]
  BY TailFacts DEF ControllerTypes
<1>1. EpAgrees(d)
  BY DEF EventsAgree
<1>2. ASSUME NEW e \in Dirs, e # d PROVE NoStartEvent(events', e) /\ NoStartCmd(cmds, e)
  <2>1. epState[e] \notin Busy
    BY <1>2 DEF LayersInv, EndpointsAgree
  <2>2. NoStartEvent(events, e) /\ NoStartCmd(cmds, e)
    BY <2>1 DEF EventsAgree, EpAgrees
  <2> QED
    BY <1>0, <2>2 DEF NoStartEvent
<1>3. CASE epState[d] = "XFER_IN_PROG"
  <2>1. Running(d)
    BY <1>1, <1>3 DEF EpAgrees
  <2>2. NoStartCmd(cmds, d)
    BY <2>1 DEF Running, EndsOurs, NoStartCmd
  <2>3. NoStartEvent(events', d)
    BY <1>0, <2>1 DEF Running, NoStartEvent
  <2> QED
    BY <1>2, <2>2, <2>3
<1>4. CASE epState[d] = "START_TRANSFER"
  <2>1. ~StartWritten(d)
    BY <1>0, <1>4 DEF StartWritten, NoStartEvent
  <2>2. StartRaised(d)
    BY <1>1, <1>4, <2>1 DEF EpAgrees
  <2>3. NoStartCmd(cmds, d)
    BY <2>2 DEF StartRaised, EndsOurs, NoStartCmd
  <2>4. PICK j \in 1..Len(events) :
           \A i \in 1..Len(events) :
             events[i].ep = d => (i # j => events[i].kind # "start")
    BY <2>2 DEF StartRaised
  <2>5. j = 1
    BY <1>0, <1>4, <2>4
  <2>6. NoStartEvent(events', d)
    BY <1>0, <2>4, <2>5 DEF NoStartEvent
  <2> QED
    BY <1>2, <2>3, <2>6
<1> QED
  BY <1>3, <1>4 DEF Busy

(* Nothing here changes. *)
wireVars == <<epState, serial, bytes_queued, cmds, hw, events, udc>>
LEMMA SameAgrees ==
  ASSUME UNCHANGED wireVars, NEW d \in Dirs, EpAgrees(d)
  PROVE  EpAgrees(d)'
BY DEF EpAgrees, StartWritten, StartRaised, Running, EndsOurs, HwOurs, Ours, NoStartEvent, NoStartCmd, wireVars

(* The commands of an endpoint, when END_TRANSFER is issued or nothing.    *)
EndedOrSame(d) ==
  \/ cmds'[d] = cmds[d]
  \/ \E c \in Commands : /\ c.cmd = "end" /\ c.serial = serial
                         /\ cmds'[d] = Append(cmds[d], c)

LEMMA EndedKeeps ==
  ASSUME ControllerTypes, NEW d \in Dirs, EndedOrSame(d),
         UNCHANGED <<serial, bytes_queued>>
  PROVE  /\ NoStartCmd(cmds, d) => NoStartCmd(cmds', d)
         /\ \A j \in Nat : EndsOurs(d, j) => EndsOurs(d, j)'
         /\ \A j \in 1..Len(cmds[d]) :
               /\ j \in 1..Len(cmds'[d]) /\ cmds'[d][j] = cmds[d][j]
               /\ (\A i \in 1..Len(cmds[d]) : i < j => cmds[d][i].cmd = "end")
                    => (\A i \in 1..Len(cmds'[d]) : i < j => cmds'[d][i].cmd = "end")
<1>1. cmds[d] \in Seq(Commands)
  BY DEF ControllerTypes
<1>2. CASE cmds'[d] = cmds[d]
  <2>1. \A j \in Nat : EndsOurs(d, j) => EndsOurs(d, j)'
    BY <1>2 DEF EndsOurs
  <2> QED
    BY <1>2, <2>1 DEF NoStartCmd
<1>3. ASSUME NEW c \in Commands, c.cmd = "end", c.serial = serial,
             cmds'[d] = Append(cmds[d], c)
      PROVE  /\ NoStartCmd(cmds, d) => NoStartCmd(cmds', d)
             /\ \A j \in Nat : EndsOurs(d, j) => EndsOurs(d, j)'
             /\ \A j \in 1..Len(cmds[d]) :
                   /\ j \in 1..Len(cmds'[d]) /\ cmds'[d][j] = cmds[d][j]
                   /\ (\A i \in 1..Len(cmds[d]) : i < j => cmds[d][i].cmd = "end")
                        => (\A i \in 1..Len(cmds'[d]) : i < j => cmds'[d][i].cmd = "end")
  <2>1. /\ Len(cmds[d]) \in Nat /\ Len(cmds'[d]) = Len(cmds[d]) + 1
        /\ \A i \in 1..Len(cmds[d]) : cmds'[d][i] = cmds[d][i]
        /\ cmds'[d][Len(cmds[d]) + 1] = c
    BY <1>1, <1>3, AppendFacts
  <2>2. \A i \in 1..Len(cmds'[d]) : i \in 1..Len(cmds[d]) \/ i = Len(cmds[d]) + 1
    BY <2>1
  <2>3. NoStartCmd(cmds, d) => NoStartCmd(cmds', d)
    BY <1>3, <2>1, <2>2 DEF NoStartCmd
  <2>4. ASSUME NEW j \in Nat, EndsOurs(d, j) PROVE EndsOurs(d, j)'
    <3> SUFFICES ASSUME NEW i \in 1..Len(cmds'[d]), i > j
                 PROVE  cmds'[d][i].cmd = "end" /\ cmds'[d][i].serial = serial
      BY DEF EndsOurs
    <3> QED
      BY <1>3, <2>1, <2>2, <2>4 DEF EndsOurs
  <2>5. ASSUME NEW j \in 1..Len(cmds[d])
        PROVE  /\ j \in 1..Len(cmds'[d]) /\ cmds'[d][j] = cmds[d][j]
               /\ (\A i \in 1..Len(cmds[d]) : i < j => cmds[d][i].cmd = "end")
                    => (\A i \in 1..Len(cmds'[d]) : i < j => cmds'[d][i].cmd = "end")
    <3>1. j \in 1..Len(cmds'[d]) /\ cmds'[d][j] = cmds[d][j]
      BY <2>1
    <3>2. \A i \in 1..Len(cmds'[d]) : i < j => i \in 1..Len(cmds[d])
      BY <2>1
    <3> QED
      BY <2>1, <3>1, <3>2
  <2> QED
    BY <2>3, <2>4, <2>5
<1> QED
  BY <1>2, <1>3 DEF EndedOrSame

(* The oldest event is taken and at most END_TRANSFER is issued.           *)
LEMMA IgnoredAgrees ==
  ASSUME ControllerTypes, NEW d \in Dirs, EpAgrees(d), EndedOrSame(d),
         events # <<>>, events' = Tail(events),
         UNCHANGED <<epState, serial, bytes_queued, hw, udc>>,
         Head(events).ep = d /\ Head(events).kind = "start"
           => epState[d] # "START_TRANSFER"
  PROVE  EpAgrees(d)'
<1>0. /\ Len(events) \in Nat /\ Len(events) > 0 /\ Head(events) = events[1]
      /\ Len(events') = Len(events) - 1
      /\ \A i \in 1..Len(events') : events'[i] = events[i + 1]
  BY TailFacts DEF ControllerTypes
<1>1. NoStartEvent(events, d) => NoStartEvent(events', d)
  BY <1>0 DEF NoStartEvent
<1>2. /\ NoStartCmd(cmds, d) => NoStartCmd(cmds', d)
      /\ EndsOurs(d, 0) => EndsOurs(d, 0)'
  BY EndedKeeps
<1>3. HwOurs(d) => HwOurs(d)'
  BY DEF HwOurs
<1>4. ASSUME StartWritten(d) PROVE StartWritten(d)'
  <2>1. PICK j \in 1..Len(cmds[d]) :
          /\ cmds[d][j].cmd = "start" /\ cmds[d][j].serial = serial
          /\ cmds[d][j].bytes = bytes_queued[d]
          /\ \A i \in 1..Len(cmds[d]) : i < j => cmds[d][i].cmd = "end"
          /\ EndsOurs(d, j)
    BY <1>4 DEF StartWritten
  <2>2. /\ j \in 1..Len(cmds'[d]) /\ cmds'[d][j] = cmds[d][j]
        /\ \A i \in 1..Len(cmds'[d]) : i < j => cmds'[d][i].cmd = "end"
    BY <2>1, EndedKeeps
  <2>3. EndsOurs(d, j)'
    BY <2>1, EndedKeeps
  <2>4. NoStartEvent(events', d)
    BY <1>1, <1>4 DEF StartWritten
  <2> QED
    BY <2>1, <2>2, <2>3, <2>4 DEF StartWritten
<1>5. ASSUME StartRaised(d), epState[d] = "START_TRANSFER" PROVE StartRaised(d)'
  <2>1. PICK j \in 1..Len(events) :
           /\ events[j].kind = "start" /\ events[j].ep = d /\ events[j].serial = serial
           /\ \A i \in 1..Len(events) :
                events[i].ep = d => /\ (i # j => events[i].kind # "start")
                                    /\ (i > j => Ours(events[i], d))
    BY <1>5 DEF StartRaised
  <2>2. j # 1
    <3> SUFFICES ASSUME j = 1 PROVE FALSE
      OBVIOUS
    <3>1. Head(events).ep = d /\ Head(events).kind = "start"
      BY <1>0, <2>1
    <3> QED
      BY <1>5, <3>1
  <2>3. PICK k \in 1..Len(events') : j = k + 1
    <3>1. j - 1 \in 1..Len(events') /\ j = (j - 1) + 1
      BY <1>0, <2>2
    <3> QED
      BY <3>1
  <2>4. events'[k].kind = "start" /\ events'[k].ep = d /\ events'[k].serial = serial'
    BY <1>0, <2>1, <2>3
  <2>5. ASSUME NEW i \in 1..Len(events'), events'[i].ep = d
        PROVE  /\ (i # k => events'[i].kind # "start")
               /\ (i > k => Ours(events[i + 1], d))
    <3>1. i + 1 \in 1..Len(events) /\ events'[i] = events[i + 1]
      BY <1>0
    <3> QED
      BY <2>1, <2>3, <2>5, <3>1
  <2>6. \A i \in 1..Len(events') : Ours(events[i + 1], d) => Ours(events[i], d)'
    BY <1>0 DEF Ours
  <2> QED
    BY <1>2, <1>3, <1>5, <2>4, <2>5, <2>6 DEF StartRaised
<1>6. Running(d) => Running(d)'
  <2>1. \A i \in 1..Len(events') : Ours(events[i + 1], d) => Ours(events[i], d)'
    BY <1>0 DEF Ours
  <2> QED
    BY <1>0, <1>2, <1>3, <2>1 DEF Running
<1> QED
  BY <1>1, <1>2, <1>4, <1>5, <1>6 DEF EpAgrees


(* The controller raises an event that starts no transfer.                 *)
LEMMA AnnouncedAgrees ==
  ASSUME ControllerTypes, NEW d \in Dirs, EpAgrees(d),
         NEW x \in EpEvents, events' = Append(events, x),
         UNCHANGED <<epState, serial, bytes_queued, udc>>,
         hw'[d] \in {hw[d], Idle},
         \/ cmds'[d] = cmds[d]
         \/ cmds[d] # <<>> /\ Head(cmds[d]).cmd = "end" /\ cmds'[d] = Tail(cmds[d]),
         x.ep = d => /\ x.kind # "start"
                     /\ EndsOurs(d, 0) /\ HwOurs(d) => Ours(x, d)
  PROVE  EpAgrees(d)'
<1>0. /\ Len(events) \in Nat /\ Len(events') = Len(events) + 1
      /\ \A i \in 1..Len(events) : events'[i] = events[i]
      /\ events'[Len(events) + 1] = x
  BY AppendFacts DEF ControllerTypes
<1>1. \A i \in 1..Len(events') : i \in 1..Len(events) \/ i = Len(events) + 1
  BY <1>0
<1>2. NoStartEvent(events, d) => NoStartEvent(events', d)
  BY <1>0, <1>1 DEF NoStartEvent
<1>3. HwOurs(d) => HwOurs(d)'
  BY DEF HwOurs
<1>4. cmds[d] \in Seq(Commands)
  BY DEF ControllerTypes
<1>5. /\ NoStartCmd(cmds, d) => NoStartCmd(cmds', d)
      /\ EndsOurs(d, 0) => EndsOurs(d, 0)'
  <2>1. CASE cmds'[d] = cmds[d]
    BY <2>1 DEF NoStartCmd, EndsOurs
  <2>2. CASE cmds[d] # <<>> /\ cmds'[d] = Tail(cmds[d])
    <3>1. /\ Len(cmds[d]) \in Nat /\ Len(cmds'[d]) = Len(cmds[d]) - 1
          /\ \A i \in 1..Len(cmds'[d]) : cmds'[d][i] = cmds[d][i + 1]
      BY <1>4, <2>2, TailFacts
    <3>2. \A i \in 1..Len(cmds'[d]) : i + 1 \in 1..Len(cmds[d]) /\ i + 1 > 0
      BY <3>1
    <3> QED
      BY <3>1, <3>2 DEF NoStartCmd, EndsOurs
  <2> QED
    BY <2>1, <2>2
<1>6. ASSUME StartWritten(d) PROVE StartWritten(d)'
  <2>1. PICK j \in 1..Len(cmds[d]) :
          /\ cmds[d][j].cmd = "start" /\ cmds[d][j].serial = serial
          /\ cmds[d][j].bytes = bytes_queued[d]
          /\ \A i \in 1..Len(cmds[d]) : i < j => cmds[d][i].cmd = "end"
          /\ EndsOurs(d, j)
    BY <1>6 DEF StartWritten
  <2>2. NoStartEvent(events', d)
    BY <1>2, <1>6 DEF StartWritten
  <2>3. CASE cmds'[d] = cmds[d]
    <3>1. EndsOurs(d, j)'
      BY <2>1, <2>3 DEF EndsOurs
    <3> QED
      BY <2>1, <2>2, <2>3, <3>1 DEF StartWritten
  <2>4. CASE cmds[d] # <<>> /\ Head(cmds[d]).cmd = "end" /\ cmds'[d] = Tail(cmds[d])
    <3>1. /\ Len(cmds[d]) \in Nat /\ Len(cmds'[d]) = Len(cmds[d]) - 1
          /\ Head(cmds[d]) = cmds[d][1]
          /\ \A i \in 1..Len(cmds'[d]) : cmds'[d][i] = cmds[d][i + 1]
      BY <1>4, <2>4, TailFacts
    <3>2. j # 1
      BY <2>1, <2>4, <3>1
    <3>3. PICK k \in 1..Len(cmds'[d]) : j = k + 1
      <4>1. j - 1 \in 1..Len(cmds'[d]) /\ j = (j - 1) + 1
        BY <3>1, <3>2
      <4> QED
        BY <4>1
    <3>4. ASSUME NEW i \in 1..Len(cmds'[d])
          PROVE  /\ i < k => cmds'[d][i].cmd = "end"
                 /\ i > k => cmds'[d][i].cmd = "end" /\ cmds'[d][i].serial = serial
      <4>1. i + 1 \in 1..Len(cmds[d]) /\ cmds'[d][i] = cmds[d][i + 1]
        BY SMTT(40), <3>1
      <4>2. (i < k => i + 1 < j) /\ (i > k => i + 1 > j)
        BY <3>3
      <4> QED
        BY <2>1, <4>1, <4>2 DEF EndsOurs
    <3>5. cmds'[d][k] = cmds[d][j]
      BY <3>1, <3>3
    <3>6. EndsOurs(d, k)'
      BY <3>4 DEF EndsOurs
    <3> QED
      BY <2>1, <2>2, <3>4, <3>5, <3>6 DEF StartWritten
  <2> QED
    BY <2>3, <2>4
<1>7. ASSUME EndsOurs(d, 0), HwOurs(d), x.ep = d PROVE x.kind # "start" /\ Ours(x, d)
  BY <1>7
<1>8. \A e : Ours(e, d) => Ours(e, d)'
  BY DEF Ours
<1>9. ASSUME StartRaised(d) PROVE StartRaised(d)'
  <2>0. EndsOurs(d, 0) /\ HwOurs(d)
    BY <1>9 DEF StartRaised
  <2>1. PICK j \in 1..Len(events) :
           /\ events[j].kind = "start" /\ events[j].ep = d /\ events[j].serial = serial
           /\ \A i \in 1..Len(events) :
                events[i].ep = d => /\ (i # j => events[i].kind # "start")
                                    /\ (i > j => Ours(events[i], d))
    BY <1>9 DEF StartRaised
  <2>2. j \in 1..Len(events') /\ events'[j] = events[j]
    BY <1>0
  <2>3. ASSUME NEW i \in 1..Len(events'), events'[i].ep = d
        PROVE  /\ (i # j => events'[i].kind # "start")
               /\ (i > j => Ours(events'[i], d))
    <3>1. CASE i \in 1..Len(events)
      BY <1>0, <2>1, <2>3, <3>1
    <3>2. CASE i = Len(events) + 1
      BY <1>0, <1>7, <2>0, <2>3, <3>2
    <3> QED
      BY <1>1, <3>1, <3>2
  <2>4. \A i \in 1..Len(events') : Ours(events'[i], d) => Ours(events[i], d)'
    BY DEF Ours
  <2> QED
    BY <1>3, <1>5, <2>0, <2>1, <2>2, <2>3, <2>4 DEF StartRaised
<1>10. ASSUME Running(d) PROVE Running(d)'
  <2>0. EndsOurs(d, 0) /\ HwOurs(d)
    BY <1>10 DEF Running
  <2>3. ASSUME NEW i \in 1..Len(events'), events'[i].ep = d
        PROVE  events'[i].kind # "start" /\ Ours(events'[i], d)
    <3>1. CASE i \in 1..Len(events)
      BY <1>0, <1>10, <2>3, <3>1 DEF Running
    <3>2. CASE i = Len(events) + 1
      BY <1>0, <1>7, <2>0, <2>3, <3>2
    <3> QED
      BY <1>1, <3>1, <3>2
  <2>4. \A i \in 1..Len(events') : Ours(events'[i], d) => Ours(events[i], d)'
    BY DEF Ours
  <2> QED
    BY <1>3, <1>5, <2>0, <2>3, <2>4 DEF Running
<1> QED
  BY <1>2, <1>5, <1>6, <1>9, <1>10 DEF EpAgrees


-----------------------------------------------------------------------------
(* The byte counts: a transfer in the queue has no more bytes done than it *)
(* has, and the chunk with the controller does not exceed the rest.  (One  *)
(* that has left the queue may have: an OUT transfer is padded.)           *)
BytesInv ==
  /\ UsbTypeOK /\ HandInv
  /\ Distinct(mRequestQueue) /\ Elements(mRequestQueue) \subseteq Elements(submitted)
  /\ \A r \in Elements(mRequestQueue) : bytes_written[r] <= Length[r]
  /\ udc # None => bytes_written[udc] + xfer_len[udc] <= Length[udc]

(* req_queue_request(r), the bytes done of no other transfer changed.      *)
LEMMA ReqQueueRequestBytes ==
  ASSUME UsbTypeOK, NEW r \in Requests, NEW queue \in Seq(Requests),
         NEW rest \in Seq(Requests), NEW written \in Nat, NEW ok \in BOOLEAN,
         ReqQueueRequest(r, queue, rest, written, ok), written <= Length[r],
         queue # <<>>, Head(queue) = r,
         Distinct(queue) /\ Elements(queue) \subseteq Elements(submitted'),
         Distinct(rest) /\ Elements(rest) \subseteq Elements(queue),
         bytes_written' \in [Requests -> Nat], bytes_written'[r] = written,
         \A q \in Elements(queue) : bytes_written'[q] <= Length[q],
         mReportDeviceState' \in BOOLEAN,
         mDeviceState' \in {"Connected", "Disconnected"},
         life' \in {"new", "started", "stopped"}, restarting' \in BOOLEAN,
         pc' = pc, current' = current, submitted' \in Seq(Requests),
         flushed' = flushed, reports' = reports, reportedState' = reportedState,
         HandInv
  PROVE  BytesInv'
<1>1. /\ xfer_len' \in [Requests -> Nat]
      /\ written + xfer_len'[r] <= Length[r]
      /\ TransferStatus' \in [Requests -> Statuses \cup {"unset"}]
      /\ mRequestQueue' \in Seq(Requests)
      /\ mFinishedRequestQueue' \in Seq(Requests)
      /\ mEventsAvailable' \in BOOLEAN
      /\ \/ /\ ok /\ mRequestState' = "TRANSFER"
            /\ mRequestQueue' = queue /\ udc' = r
         \/ /\ ~ok /\ mRequestState' = "IDLE"
            /\ mRequestQueue' = rest /\ udc' = None
  BY ReqQueueRequestStep
<1>2. UsbTypeOK'
  BY <1>1 DEF UsbTypeOK
<1>3. HandInv'
  BY DEF HandInv
<1>4. Elements(submitted)' = Elements(submitted')
  BY DEF Elements
<1>5. CASE mRequestQueue' = queue /\ udc' = r
  <2>1. Elements(mRequestQueue)' = Elements(queue) /\ Distinct(mRequestQueue)' = Distinct(queue)
    BY <1>5 DEF Elements, Distinct
  <2> QED
    BY <1>1, <1>2, <1>3, <1>4, <1>5, <2>1 DEF BytesInv
<1>6. CASE mRequestQueue' = rest /\ udc' = None
  <2>1. Elements(mRequestQueue)' = Elements(rest) /\ Distinct(mRequestQueue)' = Distinct(rest)
    BY <1>6 DEF Elements, Distinct
  <2> QED
    BY <1>2, <1>3, <1>4, <1>6, <2>1 DEF BytesInv
<1> QED
  BY <1>1, <1>5, <1>6

LEMMA TransferBytes ==
  ASSUME LayersInv, BytesInv, NEW r \in Requests, NEW ok \in BOOLEAN, Transfer(r, ok)
  PROVE  BytesInv'
<1>0. /\ life = "started" /\ ~restarting /\ UsbTypeOK /\ HandInv
      /\ r \notin Elements(mRequestQueue) /\ r \notin Elements(submitted)
      /\ QueueAgrees
  BY DEF Transfer, LockFree, BytesInv, LayersInv
<1>1. /\ submitted' = Append(submitted, r)
      /\ bytes_written' = [bytes_written EXCEPT ![r] = 0]
      /\ UNCHANGED <<mReportDeviceState, mDeviceState, pc, current, reports,
                     reportedState, life, restarting, flushed>>
  BY DEF Transfer, deviceVars, reportVars
<1>2. /\ mRequestQueue \in Seq(Requests) /\ submitted \in Seq(Requests)
      /\ bytes_written \in [Requests -> Nat]
  BY <1>0 DEF UsbTypeOK
<1>q. PICK queue : queue = Append(mRequestQueue, r)
  OBVIOUS
<1>3. /\ queue \in Seq(Requests) /\ queue # <<>> /\ submitted' \in Seq(Requests)
      /\ Head(queue) = IF mRequestQueue = <<>> THEN r ELSE Head(mRequestQueue)
  BY <1>q, <1>1, <1>2, AppendFacts
<1>4. /\ Elements(queue) = Elements(mRequestQueue) \cup {r} /\ Distinct(queue)
      /\ Elements(Append(submitted, r)) = Elements(submitted) \cup {r}
  BY <1>q, <1>0, <1>2, ElementsOfAppend DEF BytesInv
<1>5. Elements(queue) \subseteq Elements(submitted')
  BY <1>1, <1>4 DEF BytesInv
<1>6. /\ bytes_written' \in [Requests -> Nat] /\ bytes_written'[r] = 0
      /\ \A q \in Requests : q # r => bytes_written'[q] = bytes_written[q]
  BY <1>1, <1>2
<1>7. Elements(mRequestQueue) \subseteq Requests
  BY <1>2 DEF Elements
<1>8. \A q \in Elements(queue) : bytes_written'[q] <= Length[q]
  <2> SUFFICES ASSUME NEW q \in Elements(queue) PROVE bytes_written'[q] <= Length[q]
    OBVIOUS
  <2>1. CASE q = r
    BY <1>6, <2>1, UsbTransferAssumption DEF UsbTransferAssumption
  <2>2. CASE q # r
    BY <1>4, <1>6, <1>7, <2>2 DEF BytesInv
  <2> QED
    BY <2>1, <2>2
<1>9. CASE mRequestState = "IDLE"
  <2>1. mRequestQueue = <<>>
    BY <1>0, <1>9 DEF QueueAgrees, IdleQueueIsEmpty
  <2>0. PICK written \in Nat : written = 0
    OBVIOUS
  <2>2. ReqQueueRequest(r, queue, mRequestQueue, written, ok)
    BY <1>q, <1>9, <2>0 DEF Transfer
  <2>3. Head(queue) = r /\ written <= Length[r] /\ bytes_written'[r] = written
    BY <1>3, <1>6, <2>0, <2>1, UsbTransferAssumption DEF UsbTransferAssumption
  <2>4. Distinct(mRequestQueue) /\ Elements(mRequestQueue) \subseteq Elements(queue)
    BY <1>4 DEF BytesInv
  <2>5. /\ mReportDeviceState' \in BOOLEAN
        /\ mDeviceState' \in {"Connected", "Disconnected"}
        /\ life' \in {"new", "started", "stopped"} /\ restarting' \in BOOLEAN
    BY <1>0, <1>1 DEF UsbTypeOK
  <2>6. /\ UsbTypeOK /\ HandInv /\ queue \in Seq(Requests) /\ queue # <<>>
        /\ mRequestQueue \in Seq(Requests) /\ submitted' \in Seq(Requests)
        /\ Distinct(queue) /\ Elements(queue) \subseteq Elements(submitted')
        /\ bytes_written' \in [Requests -> Nat]
        /\ UNCHANGED <<pc, current, flushed, reports, reportedState>>
    BY <1>0, <1>1, <1>2, <1>3, <1>4, <1>5, <1>6
  <2> QED
    BY <1>8, <2>0, <2>2, <2>3, <2>4, <2>5, <2>6, ReqQueueRequestBytes
<1>10. CASE mRequestState # "IDLE"
  <2>1. /\ mRequestQueue' = queue
        /\ UNCHANGED <<mRequestState, mFinishedRequestQueue, TransferStatus,
                       xfer_len, mEventsAvailable, udc>>
    BY <1>q, <1>10 DEF Transfer
  <2>2. UsbTypeOK' /\ HandInv'
    BY <1>0, <1>1, <1>3, <1>6, <2>1 DEF UsbTypeOK, HandInv
  <2>3. /\ Elements(mRequestQueue)' = Elements(queue)
        /\ Distinct(mRequestQueue)' = Distinct(queue)
        /\ Elements(submitted)' = Elements(submitted')
    BY <2>1 DEF Elements, Distinct
  <2>4. udc # None => udc # r /\ udc \in Requests
    <3>1. udc # None => mRequestQueue # <<>> /\ udc = Head(mRequestQueue)
      BY <1>0 DEF QueueAgrees
    <3>2. mRequestQueue # <<>> => /\ Head(mRequestQueue) \in Elements(mRequestQueue)
                                  /\ Head(mRequestQueue) \in Requests
      BY <1>2, TailFacts, ElementsOfTail DEF BytesInv
    <3> QED
      BY <1>0, <3>1, <3>2
  <2> QED
    BY <1>4, <1>5, <1>6, <1>8, <2>1, <2>2, <2>3, <2>4 DEF BytesInv
<1> QED
  BY <1>9, <1>10

LEMMA RestartBytes ==
  ASSUME BytesInv, NEW ok \in BOOLEAN, RestartQueue(ok)
  PROVE  BytesInv'
<1>0. UsbTypeOK /\ HandInv /\ mRequestQueue \in Seq(Requests)
  BY DEF BytesInv, UsbTypeOK
<1>1. /\ UNCHANGED <<bytes_written, mReportDeviceState, mDeviceState, pc, current,
                     reports, reportedState, life, submitted, flushed>>
      /\ restarting' \in BOOLEAN
  BY DEF RestartQueue, deviceVars, reportVars
<1>2. CASE mRequestQueue = <<>>
  <2>1. UNCHANGED <<mRequestState, mRequestQueue, mFinishedRequestQueue,
                    TransferStatus, xfer_len, mEventsAvailable, udc>>
    BY <1>2 DEF RestartQueue, queueVars
  <2>2. UsbTypeOK' /\ HandInv'
    BY <1>0, <1>1, <2>1 DEF UsbTypeOK, HandInv
  <2> QED
    BY <1>1, <2>1, <2>2 DEF BytesInv, Elements, Distinct
<1>3. CASE mRequestQueue # <<>>
  <2>1. PICK r \in Requests : r = Head(mRequestQueue)
    BY <1>0, <1>3, TailFacts
  <2>2. ReqQueueRequest(r, mRequestQueue, Tail(mRequestQueue), bytes_written[r], ok)
    BY <1>3, <2>1 DEF RestartQueue
  <2>3. /\ r \in Elements(mRequestQueue) /\ Distinct(Tail(mRequestQueue))
        /\ Elements(Tail(mRequestQueue)) \subseteq Elements(mRequestQueue)
        /\ Tail(mRequestQueue) \in Seq(Requests)
    BY <1>0, <1>3, <2>1, TailFacts, ElementsOfTail DEF BytesInv
  <2>4. PICK written \in Nat : written = bytes_written[r]
    BY <1>0, <2>1 DEF UsbTypeOK
  <2>5. written <= Length[r] /\ bytes_written'[r] = written
    BY <1>1, <2>3, <2>4 DEF BytesInv
  <2>6. /\ Distinct(mRequestQueue) /\ Elements(mRequestQueue) \subseteq Elements(submitted')
        /\ \A q \in Elements(mRequestQueue) : bytes_written'[q] <= Length[q]
    BY <1>1 DEF BytesInv
  <2>7. /\ mReportDeviceState' \in BOOLEAN
        /\ mDeviceState' \in {"Connected", "Disconnected"}
        /\ life' \in {"new", "started", "stopped"} /\ submitted' \in Seq(Requests)
        /\ bytes_written' \in [Requests -> Nat]
    BY <1>0, <1>1 DEF UsbTypeOK
  <2> QED
    BY <1>0, <1>1, <1>3, <2>1, <2>2, <2>3, <2>4, <2>5, <2>6, <2>7, ReqQueueRequestBytes
<1> QED
  BY <1>2, <1>3

(* req_complete with any number of bytes: more than the chunk ends the     *)
(* transfer.                                                               *)
LEMMA CompleteBytes ==
  ASSUME LayersInv, BytesInv, life # "stopped", NEW actual \in Nat,
         NEW good \in BOOLEAN, NEW ok \in BOOLEAN, ReqComplete(actual, good, ok)
  PROVE  BytesInv'
<1>0. /\ UsbTypeOK /\ HandInv /\ mRequestQueue \in Seq(Requests)
      /\ mRequestQueue # <<>> /\ mRequestState = "TRANSFER"
      /\ udc = Head(mRequestQueue) /\ udc # None
  BY DEF BytesInv, UsbTypeOK, ReqComplete, LayersInv, QueueAgrees
<1>1. UNCHANGED <<mReportDeviceState, mDeviceState, pc, current,
                     reports, reportedState, life, submitted, flushed>>
  BY DEF ReqComplete, deviceVars, reportVars
<1>2. PICK r \in Requests : r = Head(mRequestQueue)
  BY <1>0, TailFacts
<1>3. /\ r \in Elements(mRequestQueue) /\ Distinct(Tail(mRequestQueue))
      /\ Elements(Tail(mRequestQueue)) = Elements(mRequestQueue) \ {r}
      /\ Elements(mRequestQueue) \subseteq Requests
      /\ Tail(mRequestQueue) \in Seq(Requests)
  <2>1. Elements(mRequestQueue) \subseteq Requests
    BY <1>0 DEF Elements
  <2> QED
    BY <1>0, <1>2, <2>1, TailFacts, ElementsOfTail DEF BytesInv
<1>4. /\ bytes_written \in [Requests -> Nat] /\ xfer_len[r] \in Nat /\ Length[r] \in Nat
      /\ bytes_written[r] + xfer_len[r] <= Length[r]
  BY <1>0, <1>2, UsbTransferAssumption DEF UsbTypeOK, BytesInv, UsbTransferAssumption
<1>5. restarting' = (mRequestState' = "IDLE")
  BY <1>0 DEF ReqComplete
<1>6. ASSUME NEW status \in Statuses, Finish(r, status),
             bytes_written' \in {bytes_written, [bytes_written EXCEPT ![r] = @ + actual]}
      PROVE  BytesInv'
  <2>1. /\ TransferStatus' \in [Requests -> Statuses \cup {"unset"}]
        /\ mRequestQueue' \in Seq(Requests)
        /\ mFinishedRequestQueue' \in Seq(Requests)
        /\ mRequestState' = "IDLE" /\ udc' = None
        /\ mEventsAvailable' \in BOOLEAN /\ xfer_len' = xfer_len
    BY <1>0, <1>2, <1>6, FinishStep
  <2>2. /\ bytes_written' \in [Requests -> Nat]
        /\ \A q \in Requests : q # r => bytes_written'[q] = bytes_written[q]
    BY <1>4, <1>6
  <2>3. restarting' = TRUE
    BY <1>5, <2>1
  <2>4. UsbTypeOK' /\ HandInv'
    BY <1>0, <1>1, <2>1, <2>2, <2>3 DEF UsbTypeOK, HandInv
  <2>5. mRequestQueue' = Tail(mRequestQueue)
    BY <1>6 DEF Finish
  <2>6. /\ Elements(mRequestQueue)' = Elements(mRequestQueue) \ {r}
        /\ Distinct(mRequestQueue)'
        /\ Elements(submitted)' = Elements(submitted)
    BY ZenonT(60), <1>1, <1>3, <2>5 DEF Elements, Distinct
  <2> QED
    BY <1>3, <2>1, <2>2, <2>4, <2>6 DEF BytesInv
<1>7. ASSUME HasMore(r, actual),
             bytes_written' = [bytes_written EXCEPT ![r] = @ + actual],
             ReqQueueRequest(r, mRequestQueue, Tail(mRequestQueue),
                             bytes_written[r] + actual, ok)
      PROVE  BytesInv'
  <2>1. actual = xfer_len[r]
    BY <1>7 DEF HasMore, IsChunk
  <2>2. PICK written \in Nat : written = bytes_written[r] + actual
    BY <1>4
  <2>3. /\ written <= Length[r] /\ bytes_written' \in [Requests -> Nat]
        /\ bytes_written'[r] = written
        /\ \A q \in Requests : q # r => bytes_written'[q] = bytes_written[q]
    BY <1>4, <1>7, <2>1, <2>2
  <2>4. \A q \in Elements(mRequestQueue) : bytes_written'[q] <= Length[q]
    BY <1>3, <2>3 DEF BytesInv
  <2>5. /\ mReportDeviceState' \in BOOLEAN
        /\ mDeviceState' \in {"Connected", "Disconnected"}
        /\ life' \in {"new", "started", "stopped"} /\ submitted' \in Seq(Requests)
        /\ restarting' \in BOOLEAN
    BY <1>0, <1>1, <1>5 DEF UsbTypeOK
  <2>6. /\ Distinct(mRequestQueue) /\ Elements(mRequestQueue) \subseteq Elements(submitted')
        /\ Elements(Tail(mRequestQueue)) \subseteq Elements(mRequestQueue)
    BY <1>1, <1>3 DEF BytesInv
  <2>7. ReqQueueRequest(r, mRequestQueue, Tail(mRequestQueue), written, ok)
    BY <1>7, <2>2
  <2> QED
    BY <1>0, <1>1, <1>2, <1>3, <2>2, <2>3, <2>4, <2>5, <2>6, <2>7, ReqQueueRequestBytes
<1>8. \/ Finish(r, "Failed") /\ bytes_written' = bytes_written
      \/ /\ bytes_written' = [bytes_written EXCEPT ![r] = @ + actual]
         /\ \/ Finish(r, "Failed") \/ Finish(r, "Completed")
            \/ /\ HasMore(r, actual)
               /\ ReqQueueRequest(r, mRequestQueue, Tail(mRequestQueue),
                                  bytes_written[r] + actual, ok)
  <2> DEFINE h == Head(mRequestQueue)
  <2>1. \/ Finish(h, "Failed") /\ bytes_written' = bytes_written
        \/ /\ bytes_written' = [bytes_written EXCEPT ![h] = @ + actual]
           /\ \/ Finish(h, "Failed") \/ Finish(h, "Completed")
              \/ /\ HasMore(h, actual)
                 /\ ReqQueueRequest(h, mRequestQueue, Tail(mRequestQueue),
                                    bytes_written[h] + actual, ok)
    BY <1>0 DEF ReqComplete
  <2>2. h = r
    BY <1>2
  <2> HIDE DEF h
  <2> QED
    BY <2>1, <2>2
<1>9. "Failed" \in Statuses /\ "Completed" \in Statuses
  BY DEF Statuses
<1> QED BY <1>6, <1>7, <1>8, <1>9

LEMMA OfflineBytes ==
  ASSUME BytesInv, NotifyOffline
  PROVE  BytesInv'
<1> DEFINE keep == IF mRequestQueue # <<>> /\ mRequestState = "TRANSFER"
                     THEN 1 ELSE 0
<1>1. mRequestQueue \in Seq(Requests) /\ UsbTypeOK' /\ HandInv'
  <2>1. UNCHANGED <<pc, current>>
    BY DEF NotifyOffline, reportVars
  <2> QED
    BY <2>1, NotifyOfflineTypes DEF BytesInv, UsbTypeOK, HandInv
<1>2. /\ mRequestQueue' = SubSeq(mRequestQueue, 1, keep)
      /\ UNCHANGED <<bytes_written, xfer_len, udc, submitted>>
  BY DEF NotifyOffline, GadgetOffline, entryVars
<1>3. keep \in 0..1 /\ keep <= Len(mRequestQueue)
  BY <1>1
<1> HIDE DEF keep
<1>4. /\ Elements(SubSeq(mRequestQueue, 1, keep)) \subseteq Elements(mRequestQueue)
      /\ Distinct(SubSeq(mRequestQueue, 1, keep))
  BY <1>1, <1>3, ElementsOfCut DEF BytesInv
<1>5. /\ Elements(mRequestQueue)' \subseteq Elements(mRequestQueue)
      /\ Distinct(mRequestQueue)'
      /\ Elements(submitted)' = Elements(submitted)
  BY <1>2, <1>4 DEF Elements, Distinct
<1> QED
  BY <1>1, <1>2, <1>5 DEF BytesInv

(* What changes neither a queue nor a count.                               *)
LEMMA SameBytes ==
  ASSUME BytesInv, UsbTypeOK', HandInv',
         UNCHANGED <<mRequestQueue, submitted, bytes_written, xfer_len>>,
         udc' \in {udc, None}
  PROVE  BytesInv'
BY DEF BytesInv, Elements, Distinct


-----------------------------------------------------------------------------
GadgetInv == WireInv /\ BytesInv

LEMMA PadFacts ==
  ASSUME NEW d \in Dirs, NEW len \in Nat
  PROVE  BytesQueued(d, len) \in Nat /\ len + PadLen(d, len) \in Nat
BY Usb30Assumption DEF Usb30Assumption, BytesQueued, PadLen

LEMMA UdcTypes ==
  ASSUME ControllerTypes, NEW asked \in Requests \cup {None},
         xfer_len' \in [Requests -> Nat], NEW queued, NEW states, NEW calls,
         UdcRequestQueue(asked, queued, states, calls)
  PROVE  /\ bytes_queued' \in [Dirs -> Nat] /\ cmds' \in [Dirs -> Seq(Commands)]
         /\ serial' \in Nat
<1>1. CASE UNCHANGED <<bytes_queued, cmds, serial>>
  BY <1>1 DEF ControllerTypes
<1>2. CASE asked # None /\ DwcRequestQueue(Dir(asked), xfer_len'[asked], cmds, states, calls)
  <2>1. PICK a \in Dirs : a = Dir(asked)
    BY DEF Dir, Dirs
  <2>2. PICK len \in Nat : len = xfer_len'[asked]
    BY <1>2
  <2>3. BytesQueued(a, len) \in Nat /\ StartCmd(a, len, serial + 1) \in Commands
    <3>1. PICK n \in Nat : n = len + PadLen(a, len)
      BY <2>1, <2>2, PadFacts
    <3>2. PICK s \in Nat : s = serial + 1
      BY DEF ControllerTypes
    <3>3. [cmd |-> "start", idx |-> 0, serial |-> s, bytes |-> n] \in Commands
      BY <3>1, <3>2 DEF Commands
    <3> QED
      BY <2>1, <2>2, <3>1, <3>2, <3>3, PadFacts DEF StartCmd
  <2>4. /\ bytes_queued' = [bytes_queued EXCEPT ![a] = BytesQueued(a, len)]
        /\ serial' = serial + 1
        /\ cmds' = [cmds EXCEPT ![a] = Append(cmds[a], StartCmd(a, len, serial + 1))]
    BY <1>2, <2>1, <2>2 DEF DwcRequestQueue
  <2>5. Append(cmds[a], StartCmd(a, len, serial + 1)) \in Seq(Commands)
    BY <2>1, <2>3, AppendFacts DEF ControllerTypes
  <2> QED
    BY <2>1, <2>3, <2>4, <2>5 DEF ControllerTypes
<1> QED
  BY <1>1, <1>2 DEF UdcRequestQueue

(* Nothing of an earlier start is left while the udc layer waits for none. *)
LEMMA FreeIsClean ==
  ASSUME WireInv, life # "stopped", udc = None
  PROVE  \A d \in Dirs : /\ epState[d] \notin Busy
                         /\ NoStartEvent(events, d) /\ NoStartCmd(cmds, d)
BY DEF WireInv, LayersInv, EndpointsAgree, EventsAgree, EpAgrees

LEMMA GadgetTransfer ==
  ASSUME GadgetInv, NEW r \in Requests, NEW ok \in BOOLEAN, Usb30Transfer(r, ok)
  PROVE  GadgetInv'
<1>0. /\ WireInv /\ LayersInv /\ ControllerTypes /\ BytesInv /\ EventsAgree
  BY DEF GadgetInv, WireInv
<1>1. LayersInv' /\ BytesInv'
  BY <1>0, TransferAgrees, TransferBytes DEF Usb30Transfer
<1>2. /\ life = "started" /\ life' = life
      /\ UNCHANGED <<resource_idx, config_selected, events, hw, hostEvents>>
  BY DEF Usb30Transfer, Transfer
<1>3. CASE mRequestState = "IDLE"
  <2>1. UdcRequestQueue(r, queued_req, epState, callback)
    BY <1>3 DEF Usb30Transfer
  <2>2. udc = None /\ queued_req = FALSE
    BY <1>0, <1>2, <1>3 DEF LayersInv, LayerTypes, QueueAgrees, EndpointsAgree
  <2>3. xfer_len' \in [Requests -> Nat]
    BY <1>1 DEF BytesInv, UsbTypeOK
  <2>4. ControllerTypes'
    BY <1>0, <1>2, <2>1, <2>3, UdcTypes DEF ControllerTypes
  <2>5. /\ epState \in [Dirs -> EpStates]
        /\ \A d \in Dirs : /\ epState[d] \notin Busy
                           /\ NoStartEvent(events', d) /\ NoStartCmd(cmds, d)
    BY <1>0, <1>2, <2>2, FreeIsClean DEF LayersInv, LayerTypes
  <2>6. \A d \in Dirs : EpAgrees(d)'
    BY <1>0, <2>1, <2>2, <2>5, StartedAgrees
  <2> QED
    BY <1>1, <1>2, <2>4, <2>6 DEF GadgetInv, WireInv, EventsAgree
<1>4. CASE mRequestState # "IDLE"
  <2>1. UNCHANGED <<udc, epState, bytes_queued, cmds, serial>>
    BY <1>4 DEF Usb30Transfer, Transfer, UdcRequestQueue
  <2>2. \A d \in Dirs : EpAgrees(d)'
    BY <1>0, <1>2, <2>1, SameAgrees DEF EventsAgree, wireVars
  <2> QED
    BY <1>0, <1>1, <1>2, <2>1, <2>2 DEF GadgetInv, WireInv, EventsAgree, ControllerTypes
<1> QED
  BY <1>3, <1>4

LEMMA GadgetRestart ==
  ASSUME GadgetInv, NEW ok \in BOOLEAN, Usb30Restart(ok)
  PROVE  GadgetInv'
<1>0. /\ WireInv /\ LayersInv /\ ControllerTypes /\ BytesInv /\ EventsAgree
      /\ mRequestQueue \in Seq(Requests)
  BY DEF GadgetInv, WireInv, BytesInv, UsbTypeOK
<1>1. LayersInv' /\ BytesInv'
  BY <1>0, RestartAgrees, RestartBytes DEF Usb30Restart
<1>2. /\ restarting /\ life' = life
      /\ UNCHANGED <<resource_idx, config_selected, events, hw, hostEvents>>
  BY DEF Usb30Restart, RestartQueue
<1>3. PICK asked \in Requests \cup {None} :
         asked = IF mRequestQueue = <<>> THEN None ELSE Head(mRequestQueue)
  BY <1>0, TailFacts
<1>4. UdcRequestQueue(asked, queued_req, epState, callback)
  BY <1>3 DEF Usb30Restart
<1>5. xfer_len' \in [Requests -> Nat]
  BY <1>1 DEF BytesInv, UsbTypeOK
<1>6. ControllerTypes'
  BY <1>0, <1>2, <1>3, <1>4, <1>5, UdcTypes DEF ControllerTypes
<1>7. ASSUME life # "stopped" PROVE \A d \in Dirs : EpAgrees(d)'
  <2>1. udc = None /\ queued_req = FALSE
    BY <1>0, <1>2, <1>7 DEF LayersInv, LayerTypes, QueueAgrees, EndpointsAgree
  <2>2. /\ epState \in [Dirs -> EpStates]
        /\ \A d \in Dirs : /\ epState[d] \notin Busy
                           /\ NoStartEvent(events', d) /\ NoStartCmd(cmds, d)
    BY <1>0, <1>2, <1>7, <2>1, FreeIsClean DEF LayersInv, LayerTypes
  <2> QED
    BY <1>0, <1>3, <1>4, <2>1, <2>2, StartedAgrees
<1> QED
  BY <1>0, <1>1, <1>2, <1>6, <1>7 DEF GadgetInv, WireInv, EventsAgree

(* The busy endpoint gives its request back, on the event that says so.    *)
LEMMA GadgetToInactive ==
  ASSUME GadgetInv, NEW d \in Dirs, epState[d] \in Busy,
         epState[d] = "START_TRANSFER" => Head(events).kind = "start",
         NEW kind, Handle(kind, d), NEW actual \in Nat, NEW good \in BOOLEAN,
         NEW ok \in BOOLEAN, ToInactive(d, actual, good, ok),
         UNCHANGED <<config_selected, hw>>
  PROVE  GadgetInv'
<1>0. /\ WireInv /\ LayersInv /\ ControllerTypes /\ BytesInv /\ EventsAgree
      /\ mRequestQueue \in Seq(Requests) /\ LayerTypes
  BY DEF GadgetInv, WireInv, BytesInv, UsbTypeOK, LayersInv
<1>1. /\ events # <<>> /\ Head(events).ep = d /\ events' = Tail(events)
      /\ hostEvents' = hostEvents
  BY DEF Handle
<1>2. /\ life # "stopped" /\ life' = life
      /\ resource_idx' = [resource_idx EXCEPT ![d] = 0]
  BY <1>0, <1>1 DEF EventsAgree, ToInactive, ReqComplete
<1>3. LayersInv' /\ BytesInv'
  BY <1>0, <1>2, ToInactiveAgrees, CompleteBytes DEF ToInactive
<1>4. PICK asked \in Requests \cup {None} :
         asked = IF mRequestQueue # <<>> /\ mRequestState = "TRANSFER"
                          /\ good /\ HasMore(Head(mRequestQueue), actual)
                       THEN Head(mRequestQueue) ELSE None
  BY <1>0, TailFacts
<1>5. PICK states \in [Dirs -> EpStates] : states = [epState EXCEPT ![d] = "INACTIVE"]
  BY <1>0 DEF LayerTypes, EpStates
<1>6. PICK calls : calls = [callback EXCEPT ![d] = FALSE]
  OBVIOUS
<1>7. UdcRequestQueue(asked, FALSE, states, calls)
  BY <1>4, <1>5, <1>6 DEF ToInactive
<1>8. xfer_len' \in [Requests -> Nat]
  BY <1>3 DEF BytesInv, UsbTypeOK
<1>9. Tail(events) \in Seq(EpEvents)
  BY <1>0, <1>1, TailFacts DEF ControllerTypes
<1>10. ControllerTypes'
  BY <1>0, <1>1, <1>2, <1>4, <1>7, <1>8, <1>9, UdcTypes DEF ControllerTypes
<1>11. \A e \in Dirs : NoStartEvent(events', e) /\ NoStartCmd(cmds, e)
  BY <1>0, <1>1, <1>2, GivenBackIsClean
<1>12. \A e \in Dirs : states[e] \notin Busy
  BY <1>0, <1>2, <1>5 DEF LayersInv, EndpointsAgree, Busy
<1>13. \A e \in Dirs : EpAgrees(e)'
  BY <1>0, <1>4, <1>5, <1>7, <1>11, <1>12, StartedAgrees
<1> QED
  BY <1>2, <1>3, <1>10, <1>13 DEF GadgetInv, WireInv, EventsAgree

(* The oldest event is taken, and nothing but END_TRANSFER comes of it.    *)
LEMMA GadgetIgnores ==
  ASSUME GadgetInv, LayersInv', BytesInv', LockFree, events # <<>>, events' = Tail(events),
         UNCHANGED <<epState, serial, bytes_queued, resource_idx, hw, udc, hostEvents, life>>,
         cmds' \in [Dirs -> Seq(Commands)], \A d \in Dirs : EndedOrSame(d),
         \A d \in Dirs : Head(events).ep = d /\ Head(events).kind = "start"
           => epState[d] # "START_TRANSFER"
  PROVE  GadgetInv'
<1>0. /\ ControllerTypes /\ EventsAgree /\ life # "stopped"
  BY DEF GadgetInv, WireInv, EventsAgree
<1>1. Tail(events) \in Seq(EpEvents)
  BY <1>0, TailFacts DEF ControllerTypes
<1>2. ControllerTypes'
  BY <1>0, <1>1 DEF ControllerTypes
<1>3. \A d \in Dirs : EpAgrees(d)'
  BY <1>0, IgnoredAgrees DEF EventsAgree
<1> QED
  BY <1>0, <1>2, <1>3 DEF GadgetInv, WireInv, EventsAgree


-----------------------------------------------------------------------------
LEMMA SameQueue ==
  ASSUME BytesInv, UNCHANGED usbVars
  PROVE  BytesInv'
<1>1. UsbTypeOK' /\ HandInv'
  BY DEF BytesInv, usbVars, queueVars, entryVars, deviceVars, reportVars, UsbTypeOK, HandInv
<1> QED
  BY <1>1, SameBytes DEF usbVars, queueVars, entryVars, reportVars

LEMMA GadgetReset ==
  ASSUME GadgetInv, DeviceReset \/ DeviceDisconnect
  PROVE  GadgetInv'
<1>0. /\ ControllerTypes /\ LayersInv /\ BytesInv
      /\ LayersInv'
  BY OfflineAgrees DEF GadgetInv, WireInv, DeviceReset, DeviceDisconnect
<1>1. /\ LockFree /\ events # <<>> /\ Head(events).ep = "dev" /\ events' = Tail(events)
      /\ UNCHANGED <<epState, callback, resource_idx, bytes_queued, serial, hw, udc,
                     hostEvents, life>>
      /\ NotifyOffline
  BY DEF DeviceReset, DeviceDisconnect, Handle, UdcOffline, NotifyOffline, epVars
<1>2. BytesInv'
  BY <1>0, <1>1, OfflineBytes
<1>3. \A d \in Dirs : EndCmd(d) \in Commands /\ EndCmd(d).cmd = "end" /\ EndCmd(d).serial = serial
  BY <1>0 DEF ControllerTypes, EndCmd, Commands
<1>4. cmds' \in [Dirs -> Seq(Commands)] /\ \A d \in Dirs : EndedOrSame(d)
  <2>1. CASE DeviceReset
    <3>1. cmds' = [d \in Dirs |-> IF Active(d) THEN Append(cmds[d], EndCmd(d)) ELSE cmds[d]]
      BY <2>1 DEF DeviceReset
    <3>2. \A d \in Dirs : Append(cmds[d], EndCmd(d)) \in Seq(Commands) /\ cmds[d] \in Seq(Commands)
      BY <1>0, <1>3, AppendFacts DEF ControllerTypes
    <3>3. \A d \in Dirs : cmds'[d] = Append(cmds[d], EndCmd(d)) \/ cmds'[d] = cmds[d]
      BY <3>1
    <3> QED
      BY <1>3, <3>1, <3>2, <3>3 DEF EndedOrSame
  <2>2. CASE DeviceDisconnect
    BY <1>0, <2>2 DEF DeviceDisconnect, EndedOrSame, ControllerTypes
  <2> QED
    BY <2>1, <2>2
<1>5. "dev" \notin Dirs
  BY DEF Dirs
<1> QED
  BY <1>0, <1>1, <1>2, <1>4, <1>5, GadgetIgnores

LEMMA GadgetClear ==
  ASSUME GadgetInv, ClearConfiguration
  PROVE  GadgetInv'
<1>0. /\ ControllerTypes /\ LayersInv /\ BytesInv /\ LayersInv'
  BY InterruptAgrees DEF GadgetInv, WireInv, Interrupt
<1>1. /\ LockFree /\ events # <<>> /\ Head(events).ep = "dev" /\ events' = Tail(events)
      /\ UNCHANGED <<epState, resource_idx, bytes_queued, serial, hw, cmds, hostEvents>>
      /\ UNCHANGED usbVars
  BY DEF ClearConfiguration, Handle, epVars
<1>2. BytesInv' /\ UNCHANGED <<udc, life>>
  BY <1>0, <1>1, SameQueue DEF usbVars
<1>3. cmds' \in [Dirs -> Seq(Commands)] /\ (\A d \in Dirs : EndedOrSame(d)) /\ "dev" \notin Dirs
  BY <1>0, <1>1 DEF ControllerTypes, EndedOrSame, Dirs
<1> QED
  BY <1>0, <1>1, <1>2, <1>3, GadgetIgnores

LEMMA GadgetConfigures ==
  ASSUME GadgetInv, SetConfiguration
  PROVE  GadgetInv'
<1>0. /\ ControllerTypes /\ LayersInv /\ BytesInv /\ EventsAgree /\ WireInv /\ LayersInv'
  BY InterruptAgrees DEF GadgetInv, WireInv, Interrupt
<1>1. /\ LockFree /\ events # <<>> /\ events' = Tail(events)
      /\ epState' = [d \in Dirs |-> "INACTIVE"]
      /\ resource_idx' = [d \in Dirs |-> 0] /\ bytes_queued' = [d \in Dirs |-> 0]
      /\ hw' = [d \in Dirs |-> Idle]
      /\ NotifyOnline \/ UNCHANGED usbVars
      /\ UNCHANGED <<serial, cmds, hostEvents>>
  BY DEF SetConfiguration, Handle
<1>2. BytesInv'
  <2>1. CASE UNCHANGED usbVars
    BY <1>0, <2>1, SameQueue
  <2>2. CASE NotifyOnline
    <3>1. UsbTypeOK' /\ HandInv'
      BY <1>0, <2>2 DEF NotifyOnline, queueVars, entryVars, reportVars, BytesInv, UsbTypeOK, HandInv
    <3> QED
      BY <1>0, <2>2, <3>1, SameBytes DEF NotifyOnline, queueVars, entryVars
  <2> QED
    BY <1>1, <2>1, <2>2
<1>3. UNCHANGED <<udc, life>>
  BY <1>1 DEF NotifyOnline, usbVars
<1>4. /\ Len(events) \in Nat /\ Len(events') = Len(events) - 1
      /\ \A i \in 1..Len(events') : events'[i] = events[i + 1]
      /\ events' \in Seq(EpEvents)
  BY <1>0, <1>1, TailFacts DEF ControllerTypes
<1>5. ControllerTypes'
  BY <1>0, <1>1, <1>4 DEF ControllerTypes, Idle
<1>6. life # "stopped"
  BY <1>0, <1>1 DEF EventsAgree
<1>7. ASSUME NEW d \in Dirs PROVE EpAgrees(d)'
  <2>1. \A e \in Dirs : epState'[e] = "INACTIVE"
    BY <1>1
  <2>2. udc = None => NoStartEvent(events, d) /\ NoStartCmd(cmds, d)
    BY <1>0, <1>6, FreeIsClean
  <2>3. udc' = None => NoStartEvent(events', d) /\ NoStartCmd(cmds', d)
    BY <1>1, <1>3, <1>4, <2>2 DEF NoStartEvent, NoStartCmd
  <2> QED
    BY <2>1, <2>3 DEF EpAgrees, Busy
<1> QED
  BY <1>0, <1>2, <1>3, <1>5, <1>6, <1>7 DEF GadgetInv, WireInv, EventsAgree

(* START_TRANSFER succeeded: what follows is of this transfer.             *)
LEMMA GadgetStarted ==
  ASSUME GadgetInv, NEW d \in Dirs, Handle("start", d),
         epState[d] = "START_TRANSFER",
         epState' = [epState EXCEPT ![d] = "XFER_IN_PROG"],
         resource_idx' = [resource_idx EXCEPT ![d] = 1],
         LayersInv',
         UNCHANGED <<usbVars, callback, bytes_queued, queued_req, cmds,
                     serial, hw, config_selected>>
  PROVE  GadgetInv'
<1>0. /\ ControllerTypes /\ LayersInv /\ BytesInv /\ EventsAgree /\ WireInv
      /\ epState \in [Dirs -> EpStates]
  BY DEF GadgetInv, WireInv, LayersInv, LayerTypes
<1>1. /\ LockFree /\ events # <<>> /\ events' = Tail(events) /\ Head(events).ep = d
      /\ Head(events).kind = "start" /\ hostEvents' = hostEvents
  BY DEF Handle
<1>2. BytesInv' /\ UNCHANGED <<udc, life>> /\ life # "stopped"
  BY <1>0, <1>1, SameQueue DEF usbVars, EventsAgree
<1>3. /\ Len(events) \in Nat /\ Len(events) > 0 /\ Head(events) = events[1]
      /\ Len(events') = Len(events) - 1
      /\ \A i \in 1..Len(events') : events'[i] = events[i + 1]
      /\ events' \in Seq(EpEvents)
  BY <1>0, <1>1, TailFacts DEF ControllerTypes
<1>4. ControllerTypes'
  BY <1>0, <1>1, <1>3 DEF ControllerTypes
<1>5. \A e \in Dirs : NoStartEvent(events', e) /\ NoStartCmd(cmds, e)
  BY <1>0, <1>1, <1>2, GivenBackIsClean DEF Busy
<1>6. Running(d)'
  <2>1. ~StartWritten(d)
    BY <1>1, <1>3 DEF StartWritten, NoStartEvent
  <2>2. StartRaised(d)
    BY <1>0, <1>2, <2>1 DEF EventsAgree, EpAgrees
  <2>3. EndsOurs(d, 0)' /\ HwOurs(d)'
    BY <2>2 DEF StartRaised, EndsOurs, HwOurs
  <2>4. PICK j \in 1..Len(events) :
           \A i \in 1..Len(events) :
             events[i].ep = d => /\ (i # j => events[i].kind # "start")
                                 /\ (i > j => Ours(events[i], d))
    BY <2>2 DEF StartRaised
  <2>5. j = 1
    BY <1>1, <1>3, <2>4
  <2>6. ASSUME NEW i \in 1..Len(events'), events'[i].ep = d
        PROVE  events'[i].kind # "start" /\ Ours(events'[i], d)
    <3>1. i + 1 \in 1..Len(events) /\ i + 1 > 1 /\ events'[i] = events[i + 1]
      BY <1>3
    <3> QED
      BY <2>4, <2>5, <2>6, <3>1
  <2>7. \A i \in 1..Len(events') : Ours(events'[i], d) => Ours(events[i], d)'
    BY DEF Ours
  <2> QED
    BY <2>3, <2>6, <2>7 DEF Running
<1>7. ASSUME NEW e \in Dirs PROVE EpAgrees(e)'
  <2>1. CASE e = d
    BY <1>0, <1>6, <2>1 DEF EpAgrees, Busy
  <2>2. CASE e # d
    <3>1. epState[e] \notin Busy /\ epState'[e] = epState[e]
      BY <1>0, <1>2, <2>2 DEF LayersInv, EndpointsAgree, Busy
    <3>2. NoStartEvent(events', e) /\ NoStartCmd(cmds', e)
      BY <1>5 DEF NoStartCmd
    <3> QED
      BY <3>1, <3>2 DEF EpAgrees, Busy
  <2> QED
    BY <2>1, <2>2
<1> QED
  BY <1>2, <1>4, <1>7 DEF GadgetInv, WireInv, EventsAgree

(* A completion for the endpoint reports no more than was asked for.       *)
LEMMA ActualIsNat ==
  ASSUME GadgetInv, NEW d \in Dirs, Handle("complete", d), epState[d] = "XFER_IN_PROG"
  PROVE  bytes_queued[d] - Head(events).remaining \in Nat
<1>1. /\ ControllerTypes /\ EventsAgree /\ events # <<>>
      /\ Head(events).ep = d /\ Head(events).kind = "complete"
  BY DEF GadgetInv, WireInv, Handle
<1>2. /\ Len(events) > 0 /\ Len(events) \in Nat /\ Head(events) = events[1]
      /\ Head(events) \in EpEvents
  BY <1>1, TailFacts DEF ControllerTypes
<1>3. Running(d)
  BY <1>1 DEF EventsAgree, EpAgrees
<1>4. Ours(Head(events), d)
  BY <1>1, <1>2, <1>3 DEF Running
<1> QED
  BY <1>1, <1>2, <1>4 DEF Ours, EpEvents, ControllerTypes

LEMMA GadgetInterrupt ==
  ASSUME GadgetInv, Interrupt
  PROVE  GadgetInv'
<1>0. /\ ControllerTypes /\ LayersInv /\ BytesInv /\ LayersInv'
  BY InterruptAgrees DEF GadgetInv, WireInv
<1>1. CASE DeviceReset \/ DeviceDisconnect
  BY <1>1, GadgetReset
<1>2. CASE SetConfiguration
  BY <1>2, GadgetConfigures
<1>3. CASE ClearConfiguration
  BY <1>3, GadgetClear
<1>4. ASSUME NEW kind, NEW d \in Dirs, Handle(kind, d), Ignore,
             UNCHANGED <<config_selected, hw>>,
             kind = "start" => epState[d] # "START_TRANSFER"
      PROVE  GadgetInv'
  <2>1. /\ LockFree /\ events # <<>> /\ events' = Tail(events)
        /\ Head(events).ep = d /\ Head(events).kind = kind
        /\ UNCHANGED <<epState, resource_idx, bytes_queued, serial, hw, cmds, hostEvents>>
        /\ UNCHANGED usbVars
    BY <1>4 DEF Handle, Ignore, epVars
  <2>2. BytesInv' /\ UNCHANGED <<udc, life>>
    BY <1>0, <2>1, SameQueue DEF usbVars
  <2>3. cmds' \in [Dirs -> Seq(Commands)] /\ (\A e \in Dirs : EndedOrSame(e))
    BY <1>0, <2>1 DEF ControllerTypes, EndedOrSame
  <2> QED
    BY <1>0, <1>4, <2>1, <2>2, <2>3, GadgetIgnores
<1>5. ASSUME NEW d \in Dirs, StartDone(d) PROVE GadgetInv'
  <2>0. Handle("start", d) /\ UNCHANGED <<config_selected, hw>> /\ Head(events).kind = "start"
    BY <1>5 DEF StartDone, Handle
  <2>1. CASE epState[d] = "START_TRANSFER" /\ Head(events).status = 0
    <3>1. /\ epState' = [epState EXCEPT ![d] = "XFER_IN_PROG"]
          /\ resource_idx' = [resource_idx EXCEPT ![d] = 1]
          /\ UNCHANGED <<usbVars, callback, bytes_queued, queued_req, cmds, serial>>
      BY <1>5, <2>1 DEF StartDone
    <3> QED
      BY <1>0, <2>0, <2>1, <3>1, GadgetStarted
  <2>2. CASE epState[d] = "START_TRANSFER" /\ Head(events).status # 0
    <3>1. PICK ok \in BOOLEAN : ToInactive(d, 0, FALSE, ok)
      BY <1>5, <2>2 DEF StartDone
    <3>2. epState[d] \in Busy /\ 0 \in Nat /\ FALSE \in BOOLEAN
      BY <2>2 DEF Busy
    <3> QED
      BY <2>0, <3>1, <3>2, GadgetToInactive
  <2>3. CASE epState[d] # "START_TRANSFER"
    BY <1>4, <1>5, <2>0, <2>3 DEF StartDone
  <2> QED
    BY <2>1, <2>2, <2>3
<1>6. ASSUME NEW d \in Dirs, EndDone(d) PROVE GadgetInv'
  <2>0. Handle("end", d) /\ UNCHANGED <<config_selected, hw>>
    BY <1>6 DEF EndDone
  <2>1. CASE epState[d] = "XFER_IN_PROG"
    <3>1. PICK ok \in BOOLEAN : ToInactive(d, 0, FALSE, ok)
      BY <1>6, <2>1 DEF EndDone
    <3>2. epState[d] \in Busy /\ epState[d] # "START_TRANSFER" /\ 0 \in Nat /\ FALSE \in BOOLEAN
      BY <2>1 DEF Busy
    <3> QED
      BY <2>0, <3>1, <3>2, GadgetToInactive
  <2>2. CASE epState[d] # "XFER_IN_PROG"
    BY <1>4, <1>6, <2>0, <2>2 DEF EndDone
  <2> QED
    BY <2>1, <2>2
<1>7. ASSUME NEW d \in Dirs, TransferComplete(d) PROVE GadgetInv'
  <2>0. Handle("complete", d) /\ UNCHANGED <<config_selected, hw>>
    BY <1>7 DEF TransferComplete
  <2>1. CASE epState[d] = "XFER_IN_PROG"
    <3>1. PICK ok \in BOOLEAN :
             ToInactive(d, bytes_queued[d] - Head(events).remaining,
                        Head(events).status = 0, ok)
      BY <1>7, <2>1 DEF TransferComplete
    <3>2. PICK actual \in Nat : actual = bytes_queued[d] - Head(events).remaining
      BY <2>0, <2>1, ActualIsNat
    <3>3. PICK good \in BOOLEAN : good = (Head(events).status = 0)
      OBVIOUS
    <3>4. ToInactive(d, actual, good, ok)
      BY <3>1, <3>2, <3>3
    <3>5. epState[d] \in Busy /\ epState[d] # "START_TRANSFER"
      BY <2>1 DEF Busy
    <3> QED
      BY <2>0, <3>1, <3>2, <3>3, <3>4, <3>5, GadgetToInactive
  <2>2. CASE epState[d] # "XFER_IN_PROG"
    BY <1>4, <1>7, <2>0, <2>2 DEF TransferComplete
  <2> QED
    BY <2>1, <2>2
<1>8. ASSUME NEW ok \in BOOLEAN, Usb30Restart(ok) PROVE GadgetInv'
  BY <1>8, GadgetRestart
<1> QED
  BY <1>1, <1>2, <1>3, <1>5, <1>6, <1>7, <1>8 DEF Interrupt


-----------------------------------------------------------------------------
(* The controller executes the oldest command of an endpoint.  If that is  *)
(* START_TRANSFER and the endpoint waits for it, it is the one written     *)
(* last.                                                                   *)
LEMMA ExecutedAgrees ==
  ASSUME ControllerTypes, NEW d \in Dirs, EpAgrees(d), NEW status \in {0, 1},
         cmds[d] # <<>>, cmds'[d] = Tail(cmds[d]), Head(cmds[d]).cmd = "start",
         events' = Append(events, EpEvent("start", d, Head(cmds[d]).serial, status, 0)),
         hw'[d] = (IF status = 0 THEN [bytes  |-> Head(cmds[d]).bytes,
                                       serial |-> Head(cmds[d]).serial]
                   ELSE Idle),
         UNCHANGED <<epState, serial, bytes_queued, udc>>
  PROVE  EpAgrees(d)'
<1>1. /\ cmds[d] \in Seq(Commands) /\ Head(cmds[d]) \in Commands
      /\ Head(cmds[d]) = cmds[d][1] /\ 1 \in 1..Len(cmds[d])
      /\ Len(cmds[d]) \in Nat /\ Len(cmds'[d]) = Len(cmds[d]) - 1
      /\ \A i \in 1..Len(cmds'[d]) : cmds'[d][i] = cmds[d][i + 1]
  BY TailFacts DEF ControllerTypes
<1>2. PICK x : x = EpEvent("start", d, Head(cmds[d]).serial, status, 0)
  OBVIOUS
<1>3. x \in EpEvents /\ x.kind = "start" /\ x.ep = d /\ x.serial = Head(cmds[d]).serial
  BY <1>1, <1>2 DEF EpEvent, EpEvents, Commands
<1>4. /\ Len(events) \in Nat /\ Len(events') = Len(events) + 1
      /\ \A i \in 1..Len(events) : events'[i] = events[i]
      /\ events'[Len(events) + 1] = x
  BY <1>2, <1>3, AppendFacts DEF ControllerTypes
<1>5. ~NoStartCmd(cmds, d) /\ ~EndsOurs(d, 0)
  BY <1>1 DEF NoStartCmd, EndsOurs
<1>6. CASE epState[d] # "START_TRANSFER"
  BY <1>5, <1>6 DEF EpAgrees, Running
<1>7. CASE epState[d] = "START_TRANSFER"
  <2>1. StartWritten(d)
    BY <1>5, <1>7 DEF EpAgrees, StartRaised
  <2>2. PICK j \in 1..Len(cmds[d]) :
          /\ cmds[d][j].cmd = "start" /\ cmds[d][j].serial = serial
          /\ cmds[d][j].bytes = bytes_queued[d]
          /\ \A i \in 1..Len(cmds[d]) : i < j => cmds[d][i].cmd = "end"
          /\ EndsOurs(d, j)
    BY <2>1 DEF StartWritten
  <2>3. j = 1
    <3>1. ~(1 < j)
      BY <1>1, <2>2
    <3> QED
      BY <3>1
  <2>4. EndsOurs(d, 0)'
    <3> SUFFICES ASSUME NEW i \in 1..Len(cmds'[d]), i > 0
                 PROVE  cmds'[d][i].cmd = "end" /\ cmds'[d][i].serial = serial
      BY DEF EndsOurs
    <3>1. i + 1 \in 1..Len(cmds[d]) /\ i + 1 > 1 /\ cmds'[d][i] = cmds[d][i + 1]
      BY <1>1
    <3> QED
      BY <2>2, <2>3, <3>1 DEF EndsOurs
  <2>5. HwOurs(d)'
    BY <1>1, <2>2, <2>3 DEF HwOurs
  <2>6. NoStartEvent(events, d)
    BY <2>1 DEF StartWritten
  <2>7. PICK n \in 1..Len(events') : n = Len(events) + 1
    BY <1>4
  <2>8. /\ events'[n].kind = "start" /\ events'[n].ep = d /\ events'[n].serial = serial'
    BY <1>1, <1>3, <1>4, <2>2, <2>3, <2>7
  <2>9. \A i \in 1..Len(events') :
           events'[i].ep = d => /\ (i # n => events'[i].kind # "start")
                                /\ ~(i > n)
    <3>1. \A i \in 1..Len(events') : ~(i > n) /\ (i # n => i \in 1..Len(events))
      BY <1>4, <2>7
    <3> QED
      BY <1>4, <2>6, <3>1 DEF NoStartEvent
  <2> QED
    BY <1>7, <2>4, <2>5, <2>8, <2>9 DEF EpAgrees, StartRaised, Busy
<1> QED
  BY <1>6, <1>7

LEMMA GadgetHardware ==
  ASSUME GadgetInv, Hardware
  PROVE  GadgetInv'
<1>0. /\ ControllerTypes /\ LayersInv /\ BytesInv /\ EventsAgree
      /\ "start" # "end" /\ "start" # "complete"
  BY DEF GadgetInv, WireInv
<1>1. /\ life = "started"
      /\ UNCHANGED <<usbVars, epVars, udcVars, serial, hostEvents>>
  BY DEF Hardware, HwExecutes, HwMovesData
<1>2. /\ UNCHANGED <<udc, life, epState, callback, resource_idx, bytes_queued, serial>>
      /\ UNCHANGED layerVars
  BY <1>1 DEF usbVars, queueVars, epVars, udcVars, layerVars
<1>3. LayersInv' /\ BytesInv'
  BY <1>0, <1>1, <1>2, OthersAgree, SameQueue
<1>4. ASSUME ControllerTypes', \A d \in Dirs : EpAgrees(d)' PROVE GadgetInv'
  BY <1>1, <1>2, <1>3, <1>4 DEF GadgetInv, WireInv, EventsAgree
<1>5. ASSUME NEW d \in Dirs, NEW status \in {0, 1}, HwExecutes(d, status)
      PROVE  GadgetInv'
  <2>1. /\ cmds[d] # <<>> /\ cmds' = [cmds EXCEPT ![d] = Tail(cmds[d])]
    BY <1>5 DEF HwExecutes
  <2>2. PICK c \in Commands : c = Head(cmds[d])
    BY <1>0, <2>1, TailFacts DEF ControllerTypes
  <2>3. /\ cmds \in [Dirs -> Seq(Commands)] /\ hw \in [Dirs -> [bytes : Nat, serial : Nat]]
        /\ Tail(cmds[d]) \in Seq(Commands) /\ cmds'[d] = Tail(cmds[d])
        /\ \A e \in Dirs : e # d => cmds'[e] = cmds[e]
    BY <1>0, <2>1, TailFacts DEF ControllerTypes
  <2>4. cmds' \in [Dirs -> Seq(Commands)]
    BY <2>1, <2>3
  <2>5. CASE c.cmd = "start"
    <3>1. PICK x : x = EpEvent("start", d, c.serial, status, 0)
      OBVIOUS
    <3>2. x \in EpEvents /\ x.ep = d
      BY <2>2, <3>1 DEF EpEvent, EpEvents, Commands
    <3>3. PICK h \in [bytes : Nat, serial : Nat] :
             h = IF status = 0 THEN [bytes |-> c.bytes, serial |-> c.serial] ELSE Idle
      <4>1. [bytes |-> c.bytes, serial |-> c.serial] \in [bytes : Nat, serial : Nat]
        BY <2>2 DEF Commands
      <4>2. Idle \in [bytes : Nat, serial : Nat]
        BY DEF Idle
      <4> QED
        BY <4>1, <4>2
    <3>4. /\ events' = Append(events, x)
          /\ hw' = [hw EXCEPT ![d] = h]
      BY <1>5, <2>2, <2>5, <3>1, <3>3 DEF HwExecutes, Raise
    <3>5. /\ hw' \in [Dirs -> [bytes : Nat, serial : Nat]] /\ hw'[d] = h
          /\ \A e \in Dirs : e # d => hw'[e] = hw[e]
      BY <2>3, <3>4
    <3>6. ControllerTypes'
      BY <1>0, <1>1, <1>2, <2>4, <3>2, <3>4, <3>5, AppendFacts DEF ControllerTypes
    <3>7. ASSUME NEW e \in Dirs PROVE EpAgrees(e)'
      <4>1. EpAgrees(e)
        BY <1>0, <1>1 DEF EventsAgree
      <4>2. CASE e = d
        <5>1. Head(cmds[d]).cmd = "start"
          BY <2>2, <2>5
        <5>2. hw'[d] = (IF status = 0 THEN [bytes  |-> Head(cmds[d]).bytes,
                                            serial |-> Head(cmds[d]).serial]
                        ELSE Idle)
          BY <2>2, <3>3, <3>5
        <5>3. events' = Append(events, EpEvent("start", d, Head(cmds[d]).serial, status, 0))
          BY <2>2, <3>1, <3>4
        <5>4. EpAgrees(d)'
          BY <1>0, <1>2, <2>1, <2>3, <4>1, <4>2, <5>1, <5>2, <5>3, ExecutedAgrees
        <5> QED
          BY <4>2, <5>4
      <4>3. CASE e # d
        BY <1>0, <1>2, <2>3, <3>2, <3>4, <3>5, <4>1, <4>3, AnnouncedAgrees
      <4> QED
        BY <4>2, <4>3
    <3> QED
      BY <1>4, <3>6, <3>7
  <2>6. CASE c.cmd = "end"
    <3>1. PICK x : x = EpEvent("end", d, c.serial, 0, 0)
      OBVIOUS
    <3>2. x \in EpEvents /\ x.ep = d /\ x.kind = "end" /\ x.serial = c.serial
      BY <2>2, <3>1 DEF EpEvent, EpEvents, Commands
    <3>4. /\ events' = Append(events, x)
          /\ hw' = [hw EXCEPT ![d] = Idle]
      BY <1>5, <2>2, <2>6, <3>1 DEF HwExecutes, Raise
    <3>5. /\ hw' \in [Dirs -> [bytes : Nat, serial : Nat]] /\ hw'[d] = Idle
          /\ \A e \in Dirs : e # d => hw'[e] = hw[e]
      BY <2>3, <3>4 DEF Idle
    <3>6. ControllerTypes'
      BY <1>0, <1>1, <1>2, <2>4, <3>2, <3>4, <3>5, AppendFacts DEF ControllerTypes
    <3>7. ASSUME NEW e \in Dirs PROVE EpAgrees(e)'
      <4>1. EpAgrees(e)
        BY <1>0, <1>1 DEF EventsAgree
      <4>2. CASE e = d
        <5>1. Head(cmds[e]).cmd = "end" /\ cmds'[e] = Tail(cmds[e]) /\ cmds[e] # <<>>
          BY <2>1, <2>2, <2>3, <2>6, <4>2
        <5>2. EndsOurs(e, 0) => Ours(x, e)
          <6>1. cmds[d][1] = c /\ 1 \in 1..Len(cmds[d])
            BY <2>1, <2>2, <2>3, TailFacts
          <6> QED
            BY <3>2, <4>2, <6>1 DEF EndsOurs, Ours
        <5> QED
          BY <1>0, <1>2, <3>2, <3>4, <3>5, <4>1, <4>2, <5>1, <5>2, AnnouncedAgrees
      <4>3. CASE e # d
        BY <1>0, <1>2, <2>3, <3>2, <3>4, <3>5, <4>1, <4>3, AnnouncedAgrees
      <4> QED
        BY <4>2, <4>3
    <3> QED
      BY <1>4, <3>6, <3>7
  <2> QED
    BY <2>2, <2>5, <2>6 DEF Commands
<1>6. ASSUME NEW d \in Dirs, NEW status \in {0, 1}, HwMovesData(d, status)
      PROVE  GadgetInv'
  <2>1. hw[d] # Idle /\ hw' = [hw EXCEPT ![d] = Idle] /\ cmds' = cmds
    BY <1>6 DEF HwMovesData
  <2>2. hw \in [Dirs -> [bytes : Nat, serial : Nat]]
    BY <1>0 DEF ControllerTypes
  <2>3. PICK remaining \in (IF status = 0 THEN 0..hw[d].bytes ELSE {hw[d].bytes}) :
          Raise(EpEvent("complete", d, hw[d].serial, status, remaining))
    BY <1>6 DEF HwMovesData
  <2>4. remaining \in Nat /\ remaining <= hw[d].bytes
    BY <2>2, <2>3
  <2>5. PICK x : x = EpEvent("complete", d, hw[d].serial, status, remaining)
    OBVIOUS
  <2>6. /\ x \in EpEvents /\ x.ep = d /\ x.kind = "complete" /\ x.serial = hw[d].serial
        /\ x.remaining = remaining
    BY <2>2, <2>4, <2>5 DEF EpEvent, EpEvents
  <2>7. /\ events' = Append(events, x)
    BY <2>3, <2>5 DEF Raise
  <2>8. /\ hw' \in [Dirs -> [bytes : Nat, serial : Nat]]
        /\ \A e \in Dirs : hw'[e] \in {hw[e], Idle}
    BY <2>1, <2>2 DEF Idle
  <2>9. ControllerTypes'
    BY <1>0, <1>1, <1>2, <2>1, <2>6, <2>7, <2>8, AppendFacts DEF ControllerTypes
  <2>10. ASSUME NEW e \in Dirs PROVE EpAgrees(e)'
    <3>1. EpAgrees(e)
      BY <1>0, <1>1 DEF EventsAgree
    <3>2. x.ep = e => x.kind # "start" /\ (HwOurs(e) => Ours(x, e))
      BY <2>1, <2>4, <2>6 DEF HwOurs, Ours
    <3> QED
      BY <1>0, <1>2, <2>1, <2>6, <2>7, <2>8, <3>1, <3>2, AnnouncedAgrees
  <2> QED
    BY <1>4, <2>9, <2>10
<1> QED
  BY <1>5, <1>6 DEF Hardware

LEMMA GadgetHost ==
  ASSUME GadgetInv, Host
  PROVE  GadgetInv'
<1>0. /\ ControllerTypes /\ LayersInv /\ BytesInv /\ EventsAgree
  BY DEF GadgetInv, WireInv
<1>1. PICK kind \in {"reset", "disconnect", "setconfig0", "setconfig1"} : HostEvent(kind)
  BY DEF Host
<1>2. /\ life = "started" /\ events' = Append(events, DevEvent(kind))
      /\ hostEvents' = hostEvents + 1
      /\ UNCHANGED <<usbVars, epVars, udcVars, cmds, hw, serial>>
  BY <1>1 DEF HostEvent, Raise
<1>3. /\ UNCHANGED <<udc, life, epState, callback, resource_idx, bytes_queued, serial>>
      /\ UNCHANGED layerVars
  BY <1>2 DEF usbVars, queueVars, epVars, udcVars, layerVars
<1>4. LayersInv' /\ BytesInv'
  BY <1>0, <1>2, <1>3, OthersAgree, SameQueue
<1>5. PICK x : x = DevEvent(kind)
  OBVIOUS
<1>6. x \in EpEvents /\ x.ep = "dev" /\ "dev" \notin Dirs
  BY <1>5 DEF DevEvent, EpEvents, Dirs
<1>7. events' = Append(events, x)
  BY <1>2, <1>5
<1>8. ControllerTypes'
  BY <1>0, <1>2, <1>3, <1>6, <1>7, AppendFacts DEF ControllerTypes
<1>9. ASSUME NEW d \in Dirs PROVE EpAgrees(d)'
  <2>1. EpAgrees(d) /\ x.ep # d /\ hw'[d] = hw[d] /\ cmds'[d] = cmds[d]
    BY <1>0, <1>2, <1>6 DEF EventsAgree
  <2> QED
    BY <1>0, <1>3, <1>6, <1>7, <2>1, AnnouncedAgrees
<1> QED
  BY <1>2, <1>3, <1>4, <1>8, <1>9 DEF GadgetInv, WireInv, EventsAgree

LEMMA GadgetInvInit == Usb30Init => GadgetInv
<1> SUFFICES ASSUME Usb30Init PROVE GadgetInv
  OBVIOUS
<1>1. LayersInv
  BY LayersInvInit
<1>2. UsbTypeOK
  BY QueueInvInit DEF Usb30Init, QueueInv
<1>3. mRequestQueue = <<>> /\ udc = None /\ pc = "idle" /\ current = None
  BY DEF Usb30Init, UsbInit
<1>4. BytesInv
  BY <1>2, <1>3 DEF BytesInv, HandInv, Distinct, Elements
<1>5. /\ events = <<>> /\ cmds = [d \in Dirs |-> <<>>] /\ hw = [d \in Dirs |-> Idle]
      /\ epState = [d \in Dirs |-> "INIT"] /\ life = "new"
      /\ resource_idx = [d \in Dirs |-> 0] /\ bytes_queued = [d \in Dirs |-> 0]
      /\ serial = 0 /\ hostEvents = 0
  BY DEF Usb30Init, UsbInit
<1>6. ControllerTypes
  BY <1>5 DEF ControllerTypes, Idle
<1>7. EventsAgree
  BY <1>5 DEF EventsAgree, EpAgrees, Busy, NoStartEvent, NoStartCmd
<1> QED
  BY <1>1, <1>4, <1>6, <1>7 DEF GadgetInv, WireInv

LEMMA GadgetInvStep == GadgetInv /\ [Usb30Next]_usb30Vars => GadgetInv'
<1> SUFFICES ASSUME GadgetInv, [Usb30Next]_usb30Vars PROVE GadgetInv'
  OBVIOUS
<1>0. /\ ControllerTypes /\ LayersInv /\ BytesInv /\ EventsAgree /\ UsbTypeOK /\ HandInv
      /\ LayersInv'
  BY LayersInvStep DEF GadgetInv, WireInv, BytesInv
<1>1. ASSUME UNCHANGED <<epVars, udcVars, dwcHwVars, serial>>, BytesInv',
             udc' = udc, life' # "stopped" => life # "stopped", life' = "stopped" => events = <<>>
      PROVE  GadgetInv'
  <2>1. /\ UNCHANGED wireVars
        /\ UNCHANGED <<resource_idx, hostEvents>>
    BY <1>1 DEF epVars, udcVars, dwcHwVars, wireVars
  <2>2. ControllerTypes'
    BY <1>0, <2>1 DEF ControllerTypes, wireVars
  <2>3. life' # "stopped" => \A d \in Dirs : EpAgrees(d)'
    BY <1>0, <1>1, <2>1, SameAgrees DEF EventsAgree
  <2> QED
    BY <1>0, <1>1, <2>1, <2>2, <2>3 DEF GadgetInv, WireInv, EventsAgree, wireVars
<1>2. CASE Usb30Start
  <2>1. /\ UNCHANGED <<epVars, udcVars, dwcHwVars, serial>>
        /\ UNCHANGED <<queueVars, entryVars, deviceVars, reportVars,
                       mEventsAvailable, restarting, udc, submitted, flushed>>
        /\ life = "new" /\ life' = "started"
    BY <1>2 DEF Usb30Start, Start
  <2>2. UsbTypeOK' /\ HandInv'
    BY <1>0, <2>1 DEF queueVars, entryVars, deviceVars, reportVars, UsbTypeOK, HandInv
  <2>3. BytesInv'
    BY <1>0, <2>1, <2>2, SameBytes DEF queueVars, entryVars
  <2> QED
    BY <1>1, <2>1, <2>3
<1>3. CASE Usb30Stop
  <2>1. /\ UNCHANGED <<epVars, udcVars, dwcHwVars, serial>>
        /\ UNCHANGED <<queueVars, entryVars, deviceVars, reportVars,
                       mEventsAvailable, restarting, submitted, flushed>>
        /\ life' = "stopped" /\ udc' = None /\ events = <<>>
    BY <1>3 DEF Usb30Stop, Stop
  <2>2. UsbTypeOK' /\ HandInv'
    BY <1>0, <2>1 DEF queueVars, entryVars, deviceVars, reportVars, UsbTypeOK, HandInv
  <2>3. BytesInv'
    BY <1>0, <2>1, <2>2, SameBytes DEF queueVars, entryVars
  <2>4. ControllerTypes' /\ EventsAgree'
    BY <1>0, <2>1 DEF epVars, udcVars, dwcHwVars, ControllerTypes, EventsAgree
  <2> QED
    BY <1>0, <2>3, <2>4 DEF GadgetInv, WireInv
<1>4. CASE Usb30Client
  BY <1>4, GadgetTransfer DEF Usb30Client
<1>5. CASE Usb30Report
  <2>1. /\ UNCHANGED <<epVars, udcVars, dwcHwVars, serial>> /\ Report
    BY <1>5 DEF Usb30Report
  <2>2. UNCHANGED <<mRequestQueue, submitted, bytes_written, xfer_len, udc, life>>
    BY <2>1 DEF Report, ReportStart, ReportState, ReportTransfer,
                ReportLoop, TakeFinished, queueVars, entryVars
  <2>3. UsbTypeOK' /\ HandInv'
    BY <1>0, <2>1, ReportTypes, ReportHands
  <2>4. BytesInv'
    BY <1>0, <2>2, <2>3, SameBytes
  <2> QED
    BY <1>0, <1>1, <2>1, <2>2, <2>4 DEF EventsAgree
<1>6. CASE Interrupt
  BY <1>6, GadgetInterrupt
<1>7. CASE Hardware
  BY <1>7, GadgetHardware
<1>8. CASE Host
  BY <1>8, GadgetHost
<1>9. CASE UNCHANGED usb30Vars
  <2>1. /\ UNCHANGED <<epVars, udcVars, dwcHwVars, serial>> /\ UNCHANGED usbVars
    BY <1>9 DEF usb30Vars
  <2>2. BytesInv' /\ udc' = udc /\ life' = life
    BY <1>0, <2>1, SameQueue DEF usbVars
  <2> QED
    BY <1>0, <1>1, <2>1, <2>2 DEF EventsAgree
<1> QED
  BY <1>2, <1>3, <1>4, <1>5, <1>6, <1>7, <1>8, <1>9 DEF Usb30Next

(* The three layers' common view of the transfer there is, with the types  *)
(* of everything they keep (usb30_udc.c, usb30_dwc.c).  That a completion  *)
(* never reports more bytes than were queued is a part of it.              *)
THEOREM LayersShareOneTransfer == Usb30Spec => []Usb30Invariant
<1>1. GadgetInv => Usb30Invariant
  <2> SUFFICES ASSUME GadgetInv PROVE Usb30Invariant
    OBVIOUS
  <2>1. Usb30TypeOK
    BY DEF GadgetInv, WireInv, LayersInv, LayerTypes, BytesInv, ControllerTypes, Usb30TypeOK, EpStates
  <2>2. BusyEndpointServesHead /\ UdcNotWedged
    BY DEF GadgetInv, WireInv, LayersInv, EndpointsAgree, BusyEndpointServesHead, UdcNotWedged, Active, Busy
  <2> QED
    BY <2>1, <2>2 DEF Usb30Invariant
<1> QED
  BY <1>1, GadgetInvInit, GadgetInvStep, PTL DEF Usb30Spec

(* An event that an endpoint acts on is of the transfer it is doing,       *)
(* however many events of earlier ones are still in the buffer and however *)
(* late END_TRANSFER comes (dwc_ep_bulk_state_* in usb30_dwc.c).           *)
THEOREM EventsHitTheirTransfer == Usb30Spec => []EventHitsItsTransfer
<1>1. GadgetInv => EventHitsItsTransfer
  <2> SUFFICES ASSUME GadgetInv, events # <<>>, NEW d \in Dirs, Head(events).ep = d,
                      \/ Head(events).kind = "start" /\ epState[d] = "START_TRANSFER"
                      \/ /\ Head(events).kind \in {"end", "complete"}
                         /\ epState[d] = "XFER_IN_PROG"
               PROVE  Head(events).serial = serial
    BY DEF EventHitsItsTransfer
  <2>1. ControllerTypes /\ EpAgrees(d)
    BY DEF GadgetInv, WireInv, EventsAgree
  <2>2. Head(events) = events[1] /\ 1 \in 1..Len(events)
    BY <2>1, TailFacts DEF ControllerTypes
  <2>3. CASE epState[d] = "XFER_IN_PROG"
    BY <2>1, <2>2, <2>3 DEF EpAgrees, Running, Ours
  <2>4. CASE epState[d] = "START_TRANSFER" /\ Head(events).kind = "start"
    <3>1. StartRaised(d)
      BY <2>1, <2>2, <2>4 DEF EpAgrees, StartWritten, NoStartEvent
    <3> QED
      BY <2>2, <2>4, <3>1 DEF StartRaised
  <2> QED
    BY <2>3, <2>4
<1> QED
  BY <1>1, GadgetInvInit, GadgetInvStep, PTL DEF Usb30Spec
=============================================================================
