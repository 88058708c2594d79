---------------------------- MODULE UsbTransfer ----------------------------
(***************************************************************************)
(* The request queue behind the USB device protocol                        *)
(* (Qcom/Drivers/UsbDxe/Usb.c).  The client's transfers wait in            *)
(* mRequestQueue; the head is cut into chunks and given to the device      *)
(* controller through one shared udc_request; what is over moves to        *)
(* mFinishedRequestQueue, and the event mEventsAvailable makes             *)
(* ReportEvents hand it back to the client.                                *)
(*                                                                         *)
(* Three contexts touch this state: the client, the controller's           *)
(* interrupt (req_complete, gadget_notify) and ReportEvents at             *)
(* TPL_CALLBACK.  mLock raises to TPL_HIGH_LEVEL, so code under it, and    *)
(* an interrupt handler, is one step; ReportEvents drops the lock around   *)
(* every call of the client, and there the other two run.                  *)
(***************************************************************************)
EXTENDS Integers, Sequences, FiniteSets

CONSTANTS
  Requests,     \* REQUEST_ENTRYs: each call of Transfer allocates a new one
  None,         \* no request
  Length,       \* Length[r]: RequestEntry->len
  IsIn,         \* IsIn[r]: r is for an IN endpoint (device to host)
  MaxBulkSize   \* mUsbIf.max_usb_bulk_size

ASSUME UsbTransferAssumption ==
  /\ None \notin Requests
  /\ Length \in [Requests -> Nat]
  /\ IsIn \in [Requests -> BOOLEAN]
  /\ MaxBulkSize \in Nat \ {0}

VARIABLES
  mRequestState,         \* "IDLE" or "TRANSFER"
  mRequestQueue,         \* transfers not over yet
  mFinishedRequestQueue, \* transfers over, not reported yet
  TransferStatus,        \* of each request; "unset" until it is assigned
  xfer_len,              \* bytes of the chunk given to the controller
  bytes_written,         \* bytes transferred so far
  mReportDeviceState,    \* a change of mDeviceState is to be reported
  mDeviceState,          \* "Connected" or "Disconnected"
  mEventsAvailable,      \* the event is signalled
  life,                  \* "new", "started" or "stopped": Start and Stop
  restarting,            \* req_complete is in its loop over an idle queue
  pc,                    \* where ReportEvents is
  current,               \* the request ReportEvents took off the queue
  udc,                   \* the request the controller works on, or None
  submitted,             \* history: requests in the order of their Transfer
  flushed,               \* history: requests an OFFLINE event finished
  reports,               \* history: notifications delivered to the client
  reportedState          \* history: the state last reported to the client

queueVars  == <<mRequestState, mRequestQueue, mFinishedRequestQueue>>
entryVars  == <<TransferStatus, xfer_len, bytes_written>>
deviceVars == <<mReportDeviceState, mDeviceState>>
reportVars == <<pc, current, reports, reportedState>>
usbVars == <<queueVars, entryVars, deviceVars, reportVars, mEventsAvailable,
             life, restarting, udc, submitted, flushed>>

Statuses == {"Completed", "Failed", "Aborted"}
Elements(s) == {s[i] : i \in 1..Len(s)}

(* Code under mLock or in the interrupt runs alone; req_complete's loop    *)
(* over the queue is part of the interrupt.                                *)
LockFree == ~restarting

-----------------------------------------------------------------------------
UsbInit ==
  /\ mRequestState = "IDLE"
  /\ mRequestQueue = <<>>
  /\ mFinishedRequestQueue = <<>>
  /\ TransferStatus = [r \in Requests |-> "unset"]
  /\ xfer_len = [r \in Requests |-> 0]
  /\ bytes_written = [r \in Requests |-> 0]
  /\ mReportDeviceState = FALSE
  /\ mDeviceState = "Disconnected"
  /\ mEventsAvailable = FALSE
  /\ life = "new"
  /\ restarting = FALSE
  /\ pc = "idle"
  /\ current = None
  /\ udc = None
  /\ submitted = <<>>
  /\ flushed = {}
  /\ reports = <<>>
  /\ reportedState = "Disconnected"

-----------------------------------------------------------------------------
(* The next chunk of a request with `written` of its `length` bytes done.  *)
Chunk(length, written) ==
  IF length - written > MaxBulkSize THEN MaxBulkSize ELSE length - written

(* req_queue_request(r), called with `written` bytes done: the next chunk  *)
(* goes to the controller, which takes it (ok) or refuses it; a refused    *)
(* request is over, and `rest` is the queue without it.                    *)
ReqQueueRequest(r, queue, rest, written, ok) ==
  /\ xfer_len' = [xfer_len EXCEPT ![r] = Chunk(Length[r], written)]
  /\ \/ /\ ok
        /\ mRequestState' = "TRANSFER"
        /\ udc' = r
        /\ mRequestQueue' = queue
        /\ UNCHANGED <<mFinishedRequestQueue, TransferStatus, mEventsAvailable>>
     \/ /\ ~ok
        /\ TransferStatus' = [TransferStatus EXCEPT ![r] = "Failed"]
        /\ mRequestState' = "IDLE"
        /\ udc' = None
        /\ mRequestQueue' = rest
        /\ mFinishedRequestQueue' = Append(mFinishedRequestQueue, r)
        /\ mEventsAvailable' = TRUE

(* The head of the queue is over with this status.                         *)
Finish(r, status) ==
  /\ TransferStatus' = [TransferStatus EXCEPT ![r] = status]
  /\ mRequestState' = "IDLE"
  /\ udc' = None
  /\ mRequestQueue' = Tail(mRequestQueue)
  /\ mFinishedRequestQueue' = Append(mFinishedRequestQueue, r)
  /\ mEventsAvailable' = TRUE
  /\ UNCHANGED xfer_len

(* Usb30PeriphTransfer: the client is the application or the callback      *)
(* ReportEvents is calling.                                                *)
Transfer(r, ok) ==
  /\ life = "started" /\ LockFree
  /\ pc \in {"idle", "client"}
  /\ r \notin Elements(submitted)
  /\ submitted' = Append(submitted, r)
  /\ bytes_written' = [bytes_written EXCEPT ![r] = 0]
  /\ \/ /\ mRequestState = "IDLE"
        /\ ReqQueueRequest(r, Append(mRequestQueue, r), mRequestQueue, 0, ok)
     \/ /\ mRequestState # "IDLE"
        /\ mRequestQueue' = Append(mRequestQueue, r)
        /\ UNCHANGED <<mRequestState, mFinishedRequestQueue, TransferStatus,
                       xfer_len, mEventsAvailable, udc>>
  /\ UNCHANGED <<deviceVars, reportVars, life, restarting,
                 flushed>>

(* What req_handle_transfer makes of `actual` bytes and a status >= 0.     *)
IsChunk(r, actual) == actual = xfer_len[r]

(* The operators named ...Bug are changed copies of the definition after    *)
(* them; nothing uses them except the check that a property can fail.      *)
IsShortInBug(r, actual) == FALSE

IsShortIn(r, actual) == ~IsChunk(r, actual) /\ IsIn[r]
HasMore(r, actual) ==
  IsChunk(r, actual) /\ bytes_written[r] + actual # Length[r]

(* req_complete: the controller gives its request back, with an error      *)
(* (good = FALSE) or with `actual` bytes; if there is another chunk the    *)
(* controller takes it (ok) or not.                                        *)
ReqComplete(actual, good, ok) ==
  /\ LockFree
  /\ udc # None
  /\ \/ /\ mRequestQueue = <<>> \/ mRequestState # "TRANSFER"
        /\ udc' = None
        /\ restarting' = (mRequestState = "IDLE")
        /\ UNCHANGED <<queueVars, entryVars, mEventsAvailable>>
     \/ /\ mRequestQueue # <<>> /\ mRequestState = "TRANSFER"
        /\ LET r == Head(mRequestQueue)
           IN  \/ /\ ~good
                  /\ Finish(r, "Failed")
                  /\ UNCHANGED bytes_written
               \/ /\ good
                  /\ bytes_written' = [bytes_written EXCEPT ![r] = @ + actual]
                  /\ \/ /\ HasMore(r, actual)
                        /\ ReqQueueRequest(r, mRequestQueue, Tail(mRequestQueue),
                                           bytes_written[r] + actual, ok)
                     \/ /\ IsShortIn(r, actual)
                        /\ Finish(r, "Failed")
                     \/ /\ ~HasMore(r, actual) /\ ~IsShortIn(r, actual)
                        /\ Finish(r, "Completed")
        /\ restarting' = (mRequestState' = "IDLE")
  /\ UNCHANGED <<deviceVars, reportVars, life, submitted, flushed>>

(* One turn of the loop that ends req_complete: while the queue is idle    *)
(* and not empty its head is queued.                                       *)
RestartQueue(ok) ==
  /\ restarting
  /\ \/ /\ mRequestQueue # <<>>
        /\ LET r == Head(mRequestQueue)
           IN  ReqQueueRequest(r, mRequestQueue, Tail(mRequestQueue),
                               bytes_written[r], ok)
        /\ restarting' = ~ok
     \/ /\ mRequestQueue = <<>>
        /\ restarting' = FALSE
        /\ UNCHANGED <<queueVars, TransferStatus, xfer_len, mEventsAvailable,
                       udc>>
  /\ UNCHANGED <<bytes_written, deviceVars, reportVars, life, submitted,
                 flushed>>

-----------------------------------------------------------------------------
(* gadget_notify(UDC_EVENT_ONLINE). *)
NotifyOnline ==
  /\ life = "started" /\ LockFree
  /\ mDeviceState # "Connected"
  /\ mReportDeviceState' = TRUE
  /\ mDeviceState' = "Connected"
  /\ mEventsAvailable' = TRUE
  /\ UNCHANGED <<queueVars, entryVars, reportVars, life, restarting, udc,
                 submitted, flushed>>

GadgetOfflineDropsHeadBug ==
  /\ mDeviceState' = "Disconnected"
  /\ mReportDeviceState' = (mReportDeviceState \/ mDeviceState = "Connected")
  /\ mRequestQueue' = <<>>
  /\ mFinishedRequestQueue' = mFinishedRequestQueue \o mRequestQueue
  /\ flushed' = flushed \cup Elements(mRequestQueue)
  /\ mEventsAvailable' = TRUE

GadgetOfflineKeepsLinkBug ==
  LET keep == IF mRequestQueue # <<>> /\ mRequestState = "TRANSFER"
                THEN 1 ELSE 0
  IN  /\ mDeviceState' = "Disconnected"
      /\ mReportDeviceState' = (mReportDeviceState \/ mDeviceState = "Connected")
      /\ mRequestQueue' = SubSeq(mRequestQueue, 1, keep)
      /\ mFinishedRequestQueue' = mFinishedRequestQueue \o mRequestQueue
      /\ flushed' = flushed \cup Elements(mRequestQueue)
      /\ mEventsAvailable' = TRUE

(* gadget_notify(UDC_EVENT_OFFLINE): every queued request is finished, its *)
(* TransferStatus untouched, except a head the controller still has.       *)
GadgetOffline ==
  LET keep == IF mRequestQueue # <<>> /\ mRequestState = "TRANSFER"
                THEN 1 ELSE 0
      gone == SubSeq(mRequestQueue, keep + 1, Len(mRequestQueue))
  IN  /\ mDeviceState' = "Disconnected"
      /\ mReportDeviceState' = (mReportDeviceState \/ mDeviceState = "Connected")
      /\ mRequestQueue' = SubSeq(mRequestQueue, 1, keep)
      /\ mFinishedRequestQueue' = mFinishedRequestQueue \o gone
      /\ flushed' = flushed \cup Elements(gone)
      /\ mEventsAvailable' = TRUE

NotifyOffline ==
  /\ life = "started" /\ LockFree
  /\ GadgetOffline
  /\ UNCHANGED <<mRequestState, entryVars, reportVars, life, restarting, udc,
                 submitted>>

-----------------------------------------------------------------------------
(* The head of ReportEvents' loop, with the lock held: take a finished     *)
(* request, drop the lock, or end.                                         *)
TakeFinished ==
  \/ /\ mFinishedRequestQueue # <<>>
     /\ current' = Head(mFinishedRequestQueue)
     /\ mFinishedRequestQueue' = Tail(mFinishedRequestQueue)
     /\ pc' = "transfer"
  \/ /\ mFinishedRequestQueue = <<>>
     /\ current' = None
     /\ pc' = "idle"
     /\ UNCHANGED mFinishedRequestQueue

(* ReportEvents is dispatched: the event is no longer signalled.           *)
ReportStart ==
  /\ LockFree
  /\ pc = "idle" /\ mEventsAvailable
  /\ mEventsAvailable' = FALSE
  /\ \/ /\ mReportDeviceState
        /\ mReportDeviceState' = FALSE
        /\ pc' = "state"
        /\ UNCHANGED <<mFinishedRequestQueue, current>>
     \/ /\ ~mReportDeviceState
        /\ TakeFinished
        /\ UNCHANGED mReportDeviceState
  /\ UNCHANGED <<mRequestState, mRequestQueue, entryVars, mDeviceState, reports,
                 reportedState, life, restarting, udc, submitted, flushed>>

(* mDeviceState is read after the lock was dropped, and given to the       *)
(* client's callback.                                                      *)
ReportState ==
  /\ LockFree
  /\ pc = "state"
  /\ reportedState' = mDeviceState
  /\ pc' = "client"
  /\ UNCHANGED <<queueVars, entryVars, deviceVars, current, reports,
                 mEventsAvailable, life, restarting, udc, submitted, flushed>>

(* The callback learns the outcome of `current`, which is then freed.  A   *)
(* TransferStatus nobody assigned is whatever AllocatePool left there.     *)
ReportTransfer(status) ==
  /\ LockFree
  /\ pc = "transfer"
  /\ TransferStatus[current] \in {status, "unset"}
  /\ reports' = Append(reports, [req    |-> current,
                                 status |-> status,
                                 size   |-> bytes_written[current]])
  /\ pc' = "client"
  /\ current' = None
  /\ UNCHANGED <<queueVars, entryVars, deviceVars, reportedState,
                 mEventsAvailable, life, restarting, udc, submitted, flushed>>

ReportLoopOnceBug ==
  /\ LockFree
  /\ pc = "client"
  /\ pc' = "idle"
  /\ UNCHANGED <<queueVars, entryVars, deviceVars, reports, reportedState,
                 current, mEventsAvailable, life, restarting, udc, submitted,
                 flushed>>

(* The callback returned: the lock is taken again. *)
ReportLoop ==
  /\ LockFree
  /\ pc = "client"
  /\ TakeFinished
  /\ UNCHANGED <<mRequestState, mRequestQueue, entryVars, deviceVars, reports,
                 reportedState, mEventsAvailable, life, restarting, udc,
                 submitted, flushed>>

-----------------------------------------------------------------------------
(* Usb30PeriphStart, when usb_init succeeds; it cannot succeed twice: the  *)
(* controllers refuse a second udc_register_gadget.                        *)
Start ==
  /\ life = "new"
  /\ life' = "started"
  /\ UNCHANGED <<queueVars, entryVars, deviceVars, reportVars,
                 mEventsAvailable, restarting, udc, submitted, flushed>>

(* Usb30PeriphStop only calls udc_stop: the controller and its interrupt   *)
(* are off, and what it was working on never completes.                    *)
Stop ==
  /\ life = "started" /\ LockFree
  /\ pc \in {"idle", "client"}
  /\ life' = "stopped"
  /\ udc' = None
  /\ UNCHANGED <<queueVars, entryVars, deviceVars, reportVars,
                 mEventsAvailable, restarting, submitted, flushed>>

-----------------------------------------------------------------------------
(* A controller that never reports more bytes than it was asked for.       *)
Actual == IF udc = None THEN {0} ELSE 0..xfer_len[udc]

Client     == \E r \in Requests, ok \in BOOLEAN : Transfer(r, ok)
Complete   == \E actual \in Actual, good, ok \in BOOLEAN :
                ReqComplete(actual, good, ok)
Restart    == \E ok \in BOOLEAN : RestartQueue(ok)
Report     == \/ ReportStart \/ ReportState \/ ReportLoop
              \/ \E status \in Statuses : ReportTransfer(status)

UsbNext == \/ Start \/ Stop
           \/ Client \/ Complete \/ Restart
           \/ NotifyOnline \/ NotifyOffline
           \/ Report

UsbSpec == UsbInit /\ [][UsbNext]_usbVars

(* The event dispatcher runs ReportEvents when it is signalled, an         *)
(* interrupt handler ends, and the controller completes what it accepted.  *)
FairUsbSpec == /\ UsbSpec
               /\ WF_usbVars(Complete) /\ WF_usbVars(Restart)
               /\ WF_usbVars(Report)

-----------------------------------------------------------------------------
Notifications == [req : Requests, status : Statuses, size : Nat]

UsbTypeOK ==
  /\ mRequestState \in {"IDLE", "TRANSFER"}
  /\ mRequestQueue \in Seq(Requests)
  /\ mFinishedRequestQueue \in Seq(Requests)
  /\ TransferStatus \in [Requests -> Statuses \cup {"unset"}]
  /\ xfer_len \in [Requests -> Nat]
  /\ bytes_written \in [Requests -> Nat]
  /\ mReportDeviceState \in BOOLEAN
  /\ mDeviceState \in {"Connected", "Disconnected"}
  /\ mEventsAvailable \in BOOLEAN
  /\ life \in {"new", "started", "stopped"}
  /\ restarting \in BOOLEAN
  /\ pc \in {"idle", "state", "transfer", "client"}
  /\ current \in Requests \cup {None}
  /\ udc \in Requests \cup {None}
  /\ submitted \in Seq(Requests)
  /\ flushed \in SUBSET Requests
  /\ reports \in Seq(Notifications)
  /\ reportedState \in {"Connected", "Disconnected"}

Answered == {reports[i].req : i \in 1..Len(reports)}
Distinct(s) == \A i, j \in 1..Len(s) : s[i] = s[j] => i = j

(* The controller has one udc_request for all transfers, and a completion  *)
(* carries nothing but that pointer: it is charged to the head of the      *)
(* queue.  That head is always the request the controller was given, also  *)
(* when an OFFLINE event emptied the queue in between.                     *)
CompletionHitsHead ==
  /\ udc # None => /\ mRequestState = "TRANSFER"
                   /\ mRequestQueue # <<>>
                   /\ udc = Head(mRequestQueue)
  /\ mRequestState = "TRANSFER" => /\ mRequestQueue # <<>>
                                   /\ udc # None \/ life = "stopped"

(* No transfer waits in an idle queue: Transfer and req_complete start the *)
(* head, and nothing else would.                                           *)
IdleQueueIsEmpty ==
  mRequestState = "IDLE" /\ ~restarting => mRequestQueue = <<>>

(* Every transfer is in exactly one place, once: waiting, finished, in     *)
(* ReportEvents' hand, or answered - never lost, never freed twice, never  *)
(* reported twice.                                                         *)
OneOwner ==
  LET waiting  == Elements(mRequestQueue)
      finished == Elements(mFinishedRequestQueue)
      inHand   == {current} \ {None}
  IN  /\ Elements(submitted)
           = waiting \cup finished \cup inHand \cup Answered
      /\ Distinct(mRequestQueue) /\ Distinct(mFinishedRequestQueue)
      /\ \A i, j \in 1..Len(reports) : reports[i].req = reports[j].req => i = j
      /\ waiting \cap finished = {}
      /\ (waiting \cup finished) \cap (inHand \cup Answered) = {}
      /\ inHand \cap Answered = {}
      /\ pc = "transfer" <=> current # None

(* No lost wakeup: a finished request or a state change needs a run of     *)
(* ReportEvents.  A state change, which ReportEvents tests for only once,  *)
(* has the event signalled; a finished request at least finds ReportEvents *)
(* still in its loop.                                                      *)
NoMissedSignal ==
  /\ mReportDeviceState => mEventsAvailable
  /\ mFinishedRequestQueue # <<>> => mEventsAvailable \/ pc # "idle"

(* What the client was last told is the device's state, unless a report of *)
(* it is still to come: reading mDeviceState after dropping the lock may   *)
(* report a change twice, never leave the client with a stale state.       *)
ToldStateConverges ==
  ~mReportDeviceState /\ pc # "state" => reportedState = mDeviceState

(* An outcome the code assigned says what happened: Completed means the    *)
(* whole buffer for IN, at most the buffer for OUT.                        *)
AssignedOutcomeIsTrue ==
  \A i \in 1..Len(reports) :
     LET rep == reports[i]
     IN  rep.req \notin flushed =>
           /\ rep.status # "Aborted"
           /\ rep.size <= Length[rep.req]
           /\ rep.status = "Completed" /\ IsIn[rep.req]
                => rep.size = Length[rep.req]

(* Transfers that no OFFLINE event flushed are answered in the order they  *)
(* were handed over, across both queues and both endpoints.                *)
AnswersKeepOrder ==
  \A i, j \in 1..Len(reports) :
     /\ i < j
     /\ reports[i].req \notin flushed /\ reports[j].req \notin flushed
     => \E m, n \in 1..Len(submitted) : /\ m < n
                                        /\ submitted[m] = reports[i].req
                                        /\ submitted[n] = reports[j].req

(* Once a request is finished its outcome does not change any more, though *)
(* it is read only after the lock was dropped.                             *)
OutcomeIsFrozen ==
  [][\A r \in Elements(mFinishedRequestQueue) \cup ({current} \ {None}) :
        /\ TransferStatus'[r] = TransferStatus[r]
        /\ bytes_written'[r] = bytes_written[r]]_usbVars

(* With a controller that completes what it accepts, every transfer is     *)
(* answered unless the client stops the device first.                      *)
EveryTransferAnswered ==
  \A r \in Requests :
     r \in Elements(submitted) ~> (r \in Answered \/ life = "stopped")

(* The queue implements the protocol the client sees.                      *)
Protocol == INSTANCE UsbDeviceProtocol
              WITH handedOver <- Elements(submitted),
                   answers    <- [r \in Requests |->
                                    Cardinality({i \in 1..Len(reports) :
                                                   reports[i].req = r})],
                   told       <- reportedState
ImplementsProtocol == Protocol!ProtocolSpec

(* EFIDroidUsbDevice.h:33-37 lists what a notification may say of a        *)
(* transfer: Completed means it was transferred, whoever finished it.      *)
CompletedMeansTransferred ==
  \A i \in 1..Len(reports) :
     reports[i].status = "Completed" /\ IsIn[reports[i].req]
       => reports[i].size = Length[reports[i].req]
=============================================================================
