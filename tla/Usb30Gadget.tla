---------------------------- MODULE Usb30Gadget ----------------------------
(***************************************************************************)
(* The request queue of Usb.c on the DesignWare USB 3.0 controller: the    *)
(* udc layer (usb30_udc.c) and the transfer state machine of the bulk      *)
(* endpoints (usb30_dwc.c), driven by the controller's event buffer.       *)
(*                                                                         *)
(* Software and controller talk through two queues.  A command of an       *)
(* endpoint is executed some time after it was written and then announced  *)
(* by an event; the interrupt handler works the events off in order.  So   *)
(* the software's ep->state runs behind the controller, and a bus reset, a *)
(* completion and the end of a command can cross each other.               *)
(*                                                                         *)
(* The control endpoint is left to module DwcControl: here a setup packet  *)
(* is an event that calls udc_handle_setup.  XFER_NOT_READY and the link   *)
(* events are ignored by the bulk endpoints and left out.                  *)
(***************************************************************************)
EXTENDS UsbTransfer

CONSTANTS
  MaxPacket,         \* ep->max_pkt_size
  HostReconfigures,  \* the host may select a configuration at any time, not
                     \* only when none is and the endpoints are at rest
  MaxEvents,         \* bound: events in the buffer (it holds 1024)
  MaxHostEvents      \* bound: resets, disconnects and configurations

ASSUME Usb30Assumption ==
  /\ MaxPacket \in Nat \ {0}
  /\ HostReconfigures \in BOOLEAN
  /\ MaxEvents \in Nat \ {0} /\ MaxHostEvents \in Nat

VARIABLES
  epState,         \* ep->state of the bulk endpoints "in" and "out"
  callback,        \* ep->req.callback is set
  resource_idx,    \* ep->resource_idx: 0, or the one START_TRANSFER returned
  bytes_queued,    \* ep->bytes_queued
  queued_req,      \* udc->queued_req is set
  config_selected, \* udc->config_selected
  events,          \* the event buffer
  cmds,            \* commands written to an endpoint and not executed yet
  hw,              \* the transfer the controller works on, or Idle
  serial,          \* history: transfers started so far
  hostEvents       \* history: what the host did besides moving data

epVars    == <<epState, callback, resource_idx, bytes_queued>>
udcVars   == <<queued_req, config_selected>>
dwcHwVars == <<events, cmds, hw, hostEvents>>
usb30Vars == <<usbVars, epVars, udcVars, dwcHwVars, serial>>

Dirs   == {"in", "out"}
Idle   == [bytes |-> 0, serial |-> 0]
Dir(r) == IF IsIn[r] THEN "in" ELSE "out"

Usb30Init ==
  /\ UsbInit
  /\ epState = [d \in Dirs |-> "INIT"]
  /\ callback = [d \in Dirs |-> FALSE]
  /\ resource_idx = [d \in Dirs |-> 0]
  /\ bytes_queued = [d \in Dirs |-> 0]
  /\ queued_req = FALSE /\ config_selected = 0
  /\ events = <<>>
  /\ cmds = [d \in Dirs |-> <<>>]
  /\ hw = [d \in Dirs |-> Idle]
  /\ serial = 0 /\ hostEvents = 0

-----------------------------------------------------------------------------
(* dwc_request_queue adds a TRB that makes the buffer of an OUT endpoint a *)
(* multiple of the packet size (ept->zlp is 0).                            *)
PadLen(d, len) == IF d = "out" THEN (MaxPacket - (len % MaxPacket)) % MaxPacket
                  ELSE 0

BytesQueued(d, len)    == len + PadLen(d, len)

StartCmd(d, len, n) == [cmd |-> "start", idx |-> 0, serial |-> n,
                        bytes |-> len + PadLen(d, len)]
EndCmd(d)           == [cmd |-> "end", idx |-> resource_idx[d],
                        serial |-> serial, bytes |-> 0]

(* The operators named ...Bug are changed copies of the definition after    *)
(* them; nothing uses them except the check that a property can fail.      *)
DwcRequestQueueAtOnceBug(d, len, pend, states, calls) ==
  /\ epState' = [states EXCEPT ![d] = "XFER_IN_PROG"]
  /\ callback' = [calls EXCEPT ![d] = TRUE]
  /\ bytes_queued' = [bytes_queued EXCEPT ![d] = BytesQueued(d, len)]
  /\ serial' = serial + 1
  /\ cmds' = [pend EXCEPT ![d] = Append(@, StartCmd(d, len, serial + 1))]

(* dwc_request_queue of an INACTIVE endpoint: the TRBs are written and     *)
(* START_TRANSFER is issued.                                               *)
DwcRequestQueue(d, len, pend, states, calls) ==
  /\ epState' = [states EXCEPT ![d] = "START_TRANSFER"]
  /\ callback' = [calls EXCEPT ![d] = TRUE]
  /\ bytes_queued' = [bytes_queued EXCEPT ![d] = BytesQueued(d, len)]
  /\ serial' = serial + 1
  /\ cmds' = [pend EXCEPT ![d] = Append(@, StartCmd(d, len, serial + 1))]

(* usb30_udc_request_queue refuses a request, and so does                  *)
(* dwc_request_queue below it.                                             *)
UdcRefuses(queued, state) ==
  config_selected = 0 \/ queued \/ state # "INACTIVE"

(* usb30_udc_request_queue, when Usb.c's step gave it a request (udc' is   *)
(* one), was refused (asked) or did not call it.  `queued`, `states` and   *)
(* `calls` are queued_req, epState and callback at the call.               *)
UdcRequestQueue(asked, queued, states, calls) ==
  \/ /\ asked # None /\ udc' = asked
     /\ ~UdcRefuses(queued, states[Dir(asked)])
     /\ queued_req' = TRUE
     /\ DwcRequestQueue(Dir(asked), xfer_len'[asked], cmds, states, calls)
  \/ /\ asked # None /\ udc' # asked
     /\ UdcRefuses(queued, states[Dir(asked)])
     /\ queued_req' = (queued \/ config_selected = 1)
     /\ epState' = states /\ callback' = calls
     /\ UNCHANGED <<bytes_queued, cmds, serial>>
  \/ /\ asked = None
     /\ queued_req' = queued /\ epState' = states /\ callback' = calls
     /\ UNCHANGED <<bytes_queued, cmds, serial>>

(* Usb.c's own operations on this controller. *)
Usb30Transfer(r, ok) ==
  /\ Transfer(r, ok)
  /\ UdcRequestQueue(IF mRequestState = "IDLE" THEN r ELSE None, queued_req,
                     epState, callback)
  /\ UNCHANGED <<resource_idx, config_selected, events, hw, hostEvents>>

Usb30Restart(ok) ==
  /\ RestartQueue(ok)
  /\ UdcRequestQueue(IF mRequestQueue = <<>> THEN None ELSE Head(mRequestQueue),
                     queued_req, epState, callback)
  /\ UNCHANGED <<resource_idx, config_selected, events, hw, hostEvents>>

Usb30Report == Report /\ UNCHANGED <<epVars, udcVars, dwcHwVars, serial>>
Usb30Start  == Start  /\ UNCHANGED <<epVars, udcVars, dwcHwVars, serial>>

(* dwc_device_run(0), called with no interrupt pending. *)
Usb30Stop ==
  /\ events = <<>>
  /\ Stop
  /\ UNCHANGED <<epVars, udcVars, dwcHwVars, serial>>

-----------------------------------------------------------------------------
(* The controller and the host.                                            *)

Active(d) == epState[d] \in {"START_TRANSFER", "XFER_IN_PROG"}

DevEvent(kind) == [kind |-> kind, ep |-> "dev", serial |-> 0, status |-> 0,
                   remaining |-> 0]
EpEvent(kind, d, n, status, remaining) ==
  [kind |-> kind, ep |-> d, serial |-> n, status |-> status,
   remaining |-> remaining]

Raise(event) == /\ Len(events) < MaxEvents
                /\ events' = Append(events, event)

AtRest == /\ config_selected = 0 /\ events = <<>>
          /\ \A d \in Dirs : cmds[d] = <<>> /\ ~Active(d)

HostEvent(kind) ==
  /\ life = "started"
  /\ kind = "setconfig1" /\ ~HostReconfigures => AtRest
  /\ hostEvents < MaxHostEvents /\ hostEvents' = hostEvents + 1
  /\ Raise(DevEvent(kind))
  /\ UNCHANGED <<usbVars, epVars, udcVars, cmds, hw, serial>>

(* The oldest command of an endpoint is executed: START_TRANSFER with a    *)
(* status, END_TRANSFER whatever the controller was doing.                 *)
HwExecutes(d, status) ==
  /\ life = "started" /\ cmds[d] # <<>>
  /\ LET c == Head(cmds[d])
     IN  \/ /\ c.cmd = "start"
            /\ hw' = [hw EXCEPT ![d] =
                        IF status = 0 THEN [bytes |-> c.bytes,
                                            serial |-> c.serial]
                        ELSE Idle]
            /\ Raise(EpEvent("start", d, c.serial, status, 0))
         \/ /\ c.cmd = "end" /\ status = 0
            /\ hw' = [hw EXCEPT ![d] = Idle]
            /\ Raise(EpEvent("end", d, c.serial, 0, 0))
  /\ cmds' = [cmds EXCEPT ![d] = Tail(@)]
  /\ UNCHANGED <<usbVars, epVars, udcVars, serial, hostEvents>>

(* The host moves all but `remaining` of the bytes, or the transfer fails. *)
HwMovesData(d, status) ==
  /\ life = "started" /\ hw[d] # Idle
  /\ \E remaining \in (IF status = 0 THEN 0..hw[d].bytes ELSE {hw[d].bytes}) :
        Raise(EpEvent("complete", d, hw[d].serial, status, remaining))
  /\ hw' = [hw EXCEPT ![d] = Idle]
  /\ UNCHANGED <<usbVars, epVars, udcVars, cmds, serial, hostEvents>>

-----------------------------------------------------------------------------
(* The interrupt handler takes the oldest event; events wait while         *)
(* req_complete restarts the queue.                                        *)
Handle(kind, d) ==
  /\ LockFree /\ events # <<>>
  /\ Head(events).kind = kind /\ Head(events).ep = d
  /\ events' = Tail(events)
  /\ UNCHANGED hostEvents

UdcOfflineForgetsRequestBug == /\ config_selected' = 0
                               /\ queued_req' = FALSE
                               /\ NotifyOffline

(* udc_dwc_notify(OFFLINE or DISCONNECTED). *)
UdcOffline == /\ config_selected' = 0
              /\ NotifyOffline
              /\ UNCHANGED queued_req

ResetSkipsStartingBug ==
  /\ Handle("reset", "dev")
  /\ cmds' = [d \in Dirs |-> IF epState[d] = "XFER_IN_PROG"
                              THEN Append(cmds[d], EndCmd(d)) ELSE cmds[d]]
  /\ UdcOffline
  /\ UNCHANGED <<epVars, hw, serial>>

(* dwc_event_device_reset ends every transfer, then tells the client.      *)
DeviceReset ==
  /\ Handle("reset", "dev")
  /\ cmds' = [d \in Dirs |-> IF Active(d) THEN Append(cmds[d], EndCmd(d))
                              ELSE cmds[d]]
  /\ UdcOffline
  /\ UNCHANGED <<epVars, hw, serial>>

DeviceDisconnect ==
  /\ Handle("disconnect", "dev")
  /\ UdcOffline
  /\ UNCHANGED <<epVars, cmds, hw, serial>>

(* SET_CONFIGURATION(1): dwc_device_add_ep and                             *)
(* dwc_device_set_configuration make every bulk endpoint INACTIVE,         *)
(* whatever it was doing; the request stays in it, for the memset in       *)
(* dwc_device_add_ep clears a pointer's size only.  The configuration      *)
(* commands wait for those issued before.                                  *)
SetConfiguration ==
  /\ Handle("setconfig1", "dev")
  /\ \A d \in Dirs : cmds[d] = <<>>
  /\ epState' = [d \in Dirs |-> "INACTIVE"]
  /\ resource_idx' = [d \in Dirs |-> 0]
  /\ bytes_queued' = [d \in Dirs |-> 0]
  /\ hw' = [d \in Dirs |-> Idle]
  /\ config_selected' = 1
  /\ NotifyOnline \/ (mDeviceState = "Connected" /\ UNCHANGED usbVars)
  /\ UNCHANGED <<callback, queued_req, cmds, serial>>

(* SET_CONFIGURATION(0): "TODO: do proper handling for de-config".         *)
ClearConfiguration ==
  /\ Handle("setconfig0", "dev")
  /\ config_selected' = 0
  /\ UNCHANGED <<usbVars, epVars, queued_req, cmds, hw, serial>>

(* dwc_ep_bulk_state_inactive_enter, then the callback: udc_request_       *)
(* complete forgets the request and calls req_complete, which may queue    *)
(* the next chunk at once.  (What it keeps of bytes_queued is dead.)       *)
ToInactive(d, actual, good, ok) ==
  /\ ReqComplete(actual, good, ok)
  /\ resource_idx' = [resource_idx EXCEPT ![d] = 0]
  /\ UdcRequestQueue(IF mRequestQueue # <<>> /\ mRequestState = "TRANSFER"
                          /\ good /\ HasMore(Head(mRequestQueue), actual)
                       THEN Head(mRequestQueue) ELSE None,
                     FALSE, [epState EXCEPT ![d] = "INACTIVE"],
                     [callback EXCEPT ![d] = FALSE])

Ignore == UNCHANGED <<usbVars, epVars, queued_req, cmds, serial>>

StartDone(d) ==
  /\ Handle("start", d)
  /\ \/ /\ epState[d] = "START_TRANSFER" /\ Head(events).status = 0
        /\ epState' = [epState EXCEPT ![d] = "XFER_IN_PROG"]
        /\ resource_idx' = [resource_idx EXCEPT ![d] = 1]
        /\ UNCHANGED <<usbVars, callback, bytes_queued, queued_req, cmds,
                       serial>>
     \/ /\ epState[d] = "START_TRANSFER" /\ Head(events).status # 0
        /\ \E ok \in BOOLEAN : ToInactive(d, 0, FALSE, ok)
     \/ epState[d] \in {"INACTIVE", "XFER_IN_PROG"} /\ Ignore
  /\ UNCHANGED <<config_selected, hw>>

EndDone(d) ==
  /\ Handle("end", d)
  /\ \/ /\ epState[d] = "XFER_IN_PROG"
        /\ \E ok \in BOOLEAN : ToInactive(d, 0, FALSE, ok)
     \/ epState[d] \in {"INACTIVE", "START_TRANSFER"} /\ Ignore
  /\ UNCHANGED <<config_selected, hw>>

TransferComplete(d) ==
  /\ Handle("complete", d)
  /\ LET e == Head(events)
     IN  \/ /\ epState[d] = "XFER_IN_PROG"
            /\ \E ok \in BOOLEAN : ToInactive(d, bytes_queued[d] - e.remaining,
                                              e.status = 0, ok)
         \/ epState[d] \in {"INACTIVE", "START_TRANSFER"} /\ Ignore
  /\ UNCHANGED <<config_selected, hw>>

-----------------------------------------------------------------------------
Usb30Client == \E r \in Requests, ok \in BOOLEAN : Usb30Transfer(r, ok)
Interrupt   == \/ DeviceReset \/ DeviceDisconnect
               \/ SetConfiguration \/ ClearConfiguration
               \/ \E d \in Dirs : StartDone(d) \/ EndDone(d) \/ TransferComplete(d)
               \/ \E ok \in BOOLEAN : Usb30Restart(ok)
Hardware    == \E d \in Dirs, status \in {0, 1} :
                  HwExecutes(d, status) \/ HwMovesData(d, status)
Host        == \E kind \in {"reset", "disconnect", "setconfig0", "setconfig1"} :
                  HostEvent(kind)

Usb30Next == \/ Usb30Start \/ Usb30Stop
             \/ Usb30Client \/ Usb30Report
             \/ Interrupt \/ Hardware \/ Host

Usb30Spec == Usb30Init /\ [][Usb30Next]_usb30Vars

(* Events are handled, commands executed, data collected and ReportEvents  *)
(* dispatched; the host need not do anything else.                         *)
FairUsb30Spec == /\ Usb30Spec
                 /\ WF_usb30Vars(Interrupt) /\ WF_usb30Vars(Usb30Report)
                 /\ \A d \in Dirs :
                      WF_usb30Vars(\E status \in {0, 1} : HwExecutes(d, status))

-----------------------------------------------------------------------------
EpEvents == [kind : {"start", "end", "complete", "reset", "disconnect",
                     "setconfig0", "setconfig1"},
             ep : Dirs \cup {"dev"}, serial : Nat, status : {0, 1},
             remaining : Nat]
Commands == [cmd : {"start", "end"}, idx : {0, 1}, serial : Nat, bytes : Nat]

Usb30TypeOK ==
  /\ UsbTypeOK
  /\ epState \in [Dirs -> {"INIT", "INACTIVE", "START_TRANSFER",
                           "XFER_IN_PROG"}]
  /\ callback \in [Dirs -> BOOLEAN]
  /\ resource_idx \in [Dirs -> {0, 1}]
  /\ bytes_queued \in [Dirs -> Nat]
  /\ queued_req \in BOOLEAN /\ config_selected \in {0, 1}
  /\ events \in Seq(EpEvents)
  /\ \A d \in Dirs : /\ cmds[d] \in Seq(Commands)
                     /\ hw[d].bytes \in Nat
  /\ serial \in Nat /\ hostEvents \in Nat

(* The three layers agree on the one transfer there is: an endpoint that   *)
(* is busy has a callback and serves the request the udc layer remembers   *)
(* and Usb.c has at the head of its queue.                                 *)
BusyEndpointServesHead ==
  life = "started" =>
    \A d \in Dirs :
       Active(d) => /\ callback[d] /\ queued_req
                    /\ udc # None /\ Dir(udc) = d

(* The udc layer never remembers a request it then failed to start: it     *)
(* would refuse every later one.                                           *)
UdcNotWedged == life = "started" => (queued_req <=> udc # None)

(* The layers' common view of the transfer.                                *)
Usb30Invariant == Usb30TypeOK /\ BusyEndpointServesHead /\ UdcNotWedged

(* An event the endpoint acts on belongs to the transfer it is doing: what *)
(* is left in the buffer of an earlier one - a completion that crossed a   *)
(* reset, the end of an END_TRANSFER that came too late - is met in a      *)
(* state that ignores it.                                                  *)
EventHitsItsTransfer ==
  LockFree /\ events # <<>> /\ Head(events).ep \in Dirs =>
    LET e == Head(events)
    IN  \/ e.kind = "start" /\ epState[e.ep] = "START_TRANSFER"
        \/ e.kind \in {"end", "complete"} /\ epState[e.ep] = "XFER_IN_PROG"
        => e.serial = serial

(* A reset ends whatever transfer there is, unless the client stops the    *)
(* device: the head Usb.c kept fails "later" (Usb.c:277).                  *)
ResetEndsTransfer ==
  \A r \in Requests :
    (\E i \in 1..Len(events) : events[i].kind = "reset") /\ udc = r
      ~> (udc # r \/ life = "stopped")
=============================================================================
