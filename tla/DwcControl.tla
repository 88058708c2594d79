----------------------------- MODULE DwcControl -----------------------------
(***************************************************************************)
(* The control endpoint of the DesignWare USB 3.0 controller               *)
(* (usb30_dwc.c, "snps chapter 8.4, figure 8-2"): a state machine over the *)
(* stages of a control transfer, on the two physical endpoints 0 (OUT) and *)
(* 1 (IN), driven by the controller's event buffer.                        *)
(*                                                                         *)
(* A command is executed after it was written and announced by an event; a *)
(* token the host sends before the endpoint has a TRB raises               *)
(* XFER_NOT_READY.  So what the host does next and what the software just  *)
(* asked for cross each other.                                             *)
(***************************************************************************)
EXTENDS Integers, Sequences

CONSTANTS
  Kinds,       \* the control transfers the host makes, see below
  EarlyTokens  \* the host may send a data token before any SETUP

(* "two"  a request without data stage the device supports;                *)
(* "in"   a supported request for data (GET_DESCRIPTOR ...);               *)
(* "out"  SET_SEL, the one supported request that sends data;              *)
(* "bad"  an unsupported request, to be stalled;                           *)
(* "zlp"  "in", where the data fills whole packets but is less than the    *)
(*        host asked for: it comes back for a zero-length packet;          *)
(* "late" a request the device takes as "two" and the host as "in";        *)
(* "wrong" a request the device takes as "in" and the host as "out".       *)
ASSUME DwcControlAssumption ==
  /\ Kinds \subseteq {"two", "in", "out", "bad", "zlp", "late", "wrong"}
  /\ EarlyTokens \in BOOLEAN

VARIABLES
  ctrl_state, \* dev->ctrl_state
  epState,    \* ep->state of the physical endpoints 0 and 1
  trb_queued, \* ep->trb_queued
  cmds,       \* commands of an endpoint not executed yet
  events,     \* the event buffer
  hw,         \* the TRB the controller has for an endpoint, or "none"
  host,       \* the transfer the host is making
  stage,      \* its stage: "idle", "data", "more" (after a full packet), "status"
  asked,      \* XFER_NOT_READY was raised in this stage
  aborted     \* the host gave the transfer up

ctrlVars == <<ctrl_state, epState, trb_queued, cmds>>
hostVars == <<host, stage, asked, aborted>>
dwcControlVars == <<ctrlVars, events, hw, hostVars>>

Phys == {0, 1}

(* dwc_device_init: both endpoints are enabled, a SETUP TRB is queued.     *)
(* The device is not running yet, so ep 0 goes to XFER_IN_PROG at once and *)
(* no event is raised.                                                     *)
DwcControlInit ==
  /\ ctrl_state = "SETUP"
  /\ epState = [p \in Phys |-> IF p = 0 THEN "XFER_IN_PROG" ELSE "INACTIVE"]
  /\ trb_queued = [p \in Phys |-> IF p = 0 THEN 1 ELSE 0]
  /\ cmds = [p \in Phys |-> <<>>]
  /\ events = <<>>
  /\ hw = [p \in Phys |-> IF p = 0 THEN "setup" ELSE "none"]
  /\ host = "none" /\ stage = "idle" /\ asked = FALSE /\ aborted = FALSE

-----------------------------------------------------------------------------
(* The host and the controller's hardware.                                 *)

Event(kind, p, arg) == [kind |-> kind, ep |-> p, arg |-> arg]
Raise(e)            == events' = Append(events, e)

(* A host starts over more slowly than the device stalls an early token.   *)
Settled == /\ \A p \in Phys : cmds[p] = <<>>
           /\ \A i \in 1..Len(events) : events[i].kind # "notready"

HostSetup(kind) ==
  /\ stage = "idle" /\ hw[0] = "setup" /\ Settled
  /\ hw' = [hw EXCEPT ![0] = "none"]
  /\ \/ /\ Raise(Event("complete", 0, kind))
        /\ host' = kind
        /\ stage' = IF kind = "two" THEN "status" ELSE "data"
     \/ Raise(Event("complete", 0, "error")) /\ UNCHANGED <<host, stage>>
  /\ asked' = FALSE /\ aborted' = FALSE
  /\ UNCHANGED ctrlVars

(* The endpoint the host addresses in its stage. *)
StageEp ==
  CASE stage = "status" -> IF host \in {"two", "out"} THEN 1 ELSE 0
    [] stage = "more"   -> 1
    [] OTHER            -> IF host \in {"out", "wrong"} THEN 0 ELSE 1

NextStage ==
  CASE stage = "status"                             -> "idle"
    [] stage = "data" /\ host = "zlp" /\ ~aborted   -> "more"
    [] OTHER                                        -> "status"

(* The host moves its stage on; the stages of a transfer it gave up are    *)
(* ended by the controller, with an error.                                 *)
HostToken ==
  /\ stage # "idle"
  /\ LET p    == StageEp
         want == IF stage = "status" THEN "status" ELSE "data"
     IN  \/ /\ hw[p] = want
            /\ hw' = [hw EXCEPT ![p] = "none"]
            /\ Raise(Event("complete", p, IF aborted THEN "error" ELSE "ok"))
            /\ stage' = NextStage /\ asked' = FALSE
         \/ /\ hw[p] = "none" /\ ~asked
            /\ asked' = TRUE
            /\ Raise(Event("notready", p, want))
            /\ UNCHANGED <<hw, stage>>
  /\ UNCHANGED <<ctrlVars, host, aborted>>

HostEarlyToken(p) ==
  /\ EarlyTokens
  /\ stage = "idle" /\ hw[0] = "setup" /\ events = <<>> /\ ctrl_state = "SETUP"
  /\ Raise(Event("notready", p, "data"))
  /\ UNCHANGED <<ctrlVars, hw, hostVars>>

(* The host starts over: a new SETUP, or a bus reset. *)
HostAborts ==
  /\ stage # "idle" /\ ~aborted
  /\ aborted' = TRUE
  /\ UNCHANGED <<ctrlVars, events, hw, host, stage, asked>>

HwExecutes(p) ==
  /\ cmds[p] # <<>>
  /\ LET c == Head(cmds[p])
     IN  \/ /\ c.cmd = "start"
            /\ hw' = [hw EXCEPT ![p] = c.trb]
            /\ UNCHANGED <<stage, asked>>
         \/ /\ c.cmd = "end"
            /\ hw' = [hw EXCEPT ![p] = "none"]
            /\ UNCHANGED <<stage, asked>>
         \/ /\ c.cmd = "stall"
            /\ stage' = "idle" /\ asked' = FALSE
            /\ UNCHANGED hw
  /\ Raise(Event("cmd", p, Head(cmds[p]).cmd))
  /\ cmds' = [cmds EXCEPT ![p] = Tail(@)]
  /\ UNCHANGED <<ctrl_state, epState, trb_queued, host, aborted>>

-----------------------------------------------------------------------------
(* dwc_request_queue of a control TRB, called with these endpoint states   *)
(* and TRB counts: refused unless the endpoint is INACTIVE.  Counts above  *)
(* one are not told apart.                                                 *)
RequestQueue(p, trb, states, queued) ==
  IF states[p] = "INACTIVE"
    THEN /\ epState' = [states EXCEPT ![p] = "START_TRANSFER"]
         /\ trb_queued' = [queued EXCEPT ![p] = IF @ = 0 THEN 1 ELSE 2]
         /\ cmds' = [cmds EXCEPT ![p] = Append(@, [cmd |-> "start", trb |-> trb])]
    ELSE /\ epState' = states /\ trb_queued' = queued
         /\ UNCHANGED cmds

Stall(p) ==
  /\ cmds' = [cmds EXCEPT ![p] = Append(@, [cmd |-> "stall", trb |-> "none"])]
  /\ ctrl_state' = "STALL"

(* dwc_ep_ctrl_state_setup_enter. *)
SetupEnter(states, queued) ==
  /\ RequestQueue(0, "setup", states, queued)
  /\ ctrl_state' = "SETUP"

Ignore == UNCHANGED ctrlVars

(* The common part of a completed transfer of endpoint p. *)
Inactive(p) == [epState EXCEPT ![p] = "INACTIVE"]
Freed(p)    == [trb_queued EXCEPT ![p] = 0]

(* A completed command is noted where the state machine looks for one.     *)
StartNoted(e) ==
  /\ e.kind = "cmd"
  /\ epState' = IF e.arg = "start" THEN [epState EXCEPT ![e.ep] = "XFER_IN_PROG"]
                ELSE epState
  /\ UNCHANGED <<ctrl_state, trb_queued, cmds>>

(* udc_handle_setup of a well-received packet: which stages follow, and    *)
(* the data TRB it queues.                                                 *)
HandleSetup(kind) ==
  \/ /\ kind \in {"two", "late"}
     /\ ctrl_state' = "WAIT_FOR_HOST_2"
     /\ epState' = Inactive(0) /\ trb_queued' = Freed(0)
     /\ UNCHANGED cmds
  \/ /\ kind \in {"in", "zlp", "wrong"}
     /\ RequestQueue(1, "data", Inactive(0), Freed(0))
     /\ ctrl_state' = "CTRL_DATA"
  \/ /\ kind = "out"
     /\ RequestQueue(0, "data", Inactive(0), Freed(0))
     /\ ctrl_state' = "CTRL_DATA"
  \/ /\ kind = "bad"
     /\ Stall(0)
     /\ epState' = Inactive(0) /\ trb_queued' = Freed(0)

CtrlSetup(e) ==
  /\ ctrl_state = "SETUP"
  /\ \/ StartNoted(e)
     \/ /\ e.kind = "notready"
        /\ Stall(e.ep)
        /\ UNCHANGED <<epState, trb_queued>>
     \/ /\ e.kind = "complete" /\ e.arg = "error"
        /\ SetupEnter(Inactive(0), Freed(0))
     \/ e.kind = "complete" /\ HandleSetup(e.arg)

CtrlData(e) ==
  /\ ctrl_state = "CTRL_DATA"
  /\ \/ StartNoted(e)
     \/ /\ e.kind = "notready" /\ epState[e.ep] # "INACTIVE"
        /\ Ignore
     \/ /\ e.kind = "notready" /\ epState[e.ep] = "INACTIVE"
        /\ LET other == 1 - e.ep
           IN  cmds' = [cmds EXCEPT ![other] =
                          @ \o <<[cmd |-> "end", trb |-> "none"],
                                 [cmd |-> "stall", trb |-> "none"]>>]
        /\ ctrl_state' = "STALL"
        /\ UNCHANGED <<epState, trb_queued>>
     \/ /\ e.kind = "complete"
        /\ epState' = Inactive(e.ep) /\ trb_queued' = Freed(e.ep)
        /\ ctrl_state' = "WAIT_FOR_HOST_3"
        /\ UNCHANGED cmds

(* The operators named ...Bug are changed copies of the definition after    *)
(* them; nothing uses them except the check that a property can fail.      *)
CtrlWaitForHost2LosesStatusBug(e) ==
  /\ ctrl_state = "WAIT_FOR_HOST_2"
  /\ \/ /\ e.kind = "notready" /\ e.arg = "data"
        /\ Stall(e.ep)
        /\ UNCHANGED <<epState, trb_queued>>
     \/ ~(e.kind = "notready" /\ e.arg = "data") /\ Ignore

CtrlWaitForHost2(e) ==
  /\ ctrl_state = "WAIT_FOR_HOST_2"
  /\ \/ /\ e.kind = "notready" /\ e.arg = "data"
        /\ Stall(e.ep)
        /\ UNCHANGED <<epState, trb_queued>>
     \/ /\ e.kind = "notready" /\ e.arg = "status"
        /\ RequestQueue(e.ep, "status", epState, trb_queued)
        /\ ctrl_state' = "STATUS_2"
     \/ e.kind # "notready" /\ Ignore

CtrlWaitForHost3KeepsStateBug(e) ==
  /\ ctrl_state = "WAIT_FOR_HOST_3"
  /\ \/ /\ e.kind = "notready" /\ e.arg = "data"
        /\ Stall(e.ep)
        /\ UNCHANGED <<epState, trb_queued>>
     \/ /\ e.kind = "notready" /\ e.arg = "status"
        /\ RequestQueue(e.ep, "status", epState, trb_queued)
        /\ UNCHANGED ctrl_state
     \/ e.kind # "notready" /\ Ignore

(* A data request on a busy endpoint was to be answered with another TRB   *)
(* ("exact multiple of max_pkt_size").                                     *)
CtrlWaitForHost3(e) ==
  /\ ctrl_state = "WAIT_FOR_HOST_3"
  /\ \/ /\ e.kind = "notready" /\ e.arg = "data"
        /\ IF epState[e.ep] # "INACTIVE"
             THEN /\ RequestQueue(e.ep, "data", epState, trb_queued)
                  /\ ctrl_state' = "CTRL_DATA"
             ELSE /\ Stall(e.ep)
                  /\ UNCHANGED <<epState, trb_queued>>
     \/ /\ e.kind = "notready" /\ e.arg = "status"
        /\ RequestQueue(e.ep, "status", epState, trb_queued)
        /\ ctrl_state' = "STATUS_3"
     \/ e.kind # "notready" /\ Ignore

CtrlStatus2(e) ==
  /\ ctrl_state = "STATUS_2"
  /\ \/ StartNoted(e)
     \/ e.kind = "notready" /\ Ignore
     \/ e.kind = "complete" /\ SetupEnter(Inactive(e.ep), Freed(e.ep))

CtrlStatus3(e) ==
  /\ ctrl_state = "STATUS_3"
  /\ \/ StartNoted(e)
     \/ e.kind = "notready" /\ Ignore
     \/ /\ e.kind = "complete" /\ e.arg = "error"
        /\ epState' = Inactive(e.ep) /\ trb_queued' = Freed(e.ep)
        /\ Stall(e.ep)
     \/ /\ e.kind = "complete" /\ e.arg # "error"
        /\ SetupEnter(Inactive(e.ep), Freed(e.ep))

CtrlStall(e) ==
  /\ ctrl_state = "STALL"
  /\ \/ /\ e.kind = "cmd" /\ e.arg = "stall"
        /\ SetupEnter(epState, trb_queued)
     \/ /\ e.kind = "cmd" /\ e.arg = "end"
        /\ epState' = Inactive(e.ep)
        /\ UNCHANGED <<ctrl_state, trb_queued, cmds>>
     \/ e.kind = "cmd" /\ e.arg = "start" /\ Ignore
     \/ e.kind # "cmd" /\ Ignore

(* dwc_event_handler_ep_ctrl on the oldest event.                          *)
Interrupt ==
  /\ events # <<>>
  /\ LET e == Head(events)
     IN  \/ CtrlSetup(e) \/ CtrlData(e)
         \/ CtrlWaitForHost2(e) \/ CtrlWaitForHost3(e)
         \/ CtrlStatus2(e) \/ CtrlStatus3(e)
         \/ CtrlStall(e)
  /\ events' = Tail(events)
  /\ UNCHANGED <<hw, hostVars>>

-----------------------------------------------------------------------------
Hardware == \E p \in Phys : HwExecutes(p)

DwcControlNext ==
  \/ \E kind \in Kinds : HostSetup(kind)
  \/ HostToken \/ HostAborts
  \/ \E p \in Phys : HostEarlyToken(p)
  \/ Hardware \/ Interrupt

DwcControlSpec == DwcControlInit /\ [][DwcControlNext]_dwcControlVars

(* Commands are executed, events handled, and a host that began a transfer *)
(* goes on with it; it need not begin one.                                 *)
FairDwcControlSpec == /\ DwcControlSpec
                      /\ WF_dwcControlVars(Hardware)
                      /\ WF_dwcControlVars(Interrupt)
                      /\ WF_dwcControlVars(HostToken)

-----------------------------------------------------------------------------
DwcControlTypeOK ==
  /\ ctrl_state \in {"SETUP", "CTRL_DATA", "WAIT_FOR_HOST_2",
                     "WAIT_FOR_HOST_3", "STATUS_2", "STATUS_3", "STALL"}
  /\ epState \in [Phys -> {"INACTIVE", "START_TRANSFER", "XFER_IN_PROG"}]
  /\ trb_queued \in [Phys -> {0, 1}]
  /\ asked \in BOOLEAN /\ aborted \in BOOLEAN
  /\ \A p \in Phys : cmds[p] \in Seq([cmd : {"start", "end", "stall"},
                                      trb : {"setup", "data", "status", "none"}])
  /\ events \in Seq([kind : {"cmd", "notready", "complete"}, ep : Phys,
                     arg : Kinds \cup {"start", "end", "stall", "data",
                                       "status", "ok", "error"}])
  /\ hw \in [Phys -> {"none", "setup", "data", "status"}]
  /\ host \in Kinds \cup {"none"}
  /\ stage \in {"idle", "data", "more", "status"}

(* The state machine's own assertions, for the event it is about to        *)
(* handle: "cannot happen on any other ep", "something wrong in fsm        *)
(* implementation", "control_status_request is invalid event in this       *)
(* state"; and dwc_request_queue's "trb queued must be 0 at this time".    *)
AssertsHold ==
  /\ \A p \in Phys : epState[p] = "INACTIVE" => trb_queued[p] = 0
  /\ events # <<>> =>
    LET e == Head(events)
        listens == ctrl_state \in {"SETUP", "CTRL_DATA", "STATUS_2", "STATUS_3"}
    IN  /\ listens /\ e.kind = "cmd" /\ e.arg = "start"
             => epState[e.ep] = "START_TRANSFER"
        /\ listens /\ e.kind = "complete"
             => epState[e.ep] = "XFER_IN_PROG" /\ trb_queued[e.ep] # 0
        /\ ctrl_state = "SETUP" /\ e.kind = "complete" => e.ep = 0
        /\ ctrl_state = "STATUS_2" /\ e.kind = "complete" => e.ep = 1
        /\ ctrl_state = "CTRL_DATA" /\ e.kind = "notready" => e.arg = "data"
        /\ ctrl_state = "WAIT_FOR_HOST_2" /\ e.kind = "notready"
             => e.arg = "data" \/ e.ep = 1

(* Nothing the state machine throws away was a host's packet: an event     *)
(* that completes a transfer is met in a state that handles it, so that    *)
(* the endpoint never waits for a packet that already came.                *)
NoPacketIgnored ==
  events # <<>> /\ Head(events).kind = "complete"
    => ctrl_state \in {"SETUP", "CTRL_DATA", "STATUS_2", "STATUS_3"}

(* A request the device supports, and that the host carries on, is never   *)
(* stalled.                                                                *)
SupportedNotStalled ==
  (\E p \in Phys : \E i \in 1..Len(cmds[p]) : cmds[p][i].cmd = "stall")
    => aborted \/ stage = "idle" \/ host \notin {"two", "in", "out", "zlp"}

(* When the controller is at rest and no transfer is under way, it can     *)
(* take the next SETUP packet.                                             *)
RestMeansArmed ==
  /\ events = <<>> /\ (\A p \in Phys : cmds[p] = <<>>) /\ stage = "idle"
  => ctrl_state = "SETUP" /\ hw[0] = "setup"

(* The machine's states fit the events they meet, whatever the host does.  *)
ControlInvariant ==
  /\ DwcControlTypeOK /\ AssertsHold /\ NoPacketIgnored
  /\ SupportedNotStalled /\ RestMeansArmed

(* A control transfer the host begins ends, well or stalled.               *)
TransferEnds == stage # "idle" ~> stage = "idle"
=============================================================================
