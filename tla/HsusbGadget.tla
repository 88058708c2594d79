---------------------------- MODULE HsusbGadget ----------------------------
(***************************************************************************)
(* The request queue of Usb.c on the ChipIdea controller                   *)
(* (Qcom/Drivers/UsbDxe/hsusb.c): what the controller's registers, its     *)
(* endpoint queue heads and its interrupt handler make of it.              *)
(*                                                                         *)
(* Usb.c has one udc_request, and that has one transfer descriptor (item); *)
(* ept->req says which endpoints hold it.  The host resets the bus, sets   *)
(* configurations and moves data at any time; udc_interrupt reads what     *)
(* happened from three registers and works it off in a fixed order.  The   *)
(* control endpoint's own transfers are left out: of the setup packets     *)
(* only SET_CONFIGURATION reaches Usb.c.                                   *)
(***************************************************************************)
EXTENDS UsbTransfer

VARIABLES
  eptReq,    \* the bulk endpoints ("in", "out") whose ept->req is set
  item,      \* the shared transfer descriptor
  enabled,   \* ENDPTCTRL(1): the bulk endpoints are enabled
  usb_config_value,
  USBSTS,    \* pending interrupt causes, of "URI" (reset) and "UI"
  SETUPSTAT, \* pending SET_CONFIGURATION value, or "none"
  COMPLETE,  \* ENDPTCOMPLETE: endpoints with a completion to collect
  isr,       \* where udc_interrupt is, "none" outside it
  todo       \* the endpoints its loop over ept_list has still to visit

regVars   == <<enabled, usb_config_value, USBSTS, SETUPSTAT, COMPLETE>>
queueHw   == <<eptReq, item>>
isrVars   == <<isr, todo>>
hsusbVars == <<usbVars, regVars, queueHw, isrVars>>

Dir(r) == IF IsIn[r] THEN "in" ELSE "out"
NoItem == [state |-> "idle", actual |-> 0]

HsusbInit ==
  /\ UsbInit
  /\ eptReq = {} /\ item = NoItem
  /\ enabled = FALSE /\ usb_config_value = 0
  /\ USBSTS = {} /\ SETUPSTAT = "none" /\ COMPLETE = {}
  /\ isr = "none" /\ todo = {}

-----------------------------------------------------------------------------
(* udc_request_queue: fill the descriptor, remember the request in the     *)
(* endpoint, prime it.  It always succeeds.  `held` are the endpoints that *)
(* have a request when it is called.                                       *)
PrimeIfQueued(queued, held) ==
  /\ eptReq' = IF queued THEN held \cup {Dir(udc')} ELSE held
  /\ item' = IF queued THEN [state |-> "active", actual |-> 0] ELSE item

(* The client runs only outside the interrupt handler.                     *)
GadgetTransfer(r) ==
  /\ isr = "none"
  /\ Transfer(r, TRUE)
  /\ PrimeIfQueued(mRequestState = "IDLE", eptReq)
  /\ UNCHANGED <<regVars, isrVars>>

GadgetReport == /\ isr = "none"
                /\ Report
                /\ UNCHANGED <<regVars, queueHw, isrVars>>

GadgetStart  == Start /\ UNCHANGED <<regVars, queueHw, isrVars>>

(* udc_stop flushes the endpoints and masks the interrupt.                 *)
GadgetStop ==
  /\ isr = "none"
  /\ Stop
  /\ USBSTS' = {} /\ item' = NoItem
  /\ UNCHANGED <<enabled, usb_config_value, SETUPSTAT, COMPLETE, eptReq,
                 isrVars>>

-----------------------------------------------------------------------------
(* The host and the controller's hardware.                                 *)

HostReset ==
  /\ life = "started"
  /\ USBSTS' = USBSTS \cup {"URI"}
  /\ UNCHANGED <<usbVars, enabled, usb_config_value, SETUPSTAT, COMPLETE,
                 queueHw, isrVars>>

(* A host that resets the bus sends nothing else until that is handled.    *)
HostSetConfiguration(value) ==
  /\ life = "started" /\ "URI" \notin USBSTS
  /\ USBSTS' = USBSTS \cup {"UI"}
  /\ SETUPSTAT' = value
  /\ UNCHANGED <<usbVars, enabled, usb_config_value, COMPLETE, queueHw,
                 isrVars>>

(* The host moves the data of the primed descriptor, some of it, or the    *)
(* transfer fails.                                                         *)
HostMovesData(actual, state) ==
  /\ life = "started" /\ "URI" \notin USBSTS
  /\ enabled /\ item.state = "active" /\ udc # None
  /\ item' = [state |-> state, actual |-> actual]
  /\ COMPLETE' = COMPLETE \cup {Dir(udc)}
  /\ USBSTS' = USBSTS \cup {"UI"}
  /\ UNCHANGED <<usbVars, enabled, usb_config_value, SETUPSTAT, eptReq,
                 isrVars>>

-----------------------------------------------------------------------------
(* udc_interrupt reads and clears USBSTS.  On a reset it throws away what  *)
(* the registers still hold, flushes and disables the endpoints.           *)
IsrEnter ==
  /\ isr = "none" /\ LockFree /\ USBSTS # {}
  /\ USBSTS' = {}
  /\ \/ /\ "URI" \in USBSTS
        /\ COMPLETE' = {} /\ SETUPSTAT' = "none"
        /\ enabled' = FALSE /\ usb_config_value' = 0
        /\ item' = IF item.state = "active" THEN NoItem ELSE item
        /\ isr' = IF "UI" \in USBSTS THEN "reset+ui" ELSE "reset"
     \/ /\ "URI" \notin USBSTS
        /\ isr' = "ui"
        /\ UNCHANGED <<COMPLETE, SETUPSTAT, enabled, usb_config_value, item>>
  /\ UNCHANGED <<usbVars, eptReq, todo>>

(* The operators named ...Bug are changed copies of the definition after    *)
(* them; nothing uses them except the check that a property can fail.      *)
IsrResetErrorsFirstBug ==
  /\ isr \in {"reset", "reset+ui"}
  /\ UNCHANGED usbVars
  /\ todo' = eptReq
  /\ isr' = IF isr = "reset" THEN "errors" ELSE "errors+ui"
  /\ UNCHANGED <<regVars, queueHw>>

IsrResetCollectsOnlyBug ==
  /\ isr \in {"reset", "reset+ui"}
  /\ NotifyOffline
  /\ todo' = COMPLETE
  /\ isr' = IF isr = "reset" THEN "errors" ELSE "errors+ui"
  /\ UNCHANGED <<regVars, queueHw>>

(* The reset is notified first; then every endpoint is visited once.       *)
IsrResetNotify ==
  /\ isr \in {"reset", "reset+ui"}
  /\ NotifyOffline
  /\ todo' = eptReq
  /\ isr' = IF isr = "reset" THEN "errors" ELSE "errors+ui"
  /\ UNCHANGED <<regVars, queueHw>>

(* handle_ept_complete of an endpoint with a request: the request leaves   *)
(* the endpoint, and its complete function is called.                      *)
EptComplete(dir, actual, good) ==
  /\ todo' = todo \ {dir}
  /\ \/ /\ dir \in eptReq
        /\ ReqComplete(actual, good, TRUE)
        /\ PrimeIfQueued(udc' # None, eptReq \ {dir})
     \/ /\ dir \notin eptReq
        /\ UNCHANGED <<usbVars, queueHw>>
  /\ UNCHANGED <<isr, regVars>>

IsrErrors ==
  /\ isr \in {"errors", "errors+ui"} /\ LockFree
  /\ \/ \E dir \in todo : EptComplete(dir, 0, FALSE)
     \/ /\ todo = {}
        /\ isr' = IF isr = "errors" THEN "none" ELSE "ui"
        /\ UNCHANGED <<usbVars, regVars, queueHw, todo>>

(* handle_setup: SET_CONFIGURATION enables the endpoints or disables the   *)
(* first pair; a descriptor primed there stays with the endpoint.          *)
HandleSetConfiguration ==
  \/ /\ SETUPSTAT = "none"
     /\ UNCHANGED <<usbVars, enabled, usb_config_value>>
  \/ /\ SETUPSTAT = "1"
     /\ enabled' = TRUE /\ usb_config_value' = 1
     /\ \/ NotifyOnline
        \/ mDeviceState = "Connected" /\ UNCHANGED usbVars
  \/ /\ SETUPSTAT = "0"
     /\ enabled' = FALSE /\ usb_config_value' = 0
     /\ NotifyOffline

IsrSetup ==
  /\ isr = "ui"
  /\ HandleSetConfiguration
  /\ SETUPSTAT' = "none"
  /\ todo' = COMPLETE /\ COMPLETE' = {}
  /\ isr' = "completions"
  /\ UNCHANGED <<queueHw, USBSTS>>

IsrCompletions ==
  /\ isr = "completions" /\ LockFree
  /\ \/ \E dir \in todo : EptComplete(dir, item.actual, item.state = "done")
     \/ /\ todo = {}
        /\ isr' = "none"
        /\ UNCHANGED <<usbVars, regVars, queueHw, todo>>

(* The loop at the end of req_complete, inside the handler.                *)
IsrRestart ==
  /\ RestartQueue(TRUE)
  /\ PrimeIfQueued(udc' # None, eptReq)
  /\ UNCHANGED <<regVars, isrVars>>

-----------------------------------------------------------------------------
HostStep == \/ HostReset
            \/ \E value \in {"0", "1"} : HostSetConfiguration(value)
HwStep   == \E actual \in Actual, state \in {"done", "error"} :
              HostMovesData(actual, state)
IsrStep  == \/ IsrEnter \/ IsrResetNotify \/ IsrErrors \/ IsrSetup
            \/ IsrCompletions \/ IsrRestart

HsusbNext == \/ GadgetStart \/ GadgetStop
             \/ \E r \in Requests : GadgetTransfer(r)
             \/ GadgetReport
             \/ HostStep \/ HwStep \/ IsrStep

HsusbSpec == HsusbInit /\ [][HsusbNext]_hsusbVars

(* Interrupts are delivered and handled, ReportEvents is dispatched, and   *)
(* the host collects the data of an enabled endpoint.  Nothing makes the   *)
(* host reset the bus or set a configuration.                              *)
FairHsusbSpec == /\ HsusbSpec
                 /\ WF_hsusbVars(IsrStep)
                 /\ WF_hsusbVars(GadgetReport)
                 /\ WF_hsusbVars(HwStep)

-----------------------------------------------------------------------------
HsusbTypeOK ==
  /\ UsbTypeOK
  /\ eptReq \subseteq {"in", "out"}
  /\ item \in [state : {"idle", "active", "done", "error"}, actual : Nat]
  /\ enabled \in BOOLEAN /\ usb_config_value \in {0, 1}
  /\ USBSTS \subseteq {"URI", "UI"}
  /\ SETUPSTAT \in {"none", "0", "1"}
  /\ COMPLETE \subseteq {"in", "out"}
  /\ isr \in {"none", "reset", "reset+ui", "errors", "errors+ui", "ui",
              "completions"}
  /\ todo \subseteq {"in", "out"}

(* The one descriptor is never primed on two endpoints, and the endpoint   *)
(* that holds it is the one the head of Usb.c's queue is for.              *)
DescriptorOnOneEndpoint ==
  life # "stopped" => eptReq = IF udc = None THEN {} ELSE {Dir(udc)}

(* A completion bit is never left over from an earlier transfer: whoever   *)
(* collects it finds the descriptor it belongs to finished.  (The handler  *)
(* would otherwise spin on the descriptor, at interrupt level.)            *)
CompletionBitIsFresh ==
  life # "stopped" =>
    \A dir \in COMPLETE \cup (IF isr = "completions" THEN todo ELSE {}) :
       dir \in eptReq /\ item.state \in {"done", "error"}

(* While the handler errors out what a reset left, Usb.c starts nothing    *)
(* new on the disabled endpoints: its queue was emptied first.             *)
ResetStartsNothing ==
  isr \in {"errors", "errors+ui"} => /\ Len(mRequestQueue) <= 1
                                     /\ item.state # "active"

(* A configured device is a connected one, and the other way round, as     *)
(* soon as the handler has returned.                                       *)
ConfiguredIsConnected ==
  isr = "none" => (usb_config_value = 1 <=> mDeviceState = "Connected")

(* The controller's one descriptor goes with the head of the queue.        *)
HsusbInvariant ==
  /\ HsusbTypeOK /\ DescriptorOnOneEndpoint /\ CompletionBitIsFresh
  /\ ResetStartsNothing /\ ConfiguredIsConnected

(* A bus reset frees whatever the controller was doing.                    *)
ResetFreesTheQueue ==
  \A r \in Requests :
     "URI" \in USBSTS /\ udc = r ~> (udc # r \/ life = "stopped")
=============================================================================
