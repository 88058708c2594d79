------------------------- MODULE UsbDeviceProtocol -------------------------
(***************************************************************************)
(* What the EFIDroid USB device protocol promises its client, without     *)
(* queues, locks or a controller: a transfer the client hands over is      *)
(* answered by exactly one notification, and the client is told of the     *)
(* connection state.  UsbTransfer is shown to implement this.              *)
(***************************************************************************)


EXTENDS Naturals

CONSTANT
  Requests    \* the transfers the client may hand over

VARIABLES
  handedOver, \* transfers given to the protocol so far
  answers,    \* answers[r]: notifications delivered for r
  told        \* the connection state the client was last told

protocolVars == <<handedOver, answers, told>>

ProtocolInit ==
  /\ handedOver = {}
  /\ answers = [r \in Requests |-> 0]
  /\ told = "Disconnected"

(* USB_DEVICE_TRANSFER: the client gives a buffer away. *)
HandOver(r) ==
  /\ r \notin handedOver
  /\ handedOver' = handedOver \cup {r}
  /\ UNCHANGED <<answers, told>>

(* UsbDeviceEventTransferNotification: the buffer goes back, once. *)
Answer(r) ==
  /\ r \in handedOver /\ answers[r] = 0
  /\ answers' = [answers EXCEPT ![r] = 1]
  /\ UNCHANGED <<handedOver, told>>

(* UsbDeviceEventDeviceStateChange. *)
Tell(s) ==
  /\ told' = s
  /\ UNCHANGED <<handedOver, answers>>

ProtocolNext ==
  \/ \E r \in Requests : HandOver(r) \/ Answer(r)
  \/ \E s \in {"Connected", "Disconnected"} : Tell(s)

ProtocolSpec == ProtocolInit /\ [][ProtocolNext]_protocolVars
=============================================================================
