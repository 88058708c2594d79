------------------------------ MODULE UsbSetup ------------------------------
(***************************************************************************)
(* A gadget is started and a host enumerates it: Usb30PeriphStart and      *)
(* usb_init of Usb.c, the descriptors, the endpoints and the standard      *)
(* requests of both controllers (usb30_udc.c, hsusb.c) and what they make  *)
(* of a reset, of the speed that follows it and of a SET_CONFIGURATION.    *)
(*                                                                         *)
(* Descriptors are sent from a list made once; what an endpoint is armed   *)
(* with is set when the host selects the configuration.  That both name    *)
(* the same endpoints and packet sizes, at the speed of the day, is for    *)
(* the patches in between to see to.                                       *)
(***************************************************************************)
EXTENDS Integers, SequencesExt

CONSTANTS
  Controllers, \* "dwc", "ci"
  Gadgets,     \* the endpoint descriptors of an interface: addresses <<num, in>>
  MaxPending   \* bound: interrupts not handled yet

(* The addresses of an interface are the first numbers free in each        *)
(* direction: usb_init looks at the direction of an endpoint only.         *)
WellNumbered(g) ==
  \A k \in DOMAIN g :
    /\ \A j \in 1..(k - 1) : g[j] # g[k]
    /\ \A n \in 1..(g[k][1] - 1) : \E j \in 1..(k - 1) : g[j] = <<n, g[k][2]>>

(* Of five endpoints the 3.0 configuration would send the third, whose     *)
(* type udc_update_ep_desc does not know.                                  *)
ASSUME UsbSetupAssumption ==
  /\ Controllers \subseteq {"dwc", "ci"} /\ MaxPending \in Nat
  /\ \A g \in Gadgets :
       g \in Seq((1..15) \X BOOLEAN) /\ Len(g) \in 1..4 /\ WellNumbered(g)

VARIABLES
  controller, \* mUdcDevice.t_usb_if->controller
  gadget, \* mEndpointDescriptors
  udc,    \* udc_dev, or the variables of hsusb.c
  armed,  \* the packet size an endpoint of the controller is enabled with
  peer,   \* the host at the other end of the cable
  irqs    \* what the controller has raised

setupVars == <<controller, gadget, udc, armed, peer, irqs>>

-----------------------------------------------------------------------------
(* The descriptors, newest first.                                          *)

(* What of a configuration is told apart: the packet size of each of its   *)
(* endpoints.                                                              *)
Descriptor(tag, specs, sizes) == [tag |-> tag, specs |-> specs, sizes |-> sizes]
Register(u, tag, specs, sizes) == [u EXCEPT !.desc_list = <<Descriptor(tag, specs, sizes)>> \o @]
Registered512(u, tag, specs) == Register(u, tag, specs, [k \in DOMAIN gadget |-> 512])

(* Where the type of the k-th endpoint is; with 3.0 a companion is between.*)
TypeAt(specs, k) == 18 + (k - 1) * (IF 30 \in specs THEN 13 ELSE 7) + 3

(* wTotalLength is the gadget's, which counts no companions; the host asks *)
(* for no more than that.                                                  *)
Whole(desc) == {k \in DOMAIN desc.sizes : TypeAt(desc.specs, k) + 4 <= 18 + 7 * Len(gadget)}
Sent(desc)  == [k \in Whole(desc) |-> desc.sizes[k]]

Ep(num, in, maxpkt) == [num |-> num, in |-> in, maxpkt |-> maxpkt]

(* udc_update_ep_desc: the types are looked for where the descriptor of    *)
(* the 3.0 configuration has them.                                         *)
EpBulkIndexes == {21, 34}
Patched(desc, size) ==
  Descriptor(desc.tag, desc.specs,
             [k \in DOMAIN desc.sizes |->
               IF TypeAt(desc.specs, k) \in EpBulkIndexes THEN size ELSE desc.sizes[k]])
(* Broken on purpose: the endpoints keep the size they were made with.     *)
UpdateEpDescBug(u, size) ==
  [u EXCEPT !.desc_list = [i \in DOMAIN @ |-> Patched(@[i], size)]]
UpdateEpDesc(u, size) ==
  [u EXCEPT !.desc_list = [i \in DOMAIN @ |-> Patched(@[i], size)],
            !.ept_list = [i \in DOMAIN @ |-> Ep(@[i].num, @[i].in, size)]]

-----------------------------------------------------------------------------
(* Starting.                                                               *)

Addresses(u) == {<<e.num, e.in>> : e \in ToSet(u.ept_list)}

(* The first number that is free in this direction; 0 stands for none.     *)
EndpointAllocRaw(u, in) ==
  LET free == {n \in 1..15 : <<n, in>> \notin Addresses(u)}
  IN  IF free = {} THEN [u EXCEPT !.failed = TRUE]
      ELSE LET n == CHOOSE m \in free : \A o \in free : m <= o
           IN  [u EXCEPT !.ept_list = <<Ep(n, in, 512)>> \o @]

Nobody == [desc_list |-> <<>>, ept_list |-> <<>>, gadget |-> FALSE, config |-> 0, speed |-> "none",
           test |-> FALSE, failed |-> FALSE, lost |-> FALSE]

(* The newer controller's state is made anew on every start; the older    *)
(* one's variables stay, its memory for queue heads is new.                *)
UdcInit(u) ==
  IF controller = "dwc"
    THEN LET language == Register(Nobody, "language", {20, 30}, <<>>)
             devices  == Register(Register(language, "device", {20}, <<>>), "device", {30}, <<>>)
         IN  Register(devices, "bos", {30}, <<>>)
    ELSE Register([u EXCEPT !.ept_list = <<Ep(0, TRUE, 64), Ep(0, FALSE, 64)>> \o @],
                  "language", {20, 30}, <<>>)

(* Only one gadget is supported.                                           *)
RegisterGadget(u) ==
  IF u.gadget THEN [u EXCEPT !.failed = TRUE]
  ELSE LET v == [u EXCEPT !.gadget = TRUE]
       IN  IF controller = "dwc"
             THEN Registered512(Registered512(v, "config", {20}), "config", {30})
             ELSE v

UdcStart(u) ==
  IF controller = "dwc" THEN u ELSE Registered512(Register(u, "device", {20}, <<>>), "config", {20})

(* What failed is cleaned up by udc_endpoint_free, which nothing assigns:  *)
(* the call goes through NULL.                                             *)
(* After the first k endpoints of the gadget.                              *)
EndpointsAlloc(u) ==
  LET alloc[k \in 0..Len(gadget)] ==
        IF k = 0 THEN u ELSE EndpointAllocRaw(alloc[k - 1], gadget[k][2])
  IN  alloc
Lost(u) == [u EXCEPT !.lost = TRUE]
UsbInit(u) ==
  LET allocated  == EndpointsAlloc(UdcInit(u))[Len(gadget)]
      registered == RegisterGadget(allocated)
  IN  IF allocated.failed THEN Lost(allocated)
      ELSE IF registered.failed THEN Lost(registered) ELSE UdcStart(registered)

Idle == [at |-> "off", speed |-> "none", sizes |-> <<>>, configured |-> FALSE, asks |-> "none"]

(* Two endpoints at least with the older controller, which writes to two   *)
(* endpoint descriptors whether they are there or not.                     *)
UsbSetupInit ==
  /\ controller \in Controllers /\ gadget \in Gadgets
  /\ controller = "ci" => Len(gadget) >= 2
  /\ udc = UsbInit(Nobody)
  /\ armed = [a \in (1..15) \X BOOLEAN |-> 0]
  /\ peer = Idle /\ irqs = <<>>

(* A second start: the host sees the device go.                            *)
PeriphStart ==
  /\ ~udc.lost
  /\ udc' = UsbInit(udc)
  /\ armed' = [a \in DOMAIN armed |-> 0]
  /\ peer' = Idle /\ irqs' = <<>>
  /\ UNCHANGED <<controller, gadget>>

-----------------------------------------------------------------------------
(* Standard requests: the state that results, the endpoints enabled and    *)
(* the answer.                                                             *)

Answer(u, a, what, sizes) == [udc |-> u, armed |-> a, what |-> what, sizes |-> sizes]
Data(u, sizes) == Answer(u, armed, "data", sizes)
Ack(u, a) == Answer(u, a, "ack", <<>>)
Refuse(u) == Answer(u, armed, "stall", <<>>)

(* The older controller's configuration is patched when it is asked for:   *)
(* its first two endpoints, the others keep what they were made with.      *)
FirstTwo(sizes, size) == [k \in DOMAIN sizes |-> IF k <= 2 THEN size ELSE sizes[k]]

(* The first of the list that fits the tag, and the speed.                 *)
GetDescriptor(u, tag) ==
  LET spec == IF controller = "dwc" /\ u.speed = "SS" THEN 30 ELSE 20
      fits == {i \in DOMAIN u.desc_list : u.desc_list[i].tag = tag /\ spec \in u.desc_list[i].specs}
      desc == u.desc_list[CHOOSE i \in fits : \A j \in fits : i <= j]
      size == IF u.speed = "HS" THEN 512 ELSE 64
  IN  IF fits = {} THEN Refuse(u)
      ELSE IF controller = "ci" THEN Data(u, FirstTwo(desc.sizes, size))
      ELSE Data(u, Sent(desc))

(* dwc_device_add_ep and dwc_device_set_configuration; endpoint_enable.    *)
Enabled(u) ==
  [a \in DOMAIN armed |->
    IF a \notin Addresses(u) THEN armed[a]
    ELSE IF controller = "dwc" THEN (CHOOSE e \in ToSet(u.ept_list) : <<e.num, e.in>> = a).maxpkt
    ELSE IF u.speed = "HS" THEN 512 ELSE 64]
Unconfigured == [a \in DOMAIN armed |-> IF controller = "ci" /\ a[1] = 1 THEN 0 ELSE armed[a]]

(* A device that is deconfigured keeps its endpoints with the newer        *)
(* controller.                                                             *)
SetConfiguration(u, value) ==
  Ack([u EXCEPT !.config = value], IF value = 1 THEN Enabled(u) ELSE Unconfigured)

(* A halt is cleared with a command to the newer controller, the endpoint  *)
(* is enabled again with the older one.                                    *)
ClearHalt(u) == Ack(u, IF controller = "dwc" THEN armed ELSE Enabled(u))

Respond(u, request) ==
  CASE request \in {"device", "config", "bos", "language", "string"} -> GetDescriptor(u, request)
    [] request \in {"get_status", "get_config"} -> Data(u, <<>>)
    [] request = "set_config" -> SetConfiguration(u, 1)
    [] request = "deconfigure" -> SetConfiguration(u, 0)
    [] request = "set_address" -> Ack(u, armed)
    [] request = "clear_halt" -> ClearHalt(u)
    [] request = "test_mode" -> IF controller = "ci" THEN Ack([u EXCEPT !.test = TRUE], armed) ELSE Refuse(u)
    [] request = "set_sel" -> IF controller = "dwc" THEN Ack(u, armed) ELSE Refuse(u)
    [] OTHER -> Refuse(u)

(* The host takes an answer as what it asked for.                          *)
Hears(answer) ==
  [peer EXCEPT !.asks = "none",
     !.sizes = IF peer.asks = "config" /\ answer.what = "data" THEN answer.sizes ELSE @,
     !.configured = IF answer.what = "ack" /\ peer.asks \in {"set_config", "deconfigure"}
                    THEN peer.asks = "set_config" ELSE @]

Setup(u) ==
  LET answer == Respond(u, peer.asks)
  IN  /\ udc' = answer.udc /\ armed' = answer.armed /\ peer' = Hears(answer)

-----------------------------------------------------------------------------
(* Interrupts.                                                             *)

(* udc_dwc_notify, from the events in the order they were raised.          *)
SpeedOf(speed) == CASE speed = "FS" -> 64 [] speed = "HS" -> 512 [] speed = "SS" -> 1024
Offline(u)     == [u EXCEPT !.config = 0]
ConnectDone(u) == UpdateEpDesc([u EXCEPT !.speed = peer.speed], SpeedOf(peer.speed))

DwcEvent ==
  /\ controller = "dwc" /\ irqs # <<>>
  /\ irqs' = Tail(irqs)
  /\ \/ Head(irqs) \in {"reset", "disconnect"} /\ udc' = Offline(udc) /\ UNCHANGED <<armed, peer>>
     \/ Head(irqs) = "connect" /\ udc' = ConnectDone(udc) /\ UNCHANGED <<armed, peer>>
     \/ Head(irqs) = "setup" /\ Setup(udc)
  /\ UNCHANGED <<controller, gadget>>

(* udc_interrupt takes what it finds in one go: the reset, which drops a   *)
(* setup that came after it, then the speed, then the setup.               *)
Raised(i) == Contains(irqs, i)
PortChange(u) ==
  IF Raised("connect") THEN [u EXCEPT !.speed = IF peer.speed = "HS" THEN "HS" ELSE "none"] ELSE u
CiReset ==
  /\ udc' = PortChange(Offline(udc)) /\ armed' = Unconfigured
  /\ peer' = [peer EXCEPT !.asks = "none"]
CiInterrupt ==
  /\ controller = "ci" /\ irqs # <<>>
  /\ irqs' = <<>>
  /\ \/ Raised("reset") /\ CiReset
     \/ ~Raised("reset") /\ Raised("setup") /\ Setup(PortChange(udc))
     \/ ~Raised("reset") /\ ~Raised("setup") /\ udc' = PortChange(udc) /\ UNCHANGED <<armed, peer>>
  /\ UNCHANGED <<controller, gadget>>

-----------------------------------------------------------------------------
(* The host.                                                               *)

(* A setup is the last that was raised: the host asks one thing at a time. *)
Irqs(is)     == irqs' = is /\ UNCHANGED <<controller, gadget, udc, armed>>
WithoutSetup == IF Raised("setup") THEN Front(irqs) ELSE irqs
CanRaise     == ~udc.lost /\ Len(irqs) < MaxPending

HostReset ==
  /\ CanRaise /\ peer.at # "reset"
  /\ peer' = [Idle EXCEPT !.at = "reset", !.speed = peer.speed]
  /\ Irqs(Append(WithoutSetup, "reset"))

HostConnects(speed) ==
  /\ CanRaise /\ peer.at = "reset"
  /\ controller = "ci" => speed # "SS"
  /\ peer' = [Idle EXCEPT !.at = "up", !.speed = speed]
  /\ Irqs(Append(irqs, "connect"))

(* The older controller tells of a cable pulled only by a suspend.         *)
HostLeaves ==
  /\ CanRaise /\ peer.at = "up"
  /\ peer' = [Idle EXCEPT !.speed = peer.speed]
  /\ Irqs(IF controller = "dwc" THEN Append(WithoutSetup, "disconnect") ELSE WithoutSetup)

Requests == {"device", "config", "bos", "language", "string", "get_status", "get_config", "set_config",
             "deconfigure", "set_address", "clear_halt", "test_mode", "set_sel", "set_interface"}
HostAsks(request) ==
  /\ CanRaise /\ peer.at = "up" /\ peer.asks = "none"
  /\ request = "set_config" => peer.sizes # <<>>
  /\ request \in {"clear_halt", "deconfigure"} => peer.configured
  /\ peer' = [peer EXCEPT !.asks = request]
  /\ Irqs(Append(irqs, "setup"))

-----------------------------------------------------------------------------
UsbSetupNext ==
  \/ PeriphStart
  \/ DwcEvent
  \/ CiInterrupt
  \/ HostReset
  \/ \E speed \in {"FS", "HS", "SS"} : HostConnects(speed)
  \/ HostLeaves
  \/ \E request \in Requests : HostAsks(request)

UsbSetupSpec == UsbSetupInit /\ [][UsbSetupNext]_setupVars

-----------------------------------------------------------------------------
(* Of which endpoints the host is told the size of the speed: of all, or   *)
(* none, with the newer controller; at full speed of the first two with    *)
(* the older one.                                                          *)
SpeedIsTold(k, speed) ==
  IF controller = "dwc" THEN speed # "FS" ELSE speed = "HS" \/ k <= 2
IsSetUp == peer.configured /\ peer.asks = "none"

(* The host sends packets of the size it read to the endpoints it read of, *)
(* and these are enabled with that size, after any number of resets,       *)
(* changes of speed and starts of the gadget, where it is told the size of *)
(* its speed (udc_update_ep_desc, GET_DESCRIPTOR of hsusb.c,               *)
(* endpoint_enable, udc_endpoint_alloc_raw).                               *)
EndpointsAreAsDescribed ==
  IsSetUp => \A k \in DOMAIN peer.sizes :
               SpeedIsTold(k, peer.speed) => armed[gadget[k]] = peer.sizes[k]
=============================================================================
