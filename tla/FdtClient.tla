------------------------------ MODULE FdtClient ------------------------------
(***************************************************************************)
(* The device tree (FdtClientDxe.c) and the two drivers that find their    *)
(* devices in it when they start: the keys (FdtKeypadDeviceImplLib.c) and  *)
(* the I2C busses (FdtQcomPlatformI2cQupLib.c).                            *)
(*   A tree is the sequence of its nodes in the order of their offsets,    *)
(* each [depth, compatible, ok, props]: a property is <<name, cells>>.     *)
(* Node 1 is the root.                                                     *)
(***************************************************************************)
EXTENDS Integers, Sequences, FiniteSets, Functions

CONSTANT Trees

VARIABLE fdt
  (* tree, and for the walk: pc, the compatible string, node, sub; what     *)
  (* the drivers made of it: keys (code -> [type, gpio, low, pon, valid]),  *)
  (* busses (in the order they were registered), pins (pin -> its settings) *)
fdtVars == <<fdt>>

-----------------------------------------------------------------------------
(* libfdt: what follows, or comes first, below or around a node; 0 if none. *)
LeastOr0(S) == IF S = {} THEN 0 ELSE CHOOSE x \in S : \A y \in S : x <= y
NextNode(t, n) == LeastOr0({m \in DOMAIN t : m = n + 1})
FirstSubnode(t, n) == LeastOr0({m \in DOMAIN t : m = n + 1 /\ t[m].depth = t[n].depth + 1})
NextSubnode(t, n) ==
  LeastOr0({m \in DOMAIN t : m > n /\ t[m].depth = t[n].depth
                             /\ \A k \in (n + 1)..m : t[k].depth >= t[n].depth})
ParentNode(t, n) ==
  LET up == {m \in DOMAIN t : m < n /\ t[m].depth < t[n].depth}
  IN  CHOOSE m \in up : \A k \in up : k <= m

(* GetNodeProperty, HasNodeProperty.                                       *)
HasNodeProperty(t, n, name) == \E p \in t[n].props : p[1] = name
NodeProperty(t, n, name) == (CHOOSE p \in t[n].props : p[1] = name)[2]
Sized(t, n, name, cells) ==
  HasNodeProperty(t, n, name) /\ Len(NodeProperty(t, n, name)) = cells

(* FindNextCompatibleNode: never the root; nodes that are disabled do not   *)
(* count, nor does it matter which of its compatible strings matches.      *)
CompatibleBug(t, n, s) == s \in {t[n].compatible[i] : i \in DOMAIN t[n].compatible}

Compatible(t, n, s) == t[n].ok /\ \E i \in DOMAIN t[n].compatible : t[n].compatible[i] = s
FindNextCompatibleNodeBug(t, prev, s) ==
  LeastOr0({m \in DOMAIN t : m >= prev /\ Compatible(t, m, s)})

FindNextCompatibleNode(t, prev, s) ==
  LeastOr0({m \in DOMAIN t : m > prev /\ Compatible(t, m, s)})

FindNodeByPHandle(t, value) ==
  LeastOr0({m \in DOMAIN t \ {1} :
     \/ Sized(t, m, "linux,phandle", 1) /\ NodeProperty(t, m, "linux,phandle") = <<value>>
     \/ /\ ~Sized(t, m, "linux,phandle", 1)
        /\ Sized(t, m, "phandle", 1) /\ NodeProperty(t, m, "phandle") = <<value>>})

(* FindAliasForNode: an alias holds the path of a node.                    *)
FindAliasForNode(t, n) == IF HasNodeProperty(t, n, "alias") THEN NodeProperty(t, n, "alias")[1]
                          ELSE -1
-----------------------------------------------------------------------------
Keys  == {114, 115, 116}
GpioKeysNode == "gpio-keys"          \* what the three loops look for
PonNode      == "qcom,qpnp-power-on"
I2cNode      == "qcom,i2c-msm-v2"
NoKey == [type |-> "unknown", gpio |-> 0, low |-> FALSE, pon |-> 0, valid |-> FALSE]

FdtInit ==
  \E t \in Trees :
    fdt = [tree |-> t, pc |-> "next", string |-> GpioKeysNode, node |-> 1, sub |-> 0,
           keys |-> [k \in Keys |-> NoKey], busses |-> <<>>, pins |-> <<>>]

(* The three loops, one after the other.                                   *)
After(s) == CASE s = GpioKeysNode -> PonNode
              [] s = PonNode      -> I2cNode
              [] OTHER            -> "done"

(* FindCompatibleNode and FindNextCompatibleNode of a loop.                *)
FindNext ==
  /\ fdt.pc = "next" /\ fdt.string # "done"
  /\ LET n == FindNextCompatibleNode(fdt.tree, fdt.node, fdt.string)
     IN  fdt' = IF n = 0 THEN [fdt EXCEPT !.string = After(@), !.node = 1]
                ELSE [fdt EXCEPT !.node = n,
                        !.pc = IF fdt.string = I2cNode THEN "bus" ELSE "first"]

(* FindSubNode and FindNextSubNode start again from the same node when the *)
(* one they come to is disabled.                                           *)
ComesTo(m) ==
  fdt' = IF m = 0 THEN [fdt EXCEPT !.pc = "next"]
         ELSE IF fdt.tree[m].ok THEN [fdt EXCEPT !.sub = m, !.pc = "key"]
         ELSE fdt
FindSubNode     == fdt.pc = "first" /\ ComesTo(FirstSubnode(fdt.tree, fdt.node))
FindNextSubNode == fdt.pc = "sibling" /\ ComesTo(NextSubnode(fdt.tree, fdt.sub))

(* The subnode the search comes to again and again.                        *)
AtDisabledSubnode ==
  LET m == IF fdt.pc = "first" THEN FirstSubnode(fdt.tree, fdt.node)
           ELSE NextSubnode(fdt.tree, fdt.sub)
  IN  fdt.pc \in {"first", "sibling"} /\ m # 0 /\ ~fdt.tree[m].ok

(* KeypadDeviceImplConstructor: what a subnode says of a key.  The number  *)
(* of the GPIO (a UINT8) and its polarity are stored before its controller *)
(* is looked up, and stay when that is refused.                            *)
HasGpios(t, n) == HasNodeProperty(t, n, "gpios") /\ Len(NodeProperty(t, n, "gpios")) >= 3
GpioType(t, n) ==
  IF n = 0 \/ t[n].compatible = <<>> THEN "unknown"
  ELSE CASE t[n].compatible[1] = "qcom,msm-gpio" -> "TLMM"
         [] t[n].compatible[1] = "qcom,qpnp-pin" -> "PM8X41"
         [] OTHER -> "unknown"
GpioKey(t, n, key) ==
  IF ~HasGpios(t, n) THEN key
  ELSE LET g    == NodeProperty(t, n, "gpios")
           type == GpioType(t, FindNodeByPHandle(t, g[1]))
           new  == [key EXCEPT !.gpio = g[2] % 256, !.low = g[3] % 2 = 1]
       IN  IF type = "unknown" THEN new ELSE [new EXCEPT !.type = type, !.valid = TRUE]
HasPonType(t, n) == Sized(t, n, "qcom,pon-type", 1)
PonType(t, n)    == NodeProperty(t, n, "qcom,pon-type")[1]
PonKey(t, n, key) ==
  IF ~HasPonType(t, n) THEN key
  ELSE [key EXCEPT !.type = "PON", !.pon = PonType(t, n), !.valid = TRUE]
KeyCode(t, n) ==
  IF Sized(t, n, "linux,code", 1) THEN NodeProperty(t, n, "linux,code")[1] ELSE 0

ReadKey ==
  /\ fdt.pc = "key"
  /\ LET t    == fdt.tree
         code == KeyCode(t, fdt.sub)
     IN  fdt' = IF code \notin Keys THEN [fdt EXCEPT !.pc = "sibling"]
                ELSE [fdt EXCEPT !.pc = "sibling",
                        !.keys[code] = IF fdt.string = GpioKeysNode THEN GpioKey(t, fdt.sub, @)
                                       ELSE PonKey(t, fdt.sub, @)]

(* LibQcomPlatformI2cQupAddBusses: the pins of a bus, then the bus.  The   *)
(* drive strength is also what the pull is set to.                         *)
PinCells(t, parent) ==
  LET n == NodeProperty(t, parent, "qcom,num-grp-pins")[1]
  IN  {NodeProperty(t, parent, "qcom,pins")[2 * j] : j \in 1..n}
PinsComplete(t, n) ==
  /\ n # 0 /\ Sized(t, n, "drive-strength", 1)
  /\ LET p == ParentNode(t, n)
     IN  /\ Sized(t, p, "qcom,pin-func", 1) /\ Sized(t, p, "qcom,num-grp-pins", 1)
         /\ HasNodeProperty(t, p, "qcom,pins")
         /\ Len(NodeProperty(t, p, "qcom,pins"))
              >= 2 * NodeProperty(t, p, "qcom,num-grp-pins")[1]
PinSettings(t, n, pins) ==
  LET p     == ParentNode(t, n)
      drive == NodeProperty(t, n, "drive-strength")[1]
      pull  == \E b \in {"bias-disable", "bias-bus-hold", "bias-pull-up", "bias-pull-down"} :
                 HasNodeProperty(t, n, b)
  IN  [x \in PinCells(t, p) \cup DOMAIN pins |->
         IF x \notin PinCells(t, p) THEN pins[x]
         ELSE [function |-> NodeProperty(t, p, "qcom,pin-func")[1], drive |-> drive,
               pull |-> IF pull THEN drive ELSE IF x \in DOMAIN pins THEN pins[x].pull ELSE 0]]
ConfigurePins(t, handles) ==
  LET done[i \in 0..Len(handles)] ==
        IF i = 0 THEN fdt.pins
        ELSE LET n == FindNodeByPHandle(t, handles[i])
             IN  IF PinsComplete(t, n) THEN PinSettings(t, n, done[i - 1]) ELSE done[i - 1]
  IN  done[Len(handles)]

Required == <<<<"reg", 2>>, <<"interrupts", 3>>, <<"qcom,clk-freq-out", 1>>,
              <<"qcom,clk-freq-in", 1>>>>
BusDescribed(t, n) ==
  /\ \A i \in DOMAIN Required : Sized(t, n, Required[i][1], Required[i][2])
  /\ HasNodeProperty(t, n, "pinctrl-0")
BusBase(t, n) == NodeProperty(t, n, "reg")[1]
BusOf(t, n)   == [id |-> FindAliasForNode(t, n), base |-> BusBase(t, n),
                  irq |-> NodeProperty(t, n, "interrupts")[2]]
BusPins(t, n) == NodeProperty(t, n, "pinctrl-0")

(* The clocks may be missing, and so may memory for the device.            *)
AddBus ==
  /\ fdt.pc = "bus"
  /\ LET t == fdt.tree
         n == fdt.node
         set == [fdt EXCEPT !.pc = "next", !.pins = ConfigurePins(t, BusPins(t, n))]
     IN  IF ~BusDescribed(t, n) THEN fdt' = [fdt EXCEPT !.pc = "next"]
         ELSE fdt' \in {set, [set EXCEPT !.busses = Append(@, BusOf(t, n))]}

FdtNext == FindNext \/ FindSubNode \/ FindNextSubNode \/ ReadKey \/ AddBus

(* The boards' trees: nodes in the order of a walk, the root none of the   *)
(* devices that are looked for, a device of keys not inside another, and   *)
(* busses at addresses of their own.                                       *)
TreeNodes == [depth : Nat, compatible : Seq(STRING), ok : BOOLEAN,
              props : SUBSET (STRING \X Seq(Int))]
InOrder(t) == /\ t[1].depth = 0
              /\ \A n \in 2..Len(t) : t[n].depth \in 1..(t[n - 1].depth + 1)
Apart(t, s) == \A m, n \in DOMAIN t : m < n /\ Compatible(t, m, s) /\ Compatible(t, n, s) =>
                 \E k \in (m + 1)..n : t[k].depth <= t[m].depth
Busses(t) == {n \in DOMAIN t : Compatible(t, n, I2cNode) /\ BusDescribed(t, n)}
ASSUME TreesAssumption ==
  \A t \in Trees :
    /\ t \in Seq(TreeNodes) \ {<<>>} /\ InOrder(t)
    /\ \A s \in {GpioKeysNode, PonNode} : ~Compatible(t, 1, s) /\ Apart(t, s)
    /\ \A m, n \in Busses(t) : BusBase(t, m) = BusBase(t, n) => m = n

FdtSpec == FdtInit /\ [][FdtNext]_fdtVars /\ WF_fdtVars(FdtNext)

-----------------------------------------------------------------------------
(* The drivers find what the tree says.  A key is valid if an enabled      *)
(* subnode of an enabled node describes it; it is read from a PON if one   *)
(* of those is of a PON node, as the last such one says, else from the     *)
(* controller that the last one names.  Its GPIO and polarity are those of *)
(* the last subnode with a "gpios" for it even if that one was refused,    *)
(* which for a key that was valid before may be another pin than its       *)
(* controller's (FdtKeypadDeviceImplLib.c, 111-131): the property says     *)
(* where they come from, not that they fit.  The pins a bus needs are set  *)
(* before the bus is there; only enabled busses are there, each once and   *)
(* in the order of their nodes.                                            *)
Belongs(t, n, s, code) ==
  LET up == t[ParentNode(t, n)]
  IN  /\ n > 1 /\ t[n].ok /\ up.ok /\ s \in Range(up.compatible)
      /\ KeyCode(t, n) = code
Describes(t, n, s, code) ==
  /\ Belongs(t, n, s, code)
  /\ IF s = GpioKeysNode THEN GpioKey(t, n, NoKey).valid ELSE PonKey(t, n, NoKey).valid
Names(t, n, code) == Belongs(t, n, GpioKeysNode, code) /\ HasGpios(t, n)

Latest(S) == CHOOSE x \in S : \A y \in S : y <= x
(* The key as the subnodes that describe it, and those that name a GPIO,   *)
(* make it.                                                                *)
KeySays(key, t, gpio, pon, named) ==
  /\ key.valid <=> gpio \cup pon # {}
  /\ pon # {} => key.type = "PON" /\ key.pon = PonKey(t, Latest(pon), NoKey).pon
  /\ pon = {} /\ gpio # {} => key.type = GpioKey(t, Latest(gpio), NoKey).type
  /\ LET last == IF named = {} THEN NoKey ELSE GpioKey(t, Latest(named), NoKey)
     IN  key.gpio = last.gpio /\ key.low = last.low
KeysAreTheTrees ==
  LET t == fdt.tree
      Of(s, code) == {n \in 2..Len(t) : Describes(t, n, s, code)}
  IN  fdt.string = "done" =>
        \A code \in Keys :
          KeySays(fdt.keys[code], t, Of(GpioKeysNode, code), Of(PonNode, code),
                  {n \in 2..Len(t) : Names(t, n, code)})

BussesAt(t, b) == {n \in DOMAIN t : /\ t[n].ok /\ I2cNode \in Range(t[n].compatible)
                                    /\ BusDescribed(t, n) /\ BusBase(t, n) = b.base}
PinsAreSet(t, n) ==
  \A k \in DOMAIN BusPins(t, n) :
    LET pin == FindNodeByPHandle(t, BusPins(t, n)[k])
    IN  PinsComplete(t, pin) => PinCells(t, ParentNode(t, pin)) \subseteq DOMAIN fdt.pins
BussesAreTheTrees ==
  \A i \in DOMAIN fdt.busses :
    /\ Cardinality(BussesAt(fdt.tree, fdt.busses[i])) = 1
    /\ \A j \in DOMAIN fdt.busses : i < j =>
         \A m \in BussesAt(fdt.tree, fdt.busses[i]), n \in BussesAt(fdt.tree, fdt.busses[j]) : m < n
    /\ \A n \in BussesAt(fdt.tree, fdt.busses[i]) : PinsAreSet(fdt.tree, n)

DevicesAreTheTrees == KeysAreTheTrees /\ BussesAreTheTrees
=============================================================================
