---------------------------- MODULE OutsideProofs ----------------------------
(***************************************************************************)
(* The parts that face a user or a host.  A gadget's endpoints are what    *)
(* its descriptors say.  The ring buffer of the keypad driver is a bounded *)
(* queue, whatever its size and whichever keys are typed; the device below *)
(* it answers every press and repeats a held key no faster than it should. *)
(***************************************************************************)
EXTENDS UsbSetup, Keypad, KeyStatus, WellFoundedInduction, SequenceTheorems, TLAPS

-----------------------------------------------------------------------------
(* The start of a gadget and its enumeration.                              *)

(* A set of naturals has a least element.                                  *)
LEMMA LeastNatural ==
  ASSUME NEW T, T \subseteq Nat, T # {}
  PROVE  \E x \in T : \A y \in T : x <= y
<1>1. IsWellFoundedOn(OpToRel(<, Nat), Nat)
  BY NatLessThanWellFounded
<1>2. PICK x \in T : \A y \in T : ~ (<<y, x>> \in OpToRel(<, Nat))
  BY <1>1, WFMin
<1>3. \A y \in T : ~(y < x)
  BY <1>2 DEF OpToRel
<1> QED
  BY <1>3

(* Hence induction, for a property given as the set of what has it.        *)
LEMMA UpToN ==
  ASSUME NEW N \in Nat, NEW T, 0 \in T,
         \A m \in 1..N : m - 1 \in T => m \in T
  PROVE  0..N \subseteq T
<1> DEFINE Bad == (0..N) \ T
<1>1. SUFFICES ASSUME Bad # {} PROVE FALSE
  OBVIOUS
<1>2. PICK m \in Bad : \A k \in Bad : m <= k
  <2>1. Bad \subseteq Nat
    OBVIOUS
  <2> HIDE DEF Bad
  <2> QED
    BY <1>1, <2>1, LeastNatural
<1>3. m \in 1..N /\ m - 1 \in 0..N /\ ~(m <= m - 1)
  BY <1>2
<1>4. m - 1 \in T
  BY <1>2, <1>3
<1> QED
  BY <1>2, <1>3, <1>4

-----------------------------------------------------------------------------
(* What the parts of the state are.                                        *)
Ends   == 1..Len(gadget)
Tags   == {"language", "device", "config", "bos"}
Speeds == {"none", "FS", "HS", "SS"}
Sizes  == UNION {[D -> Nat] : D \in SUBSET Ends}
Descs  == {d \in [tag : Tags, specs : SUBSET {20, 30}, sizes : Sizes] :
             d.tag = "config" => d.sizes \in [Ends -> Nat] /\ d.specs \in {{20}, {30}}}
Epts   == [num : 0..15, in : BOOLEAN, maxpkt : Nat]
Udcs   == [desc_list : Seq(Descs), ept_list : Seq(Epts), gadget : BOOLEAN, config : 0..1,
           speed : Speeds, test : BOOLEAN, failed : BOOLEAN, lost : BOOLEAN]
Peers  == [at : {"off", "reset", "up"}, speed : Speeds, sizes : Sizes, configured : BOOLEAN,
           asks : Requests \cup {"none"}]
Irqs4  == {"reset", "connect", "disconnect", "setup"}
Addrs  == (1..15) \X BOOLEAN

SetupTypes ==
  /\ controller \in Controllers /\ gadget \in Gadgets
  /\ udc \in Udcs /\ armed \in [Addrs -> Nat] /\ peer \in Peers /\ irqs \in Seq(Irqs4)

(* The packet size of an endpoint at a speed.                              *)
PacketSize(speed) ==
  IF controller = "ci" THEN IF speed = "HS" THEN 512 ELSE 64 ELSE SpeedOf(speed)

(* The sizes that a configuration has at a speed, as far as they are sent  *)
(* at it; a 2.0 configuration is patched at its first endpoint.            *)
FitsSpeed(d, speed) ==
  d.tag = "config" =>
    /\ d.specs = {20} => \A k \in Ends : (k # 1 \/ speed = "HS") => d.sizes[k] = 512
    /\ d.specs = {30} /\ speed = "SS" => \A k \in Ends : k <= 2 => d.sizes[k] = 1024

(* The gadget's endpoints exist, and with the newer controller what is     *)
(* kept of them fits the speed last seen; the older one keeps them as they *)
(* were made.                                                              *)
Ready(u) ==
  /\ \A k \in Ends : gadget[k] \in Addresses(u)
  /\ controller = "dwc" =>
       /\ \A i \in DOMAIN u.desc_list : FitsSpeed(u.desc_list[i], u.speed)
       /\ u.speed # "none" => \A i \in DOMAIN u.ept_list : u.ept_list[i].maxpkt = SpeedOf(u.speed)
  /\ controller = "ci" =>
       u.gadget /\ \A i \in DOMAIN u.desc_list : FitsSpeed(u.desc_list[i], "none")

SetupIsLast ==
  \A i \in DOMAIN irqs :
    irqs[i] = "setup" => i = Len(irqs) /\ peer.at = "up" /\ peer.asks # "none"
(* What a controller keeps of a speed.                                     *)
SeenAs(speed) == IF controller = "dwc" \/ speed = "HS" THEN speed ELSE "none"
SpeedIsComing ==
  /\ peer.at = "up" \/ Raised("connect") => peer.speed # "none"
  /\ peer.at = "up" => Raised("connect") \/ udc.speed = SeenAs(peer.speed)
(* What the host knows is of the speed it has.                             *)
Knows == DOMAIN peer.sizes # {} \/ peer.configured
KnowledgeIsCurrent ==
  Knows => peer.at = "up" /\ ~Raised("connect") /\ (controller = "ci" => ~Raised("reset"))
SizesAreTrue ==
  \A k \in DOMAIN peer.sizes :
    SpeedIsTold(k, udc.speed) => peer.sizes[k] = PacketSize(udc.speed)
ArmedAsConfigured ==
  peer.configured => \A k \in Ends : armed[gadget[k]] = PacketSize(udc.speed)

SetupInv ==
  /\ SetupTypes
  /\ udc.lost => irqs = <<>> /\ peer.at = "off"
  /\ ~udc.lost => Ready(udc)
  /\ SetupIsLast /\ SpeedIsComing /\ KnowledgeIsCurrent /\ SizesAreTrue /\ ArmedAsConfigured

-----------------------------------------------------------------------------
(* A gadget of these has one to four endpoints, with addresses.            *)
LEMMA GadgetIs ==
  ASSUME gadget \in Gadgets
  PROVE  /\ gadget \in Seq(Addrs) /\ Len(gadget) \in 1..4 /\ DOMAIN gadget = Ends
         /\ \A k \in Ends : gadget[k] \in Addrs /\ gadget[k][1] \in 1..15 /\ gadget[k][2] \in BOOLEAN
                            /\ gadget[k] = <<gadget[k][1], gadget[k][2]>>
         /\ WellNumbered(gadget)
<1>1. gadget \in Seq(Addrs) /\ Len(gadget) \in 1..4 /\ WellNumbered(gadget)
  BY UsbSetupAssumption DEF UsbSetupAssumption, Addrs
<1> QED
  BY <1>1 DEF Ends, Addrs

LEMMA EmptySizes == <<>> \in Sizes /\ DOMAIN <<>> = {}
<1>1. <<>> \in [{} -> Nat] /\ DOMAIN <<>> = {}
  OBVIOUS
<1> QED
  BY <1>1 DEF Sizes

(* The same descriptors and endpoints but for what is allocated.           *)
SameBut(v, u) ==
  /\ v.desc_list = u.desc_list /\ v.gadget = u.gadget /\ v.config = u.config
  /\ v.speed = u.speed /\ v.test = u.test /\ v.lost = u.lost

(* A descriptor added in front.                                            *)
AllFit(u) == \A i \in DOMAIN u.desc_list : FitsSpeed(u.desc_list[i], u.speed)
LEMMA RegisterAdds ==
  ASSUME NEW u \in Udcs, NEW tag, NEW specs, NEW sizes, Descriptor(tag, specs, sizes) \in Descs
  PROVE  LET v == Register(u, tag, specs, sizes)
         IN  /\ v \in Udcs
             /\ AllFit(u) /\ FitsSpeed(Descriptor(tag, specs, sizes), u.speed) => AllFit(v)
             /\ v.ept_list = u.ept_list /\ v.gadget = u.gadget /\ v.config = u.config
             /\ v.speed = u.speed /\ v.test = u.test /\ v.failed = u.failed /\ v.lost = u.lost
<1> DEFINE d == Descriptor(tag, specs, sizes)
           old == u.desc_list
           l == <<d>> \o old
<1>1. d \in Descs /\ old \in Seq(Descs)
  BY DEF Udcs
<1> HIDE DEF d, old
<1>2. /\ l \in Seq(Descs) /\ Len(l) = Len(old) + 1 /\ l[1] = d
      /\ \A i \in 1..Len(old) : l[i + 1] = old[i]
  <2>1. <<d>> \in Seq(Descs)
    BY <1>1
  <2> QED
    BY <1>1, <2>1
<1> HIDE DEF l
<1>3. Register(u, tag, specs, sizes) = [u EXCEPT !.desc_list = l]
  BY DEF Register, l, d, old
<1>4. ASSUME NEW s, \A i \in DOMAIN old : FitsSpeed(old[i], s), FitsSpeed(d, s)
      PROVE  \A i \in DOMAIN l : FitsSpeed(l[i], s)
  <2> TAKE i \in DOMAIN l
  <2>1. i \in 1..Len(l)
    BY <1>2
  <2>2. CASE i = 1
    BY <2>2, <1>2, <1>4
  <2>3. CASE i # 1
    <3>1. i - 1 \in 1..Len(old) /\ l[(i - 1) + 1] = old[i - 1] /\ i - 1 \in DOMAIN old
      BY <1>1, <1>2, <2>1, <2>3
    <3>2. l[i] = old[i - 1]
      BY <3>1, <2>1
    <3> QED
      BY <1>4, <3>1, <3>2
  <2> QED
    BY <2>2, <2>3
<1>5. PICK v : v = [u EXCEPT !.desc_list = l]
  OBVIOUS
<1>6. /\ v \in Udcs /\ v.desc_list = l
      /\ v.ept_list = u.ept_list /\ v.gadget = u.gadget /\ v.config = u.config
      /\ v.speed = u.speed /\ v.test = u.test /\ v.failed = u.failed /\ v.lost = u.lost
  BY <1>2, <1>5 DEF Udcs
<1>7. AllFit(u) /\ FitsSpeed(d, u.speed) => AllFit(v)
  BY <1>4, <1>6 DEF AllFit, old
<1> QED
  BY <1>3, <1>5, <1>6, <1>7 DEF d

(* What has no endpoints has a size at every speed.                        *)
LEMMA PlainDescriptor ==
  ASSUME NEW tag \in {"language", "device", "bos"}, NEW specs \in SUBSET {20, 30}
  PROVE  Descriptor(tag, specs, <<>>) \in Descs /\ \A s : FitsSpeed(Descriptor(tag, specs, <<>>), s)
BY EmptySizes DEF Descriptor, Descs, Tags, FitsSpeed

(* A configuration as it is made fits no speed, or any 2.0 one.            *)
LEMMA ConfigDescriptor ==
  ASSUME gadget \in Gadgets, NEW specs \in {{20}, {30}}
  PROVE  LET d == Descriptor("config", specs, [k \in DOMAIN gadget |-> 512])
         IN  d \in Descs /\ FitsSpeed(d, "none")
<1>1. DOMAIN gadget = Ends
  BY GadgetIs
<1>2. [k \in Ends |-> 512] \in [Ends -> Nat]
  OBVIOUS
<1>3. [k \in Ends |-> 512] \in Sizes
  BY <1>2 DEF Sizes
<1> QED
  BY <1>1, <1>2, <1>3 DEF Descriptor, Descs, Tags, FitsSpeed

LEMMA AllocatesOne ==
  ASSUME NEW u \in Udcs, NEW in \in BOOLEAN
  PROVE  LET v == EndpointAllocRaw(u, in)
         IN  /\ v \in Udcs /\ SameBut(v, u)
             /\ u.failed => v.failed
             /\ v.failed \/
                  \E n \in 1..15 : /\ <<n, in>> \notin Addresses(u)
                                   /\ \A m \in 1..(n - 1) : <<m, in>> \in Addresses(u)
                                   /\ Addresses(v) = Addresses(u) \cup {<<n, in>>}
<1> DEFINE free == {n \in 1..15 : <<n, in>> \notin Addresses(u)}
           v == EndpointAllocRaw(u, in)
<1>1. CASE free = {}
  BY <1>1 DEF EndpointAllocRaw, Udcs, SameBut
<1>2. CASE free # {}
  <2> DEFINE n == CHOOSE m \in free : \A o \in free : m <= o
  <2>1. n \in free /\ \A o \in free : n <= o
    <3>1. free \subseteq Nat
      OBVIOUS
    <3>2. \E m \in free : \A o \in free : m <= o
      <4> HIDE DEF free
      <4> QED
        BY <1>2, <3>1, LeastNatural
    <3> HIDE DEF free
    <3> QED
      BY <3>2
  <2>2. n \in 1..15 /\ <<n, in>> \notin Addresses(u) /\ \A m \in 1..(n - 1) : <<m, in>> \in Addresses(u)
    <3>1. n \in 1..15 /\ <<n, in>> \notin Addresses(u)
      <4> HIDE DEF n
      <4> QED
        BY <2>1
    <3>2. ASSUME NEW m \in 1..(n - 1), <<m, in>> \notin Addresses(u) PROVE FALSE
      <4> HIDE DEF n
      <4>1. m \in free /\ ~(n <= m)
        BY <3>1, <3>2
      <4> QED
        BY <4>1, <2>1
    <3> HIDE DEF n
    <3> QED
      BY <3>1, <3>2
  <2>3. v = [u EXCEPT !.ept_list = <<Ep(n, in, 512)>> \o @]
    BY <1>2 DEF EndpointAllocRaw
  <2> HIDE DEF n, free
  <2> DEFINE e == Ep(n, in, 512)
             l == <<e>> \o u.ept_list
  <2>4. e \in Epts /\ <<e.num, e.in>> = <<n, in>>
    BY <2>2 DEF Ep, Epts
  <2>5. u.ept_list \in Seq(Epts)
    BY DEF Udcs
  <2> HIDE DEF e
  <2>6. l \in Seq(Epts) /\ ToSet(l) = ToSet(u.ept_list) \cup {e}
    <3> DEFINE old == u.ept_list
    <3>1. old \in Seq(Epts) /\ <<e>> \in Seq(Epts)
      BY <2>4, <2>5
    <3>2. l \in Seq(Epts) /\ Len(l) = Len(old) + 1 /\ l[1] = e /\ \A i \in 1..Len(old) : l[i + 1] = old[i]
      <4> HIDE DEF old
      <4> QED
        BY <3>1 DEF old
    <3> HIDE DEF old, l
    <3>3. ASSUME NEW x \in ToSet(l) PROVE x \in ToSet(old) \cup {e}
      <4>1. PICK i \in 1..Len(l) : x = l[i]
        BY <3>2 DEF ToSet
      <4>2. CASE i = 1
        BY <4>1, <4>2, <3>2
      <4>3. CASE i # 1
        <5>1. i - 1 \in 1..Len(old) /\ l[(i - 1) + 1] = old[i - 1]
          BY <4>1, <4>3, <3>2, <3>1
        <5> QED
          BY <5>1, <4>1, <3>1 DEF ToSet
      <4> QED
        BY <4>2, <4>3
    <3>4. ASSUME NEW x \in ToSet(old) PROVE x \in ToSet(l)
      <4>1. PICK i \in 1..Len(old) : x = old[i]
        BY <3>1 DEF ToSet
      <4>2. i + 1 \in 1..Len(l) /\ l[i + 1] = x
        BY <4>1, <3>1, <3>2
      <4> QED
        BY SMTT(40), <4>2, <3>2 DEF ToSet
    <3>5. e \in ToSet(l)
      <4>1. 1 \in 1..Len(l) /\ DOMAIN l = 1..Len(l)
        BY <3>1, <3>2
      <4> QED
        BY <4>1, <3>2 DEF ToSet
    <3> QED
      BY <3>2, <3>3, <3>4, <3>5 DEF old
  <2>7. v \in Udcs /\ SameBut(v, u) /\ v.ept_list = l /\ (u.failed => v.failed)
    <3>1. v = [u EXCEPT !.ept_list = l]
      BY <2>3 DEF e
    <3> HIDE DEF v, l
    <3> QED
      BY <3>1, <2>6 DEF Udcs, SameBut
  <2> HIDE DEF v, l
  <2>8. Addresses(v) = Addresses(u) \cup {<<n, in>>}
    BY <2>4, <2>6, <2>7 DEF Addresses
  <2> QED
    BY <2>2, <2>7, <2>8 DEF v
<1> QED
  BY <1>1, <1>2

(* The allocation of all: usb_init's loop.                                 *)
LEMMA AllocIsDefined ==
  ASSUME gadget \in Gadgets, NEW u
  PROVE  LET a == EndpointsAlloc(u)
         IN  a[0] = u /\ \A k \in Ends : a[k] = EndpointAllocRaw(a[k - 1], gadget[k][2])
<1> DEFINE N == Len(gadget)
           Is(h, n) == h = [k \in 0..n |-> IF k = 0 THEN u ELSE EndpointAllocRaw(h[k - 1], gadget[k][2])]
           Reached  == {n \in 0..N : \E h : Is(h, n)}
           a == EndpointsAlloc(u)
<1>1. N \in Nat
  BY GadgetIs
<1>2. 0 \in Reached
  <2> DEFINE g == [k \in 0..0 |-> u]
  <2>1. Is(g, 0)
    OBVIOUS
  <2> HIDE DEF Is, g
  <2> QED
    BY <2>1, <1>1
<1>3. ASSUME NEW n \in 1..N, n - 1 \in Reached PROVE n \in Reached
  <2>1. PICK h : Is(h, n - 1)
    BY <1>3
  <2> DEFINE g == [k \in 0..n |-> IF k = n THEN EndpointAllocRaw(h[n - 1], gadget[n][2]) ELSE h[k]]
  <2>2. ASSUME NEW k \in 0..n
        PROVE  g[k] = IF k = 0 THEN u ELSE EndpointAllocRaw(g[k - 1], gadget[k][2])
    <3>1. CASE k = n
      BY <3>1
    <3>2. CASE k # n
      <4>1. k \in 0..(n - 1) /\ g[k] = h[k]
        BY <3>2
      <4>2. h[k] = IF k = 0 THEN u ELSE EndpointAllocRaw(h[k - 1], gadget[k][2])
        BY <4>1, <2>1
      <4>3. k # 0 => k - 1 \in 0..n /\ k - 1 # n
        BY <3>2
      <4> QED
        BY <4>1, <4>2, <4>3
    <3> QED
      BY <3>1, <3>2
  <2>3. Is(g, n)
    BY <2>2
  <2>4. n \in 0..N
    BY <1>1
  <2> HIDE DEF Is, g
  <2> QED
    BY <2>3, <2>4
<1>4. 0..N \subseteq Reached
  <2> HIDE DEF Reached, N
  <2> QED
    BY <1>1, <1>2, <1>3, UpToN
<1>5. Is(a, N)
  <2>1. \E h : Is(h, N)
    <3>1. N \in Reached
      <4> HIDE DEF Reached
      <4> QED
        BY <1>1, <1>4
    <3> HIDE DEF Is
    <3> QED
      BY <3>1
  <2> QED
    BY <2>1 DEF EndpointsAlloc
<1> HIDE DEF a
<1>6. \A k \in 0..N : a[k] = IF k = 0 THEN u ELSE EndpointAllocRaw(a[k - 1], gadget[k][2])
  BY ONLY <1>5
<1> HIDE DEF Is
<1> QED
  BY <1>1, <1>6 DEF a, Ends

(* Endpoint 0 of the older controller aside, a first start finds nothing   *)
(* allocated, and then the gadget's addresses are what it gets.            *)
Fresh(u) == \A a \in Addresses(u) : a[1] = 0
LEMMA AllocGivesAddresses ==
  ASSUME gadget \in Gadgets, NEW u \in Udcs
  PROVE  LET v == EndpointsAlloc(u)[Len(gadget)]
         IN  /\ v \in Udcs /\ SameBut(v, u)
             /\ Fresh(u) /\ ~v.failed => \A k \in Ends : gadget[k] \in Addresses(v)
<1> DEFINE N == Len(gadget)
           a == EndpointsAlloc(u)
           Got(k) == Addresses(a[k]) = Addresses(u) \cup {gadget[j] : j \in 1..k}
           Good == {k \in 0..N : /\ a[k] \in Udcs /\ SameBut(a[k], u)
                                 /\ Fresh(u) /\ ~a[k].failed => Got(k)}
<1>1. N \in Nat /\ 1..N = Ends
  BY GadgetIs DEF Ends
<1>2. a[0] = u /\ \A k \in Ends : a[k] = EndpointAllocRaw(a[k - 1], gadget[k][2])
  BY AllocIsDefined
<1> HIDE DEF a
<1>3. 0 \in Good
  BY <1>1, <1>2 DEF SameBut
<1>4. ASSUME NEW k \in 1..N, k - 1 \in Good PROVE k \in Good
  <2>1. k \in Ends /\ k \in 0..N /\ gadget[k][2] \in BOOLEAN /\ gadget[k] \in Addrs
        /\ gadget[k][1] \in 1..15 /\ gadget[k] = <<gadget[k][1], gadget[k][2]>> /\ WellNumbered(gadget)
        /\ DOMAIN gadget = Ends
    BY <1>1, GadgetIs
  <2>2. a[k - 1] \in Udcs /\ SameBut(a[k - 1], u) /\ (Fresh(u) /\ ~a[k - 1].failed => Got(k - 1))
    <3> HIDE DEF Got
    <3> QED
      BY <1>4
  <2>3. PICK w : w = a[k - 1]
    OBVIOUS
  <2>4. PICK v : v = EndpointAllocRaw(w, gadget[k][2])
    OBVIOUS
  <2>5. a[k] = v
    BY <2>1, <2>3, <2>4, <1>2
  <2>6. /\ v \in Udcs /\ SameBut(v, w)
        /\ w.failed => v.failed
        /\ v.failed \/
             \E n \in 1..15 : /\ <<n, gadget[k][2]>> \notin Addresses(w)
                              /\ \A m \in 1..(n - 1) : <<m, gadget[k][2]>> \in Addresses(w)
                              /\ Addresses(v) = Addresses(w) \cup {<<n, gadget[k][2]>>}
    BY <2>1, <2>2, <2>3, <2>4, AllocatesOne
  <2>7. ASSUME Fresh(u), ~v.failed PROVE Got(k)
    <3>1. Addresses(w) = Addresses(u) \cup {gadget[j] : j \in 1..(k - 1)}
      BY <2>2, <2>3, <2>6, <2>7
    <3>2. PICK n \in 1..15 : /\ <<n, gadget[k][2]>> \notin Addresses(w)
                             /\ \A m \in 1..(n - 1) : <<m, gadget[k][2]>> \in Addresses(w)
                             /\ Addresses(v) = Addresses(w) \cup {<<n, gadget[k][2]>>}
      BY <2>6, <2>7
    <3>3. /\ \A j \in 1..(k - 1) : gadget[j] # gadget[k]
          /\ \A m \in 1..(gadget[k][1] - 1) : \E j \in 1..(k - 1) : gadget[j] = <<m, gadget[k][2]>>
      BY <2>1 DEF WellNumbered
    <3>4. \A m \in 1..15 : <<m, gadget[k][2]>> \in Addresses(w)
                            <=> \E j \in 1..(k - 1) : gadget[j] = <<m, gadget[k][2]>>
      <4>1. \A m \in 1..15 : <<m, gadget[k][2]>> \notin Addresses(u)
        BY <2>7 DEF Fresh
      <4> QED
        BY <4>1, <3>1
    <3>5. ~(n < gadget[k][1])
      <4>1. n < gadget[k][1] => n \in 1..(gadget[k][1] - 1)
        BY SMTT(40), <2>1
      <4> QED
        BY <4>1, <3>2, <3>3, <3>4
    <3>6. ~(gadget[k][1] < n)
      <4>1. gadget[k][1] < n => gadget[k][1] \in 1..(n - 1)
        BY SMTT(40), <2>1
      <4>2. gadget[k][1] < n => \E j \in 1..(k - 1) : gadget[j] = gadget[k]
        BY <4>1, <2>1, <3>2, <3>4
      <4> QED
        BY <4>2, <3>3
    <3>7. <<n, gadget[k][2]>> = gadget[k]
      BY SMTT(40), <2>1, <3>5, <3>6
    <3>8. {gadget[j] : j \in 1..k} = {gadget[j] : j \in 1..(k - 1)} \cup {gadget[k]}
      <4>1. \A j : j \in 1..k <=> j \in 1..(k - 1) \/ j = k
        BY <1>1
      <4> QED
        BY <4>1
    <3>9. Addresses(a[k]) = (Addresses(u) \cup {gadget[j] : j \in 1..(k - 1)}) \cup {gadget[k]}
      BY <2>5, <3>1, <3>2, <3>7
    <3> QED
      BY <3>8, <3>9
  <2>8. SameBut(v, u)
    BY <2>2, <2>3, <2>6 DEF SameBut
  <2> HIDE DEF Got
  <2> QED
    BY <2>1, <2>5, <2>6, <2>7, <2>8
<1>5. 0..N \subseteq Good
  <2> HIDE DEF Good, N
  <2> QED
    BY <1>1, <1>3, <1>4, UpToN
<1>6. N \in Good /\ Got(N) => \A k \in Ends : gadget[k] \in Addresses(a[N])
  <2>1. N \in Good
    <3> HIDE DEF Good
    <3> QED
      BY <1>1, <1>5
  <2> QED
    BY <2>1, <1>1
<1> QED
  <2>1. N \in Good
    <3> HIDE DEF Good
    <3> QED
      BY <1>1, <1>5
  <2>2. a[N] \in Udcs /\ SameBut(a[N], u) /\ (Fresh(u) /\ ~a[N].failed => Got(N))
    BY <2>1
  <2> HIDE DEF Got, Good
  <2> QED
    BY <1>6, <2>1, <2>2 DEF a

(* Before the endpoints: nothing but endpoint 0 is there at a first start. *)
LEMMA UdcInitIs ==
  ASSUME controller \in {"dwc", "ci"}, NEW u \in Udcs
  PROVE  LET v == UdcInit(u)
         IN  /\ v \in Udcs
             /\ controller = "dwc" \/ u = Nobody =>
                  /\ v.speed = "none" /\ ~v.gadget /\ ~v.failed /\ ~v.lost
                  /\ AllFit(v) /\ Fresh(v)
             /\ controller = "ci" => v.gadget = u.gadget /\ v.lost = u.lost
<1>1. Nobody \in Udcs /\ Addresses(Nobody) = {} /\ AllFit(Nobody)
  <2>1. <<>> \in Seq(Descs) /\ <<>> \in Seq(Epts) /\ DOMAIN <<>> = {}
    OBVIOUS
  <2> QED
    BY <2>1 DEF Nobody, Udcs, Speeds, Addresses, ToSet, AllFit
<1>2. /\ Nobody.speed = "none" /\ ~Nobody.gadget /\ ~Nobody.failed /\ ~Nobody.lost
  BY DEF Nobody
<1>3. /\ \A tag \in {"language", "device", "bos"}, specs \in {{20}, {30}, {20, 30}} :
           Descriptor(tag, specs, <<>>) \in Descs /\ \A s : FitsSpeed(Descriptor(tag, specs, <<>>), s)
  BY PlainDescriptor
<1>4. CASE controller = "dwc"
  <2> DEFINE a == Register(Nobody, "language", {20, 30}, <<>>)
             b == Register(a, "device", {20}, <<>>)
             c == Register(b, "device", {30}, <<>>)
             e == Register(c, "bos", {30}, <<>>)
             Good(v) == /\ v \in Udcs /\ AllFit(v) /\ Addresses(v) = {}
                        /\ v.speed = "none" /\ ~v.gadget /\ ~v.failed /\ ~v.lost
  <2>1. ASSUME NEW v, Good(v), NEW tag \in {"language", "device", "bos"}, NEW specs \in {{20}, {30}, {20, 30}}
        PROVE  Good(Register(v, tag, specs, <<>>))
    <3> DEFINE w == Register(v, tag, specs, <<>>)
    <3>1. /\ w \in Udcs
          /\ AllFit(v) /\ FitsSpeed(Descriptor(tag, specs, <<>>), v.speed) => AllFit(w)
          /\ w.ept_list = v.ept_list /\ w.gadget = v.gadget
          /\ w.speed = v.speed /\ w.failed = v.failed /\ w.lost = v.lost
      <4>1. v \in Udcs
        BY <2>1
      <4>2. Descriptor(tag, specs, <<>>) \in Descs
        BY <1>3
      <4> HIDE DEF Good
      <4> QED
        BY <4>1, <4>2, RegisterAdds
    <3>2. Addresses(w) = Addresses(v)
      BY <3>1 DEF Addresses
    <3> HIDE DEF w
    <3> QED
      BY <2>1, <1>3, <3>1, <3>2 DEF w
  <2>2. Good(Nobody)
    BY <1>1, <1>2
  <2> HIDE DEF Good
  <2>3. Good(a)
    BY <2>1, <2>2
  <2> HIDE DEF a
  <2>4. Good(b)
    BY <2>1, <2>3
  <2> HIDE DEF b
  <2>5. Good(c)
    BY <2>1, <2>4
  <2> HIDE DEF c
  <2>6. Good(e)
    BY <2>1, <2>5
  <2>7. UdcInit(u) = e
    BY <1>4 DEF UdcInit, a, b, c, e
  <2> HIDE DEF e
  <2> QED
    BY <1>4, <2>6, <2>7 DEF Good, Fresh
<1>5. CASE controller = "ci"
  <2> DEFINE l == <<Ep(0, TRUE, 64), Ep(0, FALSE, 64)>> \o u.ept_list
             w == [u EXCEPT !.ept_list = l]
  <2>1. l \in Seq(Epts) /\ (u = Nobody => ToSet(l) = {Ep(0, TRUE, 64), Ep(0, FALSE, 64)})
    <3> DEFINE p == <<Ep(0, TRUE, 64), Ep(0, FALSE, 64)>>
               old == u.ept_list
    <3>1. p \in Seq(Epts) /\ old \in Seq(Epts)
      BY DEF Ep, Epts, Udcs
    <3>2. \A x : x \in ToSet(p) <=> x = Ep(0, TRUE, 64) \/ x = Ep(0, FALSE, 64)
      <4>1. DOMAIN p = {1, 2} /\ p[1] = Ep(0, TRUE, 64) /\ p[2] = Ep(0, FALSE, 64)
        OBVIOUS
      <4> HIDE DEF p
      <4> QED
        BY <4>1 DEF ToSet
    <3>3. u = Nobody => old = <<>>
      BY DEF Nobody
    <3> HIDE DEF p, old
    <3>4. p \o old \in Seq(Epts)
      BY <3>1
    <3>5. old = <<>> => p \o old = p
      BY <3>1, ConcatEmptySeq
    <3> QED
      BY <3>2, <3>3, <3>4, <3>5 DEF p, old
  <2>2. u = Nobody => ToSet(l) = {Ep(0, TRUE, 64), Ep(0, FALSE, 64)}
    BY <2>1
  <2> HIDE DEF l
  <2>3. w \in Udcs /\ w.ept_list = l /\ w.gadget = u.gadget /\ w.speed = u.speed /\ w.failed = u.failed
        /\ w.lost = u.lost /\ w.desc_list = u.desc_list
    BY <2>1 DEF Udcs
  <2>4. u = Nobody => AllFit(w) /\ \A a \in Addresses(w) : a[1] = 0
    BY <1>1, <2>2, <2>3 DEF AllFit, Addresses, Ep
  <2>5. UdcInit(u) = Register(w, "language", {20, 30}, <<>>)
    BY <1>5 DEF UdcInit, l
  <2> HIDE DEF w
  <2>6. PICK v : v = Register(w, "language", {20, 30}, <<>>)
    OBVIOUS
  <2>7. /\ v \in Udcs
        /\ AllFit(w) /\ FitsSpeed(Descriptor("language", {20, 30}, <<>>), w.speed) => AllFit(v)
        /\ v.ept_list = w.ept_list /\ v.gadget = w.gadget
        /\ v.speed = w.speed /\ v.failed = w.failed /\ v.lost = w.lost
    <3>1. Descriptor("language", {20, 30}, <<>>) \in Descs
      BY <1>3
    <3> QED
      BY <2>3, <2>6, <3>1, RegisterAdds
  <2>8. Addresses(v) = Addresses(w)
    BY <2>7 DEF Addresses
  <2> QED
    BY <1>2, <1>3, <1>5, <2>3, <2>4, <2>5, <2>6, <2>7, <2>8 DEF Fresh
<1> QED
  BY <1>4, <1>5

(* A start either fails, which loses the gadget, or leaves it ready.       *)
LEMMA StartIsReady ==
  ASSUME gadget \in Gadgets, controller \in {"dwc", "ci"},
         NEW u \in Udcs, u = Nobody \/ Ready(u)
  PROVE  LET v == UsbInit(u) IN v \in Udcs /\ (~v.lost => Ready(v))
<1> DEFINE w == UdcInit(u)
           a == EndpointsAlloc(w)[Len(gadget)]
           r == RegisterGadget(a)
           First == controller = "dwc" \/ u = Nobody
           Config(specs) == Descriptor("config", specs, [k \in DOMAIN gadget |-> 512])
<1>1. /\ w \in Udcs
      /\ First => /\ w.speed = "none" /\ ~w.gadget /\ ~w.failed /\ ~w.lost
                  /\ AllFit(w) /\ Fresh(w)
      /\ controller = "ci" => w.gadget = u.gadget /\ w.lost = u.lost
  BY UdcInitIs
<1> HIDE DEF w, First
<1>2. /\ a \in Udcs /\ SameBut(a, w)
      /\ Fresh(w) /\ ~a.failed => \A k \in Ends : gadget[k] \in Addresses(a)
  BY <1>1, AllocGivesAddresses
<1> HIDE DEF a
<1>3. Lost(a) \in Udcs /\ Lost(a).lost
  BY <1>2 DEF Lost, Udcs
<1>4. /\ \A specs \in {{20}, {30}} : Config(specs) \in Descs /\ FitsSpeed(Config(specs), "none")
      /\ Descriptor("device", {20}, <<>>) \in Descs
  BY ConfigDescriptor, PlainDescriptor
<1> HIDE DEF Config
<1>5. ASSUME NEW v \in Udcs, NEW specs \in {{20}, {30}}
      PROVE  LET x == Registered512(v, "config", specs)
             IN  /\ x \in Udcs
                 /\ AllFit(v) /\ v.speed = "none" => AllFit(x)
                 /\ Addresses(x) = Addresses(v)
                 /\ x.speed = v.speed /\ x.gadget = v.gadget /\ x.failed = v.failed /\ x.lost = v.lost
  <2> DEFINE x == Register(v, "config", specs, [k \in DOMAIN gadget |-> 512])
  <2>1. /\ x \in Udcs
        /\ AllFit(v) /\ FitsSpeed(Config(specs), v.speed) => AllFit(x)
        /\ x.ept_list = v.ept_list /\ x.gadget = v.gadget
        /\ x.speed = v.speed /\ x.failed = v.failed /\ x.lost = v.lost
    <3>1. Config(specs) \in Descs
      BY <1>4
    <3> QED
      BY <3>1, RegisterAdds DEF Config
  <2>2. Addresses(x) = Addresses(v)
    BY <2>1 DEF Addresses
  <2> HIDE DEF x
  <2>3. Registered512(v, "config", specs) = x
    BY DEF Registered512, x
  <2> QED
    BY <1>4, <2>1, <2>2, <2>3
<1>6. CASE a.failed
  BY <1>3, <1>6 DEF UsbInit, a, w
<1>7. CASE ~a.failed /\ ~First
  <2>1. controller = "ci" /\ u.gadget /\ a.gadget
    BY <1>1, <1>2, <1>7 DEF First, Ready, SameBut
  <2>2. r = [a EXCEPT !.failed = TRUE]
    BY <2>1 DEF RegisterGadget
  <2>3. r \in Udcs /\ r.failed
    BY <1>2, <2>2 DEF Udcs
  <2> HIDE DEF r
  <2>4. Lost(r) \in Udcs /\ Lost(r).lost
    BY <2>3 DEF Lost, Udcs
  <2>5. UsbInit(u) = Lost(r)
    BY <1>7, <2>3 DEF UsbInit, a, w, r
  <2> HIDE DEF a
  <2> QED
    BY <2>4, <2>5
<1>8. CASE ~a.failed /\ First
  <2> DEFINE b == [a EXCEPT !.gadget = TRUE]
             Good(v) == /\ v \in Udcs /\ v.gadget /\ ~v.failed /\ ~v.lost /\ v.speed = "none"
                        /\ AllFit(v) /\ \A k \in Ends : gadget[k] \in Addresses(v)
  <2>1. Good(b)
    <3>1. /\ ~a.gadget /\ ~a.lost /\ a.speed = "none" /\ AllFit(a)
          /\ \A k \in Ends : gadget[k] \in Addresses(a)
      BY <1>1, <1>2, <1>8 DEF SameBut, AllFit
    <3>2. /\ b \in Udcs /\ b.gadget /\ b.failed = a.failed /\ b.lost = a.lost /\ b.speed = a.speed
          /\ b.desc_list = a.desc_list /\ b.ept_list = a.ept_list
      BY <1>2 DEF Udcs
    <3> HIDE DEF b
    <3>3. Addresses(b) = Addresses(a)
      BY <3>2 DEF Addresses
    <3> QED
      BY <1>8, <3>1, <3>2, <3>3 DEF AllFit
  <2>2. ASSUME NEW v, Good(v), NEW specs \in {{20}, {30}} PROVE Good(Registered512(v, "config", specs))
    <3>1. v \in Udcs
      BY <2>2
    <3>2. PICK x : x = Registered512(v, "config", specs)
      OBVIOUS
    <3>3. /\ x \in Udcs
          /\ AllFit(v) /\ v.speed = "none" => AllFit(x)
          /\ Addresses(x) = Addresses(v)
          /\ x.speed = v.speed /\ x.gadget = v.gadget /\ x.failed = v.failed /\ x.lost = v.lost
      BY <3>1, <3>2, <1>5
    <3> QED
      BY <2>2, <3>2, <3>3
  <2>3. ASSUME NEW v, Good(v) PROVE Ready(v)
    BY <2>3 DEF Ready, AllFit
  <2>4. ASSUME NEW v, Good(v) PROVE v \in Udcs /\ ~v.lost /\ ~v.failed
    BY <2>4
  <2>5. ~a.gadget
    BY <1>1, <1>2, <1>8 DEF SameBut
  <2>6. CASE controller = "dwc"
    <3>1. r = Registered512(Registered512(b, "config", {20}), "config", {30})
      BY <2>5, <2>6 DEF RegisterGadget
    <3> HIDE DEF r, b, Good
    <3>2. Good(Registered512(b, "config", {20}))
      BY <2>1, <2>2
    <3>3. Good(r)
      BY <3>1, <3>2, <2>2
    <3>4. ~r.failed
      BY <3>3, <2>4
    <3>5. UsbInit(u) = r
      BY <1>8, <2>6, <3>4 DEF UsbInit, UdcStart, a, w, r
    <3> HIDE DEF a
    <3> QED
      BY <2>3, <2>4, <3>3, <3>5
  <2>7. CASE controller = "ci"
    <3>1. r = b
      BY <2>5, <2>7 DEF RegisterGadget
    <3> DEFINE x == Register(r, "device", {20}, <<>>)
               y == Registered512(x, "config", {20})
    <3>2. r \in Udcs /\ ~r.failed
      BY <3>1, <2>1
    <3> HIDE DEF r
    <3>3. Good(x)
      <4>1. \A s : FitsSpeed(Descriptor("device", {20}, <<>>), s)
        BY PlainDescriptor
      <4>2. /\ x \in Udcs
            /\ AllFit(r) /\ FitsSpeed(Descriptor("device", {20}, <<>>), r.speed) => AllFit(x)
            /\ x.ept_list = r.ept_list /\ x.gadget = r.gadget
            /\ x.speed = r.speed /\ x.failed = r.failed /\ x.lost = r.lost
        BY <1>4, <3>2, RegisterAdds
      <4> HIDE DEF x
      <4>3. Addresses(x) = Addresses(r)
        BY <4>2 DEF Addresses
      <4>4. Good(r)
        <5> HIDE DEF Good, b
        <5> QED
          BY <3>1, <2>1
      <4> QED
        BY <4>1, <4>2, <4>3, <4>4
    <3> HIDE DEF x, Good
    <3>4. Good(y)
      BY <3>3, <2>2
    <3> HIDE DEF y
    <3>5. UsbInit(u) = y
      BY <1>8, <2>7, <3>2 DEF UsbInit, UdcStart, a, w, r, x, y
    <3> HIDE DEF a
    <3> QED
      BY <2>3, <2>4, <3>4, <3>5
  <2> QED
    BY <2>6, <2>7
<1> QED
  BY <1>6, <1>7, <1>8

-----------------------------------------------------------------------------
(* A configuration that is sent has the sizes of the speed.                *)
LEMMA DescriptorIsTrue ==
  ASSUME gadget \in Gadgets, controller \in {"dwc", "ci"}, NEW u \in Udcs, NEW tag,
         Ready(u), controller = "dwc" => u.speed # "none"
  PROVE  LET a == GetDescriptor(u, tag)
         IN  /\ a.udc = u /\ a.armed = armed /\ a.what \in {"data", "stall"} /\ a.sizes \in Sizes
             /\ tag = "config" => \A k \in DOMAIN a.sizes :
                  SpeedIsTold(k, u.speed) => a.sizes[k] = PacketSize(u.speed)
<1> DEFINE spec == IF controller = "dwc" /\ u.speed = "SS" THEN 30 ELSE 20
           fits == {i \in DOMAIN u.desc_list : u.desc_list[i].tag = tag /\ spec \in u.desc_list[i].specs}
           c    == CHOOSE i \in fits : \A j \in fits : i <= j
           desc == u.desc_list[c]
           size == IF u.speed = "HS" THEN 512 ELSE 64
           a    == GetDescriptor(u, tag)
<1>1. CASE fits = {}
  <2>1. a = Refuse(u)
    BY <1>1 DEF GetDescriptor
  <2> HIDE DEF a
  <2>2. a.udc = u /\ a.armed = armed /\ a.what = "stall" /\ a.sizes = <<>>
    BY <2>1 DEF Refuse, Answer
  <2> QED
    BY <2>2, EmptySizes DEF a
<1>2. CASE fits # {}
  <2>1. u.desc_list \in Seq(Descs)
    BY DEF Udcs
  <2>2. c \in fits
    <3>1. fits \subseteq Nat
      BY <2>1
    <3> HIDE DEF fits
    <3>2. \E i \in fits : \A j \in fits : i <= j
      BY <1>2, <3>1, LeastNatural
    <3> QED
      BY <3>2
  <2> HIDE DEF c
  <2>3. c \in DOMAIN u.desc_list /\ desc.tag = tag /\ spec \in desc.specs /\ desc \in Descs
    BY <2>1, <2>2
  <2>4. FitsSpeed(desc, IF controller = "dwc" THEN u.speed ELSE "none")
    BY <2>3 DEF Ready
  <2>5. a = IF controller = "ci" THEN Data(u, FirstTwo(desc.sizes, size)) ELSE Data(u, Sent(desc))
    BY <1>2 DEF GetDescriptor, c
  <2> HIDE DEF a, fits, desc
  <2>6. PICK D \in SUBSET Ends : desc.sizes \in [D -> Nat]
    BY <2>3 DEF Descs, Sizes
  <2>7. CASE controller = "ci"
    <3> DEFINE z == FirstTwo(desc.sizes, size)
    <3>1. z \in [D -> Nat] /\ DOMAIN desc.sizes = D /\ DOMAIN z = D
      BY <2>6 DEF FirstTwo
    <3>2. a.udc = u /\ a.armed = armed /\ a.what = "data" /\ a.sizes = z
      BY <2>5, <2>7, <3>1 DEF Data, Answer
    <3>3. ASSUME tag = "config", NEW k \in D, SpeedIsTold(k, u.speed) PROVE z[k] = PacketSize(u.speed)
      <4>1. CASE k <= 2
        BY <2>7, <3>1, <4>1 DEF FirstTwo, PacketSize
      <4>2. CASE ~(k <= 2)
        <5>1. desc.specs = {20} /\ desc.tag = "config" /\ k \in Ends
          BY <2>3, <2>7, <3>3 DEF Descs
        <5>2. k # 1
          BY <4>2
        <5>3. desc.sizes[k] = 512
          BY <2>4, <2>7, <5>1, <5>2 DEF FitsSpeed
        <5>4. u.speed = "HS" /\ z[k] = desc.sizes[k]
          BY <2>7, <3>1, <3>3, <4>2 DEF SpeedIsTold, FirstTwo
        <5> QED
          BY <2>7, <5>3, <5>4 DEF PacketSize
      <4> QED
        BY <4>1, <4>2
    <3>4. z \in Sizes
      <4> HIDE DEF z
      <4> QED
        BY <3>1 DEF Sizes
    <3> HIDE DEF z
    <3> QED
      BY <3>1, <3>2, <3>3, <3>4 DEF a
  <2>8. CASE controller = "dwc"
    <3> DEFINE W == Whole(desc)
               z == Sent(desc)
    <3>1. W \subseteq D /\ DOMAIN z = W /\ \A k \in W : z[k] = desc.sizes[k]
      BY <2>6 DEF Sent, Whole
    <3>2. z \in [W -> Nat] /\ W \in SUBSET Ends
      BY <2>6, <3>1 DEF Sent
    <3>3. a.udc = u /\ a.armed = armed /\ a.what = "data" /\ a.sizes = z
      BY <2>5, <2>8 DEF Data, Answer
    <3>4. z \in Sizes
      <4> HIDE DEF z, W
      <4> QED
        BY <3>2 DEF Sizes
    <3>5. ASSUME tag = "config", NEW k \in W, SpeedIsTold(k, u.speed)
          PROVE  desc.sizes[k] = PacketSize(u.speed)
      <4>0. u.speed \in {"HS", "SS"}
        BY <2>8, <3>5 DEF SpeedIsTold, Udcs, Speeds
      <4>1. FitsSpeed(desc, u.speed) /\ desc.tag = "config" /\ desc.specs \in {{20}, {30}} /\ k \in Ends
        BY <2>3, <2>4, <2>8, <3>2, <3>5 DEF Descs
      <4>2. CASE u.speed = "HS"
        <5>1. desc.specs = {20}
          BY <4>1, <4>2, <2>3
        <5> QED
          BY <4>1, <4>2, <5>1, <2>8 DEF FitsSpeed, PacketSize, SpeedOf
      <4>3. CASE u.speed = "SS"
        <5>1. desc.specs = {30}
          BY <4>1, <4>3, <2>3, <2>8
        <5>2. TypeAt(desc.specs, k) + 4 <= 18 + 7 * Len(gadget)
          BY DEF Whole
        <5>3. TypeAt(desc.specs, k) = 18 + (k - 1) * 13 + 3
          BY <5>1 DEF TypeAt
        <5>4. k \in Nat /\ Len(gadget) \in 1..4
          BY <4>1, GadgetIs DEF Ends
        <5>5. k <= 2
          <6>1. PICK n \in 1..4 : n = Len(gadget)
            BY <5>4
          <6>2. 18 + (k - 1) * 13 + 3 + 4 <= 18 + 7 * n
            BY <5>2, <5>3, <6>1
          <6> QED
            BY <5>4, <6>2
        <5> QED
          BY <4>1, <4>3, <5>1, <5>5, <2>8 DEF FitsSpeed, PacketSize, SpeedOf
      <4> QED
        BY <4>0, <4>2, <4>3
    <3> HIDE DEF z, W
    <3> QED
      BY <2>8, <3>1, <3>3, <3>4, <3>5 DEF a
  <2> QED
    BY <2>7, <2>8
<1> QED
  BY <1>1, <1>2

(* The endpoints of a gadget that is ready are enabled for the speed.      *)
LEMMA EnabledForSpeed ==
  ASSUME gadget \in Gadgets, controller \in {"dwc", "ci"}, armed \in [Addrs -> Nat],
         NEW u \in Udcs, Ready(u), controller = "dwc" => u.speed # "none"
  PROVE  /\ Enabled(u) \in [Addrs -> Nat]
         /\ \A k \in Ends : Enabled(u)[gadget[k]] = PacketSize(u.speed)
<1>1. DOMAIN armed = Addrs
  OBVIOUS
<1>2. u.ept_list \in Seq(Epts)
  BY DEF Udcs
<1>3. ASSUME NEW a \in Addresses(u)
      PROVE  LET e == CHOOSE e \in ToSet(u.ept_list) : <<e.num, e.in>> = a
             IN  e.maxpkt \in Nat /\ (controller = "dwc" => e.maxpkt = PacketSize(u.speed))
  <2> DEFINE e == CHOOSE e \in ToSet(u.ept_list) : <<e.num, e.in>> = a
  <2>1. e \in ToSet(u.ept_list)
    BY DEF Addresses
  <2> HIDE DEF e
  <2>2. PICK i \in DOMAIN u.ept_list : e = u.ept_list[i]
    BY <2>1 DEF ToSet
  <2>3. e \in Epts
    BY <1>2, <2>2
  <2>4. controller = "dwc" => e.maxpkt = SpeedOf(u.speed)
    BY <2>2 DEF Ready
  <2> QED
    BY <2>3, <2>4 DEF Epts, PacketSize, e
<1>4. ASSUME NEW a \in Addrs
      PROVE  /\ Enabled(u)[a] \in Nat
             /\ a \in Addresses(u) => Enabled(u)[a] = PacketSize(u.speed)
  <2>1. CASE a \notin Addresses(u)
    BY <1>1, <2>1 DEF Enabled
  <2>2. CASE a \in Addresses(u) /\ controller = "dwc"
    BY <1>1, <1>3, <2>2 DEF Enabled
  <2>3. CASE a \in Addresses(u) /\ controller = "ci"
    BY <1>1, <2>3 DEF Enabled, PacketSize
  <2> QED
    BY <2>1, <2>2, <2>3
<1>5. Enabled(u) \in [Addrs -> Nat]
  BY <1>1, <1>4 DEF Enabled
<1>6. \A k \in Ends : gadget[k] \in Addrs /\ gadget[k] \in Addresses(u)
  BY GadgetIs DEF Ready
<1> QED
  BY <1>4, <1>5, <1>6

(* What a request is answered with.                                        *)
Same(v, u) == /\ v.desc_list = u.desc_list /\ v.ept_list = u.ept_list /\ v.gadget = u.gadget
              /\ v.speed = u.speed /\ v.lost = u.lost
Fits(a, speed) == \A k \in Ends : a[gadget[k]] = PacketSize(speed)
LEMMA ResponseIs ==
  ASSUME gadget \in Gadgets, controller \in {"dwc", "ci"}, armed \in [Addrs -> Nat],
         NEW u \in Udcs, Ready(u), controller = "dwc" => u.speed # "none",
         NEW request \in Requests
  PROVE  LET a == Respond(u, request)
         IN  /\ a.udc \in Udcs /\ Same(a.udc, u) /\ a.armed \in [Addrs -> Nat]
             /\ a.what \in {"data", "stall", "ack"} /\ a.sizes \in Sizes
             /\ request = "config" /\ a.what = "data" => \A k \in DOMAIN a.sizes :
                  SpeedIsTold(k, u.speed) => a.sizes[k] = PacketSize(u.speed)
             /\ request = "set_config" => Fits(a.armed, u.speed)
             /\ request = "deconfigure" => a.what = "ack"
             /\ request # "deconfigure" /\ Fits(armed, u.speed) => Fits(a.armed, u.speed)
<1> DEFINE a == Respond(u, request)
<1>1. Same(u, u)
  BY DEF Same
<1>2. Enabled(u) \in [Addrs -> Nat] /\ Fits(Enabled(u), u.speed)
  BY EnabledForSpeed DEF Fits
<1>3. CASE request \in {"device", "config", "bos", "language", "string"}
  <2>1. a = GetDescriptor(u, request)
    BY <1>3 DEF Respond
  <2>3. PICK x : x = GetDescriptor(u, request)
    OBVIOUS
  <2>4. /\ x.udc = u /\ x.armed = armed /\ x.what \in {"data", "stall"} /\ x.sizes \in Sizes
        /\ request = "config" => \A k \in DOMAIN x.sizes :
             SpeedIsTold(k, u.speed) => x.sizes[k] = PacketSize(u.speed)
    BY <2>3, DescriptorIsTrue
  <2>5. request # "set_config" /\ request # "deconfigure"
    BY <1>3
  <2> HIDE DEF a
  <2> QED
    BY <1>1, <2>1, <2>3, <2>4, <2>5 DEF a
<1>4. CASE request \in {"get_status", "get_config"}
  <2>1. a = Data(u, <<>>)
    BY <1>4 DEF Respond
  <2> HIDE DEF a
  <2>2. a.udc = u /\ a.armed = armed /\ a.what = "data" /\ a.sizes = <<>>
    BY <2>1 DEF Data, Answer
  <2> QED
    BY <1>1, <1>4, <2>2, EmptySizes DEF a
<1>5. CASE request \in {"set_config", "deconfigure"}
  <2> DEFINE value == IF request = "set_config" THEN 1 ELSE 0
             v == [u EXCEPT !.config = value]
             m == IF value = 1 THEN Enabled(u) ELSE Unconfigured
  <2>1. a = Ack(v, m)
    BY <1>5 DEF Respond, SetConfiguration
  <2>2. v \in Udcs /\ Same(v, u)
    BY SMTT(40) DEF Udcs, Same
  <2>3. m \in [Addrs -> Nat]
    <3>1. Unconfigured \in [Addrs -> Nat]
      BY DEF Unconfigured
    <3> QED
      BY <1>2, <3>1
  <2>4. request = "set_config" => m = Enabled(u)
    OBVIOUS
  <2> HIDE DEF a, v, m
  <2>5. a.udc = v /\ a.armed = m /\ a.what = "ack" /\ a.sizes = <<>>
    BY <2>1 DEF Ack, Answer
  <2> QED
    BY <1>2, <1>5, <2>2, <2>3, <2>4, <2>5, EmptySizes DEF a
<1>6. CASE request = "clear_halt"
  <2> DEFINE m == IF controller = "dwc" THEN armed ELSE Enabled(u)
  <2>1. a = Ack(u, m)
    BY <1>6 DEF Respond, ClearHalt
  <2>2. m \in [Addrs -> Nat] /\ (Fits(armed, u.speed) => Fits(m, u.speed))
    BY <1>2
  <2> HIDE DEF a, m
  <2>3. a.udc = u /\ a.armed = m /\ a.what = "ack" /\ a.sizes = <<>>
    BY <2>1 DEF Ack, Answer
  <2> QED
    BY <1>1, <1>6, <2>2, <2>3, EmptySizes DEF a
<1>7. CASE request \in {"set_address", "test_mode", "set_sel", "set_interface"}
  <2> DEFINE t == [u EXCEPT !.test = TRUE]
  <2>1. a \in {Ack(u, armed), Ack(t, armed), Refuse(u)}
    BY <1>7 DEF Respond
  <2>2. t \in Udcs /\ Same(t, u)
    BY DEF Udcs, Same
  <2> HIDE DEF a, t
  <2>3. a.udc \in {u, t} /\ a.armed = armed /\ a.what \in {"ack", "stall"} /\ a.sizes = <<>>
    BY <2>1 DEF Ack, Refuse, Answer
  <2> QED
    BY <1>1, <1>7, <2>2, <2>3, EmptySizes DEF a
<1> QED
  BY <1>3, <1>4, <1>5, <1>6, <1>7 DEF Requests

LEMMA ReadySame ==
  ASSUME NEW u, NEW v, Same(v, u), Ready(u)
  PROVE  Ready(v)
<1>1. Addresses(v) = Addresses(u)
  BY DEF Addresses, Same
<1> QED
  BY <1>1 DEF Ready, Same

(* What a board says of itself does not change.                            *)
LEMMA NextReady ==
  ASSUME NEW CONSTANT v, v = udc', UNCHANGED <<controller, gadget>>, Ready(v)
  PROVE  Ready(udc)'
BY DEF Ready, Addresses, FitsSpeed, Ends

LEMMA NextSize ==
  ASSUME UNCHANGED controller
  PROVE  \A s : /\ PacketSize(s)' = PacketSize(s)
               /\ \A k : SpeedIsTold(k, s)' <=> SpeedIsTold(k, s)
BY DEF PacketSize, SpeedIsTold

(* A setup that is handled leaves what the host knows true.                *)
LEMMA SetupKeeps ==
  ASSUME SetupTypes, controller \in {"dwc", "ci"}, UNCHANGED <<controller, gadget>>,
         NEW u \in Udcs, Ready(u), ~u.lost,
         peer.at = "up", peer.speed # "none", peer.asks # "none",
         controller = "dwc" => u.speed = peer.speed,
         \A k \in DOMAIN peer.sizes :
           SpeedIsTold(k, u.speed) => peer.sizes[k] = PacketSize(u.speed),
         peer.configured => Fits(armed, u.speed),
         Setup(u)
  PROVE  /\ udc' \in Udcs /\ armed' \in [Addrs -> Nat] /\ peer' \in Peers
         /\ ~udc'.lost /\ Ready(udc)' /\ SizesAreTrue' /\ ArmedAsConfigured'
         /\ udc'.speed = u.speed /\ peer'.at = "up" /\ peer'.speed = peer.speed
<1> DEFINE r == peer.asks
           a == Respond(u, r)
<1>1. r \in Requests /\ gadget \in Gadgets /\ armed \in [Addrs -> Nat] /\ peer \in Peers
  BY DEF SetupTypes, Peers
<1>2. controller = "dwc" => u.speed # "none"
  OBVIOUS
<1>3. /\ a.udc \in Udcs /\ Same(a.udc, u) /\ a.armed \in [Addrs -> Nat]
      /\ a.what \in {"data", "stall", "ack"} /\ a.sizes \in Sizes
      /\ r = "config" /\ a.what = "data" => \A k \in DOMAIN a.sizes :
           SpeedIsTold(k, u.speed) => a.sizes[k] = PacketSize(u.speed)
      /\ r = "set_config" => Fits(a.armed, u.speed)
      /\ r = "deconfigure" => a.what = "ack"
      /\ r # "deconfigure" /\ Fits(armed, u.speed) => Fits(a.armed, u.speed)
  BY <1>1, <1>2, ResponseIs
<1>4. udc' = a.udc /\ armed' = a.armed /\ peer' = Hears(a)
  BY DEF Setup
<1> HIDE DEF a
<1>5. /\ peer' \in Peers /\ peer'.at = peer.at /\ peer'.speed = peer.speed
      /\ peer'.sizes = (IF r = "config" /\ a.what = "data" THEN a.sizes ELSE peer.sizes)
      /\ a.what # "ack" => peer'.configured = peer.configured
      /\ a.what = "ack" /\ r = "deconfigure" => peer'.configured = FALSE
      /\ a.what = "ack" /\ r # "set_config" /\ r # "deconfigure" => peer'.configured = peer.configured
  <2> DEFINE z == IF r = "config" /\ a.what = "data" THEN a.sizes ELSE peer.sizes
             c == IF a.what = "ack" /\ r \in {"set_config", "deconfigure"} THEN r = "set_config"
                  ELSE peer.configured
  <2>1. peer' = [peer EXCEPT !.asks = "none", !.sizes = z, !.configured = c]
    BY <1>1, <1>4 DEF Hears, Peers
  <2>2. z \in Sizes
    BY <1>1, <1>3 DEF Peers
  <2>3. a.what # "ack" => c = peer.configured
    OBVIOUS
  <2>4. a.what = "ack" /\ r = "deconfigure" => c = FALSE
    OBVIOUS
  <2>5. a.what = "ack" /\ r # "set_config" /\ r # "deconfigure" => c = peer.configured
    OBVIOUS
  <2>7. c \in BOOLEAN
    BY <1>1 DEF Peers
  <2> HIDE DEF z, c
  <2>8. /\ peer' \in Peers /\ peer'.at = peer.at /\ peer'.speed = peer.speed
        /\ peer'.sizes = z /\ peer'.configured = c
    BY <1>1, <2>1, <2>2, <2>7 DEF Peers
  <2> QED
    BY <2>3, <2>4, <2>5, <2>8 DEF z
<1>6. Ready(udc)'
  <2>1. PICK v : v = a.udc
    OBVIOUS
  <2>2. Ready(v)
    BY <1>3, <2>1, ReadySame
  <2>3. v = udc'
    BY <1>4, <2>1
  <2> QED
    BY <2>2, <2>3, NextReady
<1>7. SizesAreTrue'
  <2>0. udc'.speed = u.speed
    BY <1>3, <1>4 DEF Same
  <2>1. CASE r = "config" /\ a.what = "data"
    BY <1>3, <1>5, <2>0, <2>1, NextSize DEF SizesAreTrue
  <2>2. CASE ~(r = "config" /\ a.what = "data")
    BY <1>5, <2>0, <2>2, NextSize DEF SizesAreTrue
  <2> QED
    BY <2>1, <2>2
<1>8. ArmedAsConfigured'
  <2>1. ASSUME peer'.configured PROVE Fits(a.armed, u.speed)
    <3>1. CASE a.what = "ack" /\ r = "set_config"
      BY <1>3, <3>1
    <3>2. CASE a.what = "ack" /\ r = "deconfigure"
      BY <1>5, <2>1, <3>2
    <3>3. CASE ~(a.what = "ack" /\ r \in {"set_config", "deconfigure"})
      <4>1. peer.configured
        <5>1. CASE a.what # "ack"
          BY <1>5, <2>1, <5>1
        <5>2. CASE a.what = "ack" /\ r # "set_config" /\ r # "deconfigure"
          BY <1>5, <2>1, <5>2
        <5> QED
          BY <3>3, <5>1, <5>2
      <4> QED
        BY <1>3, <3>3, <4>1
    <3> QED
      BY <3>1, <3>2, <3>3
  <2>2. udc'.speed = u.speed
    BY <1>3, <1>4 DEF Same
  <2> QED
    BY <1>4, <2>1, <2>2, NextSize DEF ArmedAsConfigured, Fits, Ends
<1> QED
  BY <1>3, <1>4, <1>5, <1>6, <1>7, <1>8 DEF Same

-----------------------------------------------------------------------------
(* The list of what was raised, as it grows and shrinks.                   *)
LEMMA RaisedOneMore ==
  ASSUME NEW s \in Seq(Irqs4), NEW e \in Irqs4
  PROVE  /\ Append(s, e) \in Seq(Irqs4) /\ Len(Append(s, e)) = Len(s) + 1
         /\ \A i \in DOMAIN Append(s, e) : Append(s, e)[i] = IF i = Len(s) + 1 THEN e ELSE s[i]
         /\ \A x : Contains(Append(s, e), x) <=> Contains(s, x) \/ x = e
<1> DEFINE t == Append(s, e)
<1>1. /\ t \in Seq(Irqs4) /\ Len(t) = Len(s) + 1 /\ Len(s) \in Nat
      /\ DOMAIN t = 1..(Len(s) + 1)
      /\ \A i \in 1..(Len(s) + 1) : t[i] = IF i = Len(s) + 1 THEN e ELSE s[i]
  OBVIOUS
<1> HIDE DEF t
<1>2. \A x : Contains(t, x) <=> Contains(s, x) \/ x = e
  <2> TAKE x
  <2>1. ASSUME Contains(t, x), x # e PROVE Contains(s, x)
    <3>1. PICK i \in 1..(Len(s) + 1) : t[i] = x
      BY <1>1, <2>1 DEF Contains
    <3>2. i \in 1..Len(s) /\ s[i] = x
      BY <1>1, <2>1, <3>1
    <3> QED
      BY <3>2 DEF Contains
  <2>2. ASSUME Contains(s, x) PROVE Contains(t, x)
    <3>1. PICK i \in 1..Len(s) : s[i] = x
      BY <2>2 DEF Contains
    <3>2. i \in 1..Len(t) /\ t[i] = x
      BY <1>1, <3>1
    <3> QED
      BY <3>2 DEF Contains
  <2>3. ASSUME x = e PROVE Contains(t, x)
    <3>1. Len(s) + 1 \in 1..Len(t) /\ t[Len(s) + 1] = x
      BY <1>1, <2>3
    <3> QED
      BY <3>1 DEF Contains
  <2> QED
    BY <2>1, <2>2, <2>3
<1> QED
  BY <1>1, <1>2 DEF t

LEMMA RaisedOneLess ==
  ASSUME NEW s \in Seq(Irqs4), s # <<>>
  PROVE  /\ Tail(s) \in Seq(Irqs4) /\ Len(Tail(s)) = Len(s) - 1 /\ Len(s) \in Nat /\ Len(s) # 0
         /\ \A i \in DOMAIN Tail(s) : i + 1 \in DOMAIN s /\ Tail(s)[i] = s[i + 1]
         /\ 1 \in DOMAIN s /\ Head(s) = s[1]
         /\ \A x : Contains(s, x) <=> Head(s) = x \/ Contains(Tail(s), x)
<1> DEFINE t == Tail(s)
<1>1. /\ t \in Seq(Irqs4) /\ Len(t) = Len(s) - 1 /\ Len(s) \in Nat /\ Len(s) # 0
      /\ \A i \in 1..Len(t) : t[i] = s[i + 1]
      /\ Head(s) = s[1] /\ DOMAIN s = 1..Len(s) /\ DOMAIN t = 1..Len(t)
  OBVIOUS
<1> HIDE DEF t
<1>2. \A x : Contains(s, x) <=> s[1] = x \/ Contains(t, x)
  <2> TAKE x
  <2>1. ASSUME Contains(s, x), s[1] # x PROVE Contains(t, x)
    <3>1. PICK i \in 1..Len(s) : s[i] = x
      BY <2>1 DEF Contains
    <3>2. i - 1 \in 1..Len(t) /\ t[i - 1] = s[(i - 1) + 1]
      BY <1>1, <2>1, <3>1
    <3>3. t[i - 1] = x
      BY <3>1, <3>2
    <3> QED
      BY <3>2, <3>3 DEF Contains
  <2>2. ASSUME Contains(t, x) PROVE Contains(s, x)
    <3>1. PICK i \in 1..Len(t) : t[i] = x
      BY <2>2 DEF Contains
    <3>2. i + 1 \in 1..Len(s) /\ s[i + 1] = x
      BY <1>1, <3>1
    <3> QED
      BY <3>2 DEF Contains
  <2>3. ASSUME s[1] = x PROVE Contains(s, x)
    <3>1. 1 \in 1..Len(s)
      BY <1>1
    <3> QED
      BY <2>3, <3>1 DEF Contains
  <2> QED
    BY <2>1, <2>2, <2>3
<1> QED
  BY <1>1, <1>2 DEF t

LEMMA ASeq ==
  ASSUME NEW S, NEW n \in Nat, NEW f \in [1..n -> S]
  PROVE  f \in Seq(S)
OBVIOUS

LEMMA NothingRaised == <<>> \in Seq(Irqs4) /\ DOMAIN <<>> = {} /\ \A x : ~Contains(<<>>, x)
BY DEF Contains

LEMMA WithoutSetupHasNone ==
  ASSUME irqs \in Seq(Irqs4), SetupIsLast
  PROVE  /\ WithoutSetup \in Seq(Irqs4) /\ ~Contains(WithoutSetup, "setup")
         /\ \A x : Contains(WithoutSetup, x) => Contains(irqs, x)
<1>1. CASE Raised("setup")
  <2>1. PICK i \in 1..Len(irqs) : irqs[i] = "setup"
    BY <1>1 DEF Raised, Contains
  <2> DEFINE n == Len(irqs)
             t == SubSeq(irqs, 1, n - 1)
  <2>2. n \in Nat /\ n # 0 /\ DOMAIN irqs = 1..n
    BY <2>1
  <2>3. t \in Seq(Irqs4) /\ Len(t) = n - 1 /\ \A j \in 1..(n - 1) : t[j] = irqs[j]
    BY <2>2
  <2>4. WithoutSetup = t
    BY <1>1 DEF WithoutSetup, Front
  <2> HIDE DEF t
  <2>5. \A j \in 1..(n - 1) : irqs[j] # "setup"
    BY <2>2 DEF SetupIsLast
  <2>6. ASSUME NEW x, Contains(t, x) PROVE Contains(irqs, x) /\ x # "setup"
    <3>1. PICK j \in 1..Len(t) : t[j] = x
      BY <2>6 DEF Contains
    <3>2. j \in 1..n /\ j \in 1..(n - 1) /\ irqs[j] = x
      BY <2>2, <2>3, <3>1
    <3> QED
      BY <2>5, <3>2 DEF Contains
  <2> QED
    BY <2>3, <2>4, <2>6
<1>2. CASE ~Raised("setup")
  BY <1>2 DEF Raised, WithoutSetup
<1> QED
  BY <1>1, <1>2

LEMMA NoSetup ==
  ASSUME NEW s \in Seq(Irqs4), ~Contains(s, "setup")
  PROVE  \A i \in DOMAIN s : s[i] # "setup"
BY DEF Contains

-----------------------------------------------------------------------------
(* A host that starts over knows nothing.                                  *)
LEMMA IdleIs ==
  /\ Idle \in Peers /\ DOMAIN Idle.sizes = {} /\ ~Idle.configured /\ Idle.at = "off"
BY EmptySizes DEF Idle, Peers, Speeds

LEMMA KnowsNothing ==
  ASSUME DOMAIN peer'.sizes = {}, ~peer'.configured
  PROVE  KnowledgeIsCurrent' /\ SizesAreTrue' /\ ArmedAsConfigured'
BY DEF KnowledgeIsCurrent, Knows, SizesAreTrue, ArmedAsConfigured

LEMMA SetupStarts == UsbSetupInit => SetupInv
<1> SUFFICES ASSUME UsbSetupInit PROVE SetupInv
  OBVIOUS
<1>1. controller \in {"dwc", "ci"} /\ gadget \in Gadgets
  BY UsbSetupAssumption DEF UsbSetupInit, UsbSetupAssumption
<1>2. Nobody \in Udcs
  <2>1. <<>> \in Seq(Descs) /\ <<>> \in Seq(Epts)
    OBVIOUS
  <2> QED
    BY <2>1 DEF Nobody, Udcs, Speeds
<1>3. udc \in Udcs /\ (~udc.lost => Ready(udc))
  <2>1. PICK u : u = Nobody
    OBVIOUS
  <2>2. PICK v : v = UsbInit(u)
    OBVIOUS
  <2>3. v \in Udcs /\ (~v.lost => Ready(v))
    BY <1>1, <1>2, <2>1, <2>2, StartIsReady
  <2> QED
    BY <2>1, <2>2, <2>3 DEF UsbSetupInit
<1>4. peer = Idle /\ irqs = <<>> /\ armed \in [Addrs -> Nat]
  BY DEF UsbSetupInit, Addrs
<1>5. SetupTypes
  BY <1>1, <1>3, <1>4, IdleIs, NothingRaised DEF SetupTypes, UsbSetupInit
<1>6. SetupIsLast /\ SpeedIsComing
  BY <1>4, IdleIs, NothingRaised DEF SetupIsLast, SpeedIsComing, Raised
<1>7. KnowledgeIsCurrent /\ SizesAreTrue /\ ArmedAsConfigured
  BY <1>4, IdleIs DEF KnowledgeIsCurrent, Knows, SizesAreTrue, ArmedAsConfigured
<1> QED
  BY <1>3, <1>4, <1>5, <1>6, <1>7, IdleIs DEF SetupInv

LEMMA ControllerIs == SetupInv => controller \in {"dwc", "ci"} /\ gadget \in Gadgets
BY UsbSetupAssumption DEF SetupInv, SetupTypes, UsbSetupAssumption

LEMMA StartKeeps == SetupInv /\ PeriphStart => SetupInv'
<1> SUFFICES ASSUME SetupInv, PeriphStart PROVE SetupInv'
  OBVIOUS
<1>1. /\ controller \in {"dwc", "ci"} /\ gadget \in Gadgets /\ udc \in Udcs /\ Ready(udc)
      /\ UNCHANGED <<controller, gadget>> /\ armed \in [Addrs -> Nat]
  BY ControllerIs DEF SetupInv, SetupTypes, PeriphStart
<1>2. udc' \in Udcs /\ (~udc'.lost => Ready(udc)')
  <2>1. PICK v : v = UsbInit(udc)
    OBVIOUS
  <2>2. v \in Udcs /\ (~v.lost => Ready(v))
    BY <1>1, <2>1, StartIsReady
  <2>3. v = udc'
    BY <2>1 DEF PeriphStart
  <2> QED
    BY <1>1, <2>2, <2>3, NextReady
<1>3. peer' = Idle /\ irqs' = <<>>
  BY DEF PeriphStart
<1>4. armed' \in [Addrs -> Nat]
  BY <1>1 DEF PeriphStart
<1>5. SetupTypes'
  BY <1>1, <1>2, <1>3, <1>4, IdleIs, NothingRaised DEF SetupTypes, SetupInv, Udcs, Descs, Sizes, Ends, Peers
<1>6. SetupIsLast' /\ SpeedIsComing'
  BY <1>3, IdleIs, NothingRaised DEF SetupIsLast, SpeedIsComing, Raised
<1>7. KnowledgeIsCurrent' /\ SizesAreTrue' /\ ArmedAsConfigured'
  BY <1>3, IdleIs, KnowsNothing
<1> QED
  BY <1>2, <1>3, <1>5, <1>6, <1>7, IdleIs DEF SetupInv

(* The host's steps.                                                       *)
LEMMA HostKeeps ==
  ASSUME SetupInv, ~udc.lost, UNCHANGED <<controller, gadget, udc, armed>>,
         peer' \in Peers, irqs' \in Seq(Irqs4), SetupIsLast', SpeedIsComing',
         KnowledgeIsCurrent', SizesAreTrue', ArmedAsConfigured'
  PROVE  SetupInv'
<1>1. SetupTypes'
  BY DEF SetupInv, SetupTypes, Udcs, Descs, Sizes, Ends, Peers
<1>2. Ready(udc)'
  <2>1. PICK v : v = udc
    OBVIOUS
  <2>2. Ready(v)
    BY <2>1 DEF SetupInv
  <2> QED
    BY <2>1, <2>2, NextReady
<1> QED
  BY <1>1, <1>2 DEF SetupInv

LEMMA HostResetKeeps == SetupInv /\ HostReset => SetupInv'
<1> SUFFICES ASSUME SetupInv, HostReset PROVE SetupInv'
  OBVIOUS
<1>1. /\ UNCHANGED <<controller, gadget, udc, armed>> /\ ~udc.lost
      /\ irqs \in Seq(Irqs4) /\ SetupIsLast /\ peer \in Peers
  BY DEF SetupInv, SetupTypes, HostReset, Irqs, CanRaise
<1>2. PICK s : s = WithoutSetup
  OBVIOUS
<1>3. s \in Seq(Irqs4) /\ ~Contains(s, "setup") /\ \A x : Contains(s, x) => Contains(irqs, x)
  BY <1>1, <1>2, WithoutSetupHasNone
<1>4. irqs' = Append(s, "reset")
  BY <1>2 DEF HostReset, Irqs
<1>5. /\ irqs' \in Seq(Irqs4) /\ \A x : Contains(irqs', x) <=> Contains(s, x) \/ x = "reset"
  <2>1. "reset" \in Irqs4
    BY DEF Irqs4
  <2> QED
    BY <1>3, <1>4, <2>1, RaisedOneMore
<1>6. SetupIsLast'
  <2>1. ~Contains(irqs', "setup")
    BY <1>3, <1>5
  <2>2. \A i \in DOMAIN irqs' : irqs'[i] # "setup"
    BY <1>5, <2>1, NoSetup
  <2> QED
    BY <2>2 DEF SetupIsLast
<1>7. /\ peer' \in Peers /\ peer'.sizes = Idle.sizes /\ peer'.configured = Idle.configured
      /\ peer'.at = "reset" /\ peer'.speed = peer.speed
  BY <1>1, IdleIs DEF HostReset, Peers
<1>8. SpeedIsComing'
  <2>1. Raised("connect")' => Raised("connect")
    BY <1>3, <1>5 DEF Raised
  <2> QED
    BY <1>7, <2>1 DEF SpeedIsComing, SetupInv
<1>9. KnowledgeIsCurrent' /\ SizesAreTrue' /\ ArmedAsConfigured'
  BY <1>7, IdleIs, KnowsNothing
<1> QED
  BY <1>1, <1>5, <1>6, <1>7, <1>8, <1>9, HostKeeps

LEMMA HostLeavesKeeps == SetupInv /\ HostLeaves => SetupInv'
<1> SUFFICES ASSUME SetupInv, HostLeaves PROVE SetupInv'
  OBVIOUS
<1>1. /\ UNCHANGED <<controller, gadget, udc, armed>> /\ ~udc.lost
      /\ irqs \in Seq(Irqs4) /\ SetupIsLast /\ peer \in Peers /\ peer.at = "up"
  BY DEF SetupInv, SetupTypes, HostLeaves, Irqs, CanRaise
<1>2. PICK s : s = WithoutSetup
  OBVIOUS
<1>3. s \in Seq(Irqs4) /\ ~Contains(s, "setup") /\ \A x : Contains(s, x) => Contains(irqs, x)
  BY <1>1, <1>2, WithoutSetupHasNone
<1>4. irqs' = Append(s, "disconnect") \/ irqs' = s
  BY <1>2 DEF HostLeaves, Irqs
<1>5. /\ irqs' \in Seq(Irqs4) /\ \A x : Contains(irqs', x) => Contains(s, x) \/ x = "disconnect"
  <2>1. "disconnect" \in Irqs4
    BY DEF Irqs4
  <2> QED
    <3>1. CASE irqs' = Append(s, "disconnect")
      BY <1>3, <2>1, <3>1, RaisedOneMore
    <3>2. CASE irqs' = s
      BY <1>3, <3>2
    <3> QED
      BY <1>4, <3>1, <3>2
<1>6. SetupIsLast'
  <2>1. ~Contains(irqs', "setup")
    BY <1>3, <1>5
  <2>2. \A i \in DOMAIN irqs' : irqs'[i] # "setup"
    BY <1>5, <2>1, NoSetup
  <2> QED
    BY <2>2 DEF SetupIsLast
<1>7. /\ peer' \in Peers /\ peer'.sizes = Idle.sizes /\ peer'.configured = Idle.configured
      /\ peer'.at = Idle.at /\ peer'.speed = peer.speed
  BY <1>1, IdleIs DEF HostLeaves, Peers
<1>8. SpeedIsComing'
  <2>1. peer.speed # "none"
    BY <1>1 DEF SetupInv, SpeedIsComing
  <2> QED
    BY <1>7, <2>1, IdleIs DEF SpeedIsComing
<1>9. KnowledgeIsCurrent' /\ SizesAreTrue' /\ ArmedAsConfigured'
  BY <1>7, IdleIs, KnowsNothing
<1> QED
  BY <1>1, <1>5, <1>6, <1>7, <1>8, <1>9, HostKeeps

LEMMA HostConnectsKeeps ==
  ASSUME SetupInv, NEW speed \in {"FS", "HS", "SS"}, HostConnects(speed)
  PROVE  SetupInv'
<1>1. /\ UNCHANGED <<controller, gadget, udc, armed>> /\ ~udc.lost
      /\ irqs \in Seq(Irqs4) /\ SetupIsLast /\ peer \in Peers /\ peer.at = "reset"
      /\ irqs' = Append(irqs, "connect")
  BY DEF SetupInv, SetupTypes, HostConnects, Irqs, CanRaise
<1>2. /\ irqs' \in Seq(Irqs4) /\ \A x : Contains(irqs', x) <=> Contains(irqs, x) \/ x = "connect"
  <2>1. "connect" \in Irqs4
    BY DEF Irqs4
  <2> QED
    BY <1>1, <2>1, RaisedOneMore
<1>3. SetupIsLast'
  <2>1. ~Contains(irqs, "setup")
    BY <1>1 DEF SetupIsLast, Contains
  <2>2. ~Contains(irqs', "setup")
    BY <1>2, <2>1
  <2>3. \A i \in DOMAIN irqs' : irqs'[i] # "setup"
    BY <1>2, <2>2, NoSetup
  <2> QED
    BY <2>3 DEF SetupIsLast
<1>4. /\ peer' \in Peers /\ peer'.sizes = Idle.sizes /\ peer'.configured = Idle.configured
      /\ peer'.at = "up" /\ peer'.speed = speed
  BY <1>1, IdleIs DEF HostConnects, Peers, Speeds
<1>5. SpeedIsComing'
  BY <1>2, <1>4 DEF SpeedIsComing, Raised
<1>6. KnowledgeIsCurrent' /\ SizesAreTrue' /\ ArmedAsConfigured'
  BY <1>4, IdleIs, KnowsNothing
<1> QED
  BY <1>1, <1>2, <1>3, <1>4, <1>5, <1>6, HostKeeps

LEMMA HostAsksKeeps ==
  ASSUME SetupInv, NEW request \in Requests, HostAsks(request)
  PROVE  SetupInv'
<1>1. /\ UNCHANGED <<controller, gadget, udc, armed>> /\ ~udc.lost
      /\ irqs \in Seq(Irqs4) /\ SetupIsLast /\ peer \in Peers /\ peer.at = "up" /\ peer.asks = "none"
      /\ irqs' = Append(irqs, "setup")
  BY DEF SetupInv, SetupTypes, HostAsks, Irqs, CanRaise
<1>2. /\ irqs' \in Seq(Irqs4) /\ Len(irqs') = Len(irqs) + 1
      /\ \A i \in DOMAIN irqs' : irqs'[i] = IF i = Len(irqs) + 1 THEN "setup" ELSE irqs[i]
      /\ \A x : Contains(irqs', x) <=> Contains(irqs, x) \/ x = "setup"
  <2>1. "setup" \in Irqs4
    BY DEF Irqs4
  <2> QED
    BY <1>1, <2>1, RaisedOneMore
<1>3. /\ peer' \in Peers /\ peer'.sizes = peer.sizes /\ peer'.configured = peer.configured
      /\ peer'.at = "up" /\ peer'.speed = peer.speed /\ peer'.asks = request
  BY <1>1 DEF HostAsks, Peers
<1>4. SetupIsLast'
  <2>1. \A i \in DOMAIN irqs : irqs[i] # "setup"
    BY <1>1 DEF SetupIsLast
  <2>2. \A i \in DOMAIN irqs' : i = Len(irqs') \/ i \in DOMAIN irqs
    BY <1>1, <1>2
  <2>3. request # "none"
    BY DEF Requests
  <2> QED
    BY <1>2, <1>3, <2>1, <2>2, <2>3 DEF SetupIsLast
<1>5. \A i : i # "setup" => (Raised(i)' <=> Raised(i))
  BY <1>2 DEF Raised
<1>6. SpeedIsComing'
  BY <1>1, <1>3, <1>5 DEF SpeedIsComing, SeenAs, SetupInv
<1>7. KnowledgeIsCurrent'
  BY <1>1, <1>3, <1>5 DEF KnowledgeIsCurrent, Knows, SetupInv
<1>8. SizesAreTrue' /\ ArmedAsConfigured'
  BY <1>1, <1>3, NextSize DEF SizesAreTrue, ArmedAsConfigured, SetupInv, Ends
<1> QED
  BY <1>1, <1>2, <1>3, <1>4, <1>6, <1>7, <1>8, HostKeeps

-----------------------------------------------------------------------------
(* The newer controller's events.                                          *)

(* When the speed is known all that is kept of the endpoints is patched.   *)
LEMMA ConnectMakesFit ==
  ASSUME gadget \in Gadgets, controller = "dwc", udc \in Udcs, Ready(udc),
         peer.speed \in {"FS", "HS", "SS"}
  PROVE  LET v == ConnectDone(udc)
         IN  v \in Udcs /\ Ready(v) /\ v.speed = peer.speed /\ v.lost = udc.lost
<1> DEFINE speed == peer.speed
           size  == SpeedOf(speed)
           descs == [i \in DOMAIN udc.desc_list |-> Patched(udc.desc_list[i], size)]
           epts  == [i \in DOMAIN udc.ept_list |-> Ep(udc.ept_list[i].num, udc.ept_list[i].in, size)]
           v     == ConnectDone(udc)
<1>1. size \in Nat /\ (speed = "HS" => size = 512) /\ (speed = "SS" => size = 1024)
  BY DEF SpeedOf
<1>2. udc.desc_list \in Seq(Descs) /\ udc.ept_list \in Seq(Epts)
  BY DEF Udcs
<1>3. v = [udc EXCEPT !.speed = speed, !.desc_list = descs, !.ept_list = epts]
  BY DEF ConnectDone, UpdateEpDesc, Udcs
<1> HIDE DEF size, speed, v
<1>4. ASSUME NEW d \in Descs, FitsSpeed(d, udc.speed)
      PROVE  Patched(d, size) \in Descs /\ FitsSpeed(Patched(d, size), speed)
  <2> DEFINE z == [k \in DOMAIN d.sizes |-> IF TypeAt(d.specs, k) \in EpBulkIndexes THEN size ELSE d.sizes[k]]
             e == Patched(d, size)
  <2>1. PICK D \in SUBSET Ends : d.sizes \in [D -> Nat]
    BY DEF Descs, Sizes
  <2>2. z \in [D -> Nat]
    BY <1>1, <2>1
  <2>3. e.tag = d.tag /\ e.specs = d.specs /\ e.sizes = z
    BY DEF Patched, Descriptor
  <2>4. z \in Sizes /\ (d.tag = "config" => z \in [Ends -> Nat])
    <3>1. d.tag = "config" => D = Ends
      <4>1. d.tag = "config" => d.sizes \in [Ends -> Nat]
        BY DEF Descs
      <4>2. DOMAIN d.sizes = D
        BY <2>1
      <4>3. d.tag = "config" => DOMAIN d.sizes = Ends
        BY <4>1
      <4> QED
        BY <4>2, <4>3
    <3> HIDE DEF z
    <3> QED
      BY <2>2, <3>1 DEF Sizes
  <2>5. e \in Descs
    <3> HIDE DEF z
    <3> QED
      BY <2>4 DEF Patched, Descriptor, Descs, z
  <2>6. ASSUME d.tag = "config", d.specs = {20}, NEW k \in Ends, k # 1 \/ speed = "HS" PROVE z[k] = 512
    <3>1. d.sizes \in [Ends -> Nat]
      BY <2>6 DEF Descs
    <3>2. TypeAt(d.specs, k) = 18 + (k - 1) * 7 + 3
      BY <2>6 DEF TypeAt
    <3>3. k \in Nat /\ k # 0
      BY DEF Ends
    <3>4. CASE k = 1
      BY <1>1, <2>6, <3>1, <3>2, <3>4 DEF EpBulkIndexes
    <3>5. CASE k # 1
      <4>1. d.sizes[k] = 512
        BY <1>4, <2>6, <3>5 DEF FitsSpeed
      <4>2. TypeAt(d.specs, k) \notin EpBulkIndexes
        BY <3>2, <3>3, <3>5 DEF EpBulkIndexes
      <4> QED
        BY <3>1, <4>1, <4>2
    <3> QED
      BY <3>4, <3>5
  <2>7. ASSUME d.tag = "config", d.specs = {30}, speed = "SS", NEW k \in Ends, k <= 2 PROVE z[k] = 1024
    <3>1. d.sizes \in [Ends -> Nat]
      BY <2>7 DEF Descs
    <3>2. TypeAt(d.specs, k) = 18 + (k - 1) * 13 + 3
      BY <2>7 DEF TypeAt
    <3>3. k \in {1, 2}
      BY <2>7 DEF Ends
    <3>4. TypeAt(d.specs, k) \in EpBulkIndexes
      BY <3>2, <3>3 DEF EpBulkIndexes
    <3> QED
      BY <1>1, <2>7, <3>1, <3>4
  <2> HIDE DEF z, e
  <2>8. FitsSpeed(e, speed)
    BY <2>3, <2>6, <2>7 DEF FitsSpeed
  <2> QED
    BY <2>5, <2>8 DEF e
<1>5. descs \in Seq(Descs) /\ \A i \in DOMAIN descs : FitsSpeed(descs[i], speed)
  <2>1. \A i \in DOMAIN udc.desc_list : udc.desc_list[i] \in Descs /\ FitsSpeed(udc.desc_list[i], udc.speed)
    BY <1>2 DEF Ready
  <2>2. \A i \in DOMAIN udc.desc_list : descs[i] \in Descs /\ FitsSpeed(descs[i], speed)
    BY <1>4, <2>1
  <2>3. DOMAIN udc.desc_list = 1..Len(udc.desc_list) /\ Len(udc.desc_list) \in Nat
    BY <1>2
  <2>4. descs \in [1..Len(udc.desc_list) -> Descs] /\ DOMAIN descs = DOMAIN udc.desc_list
    BY <2>2, <2>3
  <2> HIDE DEF descs
  <2> QED
    BY <2>2, <2>3, <2>4, ASeq
<1>6. epts \in Seq(Epts) /\ \A i \in DOMAIN epts : epts[i].maxpkt = size
  <2>1. \A i \in DOMAIN udc.ept_list : epts[i] \in Epts /\ epts[i].maxpkt = size
    <3> TAKE i \in DOMAIN udc.ept_list
    <3>1. udc.ept_list[i] \in Epts
      BY <1>2
    <3> QED
      BY <1>1, <3>1 DEF Ep, Epts
  <2>2. DOMAIN udc.ept_list = 1..Len(udc.ept_list) /\ Len(udc.ept_list) \in Nat
    BY <1>2
  <2>3. epts \in [1..Len(udc.ept_list) -> Epts] /\ DOMAIN epts = DOMAIN udc.ept_list
    BY <2>1, <2>2
  <2> HIDE DEF epts
  <2> QED
    BY <2>1, <2>2, <2>3, ASeq
<1>7. /\ DOMAIN epts = DOMAIN udc.ept_list
      /\ \A i \in DOMAIN epts : epts[i].num = udc.ept_list[i].num /\ epts[i].in = udc.ept_list[i].in
  BY DEF Ep
<1> HIDE DEF descs, epts
<1>8. /\ v \in Udcs /\ v.speed = speed /\ v.desc_list = descs /\ v.ept_list = epts
      /\ v.lost = udc.lost
  BY <1>3, <1>5, <1>6 DEF Udcs, Speeds, speed
<1>9. Addresses(v) = Addresses(udc)
  BY <1>7, <1>8 DEF Addresses, ToSet
<1>10. Ready(v)
  BY <1>5, <1>6, <1>8, <1>9 DEF Ready, size
<1> QED
  BY <1>8, <1>10 DEF v, speed

(* Types, once a step has left the board alone.                            *)
LEMMA NextTypes ==
  ASSUME SetupTypes, UNCHANGED <<controller, gadget>>,
         udc' \in Udcs, armed' \in [Addrs -> Nat], peer' \in Peers, irqs' \in Seq(Irqs4)
  PROVE  SetupTypes'
BY DEF SetupTypes, Udcs, Descs, Sizes, Ends, Peers

(* A step that leaves the host and the packet sizes alone.                 *)
LEMMA StillTrue ==
  ASSUME SizesAreTrue, ArmedAsConfigured, UNCHANGED <<controller, gadget, armed>>,
         peer'.speed = peer.speed, peer'.sizes = peer.sizes, peer'.configured = peer.configured,
         Knows => udc'.speed = udc.speed
  PROVE  SizesAreTrue' /\ ArmedAsConfigured'
<1>1. CASE Knows
  BY <1>1, NextSize DEF SizesAreTrue, ArmedAsConfigured, Ends
<1>2. CASE ~Knows
  BY <1>2 DEF SizesAreTrue, ArmedAsConfigured, Knows
<1> QED
  BY <1>1, <1>2

LEMMA OfflineIs ==
  ASSUME NEW u \in Udcs
  PROVE  Offline(u) \in Udcs /\ Same(Offline(u), u)
<1>1. 0 \in 0..1
  OBVIOUS
<1> QED
  BY <1>1 DEF Offline, Udcs, Same

LEMMA DwcEventKeeps == SetupInv /\ DwcEvent => SetupInv'
<1> SUFFICES ASSUME SetupInv, DwcEvent PROVE SetupInv'
  OBVIOUS
<1>1. /\ controller = "dwc" /\ gadget \in Gadgets /\ udc \in Udcs /\ peer \in Peers
      /\ armed \in [Addrs -> Nat] /\ irqs \in Seq(Irqs4) /\ irqs # <<>> /\ irqs' = Tail(irqs)
      /\ UNCHANGED <<controller, gadget>> /\ ~udc.lost /\ Ready(udc) /\ SetupTypes
      /\ SetupIsLast /\ SpeedIsComing /\ KnowledgeIsCurrent /\ SizesAreTrue /\ ArmedAsConfigured
  BY DEF SetupInv, SetupTypes, DwcEvent
<1>2. /\ irqs' \in Seq(Irqs4) /\ Len(irqs') = Len(irqs) - 1 /\ Len(irqs) \in Nat /\ Len(irqs) # 0
      /\ \A i \in DOMAIN irqs' : i + 1 \in DOMAIN irqs /\ irqs'[i] = irqs[i + 1]
      /\ 1 \in DOMAIN irqs /\ Head(irqs) = irqs[1]
      /\ \A x : Contains(irqs, x) <=> Head(irqs) = x \/ Contains(irqs', x)
  <2>1. PICK s : s = irqs
    OBVIOUS
  <2> QED
    BY <1>1, <2>1, RaisedOneLess
<1>3. \A x : Raised(x) <=> Head(irqs) = x \/ Raised(x)'
  BY <1>2 DEF Raised
<1>4. ASSUME peer' = peer PROVE SetupIsLast'
  <2>1. \A i \in DOMAIN irqs' : i \in Nat
    BY <1>2
  <2> QED
    BY <1>1, <1>2, <1>4, <2>1 DEF SetupIsLast
<1>5. CASE Head(irqs) \in {"reset", "disconnect"} /\ udc' = Offline(udc) /\ UNCHANGED <<armed, peer>>
  <2>1. PICK v : v = Offline(udc)
    OBVIOUS
  <2>2. v \in Udcs /\ Same(v, udc)
    BY <1>1, <2>1, OfflineIs
  <2>3. Ready(v) /\ v.speed = udc.speed /\ v.lost = udc.lost
    BY <1>1, <2>2, ReadySame DEF Same
  <2>4. v = udc'
    BY <1>5, <2>1
  <2>5. Ready(udc)'
    BY <1>1, <2>3, <2>4, NextReady
  <2>6. \A x : Raised(x)' => Raised(x)
    BY <1>3
  <2>7. Raised("connect") => Raised("connect")'
    BY <1>3, <1>5
  <2>8. SpeedIsComing'
    BY <1>1, <1>5, <2>3, <2>4, <2>6, <2>7 DEF SpeedIsComing, SeenAs
  <2>9. KnowledgeIsCurrent'
    BY <1>1, <1>5, <2>6 DEF KnowledgeIsCurrent, Knows
  <2>10. SizesAreTrue' /\ ArmedAsConfigured'
    BY <1>1, <1>5, <2>3, <2>4, StillTrue
  <2>11. SetupTypes'
    BY <1>1, <1>2, <1>5, <2>2, <2>4, NextTypes
  <2> QED
    BY <1>1, <1>4, <1>5, <2>3, <2>4, <2>5, <2>8, <2>9, <2>10, <2>11 DEF SetupInv
<1>6. CASE Head(irqs) = "connect" /\ udc' = ConnectDone(udc) /\ UNCHANGED <<armed, peer>>
  <2>1. Raised("connect") /\ peer.speed # "none" /\ ~Knows
    BY <1>1, <1>3, <1>6 DEF SpeedIsComing, KnowledgeIsCurrent
  <2>2. peer.speed \in {"FS", "HS", "SS"}
    BY <1>1, <2>1 DEF Peers, Speeds
  <2>3. PICK v : v = ConnectDone(udc)
    OBVIOUS
  <2>4. v \in Udcs /\ Ready(v) /\ v.speed = peer.speed /\ v.lost = udc.lost
    BY <1>1, <2>2, <2>3, ConnectMakesFit
  <2>5. v = udc'
    BY <1>6, <2>3
  <2>6. Ready(udc)'
    BY <1>1, <2>4, <2>5, NextReady
  <2>7. SpeedIsComing'
    BY <1>1, <1>6, <2>1, <2>4, <2>5 DEF SpeedIsComing, SeenAs
  <2>8. KnowledgeIsCurrent'
    BY <1>6, <2>1 DEF KnowledgeIsCurrent, Knows
  <2>9. SizesAreTrue' /\ ArmedAsConfigured'
    BY <1>1, <1>6, <2>1, StillTrue
  <2>10. SetupTypes'
    BY <1>1, <1>2, <1>6, <2>4, <2>5, NextTypes
  <2> QED
    BY <1>1, <1>4, <1>6, <2>4, <2>5, <2>6, <2>7, <2>8, <2>9, <2>10 DEF SetupInv
<1>7. CASE Head(irqs) = "setup" /\ Setup(udc)
  <2>1. Len(irqs) = 1 /\ peer.at = "up" /\ peer.asks # "none"
    BY <1>1, <1>2, <1>7 DEF SetupIsLast
  <2>2. Len(irqs') = 0 /\ DOMAIN irqs' = {} /\ irqs' = <<>>
    <3>1. Len(irqs') = 0
      BY <1>2, <2>1
    <3> QED
      BY <1>2, <3>1
  <2>3. \A x : ~Raised(x)'
    BY <2>2, NothingRaised DEF Raised
  <2>4. ~Raised("connect")
    BY <1>3, <1>7, <2>3
  <2>5. peer.speed # "none" /\ udc.speed = peer.speed
    BY <1>1, <2>1, <2>4 DEF SpeedIsComing, SeenAs
  <2>6. peer.configured => Fits(armed, udc.speed)
    BY <1>1 DEF ArmedAsConfigured, Fits
  <2>7. \A k \in DOMAIN peer.sizes :
          SpeedIsTold(k, udc.speed) => peer.sizes[k] = PacketSize(udc.speed)
    BY <1>1 DEF SizesAreTrue
  <2>8. /\ udc' \in Udcs /\ armed' \in [Addrs -> Nat] /\ peer' \in Peers
        /\ ~udc'.lost /\ Ready(udc)' /\ SizesAreTrue' /\ ArmedAsConfigured'
        /\ udc'.speed = udc.speed /\ peer'.at = "up" /\ peer'.speed = peer.speed
    <3>1. PICK u : u = udc
      OBVIOUS
    <3>2. Setup(u) /\ u \in Udcs /\ Ready(u) /\ ~u.lost
      BY <1>1, <1>7, <3>1
    <3> QED
      BY <1>1, <2>1, <2>5, <2>6, <2>7, <3>1, <3>2, SetupKeeps
  <2>9. SetupIsLast' /\ SpeedIsComing' /\ KnowledgeIsCurrent'
    BY <1>1, <2>2, <2>3, <2>5, <2>8 DEF SetupIsLast, SpeedIsComing, KnowledgeIsCurrent, SeenAs
  <2>10. SetupTypes'
    BY <1>1, <1>2, <2>8, NextTypes
  <2> QED
    BY <2>8, <2>9, <2>10 DEF SetupInv
<1> QED
  BY <1>5, <1>6, <1>7 DEF DwcEvent

-----------------------------------------------------------------------------
(* The older controller takes all that was raised at once.                 *)
LEMMA CiInterruptKeeps == SetupInv /\ CiInterrupt => SetupInv'
<1> SUFFICES ASSUME SetupInv, CiInterrupt PROVE SetupInv'
  OBVIOUS
<1>1. /\ controller = "ci" /\ gadget \in Gadgets /\ udc \in Udcs /\ peer \in Peers
      /\ armed \in [Addrs -> Nat] /\ irqs \in Seq(Irqs4) /\ irqs # <<>> /\ irqs' = <<>>
      /\ UNCHANGED <<controller, gadget>> /\ ~udc.lost /\ Ready(udc) /\ SetupTypes
      /\ SetupIsLast /\ SpeedIsComing /\ KnowledgeIsCurrent /\ SizesAreTrue /\ ArmedAsConfigured
  BY DEF SetupInv, SetupTypes, CiInterrupt
<1>2. irqs' \in Seq(Irqs4) /\ DOMAIN irqs' = {} /\ \A x : ~Raised(x)'
  BY <1>1, NothingRaised DEF Raised
<1>3. ASSUME NEW u \in {udc, Offline(udc)}
      PROVE  LET v == PortChange(u)
             IN  /\ v \in Udcs /\ Ready(v) /\ v.lost = udc.lost
                 /\ v.speed = IF Raised("connect") THEN SeenAs(peer.speed) ELSE udc.speed
  <2>1. u \in Udcs /\ Same(u, udc)
    BY <1>1, <1>3, OfflineIs DEF Same
  <2>2. Ready(u)
    BY <1>1, <2>1, ReadySame
  <2> DEFINE new == IF peer.speed = "HS" THEN "HS" ELSE "none"
             v == [u EXCEPT !.speed = new]
  <2>3. CASE ~Raised("connect")
    BY <2>1, <2>2, <2>3 DEF PortChange, Same
  <2>4. CASE Raised("connect")
    <3>1. PortChange(u) = v
      BY <2>4 DEF PortChange
    <3>2. new \in Speeds
      BY DEF Speeds
    <3> HIDE DEF new
    <3>3. /\ v \in Udcs /\ v.desc_list = u.desc_list /\ v.ept_list = u.ept_list
          /\ v.gadget = u.gadget /\ v.lost = u.lost /\ v.speed = new
      BY <2>1, <3>2 DEF Udcs
    <3>6. new = SeenAs(peer.speed)
      BY <1>1 DEF SeenAs, new
    <3> HIDE DEF v
    <3>4. Addresses(v) = Addresses(u)
      BY <3>3 DEF Addresses
    <3>5. Ready(v)
      BY <1>1, <2>2, <3>3, <3>4 DEF Ready
    <3> QED
      BY <2>1, <2>4, <3>1, <3>3, <3>5, <3>6 DEF Same
  <2> QED
    BY <2>3, <2>4
<1>4. ASSUME NEW u \in {udc, Offline(udc)}, udc' = PortChange(u)
      PROVE  /\ udc' \in Udcs /\ Ready(udc)' /\ udc'.lost = udc.lost
             /\ udc'.speed = IF Raised("connect") THEN SeenAs(peer.speed) ELSE udc.speed
  <2>1. PICK v : v = PortChange(u)
    OBVIOUS
  <2>2. /\ v \in Udcs /\ Ready(v) /\ v.lost = udc.lost
        /\ v.speed = IF Raised("connect") THEN SeenAs(peer.speed) ELSE udc.speed
    BY <1>3, <1>4, <2>1
  <2>3. v = udc'
    BY <1>4, <2>1
  <2> QED
    BY <1>1, <2>2, <2>3, NextReady
<1>5. CASE Raised("reset") /\ CiReset
  <2>1. ~Knows
    BY <1>1, <1>5 DEF KnowledgeIsCurrent
  <2>2. udc' = PortChange(Offline(udc)) /\ armed' = Unconfigured /\ peer' = [peer EXCEPT !.asks = "none"]
    BY <1>5 DEF CiReset
  <2>3. /\ udc' \in Udcs /\ Ready(udc)' /\ udc'.lost = udc.lost
        /\ udc'.speed = IF Raised("connect") THEN SeenAs(peer.speed) ELSE udc.speed
    BY <2>2, <1>4
  <2>4. armed' \in [Addrs -> Nat]
    BY <1>1, <2>2 DEF Unconfigured
  <2>5. /\ peer' \in Peers /\ peer'.sizes = peer.sizes /\ peer'.configured = peer.configured
        /\ peer'.at = peer.at /\ peer'.speed = peer.speed
    BY <1>1, <2>2 DEF Peers
  <2>6. KnowledgeIsCurrent' /\ SizesAreTrue' /\ ArmedAsConfigured'
    BY <2>1, <2>5, KnowsNothing DEF Knows
  <2>7. SetupIsLast' /\ SpeedIsComing'
    BY <1>1, <1>2, <2>3, <2>5 DEF SetupIsLast, SpeedIsComing, SeenAs
  <2>8. SetupTypes'
    BY <1>1, <1>2, <2>3, <2>4, <2>5, NextTypes
  <2> QED
    BY <1>1, <2>3, <2>6, <2>7, <2>8 DEF SetupInv
<1>6. CASE ~Raised("reset") /\ Raised("setup") /\ Setup(PortChange(udc))
  <2>1. peer.at = "up" /\ peer.asks # "none" /\ peer.speed # "none"
    <3>1. PICK i \in 1..Len(irqs) : irqs[i] = "setup"
      BY <1>6 DEF Raised, Contains
    <3>2. i \in DOMAIN irqs
      BY <1>1, <3>1
    <3> QED
      BY <1>1, <3>1, <3>2 DEF SetupIsLast, SpeedIsComing
  <2>2. PICK u : u = PortChange(udc)
    OBVIOUS
  <2>3. /\ u \in Udcs /\ Ready(u) /\ ~u.lost
        /\ u.speed = IF Raised("connect") THEN SeenAs(peer.speed) ELSE udc.speed
    BY <1>1, <1>3, <2>2
  <2>6. u.speed = SeenAs(peer.speed)
    BY <1>1, <2>1, <2>3 DEF SpeedIsComing
  <2>4. CASE ~Knows
    <3>1. DOMAIN peer.sizes = {} /\ ~peer.configured
      BY <2>4 DEF Knows
    <3>2. /\ udc' \in Udcs /\ armed' \in [Addrs -> Nat] /\ peer' \in Peers
          /\ ~udc'.lost /\ Ready(udc)' /\ SizesAreTrue' /\ ArmedAsConfigured'
          /\ udc'.speed = u.speed /\ peer'.at = "up" /\ peer'.speed = peer.speed
      <4>1. Setup(u)
        BY <1>6, <2>2
      <4> QED
        BY <1>1, <2>1, <2>3, <3>1, <4>1, SetupKeeps
    <3>3. SetupIsLast' /\ SpeedIsComing' /\ KnowledgeIsCurrent'
      BY <1>1, <1>2, <2>1, <2>6, <3>2 DEF SetupIsLast, SpeedIsComing, KnowledgeIsCurrent, SeenAs
    <3>4. SetupTypes'
      BY <1>1, <1>2, <3>2, NextTypes
    <3> QED
      BY <3>2, <3>3, <3>4 DEF SetupInv
  <2>5. CASE Knows
    <3>1. u.speed = udc.speed
      BY <1>1, <2>3, <2>5 DEF KnowledgeIsCurrent
    <3>2. /\ udc' \in Udcs /\ armed' \in [Addrs -> Nat] /\ peer' \in Peers
          /\ ~udc'.lost /\ Ready(udc)' /\ SizesAreTrue' /\ ArmedAsConfigured'
          /\ udc'.speed = u.speed /\ peer'.at = "up" /\ peer'.speed = peer.speed
      <4>1. Setup(u)
        BY <1>6, <2>2
      <4>2. peer.configured => Fits(armed, u.speed)
        BY <1>1, <3>1 DEF ArmedAsConfigured, Fits
      <4>3. \A k \in DOMAIN peer.sizes :
              SpeedIsTold(k, u.speed) => peer.sizes[k] = PacketSize(u.speed)
        BY <1>1, <3>1 DEF SizesAreTrue
      <4> QED
        BY <1>1, <2>1, <2>3, <4>1, <4>2, <4>3, SetupKeeps
    <3>3. SetupIsLast' /\ SpeedIsComing' /\ KnowledgeIsCurrent'
      BY <1>1, <1>2, <2>1, <2>6, <3>2 DEF SetupIsLast, SpeedIsComing, KnowledgeIsCurrent, SeenAs
    <3>4. SetupTypes'
      BY <1>1, <1>2, <3>2, NextTypes
    <3> QED
      BY <3>2, <3>3, <3>4 DEF SetupInv
  <2> QED
    BY <2>4, <2>5
<1>7. CASE ~Raised("reset") /\ ~Raised("setup") /\ udc' = PortChange(udc) /\ UNCHANGED <<armed, peer>>
  <2>1. /\ udc' \in Udcs /\ Ready(udc)' /\ udc'.lost = udc.lost
        /\ udc'.speed = IF Raised("connect") THEN SeenAs(peer.speed) ELSE udc.speed
    BY <1>4, <1>7
  <2>2. Knows => udc'.speed = udc.speed
    BY <1>1, <2>1 DEF KnowledgeIsCurrent
  <2>3. SizesAreTrue' /\ ArmedAsConfigured'
    BY <1>1, <1>7, <2>2, StillTrue
  <2>4. SetupIsLast' /\ SpeedIsComing' /\ KnowledgeIsCurrent'
    BY <1>1, <1>2, <1>7, <2>1 DEF SetupIsLast, SpeedIsComing, KnowledgeIsCurrent, Knows, SeenAs
  <2>5. SetupTypes'
    BY <1>1, <1>2, <1>7, <2>1, NextTypes
  <2> QED
    BY <1>1, <2>1, <2>3, <2>4, <2>5 DEF SetupInv
<1> QED
  BY <1>5, <1>6, <1>7 DEF CiInterrupt

LEMMA SetupStutters == SetupInv /\ UNCHANGED setupVars => SetupInv'
<1> SUFFICES ASSUME SetupInv, UNCHANGED setupVars PROVE SetupInv'
  OBVIOUS
<1>1. UNCHANGED <<controller, gadget, udc, armed, peer, irqs>>
  BY DEF setupVars
<1>2. SetupTypes' /\ (Ready(udc) => Ready(udc)')
  <2>1. PICK v : v = udc
    OBVIOUS
  <2>2. Ready(v) => Ready(udc)'
    BY <1>1, <2>1, NextReady
  <2> QED
    BY <1>1, <2>1, <2>2, NextTypes DEF SetupInv, SetupTypes
<1>3. SizesAreTrue' /\ ArmedAsConfigured'
  BY <1>1, StillTrue DEF SetupInv
<1>4. SetupIsLast' /\ SpeedIsComing' /\ KnowledgeIsCurrent'
  BY <1>1 DEF SetupInv, SetupIsLast, SpeedIsComing, KnowledgeIsCurrent, Knows, Raised, SeenAs
<1> QED
  BY <1>1, <1>2, <1>3, <1>4 DEF SetupInv

(* Whatever the host does: what a host that configured the device sends    *)
(* packets of the size it read to is enabled, with that size.  This is for *)
(* any gadget of up to four endpoints with the newer controller above full *)
(* speed; of two to four with the older one, where at full speed it is     *)
(* only for the first two (UpdateEpDesc, GetDescriptor, Enabled, the       *)
(* descriptors and the endpoints of Usb30PeriphStart).                     *)
THEOREM DescriptorsTellTheTruth == UsbSetupSpec => []EndpointsAreAsDescribed
<1>1. UsbSetupInit => SetupInv
  BY SetupStarts
<1>2. SetupInv /\ [UsbSetupNext]_setupVars => SetupInv'
  <2> SUFFICES ASSUME SetupInv, [UsbSetupNext]_setupVars PROVE SetupInv'
    OBVIOUS
  <2>1. CASE UNCHANGED setupVars
    BY <2>1, SetupStutters
  <2>2. CASE PeriphStart
    BY <2>2, StartKeeps
  <2>3. CASE DwcEvent
    BY <2>3, DwcEventKeeps
  <2>4. CASE CiInterrupt
    BY <2>4, CiInterruptKeeps
  <2>5. CASE HostReset
    BY <2>5, HostResetKeeps
  <2>6. CASE \E speed \in {"FS", "HS", "SS"} : HostConnects(speed)
    BY <2>6, HostConnectsKeeps
  <2>7. CASE HostLeaves
    BY <2>7, HostLeavesKeeps
  <2>8. CASE \E request \in Requests : HostAsks(request)
    BY <2>8, HostAsksKeeps
  <2> QED
    BY <2>1, <2>2, <2>3, <2>4, <2>5, <2>6, <2>7, <2>8 DEF UsbSetupNext
<1>3. SetupInv => EndpointsAreAsDescribed
  <2> SUFFICES ASSUME SetupInv, IsSetUp, NEW k \in DOMAIN peer.sizes, SpeedIsTold(k, peer.speed)
               PROVE  armed[gadget[k]] = peer.sizes[k]
    BY DEF EndpointsAreAsDescribed
  <2>1. k \in Ends
    BY DEF SetupInv, SetupTypes, Peers, Sizes
  <2>2. peer.configured
    BY DEF IsSetUp
  <2>3. udc.speed = SeenAs(peer.speed)
    BY <2>2 DEF SetupInv, SpeedIsComing, KnowledgeIsCurrent, Knows
  <2>4. SpeedIsTold(k, udc.speed)
    BY <2>3 DEF SpeedIsTold, SeenAs
  <2> QED
    BY <2>1, <2>2, <2>4 DEF SetupInv, SizesAreTrue, ArmedAsConfigured
<1> QED
  BY <1>1, <1>2, <1>3, PTL DEF UsbSetupSpec

-----------------------------------------------------------------------------
(* The keys.                                                               *)

USE KeypadAssumption DEF KeypadAssumption

N == KEYPAD_EFI_KEY_MAX_COUNT

(* Remainders as the ring uses them: at most one turn.                     *)
Round(a) == IF a < N THEN a ELSE a - N
LEMMA OneTurn == \A a \in Nat : a < 2 * N => a % N = Round(a)
BY DEF N, Round

Key == KeyData \cup {Free}
IsRing(q) == q \in [buffer : [Slots -> Key], head : Slots, tail : Slots]
Filled(q) == IF q.tail >= q.head THEN q.tail - q.head ELSE q.tail + N - q.head

(* Two sequences with the same elements are the same.                      *)
LEMMA SameElements ==
  ASSUME NEW S, NEW s \in Seq(S), NEW t \in Seq(S), Len(s) = Len(t),
         \A i \in 1..Len(s) : s[i] = t[i]
  PROVE  s = t
  OBVIOUS

(* What a ring holds, without remainders.                                  *)
LEMMA ContentsOfRing ==
  ASSUME NEW q, IsRing(q)
  PROVE  /\ Filled(q) \in 0..(N - 1)
         /\ Contents(q) \in Seq(Key) /\ Len(Contents(q)) = Filled(q)
         /\ \A i \in 1..Filled(q) :
              /\ Round(q.head + i - 1) \in Slots
              /\ Contents(q)[i] = q.buffer[Round(q.head + i - 1)]
<1>1. q.head \in Slots /\ q.tail \in Slots /\ q.buffer \in [Slots -> Key]
  BY DEF IsRing
<1>2. Filled(q) \in 0..(N - 1)
  BY <1>1 DEF Filled, Slots, N
<1>3. (q.tail + N - q.head) % N = Filled(q)
  <2>1. q.tail + N - q.head \in Nat /\ q.tail + N - q.head < 2 * N
    BY <1>1 DEF Slots, N
  <2>2. (q.tail + N - q.head) % N = Round(q.tail + N - q.head)
    BY <2>1, OneTurn
  <2> QED
    BY <1>1, <2>2 DEF Round, Filled, Slots, N
<1>4. ASSUME NEW i \in 1..Filled(q)
      PROVE  /\ (q.head + i - 1) % N = Round(q.head + i - 1)
             /\ Round(q.head + i - 1) \in Slots
  <2>1. q.head + i - 1 \in Nat /\ q.head + i - 1 < 2 * N
    BY <1>1, <1>2 DEF Slots, N
  <2>2. (q.head + i - 1) % N = Round(q.head + i - 1)
    BY <2>1, OneTurn
  <2> QED
    BY <2>1, <2>2 DEF Round, Slots, N
<1>5. Contents(q) = [i \in 1..Filled(q) |-> q.buffer[(q.head + i - 1) % N]]
  BY <1>3 DEF Contents, N
<1>6. Contents(q) = [i \in 1..Filled(q) |-> q.buffer[Round(q.head + i - 1)]]
  BY <1>4, <1>5
<1>7. \A i \in 1..Filled(q) : q.buffer[Round(q.head + i - 1)] \in Key
  BY <1>1, <1>4
<1>8. Contents(q) \in Seq(Key) /\ Len(Contents(q)) = Filled(q)
  BY <1>2, <1>6, <1>7
<1> QED
  BY <1>2, <1>4, <1>6, <1>8

(* The place after the last one is the first one.                          *)
LEMMA AfterSlot ==
  \A i \in Slots : /\ After(i) \in Slots
                   /\ After(i) = IF i = N - 1 THEN 0 ELSE i + 1
<1> TAKE i \in Slots
<1>1. i + 1 \in Nat /\ i + 1 < 2 * N
  BY DEF Slots, N
<1>2. (i + 1) % N = Round(i + 1)
  BY <1>1, OneTurn
<1> QED
  BY <1>2 DEF After, Round, Slots, N

-----------------------------------------------------------------------------
(* Taking a key off the front.                                             *)
LEMMA PopTakes ==
  ASSUME NEW q, IsRing(q), ~IsEfikeyBufEmpty(q)
  PROVE  /\ IsRing(PopEfikeyBufHead(q))
         /\ Contents(q) # <<>>
         /\ Contents(PopEfikeyBufHead(q)) = Tail(Contents(q))
<1> DEFINE p == PopEfikeyBufHead(q)
<1>1. q.head \in Slots /\ q.tail \in Slots /\ q.buffer \in [Slots -> Key] /\ q.head # q.tail
  BY DEF IsRing, IsEfikeyBufEmpty
<1>2. After(q.head) \in Slots /\ After(q.head) = IF q.head = N - 1 THEN 0 ELSE q.head + 1
  BY <1>1, AfterSlot
<1>3. p = [q EXCEPT !.buffer = [q.buffer EXCEPT ![q.head] = Free],
                    !.head = After(q.head)]
  BY DEF PopEfikeyBufHead, IsRing, IsEfikeyBufEmpty
<1>4. /\ p.buffer = [q.buffer EXCEPT ![q.head] = Free]
      /\ p.head = After(q.head) /\ p.tail = q.tail
  BY <1>3 DEF IsRing
<1>5. IsRing(p)
  BY <1>1, <1>2, <1>3 DEF IsRing, Key
<1> HIDE DEF p
<1>6. Filled(q) > 0 /\ Filled(p) = Filled(q) - 1
  <2>1. p.head = After(q.head) /\ p.tail = q.tail
    BY <1>4
  <2>2. q.head \in 0..(N - 1) /\ q.tail \in 0..(N - 1) /\ N \in Nat \ {0, 1}
    BY <1>1 DEF Slots, N
  <2> QED
    BY <1>1, <1>2, <2>1, <2>2 DEF Filled
<1>7. ASSUME NEW i \in 1..Filled(p)
      PROVE  Contents(p)[i] = Contents(q)[i + 1]
  <2>1. Filled(q) \in 0..(N - 1) /\ i + 1 \in 1..Filled(q)
    BY <1>6, ContentsOfRing
  <2>2. Round(p.head + i - 1) = Round(q.head + (i + 1) - 1)
    BY <1>1, <1>2, <1>4, <1>6, <2>1 DEF Round, Slots, N
  <2>3. Round(q.head + (i + 1) - 1) # q.head
    BY <1>1, <2>1 DEF Round, Slots, N
  <2>4. /\ Contents(p)[i] = p.buffer[Round(p.head + i - 1)]
        /\ Contents(q)[i + 1] = q.buffer[Round(q.head + (i + 1) - 1)]
        /\ Round(q.head + (i + 1) - 1) \in Slots
    BY <1>5, <2>1, ContentsOfRing
  <2> QED
    BY <1>1, <1>4, <2>2, <2>3, <2>4
<1>8. /\ Contents(q) \in Seq(Key) /\ Len(Contents(q)) = Filled(q)
      /\ Contents(p) \in Seq(Key) /\ Len(Contents(p)) = Filled(p)
  BY <1>5, ContentsOfRing
<1>9. /\ Tail(Contents(q)) \in Seq(Key) /\ Len(Tail(Contents(q))) = Filled(p)
      /\ \A i \in 1..Filled(p) : Tail(Contents(q))[i] = Contents(q)[i + 1]
  BY <1>6, <1>8
<1>10. Contents(p) = Tail(Contents(q))
  BY <1>7, <1>8, <1>9, SameElements
<1> QED
  BY <1>5, <1>6, <1>8, <1>10 DEF p

(* A key that finds room is put at the end.                                *)
LEMMA PushAppends ==
  ASSUME NEW q, IsRing(q), NEW key \in KeyData, After(q.tail) # q.head
  PROVE  LET p == [q EXCEPT !.buffer[q.tail] = key, !.tail = After(@)]
         IN  /\ IsRing(p) /\ Filled(q) < N - 1
             /\ Contents(p) = Append(Contents(q), key)
<1> DEFINE p == [q EXCEPT !.buffer[q.tail] = key, !.tail = After(@)]
<1>1. q.head \in Slots /\ q.tail \in Slots /\ q.buffer \in [Slots -> Key]
  BY DEF IsRing
<1>2. After(q.tail) \in Slots /\ After(q.tail) = IF q.tail = N - 1 THEN 0 ELSE q.tail + 1
  BY <1>1, AfterSlot
<1>3. p = [q EXCEPT !.buffer = [q.buffer EXCEPT ![q.tail] = key],
                    !.tail = After(q.tail)]
  BY DEF IsRing
<1>4. /\ p.buffer = [q.buffer EXCEPT ![q.tail] = key]
      /\ p.head = q.head /\ p.tail = After(q.tail)
  BY <1>3 DEF IsRing
<1>5. IsRing(p)
  BY <1>1, <1>2, <1>3 DEF IsRing, Key
<1> HIDE DEF p
<1>6. Filled(q) < N - 1 /\ Filled(p) = Filled(q) + 1
  <2>1. p.head = q.head /\ p.tail = After(q.tail)
    BY <1>4
  <2>2. q.head \in 0..(N - 1) /\ q.tail \in 0..(N - 1) /\ N \in Nat \ {0, 1}
    BY <1>1 DEF Slots, N
  <2> QED
    BY <1>1, <1>2, <2>1, <2>2 DEF Filled
<1>7. /\ Contents(q) \in Seq(Key) /\ Len(Contents(q)) = Filled(q)
      /\ Contents(p) \in Seq(Key) /\ Len(Contents(p)) = Filled(p)
      /\ Filled(q) \in 0..(N - 1)
  BY <1>5, ContentsOfRing
<1>8. ASSUME NEW i \in 1..Filled(q)
      PROVE  Contents(p)[i] = Contents(q)[i]
  <2>1. i \in 1..Filled(p)
    BY <1>6, <1>7
  <2>2. /\ Contents(p)[i] = p.buffer[Round(p.head + i - 1)]
        /\ Contents(q)[i] = q.buffer[Round(q.head + i - 1)]
        /\ Round(q.head + i - 1) \in Slots
    BY <1>5, <2>1, ContentsOfRing
  <2>3. Round(q.head + i - 1) # q.tail
    BY SMTT(40), <1>1, <1>7 DEF Round, Filled, Slots, N
  <2> QED
    BY <1>1, <1>4, <2>2, <2>3
<1>9. Contents(p)[Filled(p)] = key
  <2>1. Filled(p) \in 1..Filled(p)
    BY <1>6, <1>7
  <2>2. Contents(p)[Filled(p)] = p.buffer[Round(p.head + Filled(p) - 1)]
    BY <1>5, <2>1, ContentsOfRing
  <2>3. Round(p.head + Filled(p) - 1) = q.tail
    <3>1. Round(q.head + (Filled(q) + 1) - 1) = q.tail
      BY <1>1 DEF Round, Filled, Slots, N
    <3> QED
      BY <1>4, <1>6, <3>1
  <2> QED
    BY <1>1, <1>4, <2>2, <2>3
<1>10. Contents(p) = Append(Contents(q), key)
  <2>1. key \in Key
    BY DEF Key
  <2>2. /\ Append(Contents(q), key) \in Seq(Key)
        /\ Len(Append(Contents(q), key)) = Filled(p)
        /\ \A i \in 1..Filled(q) : Append(Contents(q), key)[i] = Contents(q)[i]
        /\ Append(Contents(q), key)[Filled(p)] = key
    BY <1>6, <1>7, <2>1
  <2>3. \A i \in 1..Filled(p) : Contents(p)[i] = Append(Contents(q), key)[i]
    BY <1>6, <1>7, <1>8, <1>9, <2>2
  <2> QED
    BY <1>7, <2>2, <2>3, SameElements
<1> QED
  BY <1>5, <1>6, <1>10 DEF p

(* A full ring gives up its oldest key: what is left are the newest ones.  *)
LEMMA PushKeepsNewest ==
  ASSUME NEW q, IsRing(q), NEW key \in KeyData
  PROVE  /\ IsRing(PushEfikeyBufTail(q, key))
         /\ Contents(PushEfikeyBufTail(q, key))
              = ReadersQueue!Newest(Append(Contents(q), key))
<1> DEFINE s == Contents(q)
<1>1. /\ s \in Seq(Key) /\ Len(s) = Filled(q) /\ Filled(q) \in 0..(N - 1)
      /\ q.head \in Slots /\ q.tail \in Slots
  BY ContentsOfRing DEF IsRing
<1>2. /\ Append(s, key) \in Seq(Key) /\ Len(Append(s, key)) = Filled(q) + 1
  BY <1>1 DEF Key
<1>3. CASE After(q.tail) # q.head
  <2>1. /\ IsRing(PushEfikeyBufTail(q, key)) /\ Filled(q) < N - 1
        /\ Contents(PushEfikeyBufTail(q, key)) = Append(s, key)
    BY <1>3, PushAppends DEF PushEfikeyBufTail
  <2>2. ReadersQueue!Newest(Append(s, key)) = Append(s, key)
    BY <1>1, <1>2, <2>1 DEF ReadersQueue!Newest, N
  <2> QED
    BY <2>1, <2>2
<1>4. CASE After(q.tail) = q.head
  <2> DEFINE room == PopEfikeyBufHead(q)
  <2>1. Filled(q) = N - 1 /\ ~IsEfikeyBufEmpty(q)
    <3>1. q.head = IF q.tail = N - 1 THEN 0 ELSE q.tail + 1
      BY <1>1, <1>4, AfterSlot
    <3> QED
      BY <1>1, <3>1 DEF Filled, IsEfikeyBufEmpty, Slots, N
  <2>2. IsRing(room) /\ s # <<>> /\ Contents(room) = Tail(s)
    BY <2>1, PopTakes
  <2>3. room.tail = q.tail /\ room.head = After(q.head)
    BY <2>1 DEF PopEfikeyBufHead, IsRing
  <2>4. After(room.tail) # room.head
    <3>1. /\ q.head = IF q.tail = N - 1 THEN 0 ELSE q.tail + 1
          /\ After(q.head) = IF q.head = N - 1 THEN 0 ELSE q.head + 1
      BY <1>1, <1>4, AfterSlot
    <3> QED
      BY <1>1, <1>4, <2>3, <3>1 DEF Slots, N
  <2>5. PushEfikeyBufTail(q, key) = [room EXCEPT !.buffer[room.tail] = key, !.tail = After(@)]
    BY <1>4 DEF PushEfikeyBufTail
  <2> HIDE DEF room
  <2>6. /\ IsRing(PushEfikeyBufTail(q, key))
        /\ Contents(PushEfikeyBufTail(q, key)) = Append(Tail(s), key)
    BY <2>2, <2>4, <2>5, PushAppends
  <2>7. ReadersQueue!Newest(Append(s, key)) = Tail(Append(s, key))
    BY <1>2, <2>1 DEF ReadersQueue!Newest, N
  <2>8. Tail(Append(s, key)) = Append(Tail(s), key)
    <3> HIDE DEF s
    <3>1. key \in Key
      BY DEF Key
    <3> QED
      BY <1>1, <2>2, <3>1
  <2> QED
    BY <2>6, <2>7, <2>8
<1> QED
  BY <1>3, <1>4

-----------------------------------------------------------------------------
(* The readers' ring is one in every state.                                *)
LEMMA RingInit == KeypadInit => IsRing(EfiKeyQueue) /\ Contents(EfiKeyQueue) = <<>>
<1> SUFFICES ASSUME KeypadInit PROVE IsRing(EfiKeyQueue) /\ Contents(EfiKeyQueue) = <<>>
  OBVIOUS
<1>1. IsRing(EfiKeyQueue) /\ Filled(EfiKeyQueue) = 0
  BY DEF KeypadInit, Empty, IsRing, Filled, Slots, Key, N
<1>2. Contents(EfiKeyQueue) \in Seq(Key) /\ Len(Contents(EfiKeyQueue)) = 0
  BY <1>1, ContentsOfRing
<1> QED
  BY <1>1, <1>2

(* A step types a key, takes one, does both, or throws them all away.      *)
LEMMA RingStep ==
  ASSUME IsRing(EfiKeyQueue), [KeypadNext]_keypadVars
  PROVE  /\ IsRing(EfiKeyQueue')
         /\ [ReadersQueue!FifoNext \/ Reset]_EfiKeyQueue
<1>1. ASSUME NEW key \in KeyData, Poll(key)
      PROVE  IsRing(EfiKeyQueue') /\ ReadersQueue!FifoNext
  BY <1>1, PushKeepsNewest DEF Poll, ReadersQueue!FifoNext, ReadersQueue!Typed
<1>2. ASSUME IsRing(EfiKeyQueue), EfiKeyQueue' = PopEfikeyBufHead(EfiKeyQueue)
      PROVE  IsRing(EfiKeyQueue') /\ [ReadersQueue!FifoNext]_EfiKeyQueue
  <2>1. CASE IsEfikeyBufEmpty(EfiKeyQueue)
    BY <1>2, <2>1 DEF PopEfikeyBufHead
  <2>2. CASE ~IsEfikeyBufEmpty(EfiKeyQueue)
    BY <1>2, <2>2, PopTakes DEF ReadersQueue!FifoNext, ReadersQueue!Taken
  <2> QED
    BY <2>1, <2>2
<1>3. ASSUME NEW key \in KeyData, ReadKeyStrokeEx(key)
      PROVE  IsRing(EfiKeyQueue') /\ [ReadersQueue!FifoNext]_EfiKeyQueue
  <2> DEFINE pushed == PushEfikeyBufTail(EfiKeyQueue, key)
  <2>1. /\ IsRing(pushed)
        /\ Contents(pushed) = ReadersQueue!Newest(Append(Contents(EfiKeyQueue), key))
    BY PushKeepsNewest
  <2>2. CASE EfiKeyQueue' = PopEfikeyBufHead(pushed)
    <3>1. ~IsEfikeyBufEmpty(pushed)
      <4>1. /\ Contents(EfiKeyQueue) \in Seq(Key)
            /\ Len(Contents(EfiKeyQueue)) \in 0..(N - 1)
            /\ Len(Contents(pushed)) = Filled(pushed)
        BY <2>1, ContentsOfRing
      <4>2. Len(Append(Contents(EfiKeyQueue), key)) = Len(Contents(EfiKeyQueue)) + 1
            /\ Append(Contents(EfiKeyQueue), key) \in Seq(Key)
        BY <4>1 DEF Key
      <4>3. Len(Contents(pushed)) > 0
        BY <2>1, <4>1, <4>2 DEF ReadersQueue!Newest, N
      <4> QED
        BY <2>1, <4>1, <4>3 DEF IsEfikeyBufEmpty, Filled, IsRing, Slots
    <3> QED
      BY <2>1, <2>2, <3>1, PopTakes
      DEF ReadersQueue!FifoNext, ReadersQueue!Taken
  <2> QED
    BY <1>2, <1>3, <2>2 DEF ReadKeyStrokeEx
<1>4. CASE WaitForKey
  BY <1>2, <1>4 DEF WaitForKey
<1>5. CASE Reset
  BY <1>5 DEF Reset, Empty, IsRing, Slots, Key
<1>6. CASE UNCHANGED EfiKeyQueue
  BY <1>6
<1> QED
  BY <1>1, <1>3, <1>4, <1>5, <1>6
  DEF KeypadNext, SetState, RegisterKeyNotify, UnregisterKeyNotify, KeyNotifyProcess,
      HandlerStart, HandlerPop, HandlerVisit, HandlerNext, keypadVars

(* ReadersSeeFifo: what the readers are given are the newest keys in the   *)
(* order they were typed, none of them twice; only a reset takes more than *)
(* one away.                                                               *)
THEOREM ReadersSeeBoundedFifo == KeypadSpec => ReadersSeeFifo
<1>1. KeypadInit => ReadersQueue!FifoInit
  BY RingInit DEF ReadersQueue!FifoInit
<1>2. IsRing(EfiKeyQueue) /\ [KeypadNext]_keypadVars
        => IsRing(EfiKeyQueue)' /\ [ReadersQueue!FifoNext \/ Reset]_EfiKeyQueue
  BY RingStep DEF IsRing
<1>3. KeypadInit => IsRing(EfiKeyQueue)
  BY RingInit
<1> QED
  BY <1>1, <1>2, <1>3, PTL DEF KeypadSpec, ReadersSeeFifo

-----------------------------------------------------------------------------
(* What the device keeps of a key.                                         *)
States == {"RELEASED", "PRESSED", "LONGPRESS_RELEASE"}
KeyContexts == [state : States, time : 0..LongpressTime, repeat : BOOLEAN, longpress : BOOLEAN]

KeyTypeOK ==
  /\ context \in [Keys -> KeyContexts]
  /\ count \in [Keys -> 0..2] /\ quiet \in [Keys -> 0..LongpressTime]
  /\ chorded \in [Keys -> BOOLEAN]

(* The flags of a pressed key tell what it has reported: nothing before    *)
(* the long press, then power once; a volume key at every repeat, or       *)
(* nothing if power was down with it.                                      *)
KeyAnswered(k, c, n, chord) ==
  /\ c.state = "LONGPRESS_RELEASE" => n = 1
  /\ c.state = "PRESSED" /\ ~c.longpress => ~c.repeat /\ n = 0
  /\ c.state = "PRESSED" /\ c.longpress =>
       \/ k = "power" /\ ~c.repeat /\ n = 1
       \/ k # "power" /\ c.repeat /\ n \in 1..2
       \/ k # "power" /\ ~c.repeat /\ n = 0 /\ chord = TRUE

(* The time of a repeating key is that since its last report.              *)
TimeSinceReport ==
  \A k \in Keys : context[k].state = "PRESSED" /\ context[k].repeat
                    => context[k].time = quiet[k]

(* A press that met the power key knows it, also the poll after it.        *)
ChordsAreKnown ==
  \A k \in Keys : context[k].state # "RELEASED" /\ "power" \in bitmap => chorded[k]

KeysAreAnswered == \A k \in Keys : KeyAnswered(k, context[k], count[k], chorded[k])

(* The inductive invariant of the polled keys.                             *)
KeyInv == /\ KeyTypeOK /\ KeysAreAnswered
          /\ TimeSinceReport /\ ChordsAreKnown

(* The times, as the proofs use them.                                      *)
LEMMA KeyConstants ==
  /\ ReleaseTime \in Nat \ {0} /\ RepeatTime \in Nat /\ LongpressTime \in Nat
  /\ RepeatTime <= LongpressTime /\ Deltas \subseteq Nat
BY KeyStatusAssumption DEF KeyStatusAssumption

(* Times stay below the longest threshold.                                 *)
LEMMA TimesAreKept ==
  ASSUME NEW t \in 0..LongpressTime, NEW delta \in Nat
  PROVE  Plus(t, delta) \in 0..LongpressTime
BY KeyConstants DEF Plus

(* The bits LibKeyUpdateKeyStatus looks at are of this poll or of the last.*)
LEMMA BitsAreRecent ==
  ASSUME NEW k \in Keys, "power" \in Down(k)
  PROVE  "power" \in button \/ "power" \in bitmap
BY DEF Down

(* A released context, and one that only changed its state.                *)
LEMMA ContextsChange ==
  /\ \A state \in States :
       LET c == [Released EXCEPT !.state = state]
       IN  c \in KeyContexts /\ c.state = state /\ c.longpress = FALSE /\ c.repeat = FALSE
  /\ Released \in KeyContexts /\ Released.state = "RELEASED"
<1>1. /\ Released \in KeyContexts /\ Released.longpress = FALSE /\ Released.repeat = FALSE
      /\ Released.state = "RELEASED"
  BY KeyConstants DEF Released, KeyContexts, States
<1> QED
  BY <1>1 DEF KeyContexts

(* The polled key, with the button as it is.                               *)
Polled(k, c, delta, down) == Update(k, c, k \in button, delta, down)

(* A key with context c that reported n times since it was pressed, quiet  *)
(* for q, and what a poll makes of it: u, n2, q2.                          *)
IsPolled(k, delta, c, n, q, chord, u, n2, q2, chord2) ==
  /\ c \in KeyContexts /\ n \in 0..2 /\ q \in 0..LongpressTime
  /\ KeyAnswered(k, c, n, chord)
  /\ c.state = "PRESSED" /\ c.repeat => c.time = q
  /\ c.state # "RELEASED" /\ chord = TRUE => chord2 = TRUE
  /\ c.state # "RELEASED" /\ "power" \in Down(k) => chord2 = TRUE
  /\ u = Polled(k, c, delta, Down(k))
  /\ n2 = IF c.state = "RELEASED" THEN 0
          ELSE IF n + Len(u.keys) > 2 THEN 2 ELSE n + Len(u.keys)
  /\ q2 = IF c.state = "RELEASED" \/ Len(u.keys) > 0 THEN 0 ELSE Plus(q, delta)

(* What becomes of it.                                                     *)
StaysAnswered(k, delta, c, n, q, chord, u, n2, q2, chord2) ==
  /\ u.ctx \in KeyContexts /\ Len(u.keys) \in 0..1
  /\ n2 \in 0..2 /\ q2 \in 0..LongpressTime
  /\ KeyAnswered(k, u.ctx, n2, chord2)
  /\ u.ctx.state = "PRESSED" /\ u.ctx.repeat => u.ctx.time = q2
  /\ Len(u.keys) > 0 => n = 0 \/ Plus(q, delta) >= RepeatTime
  /\ c.state # "RELEASED" /\ u.ctx.state = "RELEASED"
       => n = 1 \/ (k # "power" /\ (n = 2 \/ chord = TRUE))

(* One poll of one key keeps its flags true to what it has reported, spaces*)
(* its reports and leaves no press it ends unanswered.                     *)
LEMMA KeyIsPolled ==
  ASSUME NEW k \in Keys, NEW delta \in Nat,
         NEW c, NEW n, NEW q, NEW chord, NEW u, NEW n2, NEW q2, NEW chord2,
         IsPolled(k, delta, c, n, q, chord, u, n2, q2, chord2)
  PROVE  StaysAnswered(k, delta, c, n, q, chord, u, n2, q2, chord2)
<1>in. PICK m, down :
         /\ c \in KeyContexts /\ n \in 0..2 /\ q \in 0..LongpressTime
         /\ KeyAnswered(k, c, n, chord)
         /\ c.state = "PRESSED" /\ c.repeat => c.time = q
         /\ c.state # "RELEASED" /\ chord = TRUE => chord2 = TRUE
         /\ c.state # "RELEASED" /\ "power" \in down => chord2 = TRUE
         /\ u = Polled(k, c, delta, down)
         /\ m = Len(u.keys)
         /\ n2 = IF c.state = "RELEASED" THEN 0 ELSE IF n + m > 2 THEN 2 ELSE n + m
         /\ q2 = IF c.state = "RELEASED" \/ m > 0 THEN 0 ELSE Plus(q, delta)
  BY DEF IsPolled
<1> SUFFICES
      ASSUME c \in KeyContexts, n \in 0..2, q \in 0..LongpressTime,
             KeyAnswered(k, c, n, chord),
             c.state = "PRESSED" /\ c.repeat => c.time = q,
             c.state # "RELEASED" /\ chord = TRUE => chord2 = TRUE,
             c.state # "RELEASED" /\ "power" \in down => chord2 = TRUE,
             u = Polled(k, c, delta, down), m = Len(u.keys),
             n2 = IF c.state = "RELEASED" THEN 0 ELSE IF n + m > 2 THEN 2 ELSE n + m,
             q2 = IF c.state = "RELEASED" \/ m > 0 THEN 0 ELSE Plus(q, delta)
      PROVE  /\ u.ctx \in KeyContexts /\ m \in 0..1 /\ n2 \in 0..2 /\ q2 \in 0..LongpressTime
             /\ KeyAnswered(k, u.ctx, n2, chord2)
             /\ u.ctx.state = "PRESSED" /\ u.ctx.repeat => u.ctx.time = q2
             /\ m > 0 => n = 0 \/ Plus(q, delta) >= RepeatTime
             /\ c.state # "RELEASED" /\ u.ctx.state = "RELEASED"
                  => n = 1 \/ (k # "power" /\ (n = 2 \/ chord = TRUE))
  BY <1>in DEF StaysAnswered
<1>len. Len(<<>>) = 0 /\ Len(<<k>>) = 1 /\ Len(<<PowerCombo(down)>>) = 1
  OBVIOUS
<1>0. PICK t \in 0..LongpressTime : t = Plus(c.time, delta)
  BY TimesAreKept DEF KeyContexts
<1>1. Plus(q, delta) \in 0..LongpressTime
  BY TimesAreKept
<1>state. c.state \in States /\ c.repeat \in BOOLEAN /\ c.longpress \in BOOLEAN
  BY DEF KeyContexts
<1>2. CASE c.state = "RELEASED"
  <2>1. /\ u.keys = <<>>
        /\ u.ctx = IF k \in button THEN [Released EXCEPT !.state = "PRESSED"] ELSE Released
    BY <1>2 DEF Polled, Update
  <2>2. m = 0 /\ n2 = 0 /\ q2 = 0
    BY <1>len, <1>2, <2>1
  <2>3. /\ u.ctx \in KeyContexts /\ u.ctx.state # "LONGPRESS_RELEASE"
        /\ u.ctx.state = "PRESSED" => u.ctx.longpress = FALSE /\ u.ctx.repeat = FALSE
    BY <2>1, ContextsChange DEF States
  <2>4. KeyAnswered(k, u.ctx, n2, chord2)
    BY <2>2, <2>3 DEF KeyAnswered
  <2> QED
    BY <1>2, <2>2, <2>3, <2>4, KeyConstants
<1>3. CASE c.state = "LONGPRESS_RELEASE"
  <2>1. u.keys = <<>> /\ u.ctx = Released
    BY <1>3 DEF Polled, Update
  <2>2. m = 0 /\ n2 \in 0..2 /\ q2 \in 0..LongpressTime /\ n = 1
    BY <1>len, <1>1, <1>3, <2>1 DEF KeyAnswered
  <2>3. KeyAnswered(k, u.ctx, n2, chord2)
    BY <2>1, ContextsChange DEF KeyAnswered
  <2> QED
    BY <2>1, <2>2, <2>3, ContextsChange
<1>4. CASE c.state = "PRESSED" /\ k \in button
  <2>p. c.state # "RELEASED"
    BY <1>4
  <2>1. u = Held(k, c, t, down)
    BY <1>0, <1>4 DEF Polled, Update
  <2>2. CASE c.repeat /\ t >= RepeatTime
    <3>1. u.keys = <<k>> /\ u.ctx = [c EXCEPT !.time = 0]
      BY <2>1, <2>2 DEF Held
    <3>2. /\ u.ctx \in KeyContexts /\ u.ctx.time = 0 /\ u.ctx.state = "PRESSED"
          /\ u.ctx.repeat = c.repeat /\ u.ctx.longpress = c.longpress
      <4>1. 0 \in 0..LongpressTime
        BY KeyConstants
      <4> QED
        BY <1>4, <3>1, <4>1 DEF KeyContexts
    <3>3. /\ m = 1 /\ q2 = 0 /\ n \in 1..2 /\ n2 = 2 /\ k # "power" /\ c.longpress
          /\ Plus(q, delta) >= RepeatTime
      <4>1. m = 1
        BY <1>len, <3>1
      <4>2. q2 = 0
        BY <4>1
      <4>3. n \in 1..2 /\ k # "power" /\ c.longpress
        BY <1>4, <2>2 DEF KeyAnswered
      <4>4. n2 = IF n + m > 2 THEN 2 ELSE n + m
        BY <1>4
      <4>5. Plus(q, delta) >= RepeatTime
        BY <1>0, <1>4, <2>2
      <4> QED
        BY <4>1, <4>2, <4>3, <4>4, <4>5
    <3>4. KeyAnswered(k, u.ctx, n2, chord2)
      BY <2>2, <3>2, <3>3 DEF KeyAnswered
    <3> QED
      BY <3>2, <3>3, <3>4, KeyConstants
  <2>3. CASE ~(c.repeat /\ t >= RepeatTime) /\ (c.longpress \/ t < LongpressTime)
    <3>1. u.keys = <<>> /\ u.ctx = [c EXCEPT !.time = t]
      BY <2>1, <2>3 DEF Held
    <3>2. /\ u.ctx \in KeyContexts /\ u.ctx.time = t /\ u.ctx.state = "PRESSED"
          /\ u.ctx.repeat = c.repeat /\ u.ctx.longpress = c.longpress
      BY <1>4, <3>1 DEF KeyContexts
    <3>3. /\ m = 0 /\ q2 = Plus(q, delta) /\ n2 = n /\ (c.repeat => q2 = t)
      <4>1. m = 0
        BY <1>len, <3>1
      <4>2. q2 = Plus(q, delta)
        BY <2>p, <4>1
      <4>3. n2 = n
        BY <2>p, <4>1
      <4> QED
        BY <1>0, <1>4, <4>1, <4>2, <4>3
    <3>4. chord = TRUE => chord2 = TRUE
      BY <1>4
    <3>5. KeyAnswered(k, u.ctx, n2, chord2)
      BY <1>4, <3>2, <3>3, <3>4 DEF KeyAnswered
    <3> QED
      BY <1>1, <3>2, <3>3, <3>5, KeyConstants
  <2>4. CASE ~(c.repeat /\ t >= RepeatTime) /\ ~(c.longpress \/ t < LongpressTime)
    <3>0. ~c.repeat /\ n = 0 /\ ~c.longpress
      BY <1>4, <2>4 DEF KeyAnswered
    <3>held. u = IF k = "power" THEN [ctx |-> [c EXCEPT !.time = t, !.longpress = TRUE],
                                      keys |-> <<PowerCombo(down)>>]
                 ELSE IF "power" \in down
                   THEN [ctx |-> [c EXCEPT !.time = t, !.longpress = TRUE], keys |-> <<>>]
                 ELSE [ctx |-> [c EXCEPT !.time = 0, !.repeat = TRUE, !.longpress = TRUE],
                       keys |-> <<k>>]
      BY <2>1, <2>4, Zenon DEF Held
    <3>1. CASE k = "power"
      <4>1. u.keys = <<PowerCombo(down)>> /\ u.ctx = [c EXCEPT !.time = t, !.longpress = TRUE]
        BY <3>held, <3>1
      <4>2. /\ u.ctx \in KeyContexts /\ u.ctx.state = "PRESSED"
            /\ u.ctx.repeat = c.repeat /\ u.ctx.longpress = TRUE
        BY <1>4, <4>1 DEF KeyContexts
      <4>3. m = 1 /\ q2 = 0 /\ n2 = 1
        <5>1. m = 1
          BY <1>len, <4>1
        <5>2. q2 = 0
          BY <5>1
        <5> QED
          BY <2>p, <3>0, <5>1, <5>2
      <4>4. KeyAnswered(k, u.ctx, n2, chord2)
        BY <3>0, <3>1, <4>2, <4>3 DEF KeyAnswered
      <4> QED
        BY <3>0, <4>2, <4>3, <4>4, KeyConstants
    <3>2. CASE k # "power" /\ "power" \in down
      <4>1. u.keys = <<>> /\ u.ctx = [c EXCEPT !.time = t, !.longpress = TRUE]
        BY <3>held, <3>2
      <4>2. /\ u.ctx \in KeyContexts /\ u.ctx.state = "PRESSED"
            /\ u.ctx.repeat = c.repeat /\ u.ctx.longpress = TRUE
        BY <1>4, <4>1 DEF KeyContexts
      <4>3. m = 0 /\ q2 = Plus(q, delta) /\ n2 = 0
        <5>1. m = 0
          BY <1>len, <4>1
        <5>2. q2 = Plus(q, delta)
          BY <2>p, <5>1
        <5> QED
          BY <2>p, <3>0, <5>1, <5>2
      <4>4. chord2 = TRUE
        BY <1>4, <3>2
      <4>5. KeyAnswered(k, u.ctx, n2, chord2)
        BY <3>0, <3>2, <4>2, <4>3, <4>4 DEF KeyAnswered
      <4> QED
        BY <1>1, <3>0, <4>2, <4>3, <4>5, KeyConstants
    <3>3. CASE k # "power" /\ "power" \notin down
      <4>1. u.keys = <<k>> /\ u.ctx = [c EXCEPT !.time = 0, !.repeat = TRUE, !.longpress = TRUE]
        BY <3>held, <3>3
      <4>2. /\ u.ctx \in KeyContexts /\ u.ctx.state = "PRESSED"
            /\ u.ctx.repeat = TRUE /\ u.ctx.longpress = TRUE /\ u.ctx.time = 0
        <5>1. 0 \in 0..LongpressTime
          BY KeyConstants
        <5> QED
          BY <1>4, <4>1, <5>1 DEF KeyContexts
      <4>3. m = 1 /\ q2 = 0 /\ n2 = 1
        <5>1. m = 1
          BY <1>len, <4>1
        <5>2. q2 = 0
          BY <5>1
        <5> QED
          BY <2>p, <3>0, <5>1, <5>2
      <4>4. KeyAnswered(k, u.ctx, n2, chord2)
        BY <3>3, <4>2, <4>3 DEF KeyAnswered
      <4> QED
        BY <3>0, <4>2, <4>3, <4>4, KeyConstants
    <3> QED
      BY <3>1, <3>2, <3>3
  <2> QED
    BY <2>2, <2>3, <2>4
<1>5. CASE c.state = "PRESSED" /\ k \notin button
  <2>1. u = LetGo(k, c, t)
    BY <1>0, <1>5 DEF Polled, Update
  <2>2. CASE ~c.longpress
    <3>1. u.keys = <<k>> /\ u.ctx = [Released EXCEPT !.state = "LONGPRESS_RELEASE"]
      BY <2>1, <2>2 DEF LetGo
    <3>2. u.ctx \in KeyContexts /\ u.ctx.state = "LONGPRESS_RELEASE"
      BY <3>1, ContextsChange DEF States
    <3>3. m = 1 /\ n = 0 /\ n2 = 1 /\ q2 = 0
      BY <1>len, <1>5, <2>2, <3>1 DEF KeyAnswered
    <3>4. KeyAnswered(k, u.ctx, n2, chord2)
      BY <3>2, <3>3 DEF KeyAnswered
    <3> QED
      BY <3>2, <3>3, <3>4, KeyConstants
  <2>3. CASE c.longpress /\ t >= ReleaseTime
    <3>1. u.keys = <<>> /\ u.ctx = Released
      BY <2>1, <2>3 DEF LetGo
    <3>2. m = 0 /\ n2 \in 0..2 /\ q2 \in 0..LongpressTime
      BY <1>len, <1>1, <1>5, <3>1
    <3>3. n = 1 \/ (k # "power" /\ (n = 2 \/ chord = TRUE))
      BY <1>5, <2>3 DEF KeyAnswered
    <3>4. KeyAnswered(k, u.ctx, n2, chord2)
      BY <3>1, ContextsChange DEF KeyAnswered
    <3> QED
      BY <3>1, <3>2, <3>3, <3>4, ContextsChange
  <2>4. CASE c.longpress /\ ~(t >= ReleaseTime)
    <3>1. u.keys = <<>> /\ u.ctx = [c EXCEPT !.time = t]
      BY <2>1, <2>4 DEF LetGo
    <3>2. /\ u.ctx \in KeyContexts /\ u.ctx.time = t /\ u.ctx.state = "PRESSED"
          /\ u.ctx.repeat = c.repeat /\ u.ctx.longpress = c.longpress
      BY <1>5, <3>1 DEF KeyContexts
    <3>3. /\ m = 0 /\ q2 = Plus(q, delta) /\ n2 = n /\ (c.repeat => q2 = t)
      BY <1>len, <1>0, <1>5, <3>1
    <3>4. chord = TRUE => chord2 = TRUE
      BY <1>5
    <3>5. KeyAnswered(k, u.ctx, n2, chord2)
      BY <1>5, <3>2, <3>3, <3>4 DEF KeyAnswered
    <3> QED
      BY <1>1, <3>2, <3>3, <3>5, KeyConstants
  <2> QED
    BY <2>2, <2>3, <2>4
<1> QED
  BY <1>state, <1>2, <1>3, <1>4, <1>5 DEF States

(* All of them, at a poll.                                                 *)
(* The poll of all keys: their bits become those of this poll.             *)
LEMMA KeysArePolled ==
  ASSUME KeyInv, NEW delta \in Deltas, GetKeys(delta)
  PROVE  /\ KeyInv' /\ RepeatsAreSpaced'
         /\ \A k \in Keys :
              context[k].state # "RELEASED" /\ context'[k].state = "RELEASED"
                => \/ count[k] = 1
                   \/ k # "power" /\ (count[k] = 2 \/ chorded[k])
<1> DEFINE updates == [k \in Keys |-> Update(k, context[k], k \in button, delta, Down(k))]
<1>1. /\ context' = [k \in Keys |-> updates[k].ctx] /\ bitmap' = button
      /\ reported' = [i \in DOMAIN KeyList |-> Reported(KeyList[i], updates[KeyList[i]], delta)]
      /\ count' = [k \in Keys |-> IF context[k].state = "RELEASED" THEN 0
                                  ELSE IF count[k] + Len(updates[k].keys) > 2 THEN 2
                                  ELSE count[k] + Len(updates[k].keys)]
      /\ quiet' = [k \in Keys |-> IF context[k].state = "RELEASED" \/ Len(updates[k].keys) > 0
                                  THEN 0 ELSE Plus(quiet[k], delta)]
      /\ chorded' = [k \in Keys |-> (chorded[k] /\ ~(context[k].state = "RELEASED"))
                                      \/ "power" \in button]
  BY DEF GetKeys
<1>2. \A k \in Keys : updates[k] = Polled(k, context[k], delta, Down(k))
  BY DEF Polled
<1> HIDE DEF updates
<1>3. ASSUME NEW k \in Keys
      PROVE  /\ context'[k] \in KeyContexts /\ count'[k] \in 0..2
             /\ quiet'[k] \in 0..LongpressTime /\ chorded'[k] \in BOOLEAN
             /\ KeyAnswered(k, context'[k], count'[k], chorded'[k])
             /\ context'[k].state = "PRESSED" /\ context'[k].repeat
                  => context'[k].time = quiet'[k]
             /\ "power" \in bitmap' => chorded'[k]
             /\ Len(updates[k].keys) \in 0..1
             /\ Len(updates[k].keys) > 0
                  => count[k] = 0 \/ Plus(quiet[k], delta) >= RepeatTime
             /\ context[k].state # "RELEASED" /\ context'[k].state = "RELEASED"
                  => count[k] = 1 \/ (k # "power" /\ (count[k] = 2 \/ chorded[k]))
  <2>1. /\ context[k] \in KeyContexts /\ count[k] \in 0..2 /\ delta \in Nat
        /\ quiet[k] \in 0..LongpressTime /\ chorded[k] \in BOOLEAN
        /\ KeyAnswered(k, context[k], count[k], chorded[k])
        /\ context[k].state = "PRESSED" /\ context[k].repeat => context[k].time = quiet[k]
    BY KeyConstants DEF KeyInv, KeyTypeOK, KeysAreAnswered, TimeSinceReport
  <2>2. /\ context'[k] = updates[k].ctx
        /\ chorded'[k] = ((chorded[k] /\ ~(context[k].state = "RELEASED")) \/ "power" \in button)
        /\ count'[k] = IF context[k].state = "RELEASED" THEN 0
                       ELSE IF count[k] + Len(updates[k].keys) > 2 THEN 2
                       ELSE count[k] + Len(updates[k].keys)
        /\ quiet'[k] = IF context[k].state = "RELEASED" \/ Len(updates[k].keys) > 0
                       THEN 0 ELSE Plus(quiet[k], delta)
    BY <1>1
  <2>3. chorded'[k] \in BOOLEAN
    BY <2>2
  <2>4. /\ context[k].state # "RELEASED" /\ chorded[k] => chorded'[k]
        /\ "power" \in bitmap' => chorded'[k]
    BY <1>1, <2>2
  <2>5. context[k].state # "RELEASED" /\ "power" \in Down(k) => chorded'[k]
    <3>1. "power" \in Down(k) => "power" \in button \/ "power" \in bitmap
      BY BitsAreRecent
    <3>2. context[k].state # "RELEASED" /\ "power" \in bitmap => chorded[k]
      BY DEF KeyInv, ChordsAreKnown
    <3> QED
      BY <2>2, <3>1, <3>2
  <2>6. updates[k] = Polled(k, context[k], delta, Down(k))
    BY <1>2
  <2>7. PICK c, n, q, chord, chord2, u, n2, q2 :
          /\ c = context[k] /\ n = count[k] /\ q = quiet[k] /\ chord = chorded[k]
          /\ chord2 = chorded'[k] /\ u = updates[k] /\ n2 = count'[k] /\ q2 = quiet'[k]
    OBVIOUS
  <2>8. IsPolled(k, delta, c, n, q, chord, u, n2, q2, chord2)
    BY <2>1, <2>2, <2>4, <2>5, <2>6, <2>7 DEF IsPolled
  <2>9. StaysAnswered(k, delta, c, n, q, chord, u, n2, q2, chord2)
    BY <2>1, <2>8, KeyIsPolled
  <2> QED
    BY <2>2, <2>3, <2>4, <2>7, <2>9 DEF StaysAnswered
<1>4. KeyInv'
  <2>1. KeyTypeOK'
    BY <1>1, <1>3 DEF KeyTypeOK
  <2>2. KeysAreAnswered' /\ TimeSinceReport' /\ ChordsAreKnown'
    BY <1>3 DEF KeysAreAnswered, TimeSinceReport, ChordsAreKnown, KeyAnswered
  <2> QED
    BY <2>1, <2>2 DEF KeyInv
<1>5. RepeatsAreSpaced'
  <2>1. SUFFICES ASSUME NEW i \in DOMAIN KeyList, NEW j \in DOMAIN reported'[i]
                 PROVE  reported'[i][j].gap >= RepeatTime
    BY <1>1 DEF RepeatsAreSpaced
  <2>2. PICK k \in Keys : k = KeyList[i]
    BY DEF Keys, ToSet
  <2>3. /\ DOMAIN reported'[i] = 1..Len(updates[k].keys)
        /\ \A x \in 1..Len(updates[k].keys) :
             reported'[i][x].gap = IF count[k] = 0 THEN LongpressTime ELSE Plus(quiet[k], delta)
    BY <1>1, <2>2 DEF Reported
  <2>4. Len(updates[k].keys) > 0
    BY <1>3, <2>3
  <2> QED
    BY <1>3, <2>3, <2>4, KeyConstants
<1> QED
  BY <1>3, <1>4, <1>5

(* The polls, the user and the reset keep the invariant.                   *)
LEMMA KeyInvStep == KeyInv /\ RepeatsAreSpaced /\ [KeyNext]_keyVars => KeyInv' /\ RepeatsAreSpaced'
<1> SUFFICES ASSUME KeyInv, RepeatsAreSpaced, [KeyNext]_keyVars
             PROVE  KeyInv' /\ RepeatsAreSpaced'
  OBVIOUS
<1>1. CASE \E delta \in Deltas : GetKeys(delta)
  BY <1>1, KeysArePolled
<1>2. ASSUME NEW k \in Keys, User(k)
      PROVE  KeyInv' /\ RepeatsAreSpaced'
  <2>1. reported' = <<>> /\ UNCHANGED <<context, bitmap, count, quiet, chorded>>
    BY <1>2 DEF User
  <2> QED
    BY <2>1 DEF KeyInv, KeyTypeOK, KeysAreAnswered, KeyAnswered, TimeSinceReport,
                ChordsAreKnown, RepeatsAreSpaced
<1>3. CASE KeypadReset
  <2>1. /\ context' = [k \in Keys |-> Released] /\ reported' = <<>>
        /\ count' = [k \in Keys |-> 0] /\ quiet' = [k \in Keys |-> 0]
        /\ chorded' = [k \in Keys |-> FALSE]
    BY <1>3 DEF KeypadReset
  <2>2. KeyTypeOK'
    BY <2>1, ContextsChange, KeyConstants DEF KeyTypeOK
  <2> QED
    BY <2>1, <2>2, ContextsChange DEF KeyInv, KeysAreAnswered, KeyAnswered,
         TimeSinceReport, ChordsAreKnown, RepeatsAreSpaced
<1>4. CASE UNCHANGED keyVars
  BY <1>4 DEF keyVars, KeyInv, KeyTypeOK, KeysAreAnswered, KeyAnswered, TimeSinceReport,
              ChordsAreKnown, RepeatsAreSpaced
<1> QED
  BY <1>1, <1>2, <1>3, <1>4 DEF KeyNext

(* No key is pressed at the start.                                         *)
LEMMA KeyInvInit == KeyInit => KeyInv /\ RepeatsAreSpaced
<1> SUFFICES ASSUME KeyInit PROVE KeyInv /\ RepeatsAreSpaced
  OBVIOUS
<1>1. KeyTypeOK
  BY ContextsChange, KeyConstants DEF KeyInit, KeyTypeOK
<1> QED
  BY <1>1, ContextsChange DEF KeyInit, KeyInv, KeysAreAnswered, KeyAnswered,
       TimeSinceReport, ChordsAreKnown, RepeatsAreSpaced

(* EveryPressAnswered: whatever keys the board has, however the user holds *)
(* them and however far apart the polls are, a press the device noticed has*)
(* been answered when it is over.                                          *)
THEOREM NoPressIsLost == KeySpec => EveryPressAnswered
<1>1. KeyInv /\ [KeyNext]_keyVars =>
        [\/ KeypadReset
         \/ \A k \in Keys :
              context[k].state # "RELEASED" /\ context'[k].state = "RELEASED"
                => \/ count[k] = 1
                   \/ k # "power" /\ (count[k] = 2 \/ chorded[k])]_keyVars
  <2> SUFFICES ASSUME KeyInv, [KeyNext]_keyVars, ~KeypadReset, ~UNCHANGED keyVars,
                      NEW k \in Keys,
                      context[k].state # "RELEASED", context'[k].state = "RELEASED"
               PROVE  count[k] = 1 \/ (k # "power" /\ (count[k] = 2 \/ chorded[k]))
    OBVIOUS
  <2>1. ~(\E x \in Keys : User(x))
    BY DEF User
  <2>2. PICK delta \in Deltas : GetKeys(delta)
    BY <2>1 DEF KeyNext
  <2> QED
    BY <2>2, KeysArePolled
<1> QED
  BY KeyInvInit, KeyInvStep, <1>1, PTL DEF KeySpec, EveryPressAnswered

(* RepeatsAreSpaced: no key is reported twice within RepeatTime.           *)
THEOREM ReportsAreSpaced == KeySpec => []RepeatsAreSpaced
  BY KeyInvInit, KeyInvStep, PTL DEF KeySpec
=============================================================================
