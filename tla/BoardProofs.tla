---------------------------- MODULE BoardProofs ----------------------------
(***************************************************************************)
(* The board's own devices: an interrupt that is let through reaches the   *)
(* handler registered for it, the RPM's answer in shared memory is the one *)
(* to the request just sent, what the secure world and its caller read of  *)
(* each other is never stale, a delay is never cut short, clocks that are  *)
(* used run; of the power chips, a pulse gets the best settings there are, *)
(* success means the chip has it, the battery tests give the charger back  *)
(* and the display's bias waits for its rails.                             *)
(***************************************************************************)
EXTENDS Clocks, Interrupts, TimerDelay, SmdChannel, Scm, QpnpWled, SequenceTheorems, WellFoundedInduction, FiniteSetTheorems, TLAPS

-----------------------------------------------------------------------------
(* The interrupt library: the ring of handler entries.                     *)

Last == back[MHandlers]

Links == [Nodes -> Nodes \cup {Absent}]
Steps == {"idle", "entry.forward", "entry.back", "last.forward", "head.back",
          "register"}
IrqTypeOK ==
  /\ fwd \in Links /\ back \in Links
  /\ reg \in [vector : Vectors \cup {Absent}, pc : Steps]
  /\ reg.pc # "idle" => reg.vector \in Vectors

(* But between its last two stores a registration leaves mHandlers'        *)
(* BackLink at the node whose ForwardLink closes the ring.                 *)
TailIsLast ==
  reg.pc # "head.back"
    => Last \in Walk \cup {MHandlers} /\ Last # Absent /\ fwd[Last] = MHandlers

(* How far the new entry is linked at each step of its registration.       *)
EntryIsLinked ==
  /\ reg.pc \in {"entry.forward", "entry.back", "last.forward"}
       => reg.vector \notin Walk
  /\ reg.pc \in {"entry.back", "last.forward", "head.back"}
       => fwd[reg.vector] = MHandlers
  /\ reg.pc \in {"entry.back", "last.forward"} => reg.vector # Last
  /\ reg.pc = "last.forward" => back[reg.vector] = Last
  /\ reg.pc \in {"head.back", "register"} => reg.vector \in Walk

(* Sources are registered after their entries are found, and let through   *)
(* after their owners asked for them.                                      *)
EnabledAreListed == /\ registered \subseteq Walk \cap Vectors
                    /\ enabled \cap Vectors \subseteq registered \cap wanted
CalledItsOwn == called.source = called.vector

IrqInv == /\ IrqTypeOK /\ TailIsLast /\ EntryIsLinked
          /\ EnabledAreListed /\ CalledItsOwn

(* What the runs check follows from the invariant.                         *)
LEMMA IrqInvIsEnough == IrqInv => InterruptsFindTheirHandler
BY InterruptsAssumption
   DEF IrqInv, EnabledAreListed, CalledItsOwn, InterruptsFindTheirHandler, HandlerEntry

(* The walk comes to the first node and goes on from each but the last.    *)
LEMMA WalkIsClosed == IrqTypeOK => ClosedWalk(Walk)
<1> SUFFICES ASSUME IrqTypeOK PROVE ClosedWalk(Walk)
  OBVIOUS
<1>1. fwd[MHandlers] \in Walk
  BY DEF Walk, ClosedWalk, IrqTypeOK, Links, Nodes
<1>2. ASSUME NEW n \in Walk \ {MHandlers, Absent} PROVE fwd[n] \in Walk
  <2>1. n \in Nodes /\ fwd[n] \in Nodes \cup {Absent}
    BY <1>2 DEF Walk, IrqTypeOK, Links
  <2>2. ASSUME NEW S \in SUBSET (Nodes \cup {Absent}), ClosedWalk(S)
        PROVE  fwd[n] \in S
    <3>1. n \in S
      BY <1>2, <2>2 DEF Walk
    <3> QED
      BY <1>2, <2>2, <3>1 DEF ClosedWalk
  <2> QED
    BY <2>1, <2>2 DEF Walk
<1> QED
  BY <1>1, <1>2 DEF ClosedWalk

(* No node outside a closed set is met.                                    *)
LEMMA WalkIsLeast ==
  ASSUME NEW S \in SUBSET (Nodes \cup {Absent}), ClosedWalk(S)
  PROVE  Walk \subseteq S
BY DEF Walk

(* A link of a node that the walk does not come to makes no difference.    *)
LEMMA UnmetLinksDoNotMatter ==
  ASSUME IrqTypeOK, NEW v \in Vectors, v \notin Walk,
         fwd' = [fwd EXCEPT ![v] = MHandlers]
  PROVE  Walk' = Walk
<1>1. v \in Nodes /\ v # MHandlers
  BY InterruptsAssumption DEF Nodes
<1>2. \A n \in Nodes : n # v => fwd'[n] = fwd[n]
  BY DEF IrqTypeOK, Links
<1>3. Walk' = {w \in Nodes \cup {Absent} :
                 \A S \in SUBSET (Nodes \cup {Absent}) : ClosedWalk(S)' => w \in S}
  BY DEF Walk, ClosedWalk
<1>4. PICK met : met = Walk
  OBVIOUS
<1>5. ClosedWalk(met)'
  <2>1. ClosedWalk(met) /\ v \notin met /\ met \subseteq Nodes \cup {Absent}
    BY <1>4, WalkIsClosed DEF Walk
  <2> QED
    BY <1>1, <1>2, <2>1 DEF ClosedWalk, Nodes
<1>6. Walk' \subseteq Walk
  BY <1>3, <1>4, <1>5 DEF Walk
<1>7. ASSUME NEW S \in SUBSET (Nodes \cup {Absent}), ClosedWalk(S)'
      PROVE  Walk \subseteq S
  <2>1. ClosedWalk(S \cap Walk)
    BY <1>1, <1>2, <1>7, WalkIsClosed DEF ClosedWalk, Nodes
  <2> QED
    BY <2>1, WalkIsLeast
<1>8. Walk \subseteq Nodes \cup {Absent}
  BY DEF Walk
<1>9. Walk \subseteq Walk'
  BY <1>3, <1>7, <1>8
<1> QED
  BY <1>6, <1>9

(* The store that hangs an entry on the end of the list adds it, and takes *)
(* nobody out.                                                             *)
LEMMA EntryIsAdded ==
  ASSUME IrqTypeOK, NEW v \in Vectors, fwd[v] = MHandlers,
         NEW l \in Walk \cup {MHandlers}, l \in Nodes, l # v, fwd[l] = MHandlers,
         fwd' = [fwd EXCEPT ![l] = v]
  PROVE  Walk \subseteq Walk' \cup {MHandlers} /\ v \in Walk'
<1>1. v \in Nodes /\ v # MHandlers /\ v # Absent /\ l # Absent /\ MHandlers # Absent
  BY InterruptsAssumption DEF Nodes, MHandlers, Absent
<1>2. /\ \A n \in Nodes : n # l => fwd'[n] = fwd[n]
      /\ fwd'[l] = v
  BY DEF IrqTypeOK, Links
<1>3. Walk' = {w \in Nodes \cup {Absent} :
                 \A S \in SUBSET (Nodes \cup {Absent}) : ClosedWalk(S)' => w \in S}
  BY DEF Walk, ClosedWalk
<1>4. ASSUME NEW S \in SUBSET (Nodes \cup {Absent}), ClosedWalk(S)'
      PROVE  Walk \subseteq S \cup {MHandlers} /\ v \in S
  <2>1. ClosedWalk(S \cup {MHandlers})
    <3>1. fwd[MHandlers] \in S \cup {MHandlers}
      BY <1>2, <1>4 DEF ClosedWalk, Nodes
    <3>2. ASSUME NEW n \in (S \cup {MHandlers}) \ {MHandlers, Absent}
          PROVE  fwd[n] \in S \cup {MHandlers}
      BY <1>2, <1>4, <3>2 DEF ClosedWalk
    <3> QED
      BY <3>1, <3>2 DEF ClosedWalk
  <2>2. Walk \subseteq S \cup {MHandlers}
    BY <2>1, WalkIsLeast DEF Nodes
  <2>3. CASE l = MHandlers
    BY <1>2, <1>4, <2>2, <2>3 DEF ClosedWalk
  <2>4. CASE l # MHandlers
    <3>1. l \in S
      BY <2>2, <2>4
    <3> QED
      BY <1>1, <1>2, <1>4, <2>2, <2>4, <3>1 DEF ClosedWalk
  <2> QED
    BY <2>2, <2>3, <2>4
<1>5. Walk \subseteq Nodes \cup {Absent}
  BY DEF Walk
<1> QED
  BY <1>1, <1>3, <1>4, <1>5

-----------------------------------------------------------------------------

(* The ring starts closed and empty.                                       *)
LEMMA IrqInvInit == InterruptsInit => IrqInv
<1> SUFFICES ASSUME InterruptsInit PROVE IrqInv
  OBVIOUS
<1>1. /\ fwd \in Links /\ back \in Links
      /\ fwd[MHandlers] = MHandlers /\ back[MHandlers] = MHandlers
  BY DEF InterruptsInit, Links, Nodes
<1>2. IrqTypeOK
  BY <1>1 DEF InterruptsInit, IrqTypeOK, NoReg, Steps
<1>3. TailIsLast
  BY <1>1 DEF TailIsLast, Last, Absent, MHandlers
<1>4. EntryIsLinked /\ EnabledAreListed /\ CalledItsOwn
  BY DEF InterruptsInit, EntryIsLinked, EnabledAreListed, CalledItsOwn, NoReg
<1> QED
  BY <1>2, <1>3, <1>4 DEF IrqInv

(* A step that leaves the links alone leaves the walk alone.               *)
LEMMA SameLinksSameWalk == UNCHANGED fwd => Walk' = Walk
BY DEF Walk, ClosedWalk

(* One step per action of the library, its callers and the controller.     *)
LEMMA IrqInvStep == IrqInv /\ [InterruptsNext]_irqVars => IrqInv'
<1> SUFFICES ASSUME IrqInv, [InterruptsNext]_irqVars PROVE IrqInv'
  OBVIOUS
<1> USE DEF IrqInv
<1> DEFINE links == <<fwd, back, reg>>
           sources == <<registered, enabled, wanted, called>>
<1>same. ASSUME UNCHANGED links
         PROVE  IrqTypeOK' /\ TailIsLast' /\ EntryIsLinked' /\ Walk' = Walk
  BY <1>same, SameLinksSameWalk DEF IrqTypeOK, TailIsLast, EntryIsLinked, Last, Links, Nodes
<1>1. CASE UNCHANGED irqVars
  BY <1>1, <1>same DEF irqVars, EnabledAreListed, CalledItsOwn
<1>2. ASSUME NEW v \in Vectors, RegisterIntHandler(v) PROVE IrqInv'
  <2>1. v \notin Walk
    BY <1>2, InterruptsAssumption DEF RegisterIntHandler, HandlerEntry
  <2>2. Walk' = Walk
    BY <1>2, SameLinksSameWalk DEF RegisterIntHandler
  <2>3. reg.pc = "idle" /\ reg' = [vector |-> v, pc |-> "entry.forward"]
        /\ UNCHANGED <<fwd, back, registered, enabled, wanted, called>>
    BY <1>2 DEF RegisterIntHandler
  <2>4. IrqTypeOK'
    BY <2>3 DEF IrqTypeOK, Steps, Links
  <2>5. TailIsLast' /\ EntryIsLinked'
    BY <2>1, <2>2, <2>3 DEF TailIsLast, EntryIsLinked, Last
  <2> QED
    BY <2>2, <2>3, <2>4, <2>5 DEF EnabledAreListed, CalledItsOwn
<1>3. CASE InsertEntryForward
  <2>1. /\ reg.pc = "entry.forward" /\ reg' = [reg EXCEPT !.pc = "entry.back"]
        /\ UNCHANGED <<back, registered, enabled, wanted, called>>
        /\ fwd' = [fwd EXCEPT ![reg.vector] = MHandlers]
    BY <1>3 DEF InsertEntryForward, InsertStep
  <2>2. /\ reg.vector \in Vectors /\ reg.vector \notin Walk
        /\ reg.vector # MHandlers /\ reg.vector \in Nodes
    BY <2>1, InterruptsAssumption DEF IrqTypeOK, EntryIsLinked, Nodes
  <2>3. Walk' = Walk
    BY <2>1, <2>2, UnmetLinksDoNotMatter
  <2>4. /\ reg'.vector = reg.vector /\ reg'.pc = "entry.back"
    BY <2>1 DEF IrqTypeOK
  <2>5. IrqTypeOK'
    BY <2>1, <2>2 DEF IrqTypeOK, Steps, Links, Nodes
  <2>6. Last # reg.vector
    BY <2>1, <2>2 DEF TailIsLast
  <2>7. TailIsLast'
    BY <2>1, <2>2, <2>3, <2>4, <2>6 DEF TailIsLast, Last, IrqTypeOK, Links, Nodes
  <2>8. EntryIsLinked'
    BY <2>1, <2>2, <2>3, <2>4, <2>6 DEF EntryIsLinked, Last, IrqTypeOK, Links
  <2> QED
    BY <2>1, <2>3, <2>5, <2>7, <2>8 DEF EnabledAreListed, CalledItsOwn
<1>4. CASE InsertEntryBack
  <2>1. /\ reg.pc = "entry.back" /\ reg' = [reg EXCEPT !.pc = "last.forward"]
        /\ UNCHANGED <<fwd, registered, enabled, wanted, called>>
        /\ back' = [back EXCEPT ![reg.vector] = Last]
    BY <1>4 DEF InsertEntryBack, InsertStep, Last
  <2>2. /\ reg.vector \in Vectors /\ reg.vector \notin Walk
        /\ reg.vector # MHandlers /\ reg.vector \in Nodes /\ MHandlers \in Nodes
    BY <2>1, InterruptsAssumption DEF IrqTypeOK, EntryIsLinked, Nodes
  <2>3. Walk' = Walk
    BY <2>1, SameLinksSameWalk
  <2>4. /\ reg'.vector = reg.vector /\ reg'.pc = "last.forward"
    BY <2>1 DEF IrqTypeOK
  <2>5. /\ Last \in Nodes \cup {Absent} /\ Last' = Last /\ back'[reg.vector] = Last
    BY <2>1, <2>2 DEF IrqTypeOK, Links, Last
  <2>6. back' \in Links
    BY <2>1, <2>5 DEF IrqTypeOK, Links
  <2>7. IrqTypeOK'
    BY <2>1, <2>2, <2>4, <2>6 DEF IrqTypeOK, Steps
  <2>8. TailIsLast'
    BY <2>1, <2>3, <2>4, <2>5 DEF TailIsLast
  <2>9. EntryIsLinked'
    BY <2>1, <2>2, <2>3, <2>4, <2>5 DEF EntryIsLinked
  <2> QED
    BY <2>1, <2>3, <2>7, <2>8, <2>9 DEF EnabledAreListed, CalledItsOwn
<1>5. CASE InsertLastForward
  <2>1. /\ reg.pc = "last.forward" /\ reg' = [reg EXCEPT !.pc = "head.back"]
        /\ UNCHANGED <<back, registered, enabled, wanted, called>>
        /\ fwd' = [fwd EXCEPT ![back[reg.vector]] = reg.vector]
    BY <1>5 DEF InsertLastForward, InsertStep
  <2>2. /\ reg.vector \in Vectors /\ back[reg.vector] = Last
        /\ fwd[reg.vector] = MHandlers /\ reg.vector # Last
    BY <2>1 DEF IrqTypeOK, EntryIsLinked
  <2>3. /\ Last \in Walk \cup {MHandlers} /\ Last \in Nodes /\ fwd[Last] = MHandlers
    BY <2>1 DEF TailIsLast, Walk, Nodes
  <2>4. fwd' = [fwd EXCEPT ![Last] = reg.vector]
    BY <2>1, <2>2
  <2>5. Walk \subseteq Walk' \cup {MHandlers} /\ reg.vector \in Walk'
    BY <2>2, <2>3, <2>4, EntryIsAdded
  <2>6. /\ reg'.vector = reg.vector /\ reg'.pc = "head.back"
    BY <2>1 DEF IrqTypeOK
  <2>7. IrqTypeOK'
    BY <2>1, <2>2, <2>4, <2>6 DEF IrqTypeOK, Steps, Links, Nodes
  <2>8. TailIsLast'
    BY <2>6 DEF TailIsLast
  <2>9. fwd'[reg.vector] = MHandlers
    BY <2>2, <2>4 DEF IrqTypeOK, Links, Nodes
  <2>10. EntryIsLinked'
    BY <2>5, <2>6, <2>9 DEF EntryIsLinked
  <2>11. EnabledAreListed'
    BY <2>1, <2>5, InterruptsAssumption DEF EnabledAreListed
  <2> QED
    BY <2>1, <2>7, <2>8, <2>10, <2>11 DEF CalledItsOwn
<1>6. CASE InsertHeadBack
  <2>1. /\ reg.pc = "head.back" /\ reg' = [reg EXCEPT !.pc = "register"]
        /\ UNCHANGED <<fwd, registered, enabled, wanted, called>>
        /\ back' = [back EXCEPT ![MHandlers] = reg.vector]
    BY <1>6 DEF InsertHeadBack, InsertStep
  <2>2. /\ reg.vector \in Vectors /\ reg.vector \in Walk
        /\ fwd[reg.vector] = MHandlers /\ reg.vector # Absent
    BY <2>1, InterruptsAssumption DEF IrqTypeOK, EntryIsLinked
  <2>3. Walk' = Walk
    BY <2>1, SameLinksSameWalk
  <2>4. reg'.vector = reg.vector /\ reg'.pc = "register"
    BY <2>1 DEF IrqTypeOK
  <2>5. back' \in Links /\ Last' = reg.vector
    BY <2>1, <2>2 DEF IrqTypeOK, Links, Nodes, Last
  <2>6. IrqTypeOK'
    BY <2>1, <2>2, <2>4, <2>5 DEF IrqTypeOK, Steps
  <2>7. TailIsLast' /\ EntryIsLinked'
    BY <2>1, <2>2, <2>3, <2>4, <2>5 DEF TailIsLast, EntryIsLinked
  <2> QED
    BY <2>1, <2>3, <2>6, <2>7 DEF EnabledAreListed, CalledItsOwn
<1>7. CASE Register
  <2>1. /\ reg.pc = "register" /\ reg' = NoReg /\ UNCHANGED <<fwd, back, wanted, called>>
        /\ registered' = registered \cup {reg.vector}
        /\ enabled' = enabled \ {reg.vector}
    BY <1>7 DEF Register, RegisterSource
  <2>2. /\ reg.vector \in Vectors /\ reg.vector \in Walk
    BY <2>1 DEF IrqTypeOK, EntryIsLinked
  <2>3. Walk' = Walk
    BY <2>1, SameLinksSameWalk
  <2>4. IrqTypeOK' /\ TailIsLast' /\ EntryIsLinked'
    BY <2>1, <2>3 DEF IrqTypeOK, TailIsLast, EntryIsLinked, NoReg, Steps, Last, Links
  <2> QED
    BY <2>1, <2>2, <2>3, <2>4 DEF EnabledAreListed, CalledItsOwn
<1>8. ASSUME NEW v \in Vectors, MaskInterrupt(v) \/ UnmaskInterrupt(v) PROVE IrqInv'
  <2>1. UNCHANGED links /\ UNCHANGED <<registered, called>>
    BY <1>8 DEF MaskInterrupt, UnmaskInterrupt
  <2>2. EnabledAreListed'
    BY <1>8, <2>1, <1>same DEF MaskInterrupt, UnmaskInterrupt, EnabledAreListed
  <2> QED
    BY <2>1, <2>2, <1>same DEF CalledItsOwn
<1>9. ASSUME SetTimerSource PROVE IrqInv'
  <2>1. UNCHANGED links /\ UNCHANGED <<registered, wanted, called>>
    BY <1>9 DEF SetTimerSource
  <2>2. enabled' \cap Vectors = enabled \cap Vectors
    BY <1>9, InterruptsAssumption DEF SetTimerSource
  <2> QED
    BY <2>1, <2>2, <1>same DEF EnabledAreListed, CalledItsOwn
<1>10. ASSUME IrqHandler PROVE IrqInv'
  <2>1. PICK v \in Vectors \cap pending \cap enabled :
          called' = [source |-> v, vector |-> HandlerEntry(v)]
    BY <1>10 DEF IrqHandler
  <2>2. HandlerEntry(v) = v
    BY <2>1 DEF EnabledAreListed, HandlerEntry
  <2>3. CalledItsOwn'
    BY <2>1, <2>2 DEF CalledItsOwn
  <2>4. UNCHANGED links /\ UNCHANGED <<registered, enabled, wanted>>
    BY <1>10 DEF IrqHandler
  <2> QED
    BY <2>3, <2>4, <1>same DEF EnabledAreListed
<1>11. ASSUME \/ StartTimer \/ ExitBootServices \/ HwAsserts \/ TimerInterrupt
              \/ \E p \in Periods : SetTimerPeriod(p)
              \/ \E enable \in BOOLEAN : TimerRegisterHandler(enable)
       PROVE  IrqInv'
  <2>1. UNCHANGED links /\ UNCHANGED sources
    BY <1>11 DEF StartTimer, ExitBootServices, HwAsserts, TimerInterrupt,
                 SetTimerPeriod, TimerRegisterHandler
  <2> QED
    BY <2>1, <1>same DEF EnabledAreListed, CalledItsOwn
<1> QED
  BY <1>1, <1>2, <1>3, <1>4, <1>5, <1>6, <1>7, <1>8, <1>9, <1>10, <1>11
     DEF InterruptsNext

(* InterruptsFindTheirHandler: however many sources register, and at       *)
(* whichever store of a registration an interrupt comes, the handler that  *)
(* is looked up is the one of the source that raised it, and no source is  *)
(* let through unasked.                                                    *)
THEOREM InterruptsAreHandled == InterruptsSpec => []InterruptsFindTheirHandler
<1>1. IrqInv /\ [InterruptsNext]_irqVars => IrqInv'
  BY IrqInvStep
<1> QED
  BY IrqInvInit, <1>1, IrqInvIsEnough, PTL DEF InterruptsSpec

-----------------------------------------------------------------------------
(* The shared memory channel: circular buffers and their indices.          *)

(* The constants, each in the form a solver takes it in.                   *)
LEMMA SmdConstants ==
  /\ fifo_size \in Nat \ {0} /\ HdrLen \in Nat \ {0} /\ AckLen \in Nat \ {0}
  /\ IndexWidth \in Nat \ {0} /\ MaxRequests \in Nat \ {0} /\ ReqLens \subseteq Nat \ {0}
  /\ fifo_size < IndexWidth /\ HdrLen + AckLen < fifo_size
  /\ \A n \in ReqLens : HdrLen + n < fifo_size
BY SmdAssumption DEF SmdAssumption

(* Where an index is that ran past the buffer's end once at most, and the  *)
(* way from one index up to another.                                       *)
Around(a) == IF a < fifo_size THEN a ELSE a - fifo_size
Ahead(a)  == IF a < 0 THEN a + fifo_size ELSE a

(* The remainders of the code are then these.                              *)
LEMMA AroundOnce ==
  /\ \A a \in 0..(2 * fifo_size - 1) : a % fifo_size = Around(a)
  /\ \A a \in (1 - fifo_size)..(fifo_size - 1) : a % fifo_size = Ahead(a)
BY SmdConstants DEF Around, Ahead

(* An index that goes on by no more than the buffer stays in it.           *)
LEMMA StepIsAround ==
  ASSUME NEW index \in Slots, NEW n \in 0..fifo_size
  PROVE  Step(index, n) = Around(index + n) /\ Step(index, n) \in Slots
<1>1. index + n \in 0..(2 * fifo_size - 1)
  BY SmdConstants DEF Slots
<1>2. (index + n) % fifo_size = Around(index + n)
  BY <1>1, AroundOnce
<1> QED
  BY <1>1, <1>2, SmdConstants DEF Step, Around, Slots

(* What memcpy_from_fifo reads is in the order of the indices.             *)
LEMMA Reads ==
  ASSUME NEW buf, NEW index \in Slots, NEW n \in 0..fifo_size
  PROVE  /\ DOMAIN FromFifo(buf, index, n) = 1..n
         /\ FromFifo(buf, index, n) = [k \in 1..n |-> FromFifo(buf, index, n)[k]]
         /\ Len(FromFifo(buf, index, n)) = n
         /\ \A k \in 1..n : FromFifo(buf, index, n)[k] = buf[Around(index + k - 1)]
<1>1. \A k \in 1..n : (index + k - 1) % fifo_size = Around(index + k - 1)
  <2> TAKE k \in 1..n
  <2>1. index + k - 1 \in 0..(2 * fifo_size - 1)
    BY SmdConstants DEF Slots
  <2> QED
    BY <2>1, AroundOnce
<1>2. FromFifo(buf, index, n) = [k \in 1..n |-> buf[(index + k - 1) % fifo_size]]
  BY DEF FromFifo
<1>3. n \in Nat
  BY SmdConstants
<1> QED
  BY <1>1, <1>2, <1>3

(* memcpy_to_fifo puts the words behind index and nothing elsewhere.       *)
StoredAt(buf, index, words) ==
  \A k \in 1..Len(words) : buf[Around(index + k - 1)] = words[k]
(* The two sides of memcpy_to_fifo, slot by slot.                          *)
LEMMA Stores ==
  ASSUME NEW S, NEW buf, NEW index \in Slots, NEW words \in Seq(S),
         Len(words) \in 0..fifo_size
  PROVE  /\ StoredAt(ToFifo(buf, index, words), index, words)
         /\ \A i \in Slots : Ahead(i - index) >= Len(words)
              => ToFifo(buf, index, words)[i] = buf[i]
<1>1. \A i \in Slots : (i - index) % fifo_size = Ahead(i - index)
  <2> TAKE i \in Slots
  <2>1. i - index \in (1 - fifo_size)..(fifo_size - 1)
    BY SmdConstants DEF Slots
  <2> QED
    BY <2>1, AroundOnce
<1>2. \A i \in Slots : ToFifo(buf, index, words)[i] =
        IF Ahead(i - index) < Len(words) THEN words[Ahead(i - index) + 1] ELSE buf[i]
  BY <1>1 DEF ToFifo
<1>3. \A k \in 1..Len(words) : /\ Around(index + k - 1) \in Slots
                               /\ Ahead(Around(index + k - 1) - index) = k - 1
  BY SmdConstants DEF Slots, Around, Ahead
<1>4. \A k \in 1..Len(words) : k - 1 < Len(words) /\ (k - 1) + 1 = k
  OBVIOUS
<1>5. \A i \in Slots : Ahead(i - index) \in Nat
  BY SmdConstants DEF Slots, Ahead
<1> QED
  BY <1>2, <1>3, <1>4, <1>5 DEF StoredAt
-----------------------------------------------------------------------------

(* The buffer of a port holds exactly these words between its two indices. *)
Holds(buf, end, words) ==
  /\ end.write_index = Step(end.read_index, Len(words))
  /\ FromFifo(buf, end.read_index, Len(words)) = words

(* Publishing more words behind those that are there.                      *)
LEMMA PublishedBehind ==
  ASSUME NEW S, NEW buf, NEW end \in Ends, NEW old \in Seq(S), NEW new \in Seq(S),
         Len(old) + Len(new) < fifo_size, Holds(buf, end, old)
  PROVE  Holds(ToFifo(buf, end.write_index, new),
               [end EXCEPT !.write_index = Step(@, Len(new))], old \o new)
<1> DEFINE r == end.read_index
           w == end.write_index
           m == Len(old)
           n == Len(new)
           after == ToFifo(buf, w, new)
<1>1. /\ r \in Slots /\ w \in Slots /\ m \in Nat /\ n \in Nat
      /\ m \in 0..fifo_size /\ n \in 0..fifo_size /\ m + n \in 0..fifo_size
      /\ m + n < fifo_size
  BY SmdConstants DEF Ends
<1>2. w = Around(r + m) /\ FromFifo(buf, r, m) = old
  BY <1>1, StepIsAround DEF Holds
<1>3. Step(w, n) = Around(w + n) /\ Step(r, m + n) = Around(r + (m + n))
  BY <1>1, StepIsAround
<1>4. /\ old \o new \in Seq(S) /\ Len(old \o new) = m + n
      /\ \A k \in 1..m : (old \o new)[k] = old[k]
      /\ \A k \in (m + 1)..(m + n) : (old \o new)[k] = new[k - m]
  BY <1>1
<1>5. [end EXCEPT !.write_index = Step(@, n)].read_index = r
      /\ [end EXCEPT !.write_index = Step(@, n)].write_index = Step(w, n)
  BY DEF Ends
<1>stored. \A k \in 1..n : after[Around(w + k - 1)] = new[k]
  <2> HIDE DEF w
  <2>1. Len(new) \in 0..fifo_size
    BY <1>1
  <2>2. StoredAt(ToFifo(buf, w, new), w, new)
    BY <1>1, <2>1, Stores
  <2> QED
    BY <2>2 DEF StoredAt
<1>all. old \o new = [k \in 1..(m + n) |-> (old \o new)[k]]
  <2> DEFINE all == old \o new
  <2>1. all \in Seq(S) /\ Len(all) = m + n
    BY <1>4
  <2> HIDE DEF all, m, n
  <2>2. all = [k \in 1..(m + n) |-> all[k]]
    BY <2>1
  <2> QED
    BY <2>2 DEF all
<1> HIDE DEF r, w, m, n, after
<1>6. Step(w, n) = Step(r, m + n)
  BY <1>1, <1>2, <1>3, SmdConstants DEF Around, Slots
<1>7. \A k \in 1..m : FromFifo(buf, r, m)[k] = buf[Around(r + k - 1)]
  BY <1>1, Reads
<1>8. ASSUME NEW k \in 1..m PROVE after[Around(r + k - 1)] = old[k]
  <2>1. Around(r + k - 1) \in Slots /\ Ahead(Around(r + k - 1) - w) >= n
    BY <1>1, <1>2, SmdConstants DEF Around, Ahead, Slots
  <2>2. after[Around(r + k - 1)] = buf[Around(r + k - 1)]
    BY <1>1, <2>1, Stores DEF after, n
  <2> QED
    BY <1>2, <1>7, <2>2
<1>9. ASSUME NEW k \in (m + 1)..(m + n) PROVE after[Around(r + k - 1)] = new[k - m]
  <2>1. k - m \in 1..n /\ Around(w + (k - m) - 1) = Around(r + k - 1)
    BY <1>1, <1>2, SmdConstants DEF Around, Slots
  <2> QED
    BY <1>stored, <2>1
<1>10. /\ FromFifo(after, r, m + n) = [k \in 1..(m + n) |-> FromFifo(after, r, m + n)[k]]
       /\ \A k \in 1..(m + n) : FromFifo(after, r, m + n)[k] = after[Around(r + k - 1)]
  <2>1. PICK t \in 0..fifo_size : t = m + n
    BY <1>1
  <2>2. /\ FromFifo(after, r, t) = [k \in 1..t |-> FromFifo(after, r, t)[k]]
        /\ \A k \in 1..t : FromFifo(after, r, t)[k] = after[Around(r + k - 1)]
    BY ZenonT(60), <1>1, Reads
  <2> QED
    BY <2>1, <2>2
<1>11. ASSUME NEW k \in 1..(m + n) PROVE FromFifo(after, r, m + n)[k] = (old \o new)[k]
  <2>1. CASE k \in 1..m
    BY <1>4, <1>8, <1>10, <2>1
  <2>2. CASE k \in (m + 1)..(m + n)
    BY <1>4, <1>9, <1>10, <2>2
  <2>3. k \in 1..m \/ k \in (m + 1)..(m + n)
    BY <1>1
  <2> QED
    BY <2>1, <2>2, <2>3
<1>13. FromFifo(after, r, m + n) = old \o new
  BY <1>10, <1>11, <1>all
<1> QED
  BY <1>4, <1>5, <1>6, <1>13 DEF Holds, r, w, n, after

(* Reading the first of those words, and what is left then.                *)
LEMMA ReadFirst ==
  ASSUME NEW S, NEW buf, NEW end \in Ends, NEW first \in Seq(S), NEW rest \in Seq(S),
         Len(first) + Len(rest) < fifo_size, Holds(buf, end, first \o rest)
  PROVE  /\ FromFifo(buf, end.read_index, Len(first)) = first
         /\ Step(end.read_index, Len(first)) \in Slots
         /\ FromFifo(buf, Step(end.read_index, Len(first)), Len(rest)) = rest
         /\ Holds(buf, [end EXCEPT !.read_index = Step(@, Len(first))], rest)
<1> DEFINE r == end.read_index
           m == Len(first)
           n == Len(rest)
           all == first \o rest
           next == Step(r, m)
<1>1. /\ r \in Slots /\ m \in Nat /\ n \in Nat /\ m + n < fifo_size
      /\ m \in 0..fifo_size /\ n \in 0..fifo_size /\ m + n \in 0..fifo_size
  BY SmdConstants DEF Ends
<1>2. /\ Len(all) = m + n /\ \A k \in 1..m : all[k] = first[k]
      /\ \A k \in 1..n : all[m + k] = rest[k]
      /\ first = [k \in 1..m |-> first[k]] /\ rest = [k \in 1..n |-> rest[k]]
  BY <1>1
<1>3. end.write_index = Step(r, m + n) /\ FromFifo(buf, r, m + n) = all
  BY <1>2 DEF Holds
<1>4. /\ [end EXCEPT !.read_index = Step(@, m)].read_index = next
      /\ [end EXCEPT !.read_index = Step(@, m)].write_index = end.write_index
  BY DEF Ends
<1> HIDE DEF r, m, n, all
<1>5. /\ next = Around(r + m) /\ next \in Slots /\ Step(r, m + n) = Around(r + (m + n))
  BY <1>1, StepIsAround
<1> HIDE DEF next
<1>6. Step(next, n) = Around(next + n)
  BY <1>1, <1>5, StepIsAround
<1>7. Step(next, n) = Step(r, m + n)
  BY <1>1, <1>5, <1>6, SmdConstants DEF Around, Slots
<1>8. \A k \in 1..(m + n) : all[k] = buf[Around(r + k - 1)]
  BY <1>1, <1>3, Reads
<1>9. FromFifo(buf, r, m) = first
  <2>1. /\ FromFifo(buf, r, m) = [k \in 1..m |-> FromFifo(buf, r, m)[k]]
        /\ \A k \in 1..m : FromFifo(buf, r, m)[k] = buf[Around(r + k - 1)]
    BY ZenonT(60), <1>1, Reads
  <2>2. \A k \in 1..m : k \in 1..(m + n)
    BY <1>1
  <2>3. \A k \in 1..m : FromFifo(buf, r, m)[k] = first[k]
    BY <1>2, <1>8, <2>1, <2>2
  <2> QED
    BY <1>2, <2>1, <2>3
<1>10. FromFifo(buf, next, n) = rest
  <2>1. /\ FromFifo(buf, next, n) = [k \in 1..n |-> FromFifo(buf, next, n)[k]]
        /\ \A k \in 1..n : FromFifo(buf, next, n)[k] = buf[Around(next + k - 1)]
    <3>1. next \in Slots /\ n \in 0..fifo_size
      BY <1>1, <1>5
    <3> QED
      BY ZenonT(60), <3>1, Reads
  <2>2. \A k \in 1..n : m + k \in 1..(m + n) /\ Around(next + k - 1) = Around(r + (m + k) - 1)
    BY <1>1, <1>5, SmdConstants DEF Around, Slots
  <2>3. \A k \in 1..n : FromFifo(buf, next, n)[k] = rest[k]
    BY SMTT(40), <1>2, <1>8, <2>1, <2>2
  <2> QED
    BY <1>2, <2>1, <2>3
<1> QED
  BY <1>3, <1>4, <1>5, <1>7, <1>9, <1>10 DEF Holds, next, r, m, n

(* What the subtractions of the indices tell.                              *)
LEMMA DistanceTells ==
  ASSUME NEW S, NEW buf, NEW end \in Ends, NEW words \in Seq(S),
         Len(words) < fifo_size, Holds(buf, end, words)
  PROVE  /\ (end.write_index - end.read_index) % fifo_size = Len(words)
         /\ words = <<>> => Available(end) = 0
<1> DEFINE r == end.read_index
           w == end.write_index
           n == Len(words)
<1>1. r \in Slots /\ w \in Slots /\ n \in Nat /\ n \in 0..fifo_size /\ n < fifo_size
  BY SmdConstants DEF Ends
<1>2. w = Around(r + n)
  BY <1>1, StepIsAround DEF Holds
<1>3. Available(end) = (w - r) % IndexWidth /\ (words = <<>> => n = 0)
  BY DEF Available
<1> HIDE DEF r, w, n
<1>4. w - r \in (1 - fifo_size)..(fifo_size - 1)
  BY <1>1, SmdConstants DEF Slots
<1>5. (w - r) % fifo_size = Ahead(w - r)
  BY <1>4, AroundOnce
<1>6. Ahead(w - r) = n
  BY <1>1, <1>2, SmdConstants DEF Ahead, Around, Slots
<1>7. n = 0 => w - r = 0
  BY <1>1, <1>2, SmdConstants DEF Around, Slots
<1>8. 0 % IndexWidth = 0
  BY SmdConstants
<1> QED
  BY <1>3, <1>5, <1>6, <1>7, <1>8 DEF r, w, n

(* A buffer is empty when its two indices are the same.                    *)
LEMMA HoldsNothing ==
  ASSUME NEW buf, NEW end, end.read_index \in Slots
  PROVE  Holds(buf, end, <<>>) <=> end.write_index = end.read_index
<1> DEFINE r == end.read_index
<1>1. r \in 0..(fifo_size - 1) /\ Len(<<>>) = 0 /\ 0 \in 0..fifo_size
  BY SmdConstants DEF Slots
<1>2. Step(r, 0) = Around(r + 0)
  BY <1>1, StepIsAround DEF Slots
<1> HIDE DEF r
<1>3. Step(r, 0) = r
  BY <1>1, <1>2, SmdConstants DEF Around
<1>4. FromFifo(buf, r, 0) = <<>>
  BY DEF FromFifo
<1> QED
  BY <1>1, <1>3, <1>4 DEF Holds, r

(* Only the indices of an end matter for what the buffer holds.            *)
LEMMA SameIndices ==
  ASSUME NEW buf, NEW end, NEW next, NEW words,
         next.read_index = end.read_index, next.write_index = end.write_index,
         Holds(buf, end, words)
  PROVE  Holds(buf, next, words)
BY DEF Holds

-----------------------------------------------------------------------------
(* The words of a packet.                                                  *)
Word == {"hdr", "req", "ack"} \X Nat \X Nat

(* A header is HdrLen words and tells the length of its packet.            *)
LEMMA Headers ==
  ASSUME NEW n \in Nat
  PROVE  /\ Header(n) \in Seq(Word) /\ Len(Header(n)) = HdrLen
         /\ PktSize(Header(n)) = n
<1>1. Header(n) = [k \in 1..HdrLen |-> <<"hdr", n, k>>] /\ 1 \in 1..HdrLen
  BY SmdConstants DEF Header
<1>2. \A k \in 1..HdrLen : <<"hdr", n, k>> \in Word
  BY SmdConstants DEF Word
<1>3. Header(n) \in [1..HdrLen -> Word]
  BY <1>1, <1>2
<1>4. Header(n)[1] = <<"hdr", n, 1>>
  BY <1>1
<1> QED
  BY <1>3, <1>4, SmdConstants DEF PktSize

(* A request tells its number.                                             *)
LEMMA Requests ==
  ASSUME NEW id \in Nat, NEW n \in Nat \ {0}
  PROVE  /\ Request(id, n) \in Seq(Word) /\ Len(Request(id, n)) = n
         /\ Request(id, n)[1][2] = id
<1>1. Request(id, n) = [k \in 1..n |-> <<"req", id, k>>] /\ 1 \in 1..n
  BY DEF Request
<1>2. \A k \in 1..n : <<"req", id, k>> \in Word
  BY DEF Word
<1>3. Request(id, n) \in [1..n -> Word]
  BY <1>1, <1>2
<1>4. Request(id, n)[1] = <<"req", id, 1>>
  BY <1>1
<1> QED
  BY <1>3, <1>4

(* An acknowledgement is AckLen words.                                     *)
LEMMA Acks ==
  ASSUME NEW id \in Nat
  PROVE  Ack(id) \in Seq(Word) /\ Len(Ack(id)) = AckLen
<1>1. Ack(id) = [k \in 1..AckLen |-> <<"ack", id, k>>]
  BY DEF Ack
<1>2. \A k \in 1..AckLen : <<"ack", id, k>> \in Word
  BY SmdConstants DEF Word
<1>3. Ack(id) \in [1..AckLen -> Word]
  BY <1>1, <1>2
<1> QED
  BY <1>3, SmdConstants

-----------------------------------------------------------------------------
(* A caller that stands here never comes back to a request: smd_read has   *)
(* asserted, or smd_uninit has begun.                                      *)
Over == {"asserted", "setstate", "closing", "closed"}

(* Until then the two ends only open, ours after the RPM's, and it has     *)
(* interrupted us only after it followed.                                  *)
Opening ==
  /\ current_state = ch0.stream_state
  /\ \/ ch0.stream_state = "CLOSED" /\ ch1.stream_state = "CLOSED" /\ pc = "start"
     \/ /\ ch0.stream_state = "OPENING" /\ pc # "start"
        /\ ch1.stream_state \in {"CLOSED", "OPENING", "OPENED"}
     \/ ch0.stream_state = "OPENED" /\ ch1.stream_state = "OPENED" /\ pc # "start"
  /\ ch1.stream_state = "CLOSED" => ~irq

(* What is on its way while request id of n words is: what the two buffers *)
(* hold, and the step the RPM is at.                                       *)
OnTheWay(id, send, recv, stage) ==
  /\ Holds(send_buf, ch0, send) /\ Holds(recv_buf, ch1, recv)
  /\ serving.stage = stage /\ (stage # "none" => serving.id = id)

Waiting == pc \in {"recv", "header"}
Packet(n, id) == Header(n) \o Request(id, n)
Heard == pc = "body" /\ response = Header(AckLen)

Request0(id) == /\ pc \in {"start", "idle"} \/ (refused /\ Waiting)
                /\ OnTheWay(id, <<>>, <<>>, "none")
Begun(n, id) == pc = "payload" /\ OnTheWay(id, Header(n), <<>>, "none")
Sent(n, id)  == Waiting /\ OnTheWay(id, Packet(n, id), <<>>, "none")
Served(id)   == Waiting /\ OnTheWay(id, <<>>, <<>>, "header")
HalfAnswered(id) == \/ Waiting /\ OnTheWay(id, <<>>, Header(AckLen), "body")
                    \/ Heard /\ OnTheWay(id, <<>>, <<>>, "body")
Answered(id) == \/ Waiting /\ OnTheWay(id, <<>>, Header(AckLen) \o Ack(id), "none")
                \/ Heard /\ OnTheWay(id, <<>>, Ack(id), "none")
Returned(id) == /\ pc = "complete" /\ response = Ack(id)
                /\ OnTheWay(id, <<>>, <<>>, "none")

(* One request at a time, step by step.                                    *)
InStep(n, id) ==
  \/ Request0(id)
  \/ /\ n \in ReqLens /\ id # 0
     /\ \/ Begun(n, id) \/ Sent(n, id) \/ Served(id) \/ HalfAnswered(id)
        \/ Answered(id) \/ Returned(id)

(* Nothing has been sent before both ends are open.                        *)
AtZero == /\ ch0.read_index = 0 /\ ch0.write_index = 0
          /\ ch1.read_index = 0 /\ ch1.write_index = 0

Live == /\ ch0 \in Ends /\ ch1 \in Ends
        /\ serving \in [id : Nat, stage : {"none", "header", "body"}]
        /\ Opening
        /\ \E n \in Nat, id \in 0..MaxRequests :
             /\ len = n /\ msg_id = id /\ InStep(n, id)
             /\ ch0.stream_state # "OPENED" => AtZero /\ Request0(id)
SmdInv == pc \in Over \/ Live

(* What the runs check follows from the invariant.                         *)
LEMMA SmdInvIsEnough == SmdInv => ResponseAnswersRequest
BY DEF SmdInv, Live, Over, InStep, ResponseAnswersRequest, Request0, Begun, Sent,
       Served, HalfAnswered, Answered, Returned, Waiting, Heard

(* Both ends closed, both buffers empty, nothing sent.                     *)
LEMMA SmdInvInit == SmdInit => SmdInv
<1> SUFFICES ASSUME SmdInit PROVE SmdInv
  OBVIOUS
<1>1. /\ ch0 \in Ends /\ ch1 \in Ends /\ AtZero
      /\ ch0.stream_state = "CLOSED" /\ ch1.stream_state = "CLOSED"
  BY SmdConstants DEF SmdInit, ClosedEnd, Ends, StreamStates, Slots, AtZero
<1>2. Holds(send_buf, ch0, <<>>) /\ Holds(recv_buf, ch1, <<>>)
  BY <1>1, HoldsNothing DEF AtZero, Ends
<1>3. Request0(0)
  BY <1>2 DEF SmdInit, Request0, OnTheWay
<1>4. Opening /\ serving \in [id : Nat, stage : {"none", "header", "body"}]
  BY <1>1 DEF SmdInit, Opening
<1> QED
  BY <1>1, <1>3, <1>4, SmdConstants DEF SmdInv, Live, InStep, SmdInit

(* What is on its way after a step is told by the new buffers and ends.    *)
LEMMA OnTheWayNext ==
  ASSUME NEW id, NEW send, NEW recv, NEW stage,
         Holds(send_buf', ch0', send), Holds(recv_buf', ch1', recv),
         serving'.stage = stage, stage # "none" => serving'.id = id
  PROVE  OnTheWay(id, send, recv, stage)'
BY DEF OnTheWay, Holds, FromFifo, Step

(* Nothing but the streams' states may change besides the calls'.          *)
LEMMA SameWords ==
  ASSUME NEW id, NEW send, NEW recv, NEW stage, OnTheWay(id, send, recv, stage),
         UNCHANGED <<send_buf, recv_buf, serving>>,
         ch0'.read_index = ch0.read_index, ch0'.write_index = ch0.write_index,
         ch1'.read_index = ch1.read_index, ch1'.write_index = ch1.write_index
  PROVE  OnTheWay(id, send, recv, stage)'
<1>1. Holds(send_buf', ch0', send) /\ Holds(recv_buf', ch1', recv)
  BY SameIndices DEF OnTheWay
<1> QED
  BY <1>1, OnTheWayNext DEF OnTheWay

(* The parts of the invariant after a step.                                *)
LEMMA LiveNext ==
  ASSUME ch0' \in Ends, ch1' \in Ends, Opening',
         serving' \in [id : Nat, stage : {"none", "header", "body"}],
         NEW n \in Nat, NEW id \in 0..MaxRequests, len' = n, msg_id' = id,
         InStep(n, id)',
         ch0'.stream_state # "OPENED" => AtZero' /\ Request0(id)'
  PROVE  SmdInv'
BY DEF SmdInv, Live

(* An index goes on, the rest of the port's end stays.                     *)
LEMMA WriteIndexGoesOn ==
  ASSUME NEW end \in Ends, NEW n \in 0..fifo_size, NEW next,
         next = [end EXCEPT !.write_index = Step(@, n)]
  PROVE  /\ next \in Ends /\ next.stream_state = end.stream_state
         /\ next.read_index = end.read_index
BY StepIsAround DEF Ends

(* The same for the end that is read.                                      *)
LEMMA ReadIndexGoesOn ==
  ASSUME NEW end \in Ends, NEW n \in 0..fifo_size, NEW next,
         next = [end EXCEPT !.read_index = Step(@, n)]
  PROVE  /\ next \in Ends /\ next.stream_state = end.stream_state
         /\ next.write_index = end.write_index
BY StepIsAround DEF Ends

(* Who is over stays so.                                                   *)
LEMMA OverForGood == pc \in Over /\ [SmdNext]_smdVars => pc' \in Over
BY DEF Over, SmdNext, smdVars, callVars, Caller, Driver, Rpm, SmdOpen, SmdWriteHeader,
       SmdWriteRefused, SmdUninit, SmdWritePayload, SmdReadEnter, SmdReadHeader,
       SmdReadBody, SmdSignalReadComplete, SmdUninitNotify, SmdUninitReturns,
       SmdIrqHandler, RpmChangesState, RpmTakes, RpmAcknowledges, RpmPublishes, RpmSleeps

(* The lengths that go into the buffers.                                   *)
LEMMA Lengths ==
  ASSUME NEW n \in ReqLens, NEW id \in Nat
  PROVE  /\ n \in Nat \ {0} /\ n \in 0..fifo_size /\ HdrLen + n < fifo_size
         /\ HdrLen \in 0..fifo_size /\ AckLen \in 0..fifo_size
         /\ Len(Header(n)) = HdrLen /\ Len(Header(AckLen)) = HdrLen
         /\ Len(Request(id, n)) = n /\ Len(Ack(id)) = AckLen
         /\ Header(n) \in Seq(Word) /\ Header(AckLen) \in Seq(Word)
         /\ Request(id, n) \in Seq(Word) /\ Ack(id) \in Seq(Word)
BY SmdConstants, Headers, Requests, Acks

(* An empty buffer has nothing to read.                                    *)
LEMMA NothingArrives ==
  ASSUME NEW buf, NEW end \in Ends, Holds(buf, end, <<>>)
  PROVE  Available(end) = 0 /\ (end.write_index - end.read_index) % fifo_size = 0
<1>1. <<>> \in Seq(Word) /\ Len(<<>>) = 0 /\ 0 < fifo_size
  BY SmdConstants
<1> QED
  BY <1>1, DistanceTells

(* Where the caller stands tells what is on the way.                       *)
LEMMA PcTells ==
  ASSUME NEW n \in Nat, NEW id \in 0..MaxRequests, InStep(n, id)
  PROVE  /\ pc \in {"start", "idle"} => Request0(id)
         /\ pc # "start" /\ pc # "idle" /\ ~(Waiting /\ refused) => n \in ReqLens /\ id # 0
         /\ pc = "payload" => Begun(n, id)
         /\ Waiting => \/ (refused /\ Request0(id)) \/ Sent(n, id) \/ Served(id)
                       \/ HalfAnswered(id) \/ Answered(id)
         /\ pc = "body" => HalfAnswered(id) \/ Answered(id)
         /\ pc = "complete" => Returned(id)
<1>1. /\ Request0(id) => pc \in {"start", "idle"} \/ (refused /\ Waiting)
      /\ Begun(n, id) => pc = "payload"
      /\ Sent(n, id) \/ Served(id) => Waiting
      /\ HalfAnswered(id) \/ Answered(id) => Waiting \/ pc = "body"
      /\ Returned(id) => pc = "complete"
  BY DEF Request0, Begun, Sent, Served, HalfAnswered, Answered, Returned, Heard
<1>2. Waiting => pc \in {"recv", "header"}
  BY DEF Waiting
<1> QED
  BY <1>1, <1>2 DEF InStep

-----------------------------------------------------------------------------
(* The steps of the caller and the driver.                                 *)
LEMMA CallerSteps ==
  ASSUME Live, pc \notin Over,
         SmdOpen \/ (\E k \in ReqLens : SmdWriteHeader(k) \/ SmdWriteRefused(k)) \/ SmdUninit
  PROVE  SmdInv'
<1>1. PICK n \in Nat, id \in 0..MaxRequests :
        /\ len = n /\ msg_id = id /\ InStep(n, id)
        /\ ch0.stream_state # "OPENED" => AtZero /\ Request0(id)
  BY DEF Live
<1>2. CASE SmdOpen
  <2>1. /\ pc = "start" /\ pc' = "idle" /\ UNCHANGED <<send_buf, recv_buf, msg_id, len, refused, serving, irq>>
        /\ SetState("OPENING")
    BY <1>2 DEF SmdOpen
  <2>2. /\ ch0.stream_state = "CLOSED" /\ ch1.stream_state = "CLOSED"
        /\ AtZero /\ Request0(id)
    BY <1>1, <2>1 DEF Live, Opening
  <2>3. /\ ch0' = [WriteState(ch0, "OPENING") EXCEPT !.write_index = 0]
        /\ ch1' = [ch1 EXCEPT !.read_index = 0] /\ current_state' = "OPENING"
    BY <2>1, <2>2 DEF SetState, NextState
  <2>4. /\ ch0' \in Ends /\ ch1' \in Ends /\ AtZero'
        /\ ch0'.stream_state = "OPENING" /\ ch1'.stream_state = "CLOSED"
        /\ ch0'.read_index = ch0.read_index /\ ch0'.write_index = ch0.write_index
        /\ ch1'.read_index = ch1.read_index /\ ch1'.write_index = ch1.write_index
    BY <2>2, <2>3, SmdConstants DEF Live, Ends, WriteState, AtZero, Slots, StreamStates
  <2>5. OnTheWay(id, <<>>, <<>>, "none")'
    BY <2>1, <2>2, <2>4, SameWords DEF Request0
  <2>6. Request0(id)' /\ InStep(n, id)'
    BY <2>1, <2>5 DEF Request0, InStep
  <2>7. Opening' /\ serving' \in [id : Nat, stage : {"none", "header", "body"}]
    BY <2>1, <2>2, <2>3, <2>4 DEF Opening, Live
  <2> QED
    BY <1>1, <2>1, <2>4, <2>6, <2>7, LiveNext
<1>3. ASSUME NEW k \in ReqLens, SmdWriteHeader(k)
      PROVE  SmdInv'
  <2>1. /\ pc = "idle" /\ pc' = "payload" /\ msg_id < MaxRequests
        /\ msg_id' = msg_id + 1 /\ len' = k /\ refused' = FALSE
        /\ ch0.stream_state = "OPENED"
        /\ send_buf' = ToFifo(send_buf, ch0.write_index, Header(k))
        /\ ch0' = [ch0 EXCEPT !.write_index = Step(@, HdrLen)]
        /\ UNCHANGED <<ch1, recv_buf, current_state, serving, irq>>
    BY <1>3 DEF SmdWriteHeader, IsChannelOpen, rpmVars
  <2>2. Request0(id)
    BY <1>1, <2>1, PcTells
  <2>3. PICK next \in 1..MaxRequests : next = id + 1 /\ msg_id' = next
    BY <1>1, <2>1, SmdConstants
  <2>4. /\ Len(Header(k)) = HdrLen /\ Header(k) \in Seq(Word) /\ HdrLen < fifo_size
        /\ HdrLen \in 0..fifo_size /\ k \in Nat /\ HdrLen \in Nat
    BY Lengths, <1>1, SmdConstants
  <2>5. /\ Holds(send_buf, ch0, <<>>) /\ Holds(recv_buf, ch1, <<>>) /\ serving.stage = "none"
        /\ ch0 \in Ends
    BY <2>2 DEF Request0, OnTheWay, Live
  <2>6. Holds(send_buf', ch0', Header(k))
    <3>1. <<>> \in Seq(Word) /\ Len(<<>>) + Len(Header(k)) < fifo_size
      BY <2>4
    <3>2. <<>> \o Header(k) = Header(k)
      BY <2>4
    <3>3. Holds(ToFifo(send_buf, ch0.write_index, Header(k)),
                [ch0 EXCEPT !.write_index = Step(@, Len(Header(k)))], <<>> \o Header(k))
      BY <2>4, <2>5, <3>1, PublishedBehind
    <3> QED
      BY <2>1, <2>4, <3>2, <3>3
  <2>7. ch0' \in Ends /\ ch0'.stream_state = "OPENED"
    BY <2>1, <2>4, <2>5, WriteIndexGoesOn
  <2>8. OnTheWay(next, Header(k), <<>>, "none")'
    BY <2>1, <2>5, <2>6, OnTheWayNext
  <2>9. InStep(k, next)'
    BY <2>1, <2>8 DEF InStep, Begun
  <2>10. /\ Opening' /\ ch1' \in Ends
         /\ serving' \in [id : Nat, stage : {"none", "header", "body"}]
    BY <2>1, <2>7 DEF Live, Opening
  <2>11. next \in 0..MaxRequests
    BY <2>3
  <2> QED
    BY <2>1, <2>3, <2>4, <2>7, <2>9, <2>10, <2>11, LiveNext
<1>4. ASSUME NEW k \in ReqLens, SmdWriteRefused(k)
      PROVE  SmdInv'
  <2>1. /\ pc = "idle" /\ pc' = "recv" /\ msg_id < MaxRequests
        /\ msg_id' = msg_id + 1 /\ len' = k /\ refused' = TRUE
        /\ UNCHANGED <<ch0, ch1, send_buf, recv_buf, current_state, serving, irq>>
    BY <1>4 DEF SmdWriteRefused, rpmVars, portVars
  <2>2. Request0(id)
    BY <1>1, <2>1, PcTells
  <2>3. PICK next \in 1..MaxRequests : next = id + 1 /\ msg_id' = next
    BY <1>1, <2>1, SmdConstants
  <2>4. OnTheWay(next, <<>>, <<>>, "none")
    BY <2>2 DEF Request0, OnTheWay
  <2>5. OnTheWay(next, <<>>, <<>>, "none")'
    BY <2>1, <2>4, SameWords
  <2>6. Request0(next)' /\ InStep(k, next)'
    BY <2>1, <2>5 DEF Request0, InStep, Waiting
  <2>7. Opening' /\ ch0' \in Ends /\ ch1' \in Ends /\ (AtZero => AtZero')
        /\ serving' \in [id : Nat, stage : {"none", "header", "body"}]
    BY <2>1 DEF Live, Opening, AtZero
  <2>8. ch0'.stream_state # "OPENED" => AtZero'
    BY <1>1, <2>1, <2>7
  <2>9. next \in 0..MaxRequests /\ k \in Nat
    BY <2>3, SmdConstants
  <2> QED
    BY <2>1, <2>3, <2>6, <2>7, <2>8, <2>9, LiveNext
<1>5. CASE SmdUninit
  BY <1>5 DEF SmdUninit, SmdInv, Over
<1> QED
  BY <1>2, <1>3, <1>4, <1>5

(* A request that is under way has open ends.                              *)
LEMMA UnderWay ==
  ASSUME Live, NEW n \in Nat, NEW id \in 0..MaxRequests, InStep(n, id),
         ~(pc \in {"start", "idle"}), ~(Waiting /\ refused)
  PROVE  ch0.stream_state = "OPENED" /\ ch1.stream_state = "OPENED"
<1>1. ch0.stream_state = "OPENED"
  BY DEF Live, Request0
<1> QED
  BY <1>1 DEF Live, Opening

(* The steps of the driver inside a call.                                  *)
LEMMA DriverSteps ==
  ASSUME Live, pc \notin Over, Driver
  PROVE  SmdInv'
<1>1. PICK n \in Nat, id \in 0..MaxRequests :
        /\ len = n /\ msg_id = id /\ InStep(n, id)
        /\ ch0.stream_state # "OPENED" => AtZero /\ Request0(id)
  BY DEF Live
<1> DEFINE Kept == /\ ch0' \in Ends /\ ch1' \in Ends /\ Opening'
                   /\ serving' \in [id : Nat, stage : {"none", "header", "body"}]
                   /\ len' = n /\ msg_id' = id
<1>2. CASE SmdWritePayload
  <2>1. /\ pc = "payload" /\ pc' = "recv"
        /\ send_buf' = ToFifo(send_buf, ch0.write_index, Request(id, n))
        /\ ch0' = [ch0 EXCEPT !.write_index = Step(@, n)]
        /\ UNCHANGED <<ch1, recv_buf, current_state, msg_id, len, serving, irq>>
    BY <1>1, <1>2 DEF SmdWritePayload
  <2>2. n \in ReqLens /\ id # 0 /\ Begun(n, id) /\ ch0.stream_state = "OPENED"
    BY <1>1, <2>1, PcTells, UnderWay DEF Waiting
  <2>3. /\ Holds(send_buf, ch0, Header(n)) /\ Holds(recv_buf, ch1, <<>>)
        /\ serving.stage = "none" /\ ch0 \in Ends
    BY <2>2 DEF Begun, OnTheWay, Live
  <2>4. /\ n \in 0..fifo_size /\ Header(n) \in Seq(Word) /\ Request(id, n) \in Seq(Word)
        /\ Len(Header(n)) + Len(Request(id, n)) < fifo_size /\ Len(Request(id, n)) = n
    <3>1. id \in Nat
      BY <1>1
    <3>2. /\ n \in 0..fifo_size /\ Header(n) \in Seq(Word) /\ Request(id, n) \in Seq(Word)
          /\ Len(Header(n)) = HdrLen /\ Len(Request(id, n)) = n /\ HdrLen + n < fifo_size
      BY <2>2, <3>1, Lengths
    <3> QED
      BY <3>2
  <2>5. Holds(ToFifo(send_buf, ch0.write_index, Request(id, n)),
              [ch0 EXCEPT !.write_index = Step(@, Len(Request(id, n)))],
              Header(n) \o Request(id, n))
    BY <2>3, <2>4, PublishedBehind
  <2>6. Holds(send_buf', ch0', Packet(n, id))
    BY <2>1, <2>4, <2>5 DEF Packet
  <2>7. ch0' \in Ends /\ ch0'.stream_state = "OPENED"
    BY <2>1, <2>2, <2>3, <2>4, WriteIndexGoesOn
  <2>8. OnTheWay(id, Packet(n, id), <<>>, "none")'
    BY <2>1, <2>3, <2>6, OnTheWayNext
  <2>9. InStep(n, id)'
    BY <2>1, <2>2, <2>8 DEF InStep, Sent, Waiting
  <2>10. Kept
    BY <1>1, <2>1, <2>2, <2>7 DEF Live, Opening
  <2> QED
    BY <2>7, <2>9, <2>10, LiveNext
<1>3. CASE SmdReadEnter
  <2>1. /\ pc = "recv" /\ pc' \in {"header", "asserted"}
        /\ UNCHANGED <<ch0, ch1, send_buf, recv_buf, current_state, msg_id, len,
                       refused, serving, irq>>
    BY <1>3 DEF SmdReadEnter, portVars, rpmVars
  <2>2. CASE pc' = "asserted"
    BY <2>2 DEF SmdInv, Over
  <2>3. CASE pc' = "header"
    <3>1. Waiting /\ Waiting' /\ refused' = refused
      BY <2>1, <2>3 DEF Waiting
    <3>2. ASSUME NEW send, NEW recv, NEW stage, OnTheWay(id, send, recv, stage)
          PROVE  OnTheWay(id, send, recv, stage)'
      BY <2>1, <3>2, SameWords
    <3>3. /\ Request0(id) => Request0(id)'
          /\ Sent(n, id) => Sent(n, id)'
          /\ Served(id) => Served(id)'
      BY <2>1, <3>1, <3>2 DEF Request0, Sent, Served, Waiting
    <3>4. HalfAnswered(id) => HalfAnswered(id)'
      BY <2>1, <3>1, <3>2 DEF HalfAnswered, Heard
    <3>5. Answered(id) => Answered(id)'
      BY <2>1, <3>1, <3>2 DEF Answered, Heard
    <3>6. /\ (refused /\ Request0(id)) \/ Sent(n, id) \/ Served(id) \/ HalfAnswered(id) \/ Answered(id)
          /\ ~refused => n \in ReqLens /\ id # 0
      BY <1>1, <2>1, <3>1, PcTells
    <3>7. ~Request0(id) => n \in ReqLens /\ id # 0
      BY <1>1 DEF InStep
    <3>8. InStep(n, id)'
      BY <3>3, <3>4, <3>5, <3>6, <1>1 DEF InStep
    <3>9. Kept /\ (AtZero => AtZero')
      BY <1>1, <2>1, <2>3 DEF Live, Opening, AtZero
    <3>10. ch0'.stream_state # "OPENED" => AtZero' /\ Request0(id)'
      BY <1>1, <2>1, <3>3, <3>9
    <3> QED
      BY <3>8, <3>9, <3>10, LiveNext
  <2> QED
    BY <2>1, <2>2, <2>3
<1>4. CASE SmdReadHeader
  <2>1. /\ pc = "header" /\ pc' = "body" /\ Available(ch1) >= HdrLen
        /\ response' = FromFifo(recv_buf, ch1.read_index, HdrLen)
        /\ ch1' = [ch1 EXCEPT !.read_index = Step(@, HdrLen)]
        /\ UNCHANGED <<ch0, send_buf, recv_buf, current_state, msg_id, len, refused,
                       serving, irq>>
    BY <1>4 DEF SmdReadHeader, rpmVars
  <2>2. Waiting /\ ch0 \in Ends /\ ch1 \in Ends
    BY <2>1 DEF Waiting, Live
  <2>3. ~Holds(recv_buf, ch1, <<>>)
    BY <2>1, <2>2, NothingArrives, SmdConstants
  <2>4. OnTheWay(id, <<>>, Header(AckLen), "body")
          \/ OnTheWay(id, <<>>, Header(AckLen) \o Ack(id), "none")
    <3>1. ~Request0(id) /\ ~Sent(n, id) /\ ~Served(id)
      BY <2>3 DEF Request0, Sent, Served, OnTheWay
    <3>2. HalfAnswered(id) \/ Answered(id)
      BY <1>1, <2>2, <3>1, PcTells
    <3> QED
      BY <2>1, <3>2 DEF HalfAnswered, Answered, Heard
  <2>5. /\ n \in ReqLens /\ id # 0 /\ ~Request0(id) /\ ch0.stream_state = "OPENED"
    BY <1>1, <2>3 DEF InStep, Request0, OnTheWay
  <2>6. /\ Len(Header(AckLen)) = HdrLen /\ HdrLen \in 0..fifo_size
        /\ Header(AckLen) \in Seq(Word) /\ Ack(id) \in Seq(Word) /\ <<>> \in Seq(Word)
        /\ HdrLen + Len(Ack(id)) < fifo_size /\ HdrLen + Len(<<>>) < fifo_size
        /\ Header(AckLen) \o <<>> = Header(AckLen)
    BY <2>5, Lengths, SmdConstants
  <2>7. ASSUME NEW rest \in Seq(Word), HdrLen + Len(rest) < fifo_size,
               Holds(recv_buf, ch1, Header(AckLen) \o rest)
        PROVE  response' = Header(AckLen) /\ Holds(recv_buf', ch1', rest)
    <3>1. /\ FromFifo(recv_buf, ch1.read_index, Len(Header(AckLen))) = Header(AckLen)
          /\ Holds(recv_buf, [ch1 EXCEPT !.read_index = Step(@, Len(Header(AckLen)))], rest)
      <4>1. PICK first \in Seq(Word) : first = Header(AckLen)
        BY <2>6
      <4>2. Len(first) + Len(rest) < fifo_size /\ Holds(recv_buf, ch1, first \o rest)
        BY <2>6, <2>7, <4>1
      <4>3. /\ FromFifo(recv_buf, ch1.read_index, Len(first)) = first
            /\ Holds(recv_buf, [ch1 EXCEPT !.read_index = Step(@, Len(first))], rest)
        BY <2>2, <4>2, ReadFirst
      <4> QED
        BY <4>1, <4>3
    <3> QED
      BY <2>1, <2>6, <3>1
  <2>8. ch1' \in Ends /\ ch1'.stream_state = ch1.stream_state
    BY <2>1, <2>2, <2>6, ReadIndexGoesOn
  <2>9. InStep(n, id)'
    <3>1. CASE OnTheWay(id, <<>>, Header(AckLen), "body")
      <4>1. response' = Header(AckLen) /\ Holds(recv_buf', ch1', <<>>)
        BY <2>6, <2>7, <3>1 DEF OnTheWay
      <4>2. OnTheWay(id, <<>>, <<>>, "body")'
        BY <2>1, <3>1, <4>1, OnTheWayNext DEF OnTheWay
      <4>3. Heard'
        BY <2>1, <4>1 DEF Heard, Header
      <4> QED
        BY <2>5, <4>2, <4>3 DEF InStep, HalfAnswered
    <3>2. CASE OnTheWay(id, <<>>, Header(AckLen) \o Ack(id), "none")
      <4>1. response' = Header(AckLen) /\ Holds(recv_buf', ch1', Ack(id))
        BY <2>6, <2>7, <3>2 DEF OnTheWay
      <4>2. OnTheWay(id, <<>>, Ack(id), "none")'
        BY <2>1, <3>2, <4>1, OnTheWayNext DEF OnTheWay
      <4>3. Heard'
        BY <2>1, <4>1 DEF Heard, Header
      <4> QED
        BY <2>5, <4>2, <4>3 DEF InStep, Answered
    <3> QED
      BY <2>4, <3>1, <3>2
  <2>10. Kept /\ ch0'.stream_state = "OPENED"
    BY <1>1, <2>1, <2>5, <2>8 DEF Live, Opening
  <2> QED
    BY <2>9, <2>10, LiveNext
<1>5. CASE SmdReadBody
  <2>1. pc = "body"
    BY <1>5 DEF SmdReadBody
  <2>2. /\ HalfAnswered(id) \/ Answered(id)
        /\ n \in ReqLens /\ id # 0 /\ ch0.stream_state = "OPENED"
        /\ ch0 \in Ends /\ ch1 \in Ends
    BY <1>1, <2>1, PcTells, UnderWay DEF Waiting, Live
  <2>3. response = Header(AckLen)
    BY <2>1, <2>2 DEF HalfAnswered, Answered, Heard, Waiting
  <2>4. PktSize(response) = AckLen
    BY <2>3, Headers, SmdConstants
  <2>5. /\ pc' = "complete" /\ Available(ch1) >= AckLen
        /\ response' = FromFifo(recv_buf, ch1.read_index, AckLen)
        /\ ch1' = [ch1 EXCEPT !.read_index = Step(@, AckLen)]
        /\ UNCHANGED <<ch0, send_buf, recv_buf, current_state, msg_id, len, refused,
                       serving, irq>>
    BY <1>5, <2>4 DEF SmdReadBody, rpmVars
  <2>6. ~Holds(recv_buf, ch1, <<>>)
    BY <2>2, <2>5, NothingArrives, SmdConstants
  <2>7. OnTheWay(id, <<>>, Ack(id), "none")
    BY <2>1, <2>2, <2>6 DEF HalfAnswered, Answered, Waiting, OnTheWay
  <2>8. /\ Len(Ack(id)) = AckLen /\ AckLen \in 0..fifo_size /\ Ack(id) \in Seq(Word)
        /\ <<>> \in Seq(Word) /\ Len(Ack(id)) + Len(<<>>) < fifo_size /\ Ack(id) \o <<>> = Ack(id)
    BY <2>2, Lengths, SmdConstants
  <2>9. /\ FromFifo(recv_buf, ch1.read_index, Len(Ack(id))) = Ack(id)
        /\ Holds(recv_buf, [ch1 EXCEPT !.read_index = Step(@, Len(Ack(id)))], <<>>)
    <3>1. PICK ack \in Seq(Word), none \in Seq(Word) : ack = Ack(id) /\ none = <<>>
      BY <2>8
    <3>2. Holds(recv_buf, ch1, ack \o none) /\ Len(ack) + Len(none) < fifo_size
      BY <2>7, <2>8, <3>1 DEF OnTheWay
    <3>3. /\ FromFifo(recv_buf, ch1.read_index, Len(ack)) = ack
          /\ Holds(recv_buf, [ch1 EXCEPT !.read_index = Step(@, Len(ack))], none)
      BY <2>2, <3>2, ReadFirst
    <3> QED
      BY <3>1, <3>3
  <2>10. response' = Ack(id) /\ Holds(recv_buf', ch1', <<>>)
    BY <2>5, <2>8, <2>9
  <2>11. ch1' \in Ends /\ ch1'.stream_state = ch1.stream_state
    BY <2>2, <2>5, <2>8, ReadIndexGoesOn
  <2>12. OnTheWay(id, <<>>, <<>>, "none")'
    BY <2>5, <2>7, <2>10, OnTheWayNext DEF OnTheWay
  <2>13. Returned(id)'
    BY <2>5, <2>10, <2>12 DEF Returned, Ack
  <2>14. InStep(n, id)'
    BY <2>2, <2>13 DEF InStep
  <2>15. Kept /\ ch0'.stream_state = "OPENED"
    BY <1>1, <2>1, <2>2, <2>5, <2>11 DEF Live, Opening
  <2> QED
    BY <2>14, <2>15, LiveNext
<1>6. CASE SmdSignalReadComplete
  <2>1. /\ pc = "complete" /\ pc' = "idle"
        /\ UNCHANGED <<ch0, ch1, send_buf, recv_buf, current_state, msg_id, len, refused,
                       serving, irq>>
    BY <1>6 DEF SmdSignalReadComplete, portVars
  <2>2. Returned(id) /\ ch0.stream_state = "OPENED"
    BY <1>1, <2>1, PcTells, UnderWay DEF Waiting
  <2>3. OnTheWay(id, <<>>, <<>>, "none")'
    BY <2>1, <2>2, SameWords DEF Returned
  <2>4. InStep(n, id)'
    BY <2>1, <2>3 DEF InStep, Request0
  <2>5. Kept /\ ch0'.stream_state = "OPENED"
    BY <1>1, <2>1, <2>2 DEF Live, Opening
  <2> QED
    BY <2>4, <2>5, LiveNext
<1>7. CASE SmdUninitNotify \/ SmdUninitReturns
  BY <1>7 DEF SmdUninitNotify, SmdUninitReturns, Over
<1> QED
  BY <1>2, <1>3, <1>4, <1>5, <1>6, <1>7 DEF Driver

-----------------------------------------------------------------------------
(* The interrupt and the RPM.                                              *)
IndicesStay == /\ ch0'.read_index = ch0.read_index /\ ch0'.write_index = ch0.write_index
               /\ ch1'.read_index = ch1.read_index /\ ch1'.write_index = ch1.write_index

(* A step that moves no index and no word keeps the request where it is.   *)
LEMMA StepKept ==
  ASSUME NEW n \in Nat, NEW id \in 0..MaxRequests, IndicesStay,
         UNCHANGED <<pc, refused, response, send_buf, recv_buf, serving>>
  PROVE  /\ InStep(n, id) => InStep(n, id)'
         /\ Request0(id) => Request0(id)'
         /\ AtZero => AtZero'
<1>1. ASSUME NEW send, NEW recv, NEW stage, OnTheWay(id, send, recv, stage)
      PROVE  OnTheWay(id, send, recv, stage)'
  BY <1>1, SameWords DEF IndicesStay
<1>2. Request0(id) => Request0(id)'
  BY <1>1 DEF Request0, Waiting
<1>3. /\ Begun(n, id) => Begun(n, id)'
      /\ Sent(n, id) => Sent(n, id)'
      /\ Served(id) => Served(id)'
      /\ Returned(id) => Returned(id)'
  BY <1>1 DEF Begun, Sent, Served, Returned, Waiting
<1>4. HalfAnswered(id) => HalfAnswered(id)'
  BY <1>1 DEF HalfAnswered, Waiting, Heard
<1>5. Answered(id) => Answered(id)'
  BY <1>1 DEF Answered, Waiting, Heard
<1>6. AtZero => AtZero'
  BY DEF AtZero, IndicesStay
<1> QED
  BY <1>2, <1>3, <1>4, <1>5, <1>6 DEF InStep

(* The interrupt only follows the state of the RPM's end.                  *)
LEMMA InterruptStep ==
  ASSUME Live, pc \notin Over, SmdIrqHandler
  PROVE  SmdInv'
<1>1. PICK n \in Nat, id \in 0..MaxRequests :
        /\ len = n /\ msg_id = id /\ InStep(n, id)
        /\ ch0.stream_state # "OPENED" => AtZero /\ Request0(id)
  BY DEF Live
<1>2. /\ pc # "start" /\ irq /\ irq' = FALSE /\ (IrqWhenClosed \/ IrqWhenOpen)
      /\ UNCHANGED <<pc, msg_id, len, response, refused, serving>>
  BY DEF SmdIrqHandler, callVars
<1>3. /\ current_state = ch0.stream_state /\ current_state # "CLOSED"
      /\ ch1.stream_state \in {"OPENING", "OPENED"}
      /\ ch0.stream_state = "OPENED" => ch1.stream_state = "OPENED"
      /\ ch0.stream_state \in {"OPENING", "OPENED"}
      /\ ch0 \in Ends /\ ch1 \in Ends
  <2>1. ch1.stream_state # "CLOSED"
    BY <1>2 DEF Live, Opening
  <2>2. pc # "start" /\ current_state = ch0.stream_state /\ ch0 \in Ends /\ ch1 \in Ends
    BY <1>2 DEF Live, Opening
  <2>3. \/ /\ ch0.stream_state = "OPENING"
           /\ ch1.stream_state \in {"CLOSED", "OPENING", "OPENED"}
        \/ ch0.stream_state = "OPENED" /\ ch1.stream_state = "OPENED"
    BY <2>2 DEF Live, Opening
  <2> QED
    BY <2>1, <2>2, <2>3
<1>4. IrqWhenOpen
  BY <1>2, <1>3 DEF IrqWhenClosed
<1>5. /\ UNCHANGED <<send_buf, recv_buf>>
      /\ IF ch1.stream_state # current_state THEN SetState(ch1.stream_state)
         ELSE UNCHANGED <<ch0, ch1, current_state>>
  BY <1>3, <1>4 DEF IrqWhenOpen
<1>6. CASE ch1.stream_state = current_state
  <2>1. UNCHANGED <<ch0, ch1, current_state>>
    BY <1>5, <1>6
  <2>2. IndicesStay
    BY <2>1 DEF IndicesStay
  <2>3. InStep(n, id)' /\ (ch0'.stream_state # "OPENED" => AtZero' /\ Request0(id)')
    BY <1>1, <1>2, <1>5, <2>1, <2>2, StepKept
  <2>4. Opening' /\ ch0' \in Ends /\ ch1' \in Ends
    BY <1>2, <1>3, <2>1 DEF Opening, Live
  <2>5. serving' \in [id : Nat, stage : {"none", "header", "body"}]
        /\ len' = n /\ msg_id' = id
    BY <1>1, <1>2 DEF Live
  <2> QED
    BY <2>3, <2>4, <2>5, LiveNext
<1>7. CASE ch1.stream_state # current_state
  <2>1. ch0.stream_state = "OPENING" /\ ch1.stream_state = "OPENED" /\ SetState("OPENED")
    BY <1>3, <1>5, <1>7
  <2>2. /\ ch0' = WriteState(ch0, "OPENED") /\ ch1' = ch1 /\ current_state' = "OPENED"
    BY <2>1 DEF SetState, NextState
  <2>3. /\ IndicesStay /\ ch0' \in Ends /\ ch1' \in Ends /\ ch0'.stream_state = "OPENED"
    BY <1>3, <2>2 DEF IndicesStay, WriteState, Ends, StreamStates
  <2>kept. UNCHANGED <<pc, refused, response, send_buf, recv_buf, serving>>
    BY <1>2, <1>5
  <2>4. InStep(n, id)'
    BY <1>1, <2>kept, <2>3, StepKept
  <2>5. Opening'
    BY <1>2, <2>1, <2>2, <2>3 DEF Opening
  <2>6. serving' \in [id : Nat, stage : {"none", "header", "body"}]
        /\ len' = n /\ msg_id' = id
    BY <1>1, <1>2 DEF Live
  <2> QED
    BY <2>3, <2>4, <2>5, <2>6, LiveNext
<1> QED
  BY <1>6, <1>7

(* The RPM takes a whole request, and publishes the two parts of its       *)
(* acknowledgement behind each other.                                      *)
LEMMA RpmSteps ==
  ASSUME Live, pc \notin Over, Rpm
  PROVE  SmdInv'
<1>1. PICK n \in Nat, id \in 0..MaxRequests :
        /\ len = n /\ msg_id = id /\ InStep(n, id)
        /\ ch0.stream_state # "OPENED" => AtZero /\ Request0(id)
  BY DEF Live
<1> DEFINE Kept == /\ ch0' \in Ends /\ ch1' \in Ends /\ Opening'
                   /\ serving' \in [id : Nat, stage : {"none", "header", "body"}]
                   /\ len' = n /\ msg_id' = id
<1>2. CASE RpmChangesState
  <2>1. UNCHANGED <<pc, msg_id, len, response, refused, send_buf, recv_buf, serving, current_state>>
        /\ irq' = TRUE
    BY <1>2 DEF RpmChangesState, RpmFollows, callVars
  <2>2. /\ ch0.stream_state \in {"CLOSED", "OPENING", "OPENED"}
        /\ ch1.stream_state \in {"CLOSED", "OPENING", "OPENED"}
        /\ ch0 \in Ends /\ ch1 \in Ends
    BY DEF Live, Opening
  <2>3. \/ RpmFollows("CLOSED", {"OPENING"}, "OPENING")
        \/ RpmFollows("OPENING", {"OPENING", "OPENED"}, "OPENED")
    BY <1>2, <2>2 DEF RpmChangesState, RpmFollows
  <2>4. CASE RpmFollows("CLOSED", {"OPENING"}, "OPENING")
    <3>1. /\ ch1.stream_state = "CLOSED" /\ ch0.stream_state = "OPENING"
          /\ ch1' = [WriteState(ch1, "OPENING") EXCEPT !.write_index = 0]
          /\ ch0' = [ch0 EXCEPT !.read_index = 0]
      BY <2>4 DEF RpmFollows
    <3>2. AtZero
      BY <1>1, <3>1
    <3>3. /\ IndicesStay /\ ch0' \in Ends /\ ch1' \in Ends
          /\ ch0'.stream_state = "OPENING" /\ ch1'.stream_state = "OPENING"
      BY <2>2, <3>1, <3>2, SmdConstants
         DEF IndicesStay, WriteState, Ends, StreamStates, AtZero, Slots
    <3>4. InStep(n, id)' /\ AtZero' /\ Request0(id)'
      BY <1>1, <2>1, <3>1, <3>3, StepKept
    <3>5. Kept
      BY <1>1, <2>1, <3>1, <3>3 DEF Opening, Live
    <3> QED
      BY <3>4, <3>5, LiveNext
  <2>5. CASE RpmFollows("OPENING", {"OPENING", "OPENED"}, "OPENED")
    <3>1. /\ ch1.stream_state = "OPENING" /\ ch0' = ch0
          /\ ch1' = WriteState(ch1, "OPENED")
      BY <2>5 DEF RpmFollows
    <3>2. /\ IndicesStay /\ ch0' \in Ends /\ ch1' \in Ends /\ ch1'.stream_state = "OPENED"
      BY <2>2, <3>1 DEF IndicesStay, WriteState, Ends, StreamStates
    <3>3. ch0.stream_state = "OPENING" /\ pc # "start"
      BY <3>1 DEF Live, Opening
    <3>4. InStep(n, id)' /\ AtZero' /\ Request0(id)'
      BY <1>1, <2>1, <3>2, <3>3, StepKept
    <3>5. Kept
      BY <1>1, <2>1, <3>1, <3>2, <3>3 DEF Opening, Live
    <3> QED
      BY <3>4, <3>5, LiveNext
  <2> QED
    BY <2>3, <2>4, <2>5
<1>3. CASE RpmTakes
  <2>1. /\ serving.stage = "none" /\ ch1.stream_state = "OPENED"
        /\ Arrived >= HdrLen /\ Arrived >= HdrLen + PktSize(NextPkt)
        /\ UNCHANGED <<ch1, send_buf, recv_buf, current_state, pc, msg_id, len,
                       response, refused, irq>>
    BY <1>3 DEF RpmTakes, RpmCanTake, callVars
  <2>2. ch0 \in Ends /\ ch1 \in Ends
    BY DEF Live
  <2>3. ~Holds(send_buf, ch0, <<>>)
    BY <2>1, <2>2, NothingArrives, SmdConstants DEF Arrived
  <2>4. Begun(n, id) \/ Sent(n, id)
    BY <1>1, <2>3 DEF InStep, Request0, Served, HalfAnswered, Answered, Returned, OnTheWay
  <2>5. n \in ReqLens /\ id # 0 /\ ~Request0(id) /\ ch0.stream_state = "OPENED"
    BY <1>1, <2>3 DEF InStep, Request0, OnTheWay
  <2>6. id \in Nat /\ id \in 1..MaxRequests
    BY <1>1, <2>5
  <2>7. /\ n \in Nat \ {0} /\ HdrLen + n < fifo_size /\ HdrLen \in 0..fifo_size
        /\ Len(Header(n)) = HdrLen /\ Len(Request(id, n)) = n
        /\ Header(n) \in Seq(Word) /\ Request(id, n) \in Seq(Word)
    BY <2>5, <2>6, Lengths
  <2>8. PICK head \in Seq(Word), body \in Seq(Word), none \in Seq(Word) :
          head = Header(n) /\ body = Request(id, n) /\ none = <<>>
    <3>1. <<>> \in Seq(Word)
      OBVIOUS
    <3> QED
      BY <2>7, <3>1
  <2>9. /\ Len(head) = HdrLen /\ Len(body) = n /\ Len(none) = 0 /\ head \o none = head
        /\ Len(head) + Len(none) < fifo_size /\ Len(head) + Len(body) < fifo_size
    BY <2>7, <2>8, SmdConstants
  <2>10. ~Begun(n, id)
    <3> SUFFICES ASSUME Begun(n, id) PROVE FALSE
      OBVIOUS
    <3>1. Holds(send_buf, ch0, head \o none) /\ Holds(send_buf, ch0, head)
      BY <2>8, <2>9 DEF Begun, OnTheWay
    <3>2. Arrived = HdrLen
      <4>1. Len(head) < fifo_size
        BY <2>7, <2>9, SmdConstants
      <4> QED
        BY <2>2, <2>9, <3>1, <4>1, DistanceTells DEF Arrived
    <3>3. NextPkt = head
      <4>0. /\ Len(head) + Len(none) < fifo_size /\ ch0 \in Ends
            /\ Holds(send_buf, ch0, head \o none)
            /\ head \in Seq(Word) /\ none \in Seq(Word)
        BY <2>2, <2>8, <2>9, <3>1
      <4>1. /\ FromFifo(send_buf, ch0.read_index, Len(head)) = head
            /\ Holds(send_buf, [ch0 EXCEPT !.read_index = Step(@, Len(head))], none)
        BY SMTT(40), <4>0, ReadFirst
      <4> QED
        BY <2>9, <4>1 DEF NextPkt
    <3>4. PktSize(NextPkt) = n
      BY <2>7, <2>8, <3>3, Headers
    <3> QED
      BY <2>1, <2>7, <3>2, <3>4, SmdConstants
  <2>11. Waiting /\ OnTheWay(id, Packet(n, id), <<>>, "none")
    BY <2>4, <2>10 DEF Sent
  <2>12. Holds(send_buf, ch0, head \o body)
    BY <2>8, <2>11 DEF OnTheWay, Packet
  <2>13. /\ FromFifo(send_buf, ch0.read_index, HdrLen) = head
         /\ FromFifo(send_buf, Step(ch0.read_index, HdrLen), n) = body
    <3>1. /\ FromFifo(send_buf, ch0.read_index, Len(head)) = head
          /\ FromFifo(send_buf, Step(ch0.read_index, Len(head)), Len(body)) = body
      <4>1. /\ Len(head) + Len(body) < fifo_size /\ ch0 \in Ends
            /\ Holds(send_buf, ch0, head \o body)
            /\ head \in Seq(Word) /\ body \in Seq(Word)
        BY <2>2, <2>8, <2>9, <2>12
      <4>2. /\ FromFifo(send_buf, ch0.read_index, Len(head)) = head
            /\ Holds(send_buf, [ch0 EXCEPT !.read_index = Step(@, Len(head))], body)
        BY SMTT(40), <4>1, ReadFirst
      <4>3. [ch0 EXCEPT !.read_index = Step(@, Len(head))].read_index
              = Step(ch0.read_index, Len(head))
        BY <4>1 DEF Ends
      <4> QED
        BY <4>2, <4>3 DEF Holds
    <3> QED
      BY <2>9, <3>1
  <2>14. PktSize(NextPkt) = n
    BY <2>7, <2>8, <2>13, Headers DEF NextPkt
  <2>15. /\ serving' = [id |-> IF \E m \in 1..MaxRequests : body = Request(m, n)
                              THEN body[1][2] ELSE 0, stage |-> "header"]
         /\ ch0' = [ch0 EXCEPT !.read_index = Step(@, HdrLen + n)]
    BY <1>3, <2>13, <2>14 DEF RpmTakes
  <2>16. body[1][2] = id
    BY <2>6, <2>7, <2>8, Requests
  <2>17. serving' = [id |-> id, stage |-> "header"]
    BY <2>6, <2>8, <2>15, <2>16
  <2>18. Holds(send_buf', ch0', <<>>)
    <3>0. head \o body \in Seq(Word)
      BY <2>8
    <3>1. PICK all \in Seq(Word) : all = head \o body
      BY <3>0
    <3>2. Len(all) = HdrLen + n /\ all \o none = all /\ Len(all) + Len(none) < fifo_size
      <4>1. Len(all) = Len(head) + Len(body)
        BY <2>8, <3>1
      <4>2. all \o none = all
        BY <2>8, <3>1
      <4> QED
        BY <2>7, <2>9, <4>1, <4>2, SmdConstants
    <3>3. Holds(send_buf, [ch0 EXCEPT !.read_index = Step(@, Len(all))], none)
      BY <2>2, <2>12, <3>1, <3>2, ReadFirst
    <3> QED
      BY <2>1, <2>8, <2>15, <3>2, <3>3
  <2>19. ch0' \in Ends /\ ch0'.stream_state = "OPENED"
    <3>1. HdrLen + n \in 0..fifo_size
      BY <2>7, SmdConstants
    <3>2. PICK t \in 0..fifo_size : t = HdrLen + n
      BY <3>1
    <3>3. ch0' = [ch0 EXCEPT !.read_index = Step(@, t)]
      BY <2>15, <3>2
    <3> QED
      BY <2>2, <2>5, <3>3, ReadIndexGoesOn
  <2>20. OnTheWay(id, <<>>, <<>>, "header")'
    <3>1. Holds(recv_buf', ch1', <<>>)
      BY <2>1, <2>11 DEF OnTheWay
    <3>2. serving'.stage = "header" /\ serving'.id = id
      BY <2>17
    <3> QED
      BY <2>18, <3>1, <3>2, OnTheWayNext
  <2>21. InStep(n, id)'
    BY <2>1, <2>5, <2>11, <2>20 DEF InStep, Served, Waiting
  <2>22. Kept
    BY <1>1, <2>1, <2>2, <2>5, <2>6, <2>17, <2>19 DEF Live, Opening
  <2> QED
    BY <2>19, <2>21, <2>22, LiveNext
<1>4. ASSUME NEW stage, NEW words \in Seq(Word), NEW next \in {"none", "header", "body"},
             RpmPublishes(stage, words, next), irq' \in {irq, TRUE},
             ch1.stream_state # "CLOSED",
             Len(words) \in 0..fifo_size
      PROVE  /\ UNCHANGED <<ch0, send_buf, current_state, pc, msg_id, len, response, refused>>
             /\ serving.stage = stage /\ serving'.stage = next /\ serving'.id = serving.id
             /\ serving' \in [id : Nat, stage : {"none", "header", "body"}]
             /\ Kept /\ recv_buf' = ToFifo(recv_buf, ch1.write_index, words)
             /\ ch1' = [ch1 EXCEPT !.write_index = Step(@, Len(words))]
  <2>1. /\ UNCHANGED <<ch0, send_buf, current_state, pc, msg_id, len, response, refused>>
        /\ serving.stage = stage /\ recv_buf' = ToFifo(recv_buf, ch1.write_index, words)
        /\ ch1' = [ch1 EXCEPT !.write_index = Step(@, Len(words))]
        /\ serving' = [serving EXCEPT !.stage = next]
    BY <1>4 DEF RpmPublishes, callVars
  <2>2. /\ serving' \in [id : Nat, stage : {"none", "header", "body"}]
        /\ serving'.stage = next /\ serving'.id = serving.id
    BY <2>1 DEF Live
  <2>3. ch1 \in Ends /\ ch0 \in Ends
    BY DEF Live
  <2>4. ch1' \in Ends /\ ch1'.stream_state = ch1.stream_state
    BY <1>4, <2>1, <2>3, WriteIndexGoesOn
  <2>5. Opening'
    BY <1>4, <2>1, <2>4 DEF Live, Opening
  <2> QED
    BY <1>1, <2>1, <2>2, <2>3, <2>4, <2>5
<1>5. CASE RpmPublishes("header", Header(AckLen), "body") /\ UNCHANGED irq
  <2>1. serving.stage = "header"
    BY <1>5 DEF RpmPublishes
  <2>2. Served(id) /\ n \in ReqLens /\ id # 0 /\ ~Request0(id)
    BY <1>1, <2>1 DEF InStep, Request0, Begun, Sent, HalfAnswered, Answered, Returned, OnTheWay
  <2>3. ch0.stream_state = "OPENED" /\ ch1.stream_state = "OPENED"
    BY <1>1, <2>2 DEF Live, Opening
  <2>4. PICK words \in Seq(Word), none \in Seq(Word) : words = Header(AckLen) /\ none = <<>>
    <3>1. <<>> \in Seq(Word)
      OBVIOUS
    <3>2. Header(AckLen) \in Seq(Word)
      BY Headers, SmdConstants
    <3> QED
      BY <3>1, <3>2
  <2>5. /\ Len(words) = HdrLen /\ Len(words) \in 0..fifo_size
        /\ Len(none) + Len(words) < fifo_size /\ none \o words = words
    BY <2>4, Headers, SmdConstants
  <2>6. /\ UNCHANGED <<ch0, send_buf, pc, response, refused>>
        /\ serving'.stage = "body" /\ serving'.id = serving.id /\ Kept
        /\ recv_buf' = ToFifo(recv_buf, ch1.write_index, words)
        /\ ch1' = [ch1 EXCEPT !.write_index = Step(@, Len(words))]
    BY <1>4, <1>5, <2>3, <2>4, <2>5
  <2>7. Holds(recv_buf, ch1, none) /\ ch1 \in Ends /\ serving.id = id /\ Holds(send_buf, ch0, <<>>)
    BY <2>2, <2>4 DEF Served, OnTheWay, Live
  <2>8. Holds(ToFifo(recv_buf, ch1.write_index, words),
              [ch1 EXCEPT !.write_index = Step(@, Len(words))], none \o words)
    BY <2>5, <2>7, PublishedBehind
  <2>9. Holds(recv_buf', ch1', Header(AckLen)) /\ Holds(send_buf', ch0', <<>>)
    BY <2>4, <2>5, <2>6, <2>7, <2>8
  <2>10. OnTheWay(id, <<>>, Header(AckLen), "body")'
    BY <2>6, <2>7, <2>9, OnTheWayNext
  <2>11. InStep(n, id)'
    BY <2>2, <2>6, <2>10 DEF InStep, HalfAnswered, Served, Waiting
  <2> QED
    BY <2>3, <2>6, <2>11, LiveNext
<1>6. CASE RpmPublishes("body", Ack(serving.id), "none") /\ irq' = TRUE
  <2>1. serving.stage = "body"
    BY <1>6 DEF RpmPublishes
  <2>2. HalfAnswered(id) /\ n \in ReqLens /\ id # 0 /\ ~Request0(id)
    BY <1>1, <2>1 DEF InStep, Request0, Begun, Sent, Served, Answered, Returned, OnTheWay
  <2>3. ch0.stream_state = "OPENED" /\ ch1.stream_state = "OPENED"
    BY <1>1, <2>2 DEF Live, Opening
  <2>4. serving.id = id
    BY <2>2 DEF HalfAnswered, OnTheWay
  <2>5. PICK words \in Seq(Word), head \in Seq(Word), none \in Seq(Word) :
          words = Ack(id) /\ head = Header(AckLen) /\ none = <<>>
    <3>1. <<>> \in Seq(Word)
      OBVIOUS
    <3>2. Header(AckLen) \in Seq(Word) /\ Ack(id) \in Seq(Word)
      BY <1>1, Acks, Headers, SmdConstants
    <3> QED
      BY <3>1, <3>2
  <2>6. /\ Len(words) = AckLen /\ Len(head) = HdrLen /\ Len(words) \in 0..fifo_size
        /\ Len(head) + Len(words) < fifo_size /\ none \o words = words
        /\ Len(none) + Len(words) < fifo_size
    BY <1>1, <2>5, Acks, Headers, SmdConstants
  <2>7. /\ UNCHANGED <<ch0, send_buf, pc, response, refused>>
        /\ serving'.stage = "none" /\ serving'.id = serving.id /\ Kept
        /\ recv_buf' = ToFifo(recv_buf, ch1.write_index, words)
        /\ ch1' = [ch1 EXCEPT !.write_index = Step(@, Len(words))]
    BY <1>4, <1>6, <2>3, <2>4, <2>5, <2>6
  <2>8. ASSUME NEW old \in Seq(Word), Len(old) + Len(words) < fifo_size,
               OnTheWay(id, <<>>, old, "body")
        PROVE  OnTheWay(id, <<>>, old \o words, "none")'
    <3>1. Holds(recv_buf, ch1, old) /\ ch1 \in Ends /\ Holds(send_buf, ch0, <<>>)
      BY <2>8 DEF OnTheWay, Live
    <3>2. Holds(ToFifo(recv_buf, ch1.write_index, words),
                [ch1 EXCEPT !.write_index = Step(@, Len(words))], old \o words)
      BY <2>8, <3>1, PublishedBehind
    <3>3. Holds(recv_buf', ch1', old \o words) /\ Holds(send_buf', ch0', <<>>)
      BY <2>7, <3>1, <3>2
    <3> QED
      BY <2>7, <3>3, OnTheWayNext
  <2>9. Answered(id)'
    <3>1. CASE Waiting /\ OnTheWay(id, <<>>, head, "body")
      <4>1. OnTheWay(id, <<>>, head \o words, "none")'
        BY <2>6, <2>8, <3>1
      <4>2. head \o words = Header(AckLen) \o Ack(id)
        BY <2>5
      <4>3. Waiting'
        BY <2>7, <3>1 DEF Waiting
      <4> QED
        BY <4>1, <4>2, <4>3 DEF Answered, Header, Ack
    <3>2. CASE Heard /\ OnTheWay(id, <<>>, none, "body")
      <4>1. OnTheWay(id, <<>>, none \o words, "none")'
        BY <2>6, <2>8, <3>2
      <4>2. none \o words = Ack(id)
        BY <2>5, <2>6
      <4>3. Heard'
        BY <2>7, <3>2 DEF Heard, Header
      <4> QED
        BY <4>1, <4>2, <4>3 DEF Answered, Ack
    <3> QED
      BY <2>2, <2>5, <3>1, <3>2 DEF HalfAnswered
  <2>10. InStep(n, id)'
    BY <2>2, <2>9 DEF InStep
  <2> QED
    BY <2>3, <2>7, <2>10, LiveNext
<1>7. CASE RpmSleeps
  <2>1. UNCHANGED <<ch0, ch1, send_buf, recv_buf, current_state, pc, msg_id, len,
                    response, refused, serving, irq>>
    BY <1>7 DEF RpmSleeps, portVars, callVars
  <2>2. IndicesStay
    BY <2>1 DEF IndicesStay
  <2>3. InStep(n, id)' /\ (ch0'.stream_state # "OPENED" => AtZero' /\ Request0(id)')
    BY <1>1, <2>1, <2>2, StepKept
  <2>4. Kept
    BY <1>1, <2>1 DEF Live, Opening
  <2> QED
    BY <2>3, <2>4, LiveNext
<1> QED
  BY <1>2, <1>3, <1>5, <1>6, <1>7 DEF Rpm, RpmAcknowledges

(* ResponseAnswersRequest: whatever the size of the buffers, the lengths   *)
(* of the requests and the places where the indices wrap, what smd_read    *)
(* returns is the acknowledgement of the request just sent.                *)
THEOREM ResponsesAnswerTheirRequests == SmdSpec => []ResponseAnswersRequest
<1>1. SmdInv /\ [SmdNext]_smdVars => SmdInv'
  <2> SUFFICES ASSUME SmdInv, [SmdNext]_smdVars PROVE SmdInv'
    OBVIOUS
  <2>1. CASE pc \in Over
    BY <2>1, OverForGood DEF SmdInv
  <2>2. CASE pc \notin Over /\ UNCHANGED smdVars
    <3>1. Live
      BY <2>2 DEF SmdInv
    <3>2. PICK n \in Nat, id \in 0..MaxRequests :
            /\ len = n /\ msg_id = id /\ InStep(n, id)
            /\ ch0.stream_state # "OPENED" => AtZero /\ Request0(id)
      BY <3>1 DEF Live
    <3>3. UNCHANGED <<ch0, ch1, send_buf, recv_buf, current_state, pc, msg_id, len,
                      response, refused, serving, irq>>
      BY <2>2 DEF smdVars, portVars, callVars, rpmVars
    <3>4. IndicesStay
      BY <3>3 DEF IndicesStay
    <3>5. InStep(n, id)' /\ (ch0'.stream_state # "OPENED" => AtZero' /\ Request0(id)')
      BY <3>2, <3>3, <3>4, StepKept
    <3>6. /\ ch0' \in Ends /\ ch1' \in Ends /\ Opening' /\ len' = n /\ msg_id' = id
          /\ serving' \in [id : Nat, stage : {"none", "header", "body"}]
      BY <3>1, <3>2, <3>3 DEF Live, Opening
    <3> QED
      BY <3>5, <3>6, LiveNext
  <2>3. CASE pc \notin Over /\ SmdNext
    <3>1. Live
      BY <2>3 DEF SmdInv
    <3>2. CASE Caller
      BY <2>3, <3>1, <3>2, CallerSteps DEF Caller
    <3> QED
      BY <2>3, <3>1, <3>2, DriverSteps, InterruptStep, RpmSteps DEF SmdNext
  <2> QED
    BY <2>1, <2>2, <2>3
<1> QED
  BY SmdInvInit, <1>1, SmdInvIsEnough, PTL DEF SmdSpec

-----------------------------------------------------------------------------
(* Calls into the secure world: who wrote a value, and the steps of a call.*)
Writers == {"old", "caller", "secure"}
ScmSteps == [do : {"fill", "clean", "drop", "smc", "await", "use"},
             on : SUBSET Buffers, to : SUBSET Buffers]
(* The operations made of flushed calls.                                   *)
Names == {"restore_secure_cfg", "xpu_err_fatal_init", "svc_version", "protect_keystore",
          "switch_ce_chn", "check_boot_fuses", "io_call", "halt_pmic_arbiter", "dload_mode",
          "halt_pmic_arbiter1", "dload_io_write", "wdog_debug_disable", "set_tamper_fuse",
          "get_tamper_fuse", "save_kernel_hash", "elexec_call", "random", "get_secure_state"}
ScmTypeOK ==
  /\ scm \in [asked : Names, op : Names, v8 : BOOLEAN, todo : Seq(ScmSteps),
              ret : {0, 1}, last : {"call", "after", "end"}, secured : BOOLEAN]
  /\ mem \in [Buffers -> Writers] /\ latest \in [Buffers -> Writers]
  /\ cache \in [Buffers -> [state : {"none", "clean", "dirty"}, value : Writers]]

(* What was written last is what the caller sees, and keeps seeing         *)
(* whatever the cache does; or what main memory holds and keeps.           *)
Fresh(b)    == Seen(b) = latest[b] /\ (cache[b].state # "dirty" => mem[b] = latest[b])
InMemory(b) == mem[b] = latest[b] /\ cache[b].state # "dirty"
Known(F, M) == (\A b \in F : Fresh(b)) /\ (\A b \in M : InMemory(b))

(* A step is safe when F is known fresh and M known in memory, and leaves  *)
(* F2 and M2 so.                                                           *)
StepKeeps(st, F, M, F2, M2) ==
  /\ st.do = "fill"  => F2 \subseteq F \cup st.on /\ M2 \subseteq M \ st.on
  /\ st.do = "clean" => F2 \subseteq F \cup (M \cap st.on) /\ M2 \subseteq M \cup (F \cap st.on)
  /\ st.do = "drop"  => F2 \subseteq (F \ st.on) \cup (M \cap st.on) /\ M2 \subseteq M
  /\ st.do = "smc"   => st.on \cup st.to \subseteq M /\ F2 \subseteq F \ st.to /\ M2 \subseteq M
  /\ st.do = "await" => /\ {"rsp", "flag"} \subseteq M \ F
                        /\ F2 \subseteq F /\ M2 \subseteq M
  /\ st.do = "use"   => st.on \subseteq F /\ F2 \subseteq F /\ M2 \subseteq M

(* A proof outline of a sequence of steps: what is known between them.     *)
Outline(t, f, m) == \A i \in 1..Len(t) : StepKeeps(t[i], f[i], m[i], f[i + 1], m[i + 1])
Knowledge(t) == [1..(Len(t) + 1) -> SUBSET Buffers]
Follows(t, F, M, F2, M2) ==
  \E f, m \in Knowledge(t) : /\ f[1] = F /\ m[1] = M
                             /\ f[Len(t) + 1] = F2 /\ m[Len(t) + 1] = M2
                             /\ Outline(t, f, m)

(* Outlines of no step, of one, of two sequences one after the other, and  *)
(* of what is left after the first step.                                   *)
LEMMA NothingFollows ==
  ASSUME NEW F \in SUBSET Buffers, NEW M \in SUBSET Buffers
  PROVE  Follows(<<>>, F, M, F, M)
<1> DEFINE f == [i \in 1..1 |-> F]
           m == [i \in 1..1 |-> M]
<1>1. Len(<<>>) = 0 /\ f \in [1..1 -> SUBSET Buffers] /\ m \in [1..1 -> SUBSET Buffers]
  OBVIOUS
<1>2. f \in Knowledge(<<>>) /\ m \in Knowledge(<<>>) /\ f[Len(<<>>) + 1] = F /\ m[Len(<<>>) + 1] = M
      /\ f[1] = F /\ m[1] = M
  BY <1>1 DEF Knowledge
<1>3. Outline(<<>>, f, m)
  BY <1>1 DEF Outline
<1> HIDE DEF f, m
<1> QED
  BY <1>2, <1>3 DEF Follows

(* One step.                                                               *)
LEMMA StepFollows ==
  ASSUME NEW st, NEW F \in SUBSET Buffers, NEW M \in SUBSET Buffers,
         NEW F2 \in SUBSET Buffers, NEW M2 \in SUBSET Buffers,
         StepKeeps(st, F, M, F2, M2)
  PROVE  Follows(<<st>>, F, M, F2, M2)
<1> DEFINE f == [i \in 1..2 |-> IF i = 1 THEN F ELSE F2]
           m == [i \in 1..2 |-> IF i = 1 THEN M ELSE M2]
<1>1. Len(<<st>>) = 1 /\ <<st>>[1] = st
  OBVIOUS
<1>2. f \in [1..2 -> SUBSET Buffers] /\ m \in [1..2 -> SUBSET Buffers]
      /\ f[1] = F /\ f[2] = F2 /\ m[1] = M /\ m[2] = M2
  OBVIOUS
<1> HIDE DEF f, m
<1>3. f \in Knowledge(<<st>>) /\ m \in Knowledge(<<st>>)
      /\ f[Len(<<st>>) + 1] = F2 /\ m[Len(<<st>>) + 1] = M2
  BY <1>1, <1>2 DEF Knowledge
<1>4. Outline(<<st>>, f, m)
  BY <1>1, <1>2 DEF Outline
<1> QED
  BY <1>2, <1>3, <1>4 DEF Follows

(* One sequence after another.                                             *)
LEMMA SequenceFollows ==
  ASSUME NEW s \in Seq(ScmSteps), NEW t \in Seq(ScmSteps),
         NEW F, NEW M, NEW F1, NEW M1, NEW F2, NEW M2,
         Follows(s, F, M, F1, M1), Follows(t, F1, M1, F2, M2)
  PROVE  Follows(s \o t, F, M, F2, M2)
<1>1. PICK f, m \in Knowledge(s) : /\ f[1] = F /\ m[1] = M
                                   /\ f[Len(s) + 1] = F1 /\ m[Len(s) + 1] = M1
                                   /\ Outline(s, f, m)
  BY DEF Follows
<1>2. PICK g, n \in Knowledge(t) : /\ g[1] = F1 /\ n[1] = M1
                                   /\ g[Len(t) + 1] = F2 /\ n[Len(t) + 1] = M2
                                   /\ Outline(t, g, n)
  BY DEF Follows
<1>3. PICK a, b \in Nat : a = Len(s) /\ b = Len(t)
  OBVIOUS
<1>4. /\ Len(s \o t) = a + b
      /\ \A i \in 1..a : (s \o t)[i] = s[i]
      /\ \A i \in (a + 1)..(a + b) : (s \o t)[i] = t[i - a]
  BY <1>3
<1> DEFINE h == [i \in 1..(a + b + 1) |-> IF i <= a THEN f[i] ELSE g[i - a]]
           k == [i \in 1..(a + b + 1) |-> IF i <= a THEN m[i] ELSE n[i - a]]
<1>5. f \in [1..(a + 1) -> SUBSET Buffers] /\ m \in [1..(a + 1) -> SUBSET Buffers]
      /\ g \in [1..(b + 1) -> SUBSET Buffers] /\ n \in [1..(b + 1) -> SUBSET Buffers]
  BY <1>1, <1>2, <1>3 DEF Knowledge
<1>6. h \in [1..(a + b + 1) -> SUBSET Buffers] /\ k \in [1..(a + b + 1) -> SUBSET Buffers]
  BY <1>5
<1>7. /\ \A i \in 1..(a + 1) : h[i] = f[i] /\ k[i] = m[i]
      /\ \A i \in (a + 1)..(a + b + 1) : h[i] = g[i - a] /\ k[i] = n[i - a]
  BY SMTT(40), <1>1, <1>2, <1>3
<1> HIDE DEF h, k
<1>8. Outline(s \o t, h, k)
  <2> SUFFICES ASSUME NEW i \in 1..(a + b)
               PROVE  StepKeeps((s \o t)[i], h[i], k[i], h[i + 1], k[i + 1])
    BY <1>4 DEF Outline
  <2>1. CASE i <= a
    <3>1. i \in 1..a /\ i \in 1..(a + 1) /\ i + 1 \in 1..(a + 1)
      BY <2>1
    <3> QED
      BY <1>1, <1>3, <1>4, <1>7, <3>1 DEF Outline
  <2>2. CASE i > a
    <3>1. PICK j \in 1..b : i = a + j
      BY <2>2
    <3>2. /\ i \in (a + 1)..(a + b) /\ i \in (a + 1)..(a + b + 1)
          /\ i + 1 \in (a + 1)..(a + b + 1) /\ i - a = j /\ i + 1 - a = j + 1
      BY <3>1
    <3>3. StepKeeps(t[j], g[j], n[j], g[j + 1], n[j + 1])
      BY <1>2, <1>3 DEF Outline
    <3>4. (s \o t)[i] = t[j] /\ h[i] = g[j] /\ k[i] = n[j] /\ h[i + 1] = g[j + 1] /\ k[i + 1] = n[j + 1]
      BY <1>4, <1>7, <3>2
    <3> QED
      BY <3>3, <3>4
  <2> QED
    BY <1>3, <2>1, <2>2
<1>9. /\ h[1] = F /\ k[1] = M /\ h[a + b + 1] = F2 /\ k[a + b + 1] = M2
  <2>1. 1 \in 1..(a + 1) /\ a + b + 1 \in (a + 1)..(a + b + 1) /\ a + b + 1 - a = b + 1
    OBVIOUS
  <2>2. h[1] = f[1] /\ k[1] = m[1] /\ h[a + b + 1] = g[b + 1] /\ k[a + b + 1] = n[b + 1]
    BY <1>7, <2>1
  <2>3. f[1] = F /\ m[1] = M
    BY <1>1
  <2>4. g[b + 1] = F2 /\ n[b + 1] = M2
    BY <1>2, <1>3
  <2> QED
    BY <2>2, <2>3, <2>4
<1>10. h \in Knowledge(s \o t) /\ k \in Knowledge(s \o t)
  BY <1>4, <1>6 DEF Knowledge
<1> QED
  BY <1>4, <1>8, <1>9, <1>10 DEF Follows

(* After the first step.                                                   *)
LEMMA TailFollows ==
  ASSUME NEW t \in Seq(ScmSteps), t # <<>>, NEW F, NEW M, NEW F2, NEW M2,
         Follows(t, F, M, F2, M2)
  PROVE  \E F1, M1 \in SUBSET Buffers :
           StepKeeps(Head(t), F, M, F1, M1) /\ Follows(Tail(t), F1, M1, F2, M2)
<1>1. PICK f, m \in Knowledge(t) : /\ f[1] = F /\ m[1] = M
                                   /\ f[Len(t) + 1] = F2 /\ m[Len(t) + 1] = M2
                                   /\ Outline(t, f, m)
  BY DEF Follows
<1>2. PICK a \in Nat : Len(t) = a + 1
  <2>1. Len(t) \in Nat /\ Len(t) # 0
    BY SMT
  <2> QED
    BY <2>1
<1>3. /\ Len(Tail(t)) = a /\ \A i \in 1..a : Tail(t)[i] = t[i + 1]
      /\ Head(t) = t[1] /\ Tail(t) \in Seq(ScmSteps)
  BY <1>2
<1> DEFINE g == [i \in 1..(a + 1) |-> f[i + 1]]
           n == [i \in 1..(a + 1) |-> m[i + 1]]
<1>4. f \in [1..(a + 2) -> SUBSET Buffers] /\ m \in [1..(a + 2) -> SUBSET Buffers]
  BY <1>1, <1>2 DEF Knowledge
<1>5. g \in [1..(a + 1) -> SUBSET Buffers] /\ n \in [1..(a + 1) -> SUBSET Buffers]
      /\ \A i \in 1..(a + 1) : g[i] = f[i + 1] /\ n[i] = m[i + 1]
  BY <1>4
<1> HIDE DEF g, n
<1>6. Outline(Tail(t), g, n)
  <2> SUFFICES ASSUME NEW i \in 1..a
               PROVE  StepKeeps(Tail(t)[i], g[i], n[i], g[i + 1], n[i + 1])
    BY <1>3 DEF Outline
  <2>1. i + 1 \in 1..(a + 1) /\ i \in 1..(a + 1)
    OBVIOUS
  <2> QED
    BY SMTT(40), <1>1, <1>2, <1>3, <1>5, <2>1 DEF Outline
<1>7. StepKeeps(Head(t), F, M, f[2], m[2])
  BY <1>1, <1>2, <1>3 DEF Outline
<1>8. f[2] \in SUBSET Buffers /\ m[2] \in SUBSET Buffers
  BY <1>4
<1>9. g[1] = f[2] /\ n[1] = m[2] /\ g[a + 1] = F2 /\ n[a + 1] = M2
  BY <1>1, <1>2, <1>5
<1>10. Follows(Tail(t), f[2], m[2], F2, M2)
  BY <1>3, <1>5, <1>6, <1>9 DEF Follows, Knowledge
<1> QED
  BY <1>7, <1>8, <1>10

-----------------------------------------------------------------------------
(* The steps the operations are written with.                              *)
LEMMA StepsAreSteps ==
  ASSUME NEW bufs \in SUBSET Buffers, NEW to \in SUBSET Buffers
  PROVE  /\ <<Write(bufs)>> \in Seq(ScmSteps) /\ <<Clean(bufs)>> \in Seq(ScmSteps)
         /\ <<Drop(bufs)>> \in Seq(ScmSteps) /\ <<Use(bufs)>> \in Seq(ScmSteps)
         /\ <<Smc(bufs, to)>> \in Seq(ScmSteps) /\ <<AwaitFlag>> \in Seq(ScmSteps)
BY DEF Write, Clean, Drop, Use, Smc, AwaitFlag, Action, ScmSteps, Buffers

(* What the steps of the operations leave known.                           *)
LEMMA StepRules ==
  ASSUME NEW bufs \in SUBSET Buffers, NEW to \in SUBSET Buffers,
         NEW F \in SUBSET Buffers, NEW M \in SUBSET Buffers
  PROVE  /\ Follows(<<Write(bufs)>>, F, M, F \cup bufs, M \ bufs)
         /\ Follows(<<Clean(bufs)>>, F, M, F \cup (M \cap bufs), M \cup (F \cap bufs))
         /\ Follows(<<Drop(bufs)>>, F, M, (F \ bufs) \cup (M \cap bufs), M)
         /\ bufs \cup to \subseteq M => Follows(<<Smc(bufs, to)>>, F, M, F \ to, M)
         /\ {"rsp", "flag"} \subseteq M \ F => Follows(<<AwaitFlag>>, F, M, F, M)
         /\ bufs \subseteq F => Follows(<<Use(bufs)>>, F, M, F, M)
<1>1. StepKeeps(Write(bufs), F, M, F \cup bufs, M \ bufs)
  BY DEF StepKeeps, Write, Action
<1>2. StepKeeps(Clean(bufs), F, M, F \cup (M \cap bufs), M \cup (F \cap bufs))
  BY DEF StepKeeps, Clean, Action
<1>3. StepKeeps(Drop(bufs), F, M, (F \ bufs) \cup (M \cap bufs), M)
  BY DEF StepKeeps, Drop, Action
<1>4. bufs \cup to \subseteq M => StepKeeps(Smc(bufs, to), F, M, F \ to, M)
  BY DEF StepKeeps, Smc, Action
<1>5. {"rsp", "flag"} \subseteq M \ F => StepKeeps(AwaitFlag, F, M, F, M)
  BY DEF StepKeeps, AwaitFlag, Action
<1>6. bufs \subseteq F => StepKeeps(Use(bufs), F, M, F, M)
  BY DEF StepKeeps, Use, Action
<1> QED
  BY <1>1, <1>2, <1>3, <1>4, <1>5, <1>6, StepFollows

(* Two sequences with the same steps are the same.                         *)
LEMMA SameScmSteps ==
  ASSUME NEW s \in Seq(ScmSteps), NEW t \in Seq(ScmSteps), Len(s) = Len(t),
         \A i \in 1..Len(s) : s[i] = t[i]
  PROVE  s = t
OBVIOUS

(* One step at the end.                                                    *)
LEMMA OneMoreStep ==
  ASSUME NEW s \in Seq(ScmSteps), NEW t \in Seq(ScmSteps), Len(t) = 1
  PROVE  /\ s \o t \in Seq(ScmSteps) /\ Len(s \o t) = Len(s) + 1
         /\ \A i \in 1..Len(s) : (s \o t)[i] = s[i]
         /\ (s \o t)[Len(s) + 1] = t[1]
<1>1. /\ s \o t \in Seq(ScmSteps) /\ Len(s \o t) = Len(s) + Len(t)
      /\ \A i \in 1..(Len(s) + Len(t)) : (s \o t)[i] = IF i <= Len(s) THEN s[i] ELSE t[i - Len(s)]
  BY ConcatProperties
<1>2. Len(s) \in Nat
  OBVIOUS
<1> QED
  BY <1>1, <1>2

(* Two and three steps.                                                    *)
LEMMA TuplesAreSequences ==
  ASSUME NEW a \in ScmSteps, NEW b \in ScmSteps, NEW c \in ScmSteps
  PROVE  <<a, b>> = <<a>> \o <<b>> /\ <<a, b, c>> = <<a, b>> \o <<c>>
<1>1. /\ <<a>> \in Seq(ScmSteps) /\ <<b>> \in Seq(ScmSteps) /\ <<c>> \in Seq(ScmSteps)
      /\ <<a, b>> \in Seq(ScmSteps) /\ <<a, b, c>> \in Seq(ScmSteps)
  OBVIOUS
<1>2. /\ Len(<<a>>) = 1 /\ <<a>>[1] = a /\ Len(<<b>>) = 1 /\ <<b>>[1] = b
      /\ Len(<<c>>) = 1 /\ <<c>>[1] = c
      /\ Len(<<a, b>>) = 2 /\ <<a, b>>[1] = a /\ <<a, b>>[2] = b
      /\ Len(<<a, b, c>>) = 3 /\ <<a, b, c>>[1] = a /\ <<a, b, c>>[2] = b /\ <<a, b, c>>[3] = c
  OBVIOUS
<1>3. PICK sa, sb, sc, sab, sabc \in Seq(ScmSteps) :
        /\ sa = <<a>> /\ sb = <<b>> /\ sc = <<c>> /\ sab = <<a, b>> /\ sabc = <<a, b, c>>
        /\ Len(sa) = 1 /\ sa[1] = a /\ Len(sb) = 1 /\ sb[1] = b /\ Len(sc) = 1 /\ sc[1] = c
        /\ Len(sab) = 2 /\ sab[1] = a /\ sab[2] = b
        /\ Len(sabc) = 3 /\ sabc[1] = a /\ sabc[2] = b /\ sabc[3] = c
  BY <1>1, <1>2
<1>4. sab = sa \o sb /\ sabc = sab \o sc
  <2>1. SUFFICES
          ASSUME NEW x \in Seq(ScmSteps), NEW y \in Seq(ScmSteps), NEW z \in Seq(ScmSteps),
                 NEW xy \in Seq(ScmSteps), NEW xyz \in Seq(ScmSteps),
                 Len(x) = 1, x[1] = a, Len(y) = 1, y[1] = b, Len(z) = 1, z[1] = c,
                 Len(xy) = 2, xy[1] = a, xy[2] = b,
                 Len(xyz) = 3, xyz[1] = a, xyz[2] = b, xyz[3] = c
          PROVE  xy = x \o y /\ xyz = xy \o z
    BY ZenonT(60), <1>3
  <2>2. /\ x \o y \in Seq(ScmSteps) /\ Len(x \o y) = 2 /\ (x \o y)[1] = a /\ (x \o y)[2] = b
    <3>1. /\ x \o y \in Seq(ScmSteps) /\ Len(x \o y) = Len(x) + 1
          /\ \A i \in 1..Len(x) : (x \o y)[i] = x[i]
          /\ (x \o y)[Len(x) + 1] = y[1]
      BY <2>1, OneMoreStep
    <3> QED
      BY <2>1, <3>1
  <2>3. /\ xy \o z \in Seq(ScmSteps) /\ Len(xy \o z) = 3
        /\ (xy \o z)[1] = a /\ (xy \o z)[2] = b /\ (xy \o z)[3] = c
    <3>1. /\ xy \o z \in Seq(ScmSteps) /\ Len(xy \o z) = Len(xy) + 1
          /\ \A i \in 1..Len(xy) : (xy \o z)[i] = xy[i]
          /\ (xy \o z)[Len(xy) + 1] = z[1]
      BY <2>1, OneMoreStep
    <3> QED
      BY SMTT(40), <2>1, <3>1
  <2>4. \A i \in 1..2 : i = 1 \/ i = 2
    OBVIOUS
  <2>5. \A i \in 1..3 : i = 1 \/ i = 2 \/ i = 3
    OBVIOUS
  <2>6. xy = x \o y
    BY SMTT(40), <2>1, <2>2, <2>4, SameScmSteps
  <2>7. xyz = xy \o z
    BY <2>1, <2>3, <2>5, SameScmSteps
  <2> QED
    BY <2>6, <2>7
<1> QED
  BY <1>3, <1>4

(* Three steps in a row.                                                   *)
LEMMA ThreeFollow ==
  ASSUME NEW a \in ScmSteps, NEW b \in ScmSteps, NEW c \in ScmSteps,
         NEW F, NEW M, NEW F1, NEW M1, NEW F2, NEW M2, NEW F3, NEW M3,
         Follows(<<a>>, F, M, F1, M1), Follows(<<b>>, F1, M1, F2, M2),
         Follows(<<c>>, F2, M2, F3, M3)
  PROVE  <<a, b, c>> \in Seq(ScmSteps) /\ Follows(<<a, b, c>>, F, M, F3, M3)
<1>1. PICK sa, sb, sc, sab, sabc \in Seq(ScmSteps) :
        sa = <<a>> /\ sb = <<b>> /\ sc = <<c>> /\ sab = <<a, b>> /\ sabc = <<a, b, c>>
  <2>1. /\ <<a>> \in Seq(ScmSteps) /\ <<b>> \in Seq(ScmSteps) /\ <<c>> \in Seq(ScmSteps)
        /\ <<a, b>> \in Seq(ScmSteps) /\ <<a, b, c>> \in Seq(ScmSteps)
    OBVIOUS
  <2> QED
    BY <2>1
<1>2. sab = sa \o sb /\ sabc = sab \o sc
  BY <1>1, TuplesAreSequences
<1>3. Follows(sa, F, M, F1, M1) /\ Follows(sb, F1, M1, F2, M2) /\ Follows(sc, F2, M2, F3, M3)
  BY <1>1
<1>4. Follows(sa \o sb, F, M, F2, M2)
  BY <1>3, SequenceFollows
<1>5. Follows(sab \o sc, F, M, F3, M3)
  BY <1>2, <1>3, <1>4, SequenceFollows
<1> QED
  BY <1>1, <1>2, <1>5

(* scm_call flushes the command, the response and its flag; what else the  *)
(* secure world reads and writes must be in memory already.                *)
LEMMA ScmCallFollows ==
  ASSUME NEW F \in SUBSET Buffers, NEW M \in SUBSET Buffers,
         NEW reads \in SUBSET M, NEW writes \in SUBSET M, NEW respond \in BOOLEAN
  PROVE  /\ ScmCall(reads, writes, respond) \in Seq(ScmSteps)
         /\ \E F2, M2 \in SUBSET Buffers :
              M \subseteq M2 /\ Follows(ScmCall(reads, writes, respond), F, M, F2, M2)
<1> DEFINE block == {"cmd", "rsp", "flag"}
           to == writes \cup (IF respond THEN {"rsp", "flag"} ELSE {})
           F1 == F \cup block
           M1 == M \cup block
<1>1. /\ block \in SUBSET Buffers /\ to \in SUBSET Buffers /\ F1 \in SUBSET Buffers
      /\ M1 \in SUBSET Buffers /\ {"cmd"} \cup reads \in SUBSET Buffers
      /\ {"rsp"} \in SUBSET Buffers /\ F1 \ to \in SUBSET Buffers
  BY DEF Buffers
<1> DEFINE F3 == (F1 \ to) \cup {"rsp"}
<1>2. /\ Write(block) \in ScmSteps /\ Clean(block) \in ScmSteps
      /\ Smc({"cmd"} \cup reads, to) \in ScmSteps
      /\ AwaitFlag \in ScmSteps /\ Drop({"rsp"}) \in ScmSteps /\ Use({"rsp"}) \in ScmSteps
  BY <1>1 DEF Write, Clean, Drop, Use, Smc, AwaitFlag, Action, ScmSteps, Buffers
<1>3. Follows(<<Write(block)>>, F, M, F1, M \ block)
  BY <1>1, StepRules
<1>4. Follows(<<Clean(block)>>, F1, M \ block, F1, M1)
  <2>1. F1 \cup ((M \ block) \cap block) = F1 /\ (M \ block) \cup (F1 \cap block) = M1
    OBVIOUS
  <2>2. M \ block \in SUBSET Buffers
    OBVIOUS
  <2>3. Follows(<<Clean(block)>>, F1, M \ block, F1 \cup ((M \ block) \cap block),
                (M \ block) \cup (F1 \cap block))
    BY <1>1, <2>2, StepRules
  <2> QED
    BY <2>1, <2>3
<1>5. Follows(<<Smc({"cmd"} \cup reads, to)>>, F1, M1, F1 \ to, M1)
  <2>1. ({"cmd"} \cup reads) \cup to \subseteq M1
    OBVIOUS
  <2> QED
    BY <1>1, <2>1, StepRules
<1> DEFINE call == <<Write(block), Clean(block), Smc({"cmd"} \cup reads, to)>>
<1>6. call \in Seq(ScmSteps) /\ Follows(call, F, M, F1 \ to, M1)
  BY SMTT(40), <1>2, <1>3, <1>4, <1>5, ThreeFollow
<1>7. ScmCall(reads, writes, respond)
        = call \o IF respond THEN <<AwaitFlag, Drop({"rsp"}), Use({"rsp"})>> ELSE <<>>
  BY DEF ScmCall
<1>8. CASE respond
  <2> DEFINE answer == <<AwaitFlag, Drop({"rsp"}), Use({"rsp"})>>
  <2>1. Follows(<<AwaitFlag>>, F1 \ to, M1, F1 \ to, M1)
    <3>1. {"rsp", "flag"} \subseteq M1 \ (F1 \ to)
      BY <1>8
    <3> QED
      BY <1>1, <3>1, StepRules
  <2>2. Follows(<<Drop({"rsp"})>>, F1 \ to, M1, F3, M1)
    <3>1. ((F1 \ to) \ {"rsp"}) \cup (M1 \cap {"rsp"}) = F3
      OBVIOUS
    <3>2. Follows(<<Drop({"rsp"})>>, F1 \ to, M1, ((F1 \ to) \ {"rsp"}) \cup (M1 \cap {"rsp"}), M1)
      BY <1>1, StepRules
    <3> QED
      BY <3>1, <3>2
  <2>3. F3 \in SUBSET Buffers /\ {"rsp"} \subseteq F3
    BY <1>1
  <2>4. Follows(<<Use({"rsp"})>>, F3, M1, F3, M1)
    BY <1>1, <2>3, StepRules
  <2>5. answer \in Seq(ScmSteps) /\ Follows(answer, F1 \ to, M1, F3, M1)
    BY <1>2, <2>1, <2>2, <2>4, ThreeFollow
  <2>6. ScmCall(reads, writes, respond) = call \o answer
    BY <1>7, <1>8
  <2> HIDE DEF call, answer, F3, F1, M1, to
  <2>7. call \o answer \in Seq(ScmSteps)
    BY <1>6, <2>5, ConcatProperties
  <2>8. Follows(call \o answer, F, M, F3, M1)
    BY <1>6, <2>5, SequenceFollows
  <2>9. M \subseteq M1
    BY DEF M1
  <2> QED
    BY <1>1, <2>3, <2>6, <2>7, <2>8, <2>9
<1>9. CASE ~respond
  <2>1. ScmCall(reads, writes, respond) = call \o <<>>
    BY <1>7, <1>9
  <2> HIDE DEF call, F1, M1, to
  <2>2. call \o <<>> = call
    BY <1>6, ConcatEmptySeq
  <2>3. M \subseteq M1
    BY DEF M1
  <2> QED
    BY <1>1, <1>6, <2>1, <2>2, <2>3
<1> QED
  BY <1>8, <1>9

-----------------------------------------------------------------------------
(* A whole operation: its call and what comes after it, once with success  *)
(* and once without.                                                       *)
Whole(o) == o.before \o (o.after \o o.results)
KeepsTheRule(op, v8) ==
  LET done    == OperationOf(op, v8, TRUE)
      denied == OperationOf(op, v8, FALSE)
  IN  /\ done.before \in Seq(ScmSteps) /\ done.after \o done.results \in Seq(ScmSteps)
      /\ denied.after \in Seq(ScmSteps)
      /\ \E F, M : Follows(Whole(done), {}, {}, F, M)
      /\ \E F, M : Follows(denied.after, {}, {}, F, M)

(* What the flushed calls are made of.                                     *)
FlushedOps == FlushedCalls \cup {"halt_pmic_arbiter1", "dload_io_write", "wdog_debug_disable"} \X BOOLEAN
Bare(o) == o.after = <<>> /\ o.results = <<>>
SimpleBefore(t) == \/ t = <<>> \/ t = <<Smc({}, {})>>
                   \/ \E respond \in BOOLEAN : t = ScmCall({}, {}, respond)

(* Each has one of these names.                                            *)
LEMMA FlushedOpsAreNamed == FlushedOps \subseteq Names \X BOOLEAN
<1>1. \A names \in SUBSET Names, which \in SUBSET BOOLEAN :
        names \X which \subseteq Names \X BOOLEAN
  OBVIOUS
<1>2. /\ {"restore_secure_cfg", "xpu_err_fatal_init", "svc_version", "protect_keystore",
          "switch_ce_chn", "check_boot_fuses", "io_call", "halt_pmic_arbiter", "dload_mode"}
            \in SUBSET Names
      /\ {"halt_pmic_arbiter1", "dload_io_write", "wdog_debug_disable"} \in SUBSET Names
      /\ {"set_tamper_fuse", "get_tamper_fuse", "save_kernel_hash", "elexec_call", "random"}
            \in SUBSET Names
      /\ {"get_secure_state"} \in SUBSET Names
  BY DEF Names
<1>3. BOOLEAN \in SUBSET BOOLEAN /\ {TRUE} \in SUBSET BOOLEAN /\ {FALSE} \in SUBSET BOOLEAN
  BY Zenon
<1> QED
  BY <1>1, <1>2, <1>3, ZenonT(60) DEF FlushedOps, FlushedCalls

(* Nothing to do needs nothing known.                                      *)
LEMMA EmptyFollows == <<>> \in Seq(ScmSteps) /\ <<>> \o <<>> = <<>> /\ Follows(<<>>, {}, {}, {}, {})
<1>1. <<>> \in Seq(ScmSteps) /\ {} \in SUBSET Buffers
  OBVIOUS
<1> QED
  BY <1>1, NothingFollows, ConcatEmptySeq

(* Most of them hand the secure world nothing but the command.             *)
LEMMA SimpleCalls ==
  ASSUME NEW op, NEW v8 \in BOOLEAN, <<op, v8>> \in FlushedOps,
         op \notin {"protect_keystore", "random"}, NEW ok \in BOOLEAN
  PROVE  LET o == OperationOf(op, v8, ok) IN Bare(o) /\ SimpleBefore(o.before)
<1> DEFINE o == OperationOf(op, v8, ok)
<1>1. ASSUME NEW n \in {0, 1, 2}, NEW respond \in BOOLEAN, o = Plain(Either(v8, {}, {}, respond, n))
      PROVE  Bare(o) /\ SimpleBefore(o.before)
  BY <1>1 DEF Plain, Operation, Either, ScmCall2, Bare, SimpleBefore
<1>2. ASSUME NEW respond \in BOOLEAN, o = Plain(ScmCall({}, {}, respond))
      PROVE  Bare(o) /\ SimpleBefore(o.before)
  BY <1>2 DEF Plain, Operation, Bare, SimpleBefore
<1>3. ASSUME o \in {Plain(<<>>), Plain(<<Smc({}, {})>>)}
      PROVE  Bare(o) /\ SimpleBefore(o.before)
  BY <1>3 DEF Plain, Operation, Bare, SimpleBefore
<1>4. CASE op = "restore_secure_cfg"
  BY <1>1, <1>4 DEF OperationOf, RestoreSecureCfg
<1>5. CASE op = "xpu_err_fatal_init"
  BY <1>1, <1>5 DEF OperationOf, XpuErrFatalInit
<1>6. CASE op = "svc_version"
  BY <1>1, <1>6 DEF OperationOf, SvcVersion
<1>7. CASE op = "check_boot_fuses"
  BY <1>1, <1>7 DEF OperationOf, CheckBootFuses
<1>8. CASE op = "switch_ce_chn"
  BY <1>2, <1>3, <1>8 DEF OperationOf, SwitchCeChn
<1>9. CASE op \in {"halt_pmic_arbiter", "halt_pmic_arbiter1"}
  <2>1. o = HaltPmicArbiter(v8)
    BY <1>9 DEF OperationOf
  <2> QED
    BY <1>3, <2>1 DEF HaltPmicArbiter, ScmCall2, ScmCallAtomic
<1>10. CASE op \in {"io_call", "dload_mode", "dload_io_write", "wdog_debug_disable"}
  <2>1. o = IoCall(v8)
    BY <1>10 DEF OperationOf
  <2> QED
    BY <1>3, <2>1 DEF IoCall, ScmCall2, ScmCallAtomic
<1>11. CASE op = "get_secure_state" /\ v8 = TRUE
  <2>1. o = Operation(<<Smc({}, {})>>, <<>>, <<>>)
    BY <1>11 DEF OperationOf, GetSecureState, Either, ScmCall2
  <2> QED
    BY <1>3, <2>1 DEF Plain
<1>12. CASE op = "set_tamper_fuse" /\ v8 = FALSE
  BY <1>2, <1>12 DEF OperationOf, SetTamperFuse
<1>13. CASE op = "get_tamper_fuse" /\ v8 = FALSE
  BY <1>2, <1>13 DEF OperationOf, GetTamperFuse
<1>14. CASE op = "save_kernel_hash" /\ v8 = FALSE
  BY <1>2, <1>14 DEF OperationOf, SaveKernelHash
<1>15. CASE op = "elexec_call" /\ v8 = FALSE
  BY <1>2, <1>15 DEF OperationOf, ElexecCall
<1>16. \/ op \in {"restore_secure_cfg", "xpu_err_fatal_init", "svc_version", "check_boot_fuses",
                   "switch_ce_chn", "halt_pmic_arbiter", "halt_pmic_arbiter1", "io_call",
                   "dload_mode", "dload_io_write", "wdog_debug_disable"}
       \/ op = "get_secure_state" /\ v8 = TRUE
       \/ op \in {"set_tamper_fuse", "get_tamper_fuse", "save_kernel_hash", "elexec_call"} /\ v8 = FALSE
  BY DEF FlushedOps, FlushedCalls
<1> QED
  BY <1>4, <1>5, <1>6, <1>7, <1>8, <1>9, <1>10, <1>11, <1>12, <1>13, <1>14, <1>15, <1>16

(* Those need nothing known.                                               *)
LEMMA SimpleCallsKeepTheRule ==
  ASSUME NEW op, NEW v8 \in BOOLEAN, <<op, v8>> \in FlushedOps,
         op \notin {"protect_keystore", "random"}
  PROVE  KeepsTheRule(op, v8)
<1>1. PICK t, done, denied :
        /\ done = OperationOf(op, v8, TRUE) /\ denied = OperationOf(op, v8, FALSE)
        /\ t = done.before /\ SimpleBefore(t)
        /\ done.after = <<>> /\ done.results = <<>> /\ denied.after = <<>>
  <2>1. /\ Bare(OperationOf(op, v8, TRUE)) /\ SimpleBefore(OperationOf(op, v8, TRUE).before)
        /\ Bare(OperationOf(op, v8, FALSE))
    BY SimpleCalls
  <2> QED
    BY <2>1 DEF Bare
<1>2. t \in Seq(ScmSteps) /\ \E F, M \in SUBSET Buffers : Follows(t, {}, {}, F, M)
  <2>1. CASE t = <<>>
    BY <2>1, EmptyFollows
  <2>2. CASE t = <<Smc({}, {})>>
    <3>1. {} \in SUBSET Buffers /\ {} \cup {} \subseteq {} /\ {} \ {} = {}
      OBVIOUS
    <3>2. <<Smc({}, {})>> \in Seq(ScmSteps) /\ Follows(<<Smc({}, {})>>, {}, {}, {}, {})
      BY ZenonT(60), <3>1, StepsAreSteps, StepRules
    <3> QED
      BY <2>2, <3>1, <3>2
  <2>3. ASSUME NEW respond \in BOOLEAN, t = ScmCall({}, {}, respond)
        PROVE  t \in Seq(ScmSteps) /\ \E F, M \in SUBSET Buffers : Follows(t, {}, {}, F, M)
    <3>1. {} \in SUBSET Buffers /\ {} \in SUBSET {}
      OBVIOUS
    <3> QED
      BY <2>3, <3>1, ScmCallFollows
  <2> QED
    BY <1>1, <2>1, <2>2, <2>3 DEF SimpleBefore
<1>3. done.after \o done.results = <<>> /\ Whole(done) = t
  BY <1>1, <1>2, EmptyFollows, ConcatEmptySeq DEF Whole
<1> QED
  BY <1>1, <1>2, <1>3, EmptyFollows DEF KeepsTheRule

(* The caller's data, written and flushed.                                 *)
LEMMA GivenIsFlushed ==
  Given \o <<Clean(D)>> \in Seq(ScmSteps) /\ Follows(Given \o <<Clean(D)>>, {}, {}, D, D)
<1>1. D \in SUBSET Buffers /\ {} \in SUBSET Buffers
  BY DEF D, Buffers
<1>2. Follows(<<Write(D)>>, {}, {}, D, {})
  <2>1. Follows(<<Write(D)>>, {}, {}, {} \cup D, {} \ D)
    BY <1>1, StepRules
  <2>2. {} \cup D = D /\ {} \ D = {}
    OBVIOUS
  <2> QED
    BY <2>1, <2>2
<1>3. Follows(<<Clean(D)>>, D, {}, D, D)
  <2>1. Follows(<<Clean(D)>>, D, {}, D \cup ({} \cap D), {} \cup (D \cap D))
    BY <1>1, StepRules
  <2>2. D \cup ({} \cap D) = D /\ {} \cup (D \cap D) = D
    OBVIOUS
  <2> QED
    BY <2>1, <2>2
<1>4. <<Write(D)>> \in Seq(ScmSteps) /\ <<Clean(D)>> \in Seq(ScmSteps)
  BY <1>1, StepsAreSteps
<1> QED
  BY <1>2, <1>3, <1>4, SequenceFollows, ConcatProperties DEF Given

(* The keystore's data are flushed before the call.                        *)
LEMMA ProtectKeepsTheRule ==
  ASSUME NEW v8 \in BOOLEAN PROVE KeepsTheRule("protect_keystore", v8)
<1>1. /\ OperationOf("protect_keystore", v8, TRUE) = ProtectKeystore(v8)
      /\ OperationOf("protect_keystore", v8, FALSE) = ProtectKeystore(v8)
  BY DEF OperationOf
<1>2. PICK given, call, o :
        /\ given = Given \o <<Clean(D)>> /\ call = Either(v8, D, {}, TRUE, 2)
        /\ o = ProtectKeystore(v8) /\ o.before = given \o call
        /\ o.after = <<>> /\ o.results = <<>>
  <2>1. /\ ProtectKeystore(v8).before = Given \o <<Clean(D)>> \o Either(v8, D, {}, TRUE, 2)
        /\ ProtectKeystore(v8).after = <<>> /\ ProtectKeystore(v8).results = <<>>
    BY DEF ProtectKeystore, Plain, Operation
  <2> QED
    BY <2>1
<1>3. D \in SUBSET Buffers /\ D \in SUBSET D /\ {} \in SUBSET D /\ {} \in SUBSET Buffers
  BY DEF D, Buffers
<1>4. call \in Seq(ScmSteps) /\ \E F, M : Follows(call, D, D, F, M)
  <2>1. CASE v8
    <3>1. call = <<Smc(D, {})>>
      BY <1>2, <2>1 DEF Either, ScmCall2
    <3>2. D \cup {} \subseteq D
      OBVIOUS
    <3> QED
      BY <1>3, <3>1, <3>2, StepRules, StepsAreSteps
  <2>2. CASE ~v8
    <3>1. call = ScmCall(D, {}, TRUE)
      BY <1>2, <2>2 DEF Either
    <3> QED
      BY <1>3, <3>1, ScmCallFollows
  <2> QED
    BY <2>1, <2>2
<1>5. given \in Seq(ScmSteps) /\ Follows(given, {}, {}, D, D)
  BY <1>2, GivenIsFlushed
<1>6. PICK whole : whole = given \o call
  OBVIOUS
<1>7. whole \in Seq(ScmSteps) /\ \E F, M : Follows(whole, {}, {}, F, M)
  BY <1>4, <1>5, <1>6, SequenceFollows, ConcatProperties
<1>8. o.after \o o.results = <<>> /\ Whole(o) = whole /\ o.before = whole
  BY <1>2, <1>6, <1>7, EmptyFollows, ConcatEmptySeq DEF Whole
<1> QED
  BY <1>1, <1>2, <1>7, <1>8, EmptyFollows DEF KeepsTheRule

(* The buffer for random bytes is flushed before the call, and dropped     *)
(* before it is read.                                                      *)
LEMMA RandomKeepsTheRule == KeepsTheRule("random", FALSE)
<1>1. /\ OperationOf("random", FALSE, TRUE) = Random(FALSE, TRUE)
      /\ OperationOf("random", FALSE, FALSE) = Random(FALSE, FALSE)
  BY DEF OperationOf
<1>2. PICK given, call, after, results, o :
        /\ given = Given \o <<Clean(D)>> /\ call = ScmCall({}, D, FALSE)
        /\ after = <<Clean(D)>> /\ results = <<Use(D)>>
        /\ o = Random(FALSE, TRUE) /\ o.before = given \o call
        /\ o.after = after /\ o.results = results /\ Random(FALSE, FALSE).after = after
  <2>1. Random(FALSE, TRUE).before = Given \o <<Clean(D)>> \o ScmCall({}, D, FALSE)
    BY DEF Random, Operation, Either
  <2>2. /\ Random(FALSE, TRUE).after = <<Clean(D)>> /\ Random(FALSE, TRUE).results = <<Use(D)>>
        /\ Random(FALSE, FALSE).after = <<Clean(D)>>
    BY DEF Random, Operation
  <2> QED
    BY <2>1, <2>2
<1>3. D \in SUBSET Buffers /\ D \in SUBSET D /\ {} \in SUBSET D /\ {} \in SUBSET Buffers
  BY DEF D, Buffers
<1>4. /\ call \in Seq(ScmSteps)
      /\ \E F, M \in SUBSET Buffers : D \subseteq M /\ Follows(call, D, D, F, M)
  BY <1>2, <1>3, ScmCallFollows
<1>5. given \in Seq(ScmSteps) /\ Follows(given, {}, {}, D, D)
  BY <1>2, GivenIsFlushed
<1>6. PICK F, M \in SUBSET Buffers : D \subseteq M /\ Follows(call, D, D, F, M)
  BY <1>4
<1> DEFINE F1 == F \cup (M \cap D)
           M1 == M \cup (F \cap D)
<1>7. F1 \in SUBSET Buffers /\ M1 \in SUBSET Buffers /\ D \subseteq F1
  BY <1>6
<1>8. after \in Seq(ScmSteps) /\ Follows(after, F, M, F1, M1)
  BY ZenonT(60), <1>2, <1>3, <1>6, StepRules, StepsAreSteps
<1>9. results \in Seq(ScmSteps) /\ Follows(results, F1, M1, F1, M1)
  BY ZenonT(60), <1>2, <1>3, <1>7, StepRules, StepsAreSteps
<1> HIDE DEF F1, M1
<1>10. given \o call \in Seq(ScmSteps) /\ Follows(given \o call, {}, {}, F, M)
  BY <1>4, <1>5, <1>6, SequenceFollows, ConcatProperties
<1>11. after \o results \in Seq(ScmSteps) /\ Follows(after \o results, F, M, F1, M1)
  BY <1>8, <1>9, SequenceFollows, ConcatProperties
<1>12. Follows(Whole(o), {}, {}, F1, M1)
  <2>1. Whole(o) = (given \o call) \o (after \o results)
    BY <1>2 DEF Whole
  <2>2. Follows((given \o call) \o (after \o results), {}, {}, F1, M1)
    BY <1>10, <1>11, SequenceFollows
  <2> QED
    BY <2>1, <2>2
<1>13. \E F2, M2 : Follows(after, {}, {}, F2, M2)
  <2>1. Follows(<<Clean(D)>>, {}, {}, {} \cup ({} \cap D), {} \cup ({} \cap D))
    BY <1>3, StepRules
  <2> QED
    BY <1>2, <2>1
<1>14. o.before \in Seq(ScmSteps) /\ o.after \o o.results \in Seq(ScmSteps)
  BY <1>2, <1>10, <1>11
<1> QED
  BY <1>1, <1>2, <1>8, <1>12, <1>13, <1>14 DEF KeepsTheRule

(* So every flushed call keeps the rule.                                   *)
LEMMA FlushedCallsKeepTheRule ==
  ASSUME NEW op, NEW v8 \in BOOLEAN, <<op, v8>> \in FlushedOps
  PROVE  KeepsTheRule(op, v8)
<1>1. op = "random" => v8 = FALSE
  BY DEF FlushedOps, FlushedCalls
<1> QED
  BY <1>1, SimpleCallsKeepTheRule, ProtectKeepsTheRule, RandomKeepsTheRule

(* And what follows a flushed call is one.                                 *)
LEMMA NextOpsAreFlushed ==
  ASSUME NEW op, NEW v8 \in BOOLEAN, <<op, v8>> \in FlushedOps,
         NEW ok \in BOOLEAN, NEW next \in NextOp(op, ok), next # "none"
  PROVE  <<next, v8>> \in FlushedOps
<1>1. op \notin {"parse_md", "parse_longer"}
  BY DEF FlushedOps, FlushedCalls
<1>2. next \in {"halt_pmic_arbiter1", "dload_io_write", "check_boot_fuses", "wdog_debug_disable"}
  BY <1>1 DEF NextOp
<1> QED
  BY <1>2 DEF FlushedOps, FlushedCalls

-----------------------------------------------------------------------------
(* The inductive invariant: what is known now makes what is left to do     *)
(* safe, and when the call is the last of it, what comes after it too.     *)
ToCome(s) ==
  LET done == OperationOf(s.op, s.v8, TRUE)
  IN  IF s.last = "call" THEN s.todo \o (done.after \o done.results) ELSE s.todo
SafeToGoOn ==
  \E F, M \in SUBSET Buffers :
    /\ Known(F, M)
    /\ \E F2, M2 : Follows(ToCome(scm), F, M, F2, M2)
ScmInv ==
  /\ ScmTypeOK
  /\ <<scm.op, scm.v8>> \in FlushedOps
  /\ \/ scm.last = "call" /\ scm.todo = <<>> /\ scm.ret = 1
     \/ SafeToGoOn

(* The parts of the operation under way.                                   *)
LEMMA OpParts ==
  ASSUME ScmInv
  PROVE  LET done == OperationOf(scm.op, scm.v8, TRUE)
         IN  /\ done.after \o done.results \in Seq(ScmSteps)
             /\ scm.todo \in Seq(ScmSteps) /\ scm.v8 \in BOOLEAN /\ ToCome(scm) \in Seq(ScmSteps)
<1>1. scm.todo \in Seq(ScmSteps) /\ scm.v8 \in BOOLEAN
  BY DEF ScmInv, ScmTypeOK
<1>2. KeepsTheRule(scm.op, scm.v8)
  BY <1>1, FlushedCallsKeepTheRule DEF ScmInv
<1> QED
  BY <1>1, <1>2, ConcatProperties DEF KeepsTheRule, ToCome

(* The first of two sequences is done first.                               *)
LEMMA HeadOfTheRest ==
  ASSUME NEW s \in Seq(ScmSteps), s # <<>>, NEW t \in Seq(ScmSteps)
  PROVE  /\ s \o t \in Seq(ScmSteps) /\ s \o t # <<>>
         /\ Head(s \o t) = Head(s) /\ Tail(s \o t) = Tail(s) \o t
<1>1. PICK n \in Nat : Len(s) = n + 1
  <2>1. Len(s) \in Nat /\ Len(s) # 0
    BY SMT
  <2> QED
    BY <2>1
<1>2. PICK m \in Nat : Len(t) = m
  OBVIOUS
<1>3. PICK st \in Seq(ScmSteps) : st = s \o t
  BY ConcatProperties
<1>4. /\ Len(st) = n + 1 + m
      /\ \A i \in 1..(n + 1 + m) : st[i] = IF i <= n + 1 THEN s[i] ELSE t[i - (n + 1)]
  <2>1. /\ Len(s \o t) = Len(s) + Len(t)
        /\ \A i \in 1..(Len(s) + Len(t)) : (s \o t)[i] = IF i <= Len(s) THEN s[i] ELSE t[i - Len(s)]
    BY ConcatProperties
  <2> QED
    BY <1>1, <1>2, <1>3, <2>1
<1>5. PICK r \in Seq(ScmSteps) : r = Tail(s)
  <2>1. Tail(s) \in Seq(ScmSteps)
    BY <1>1
  <2> QED
    BY <2>1
<1>6. Len(r) = n /\ \A i \in 1..n : r[i] = s[i + 1]
  BY <1>1, <1>5
<1>7. PICK rt \in Seq(ScmSteps) : rt = r \o t
  BY ConcatProperties
<1>8. /\ Len(rt) = n + m
      /\ \A i \in 1..(n + m) : rt[i] = IF i <= n THEN r[i] ELSE t[i - n]
  <2>1. /\ Len(r \o t) = Len(r) + Len(t)
        /\ \A i \in 1..(Len(r) + Len(t)) : (r \o t)[i] = IF i <= Len(r) THEN r[i] ELSE t[i - Len(r)]
    BY ConcatProperties
  <2> QED
    BY <1>2, <1>6, <1>7, <2>1
<1>9. PICK u \in Seq(ScmSteps) : u = Tail(st)
  <2>1. Tail(st) \in Seq(ScmSteps)
    BY <1>1, <1>2, <1>4
  <2> QED
    BY <2>1
<1>10. Len(u) = n + m /\ \A i \in 1..(n + m) : u[i] = st[i + 1]
  BY <1>1, <1>2, <1>4, <1>9
<1>11. ASSUME NEW i \in 1..(n + m) PROVE u[i] = rt[i]
  <2>1. /\ i + 1 \in 1..(n + 1 + m) /\ i \in Int /\ n \in Int /\ m \in Int
        /\ i + 1 - (n + 1) = i - n /\ (i + 1 <= n + 1 <=> i <= n)
    BY <1>1, <1>2
  <2>2. u[i] = IF i <= n THEN s[i + 1] ELSE t[i - n]
    BY SMTT(40), <1>4, <1>10, <2>1
  <2>3. i <= n => r[i] = s[i + 1]
    BY <1>6, <2>1
  <2> QED
    BY <1>8, <2>1, <2>2, <2>3
<1>12. u = rt
  BY <1>8, <1>10, <1>11, SameScmSteps
<1>13. st # <<>> /\ Head(st) = Head(s)
  <2>1. 1 \in 1..(n + 1 + m) /\ 1 <= n + 1
    BY <1>1, <1>2
  <2>2. st[1] = s[1]
    BY <1>4, <2>1
  <2>3. Len(st) # 0
    BY <1>1, <1>2, <1>4
  <2> QED
    BY <2>2, <2>3
<1> QED
  BY <1>3, <1>5, <1>7, <1>9, <1>12, <1>13

(* The step at hand is safe, and what is known after it makes the rest so. *)
LEMMA NextStepIsSafe ==
  ASSUME ScmInv, scm.todo # <<>>
  PROVE  \E F, M, F1, M1 \in SUBSET Buffers :
           /\ Known(F, M) /\ StepKeeps(Now, F, M, F1, M1)
           /\ \E F2, M2 : Follows(ToCome(scm), F, M, F2, M2)
           /\ \A s : s.op = scm.op /\ s.v8 = scm.v8 /\ s.last = scm.last /\ s.todo = Tail(scm.todo)
                => \E F2, M2 : Follows(ToCome(s), F1, M1, F2, M2)
<1>1. PICK F, M \in SUBSET Buffers :
        Known(F, M) /\ \E F2, M2 : Follows(ToCome(scm), F, M, F2, M2)
  BY DEF ScmInv, SafeToGoOn
<1>2. PICK F2, M2 : Follows(ToCome(scm), F, M, F2, M2)
  BY <1>1
<1>3. PICK t \in Seq(ScmSteps) : t = ToCome(scm)
  BY OpParts
<1> DEFINE done == OperationOf(scm.op, scm.v8, TRUE)
           rest == done.after \o done.results
<1>4. rest \in Seq(ScmSteps) /\ scm.todo \in Seq(ScmSteps)
  BY OpParts
<1> HIDE DEF rest
<1>5. /\ t # <<>> /\ Head(t) = Now
      /\ Tail(t) = IF scm.last = "call" THEN Tail(scm.todo) \o rest ELSE Tail(scm.todo)
  <2>1. t = IF scm.last = "call" THEN scm.todo \o rest ELSE scm.todo
    BY <1>3 DEF ToCome, rest
  <2>2. /\ scm.todo \o rest # <<>> /\ Head(scm.todo \o rest) = Head(scm.todo)
        /\ Tail(scm.todo \o rest) = Tail(scm.todo) \o rest
    BY <1>4, HeadOfTheRest
  <2> QED
    BY <2>1, <2>2 DEF Now
<1>6. PICK F1, M1 \in SUBSET Buffers :
        StepKeeps(Head(t), F, M, F1, M1) /\ Follows(Tail(t), F1, M1, F2, M2)
  BY <1>2, <1>3, <1>5, TailFollows
<1>7. ASSUME NEW s, s.op = scm.op, s.v8 = scm.v8, s.last = scm.last, s.todo = Tail(scm.todo)
      PROVE  Follows(ToCome(s), F1, M1, F2, M2)
  <2>1. ToCome(s) = Tail(t)
    BY <1>5, <1>7 DEF ToCome, rest
  <2> QED
    BY <1>6, <2>1
<1> QED
  BY <1>1, <1>5, <1>6, <1>7

(* What the runs check follows from the invariant.                         *)
LEMMA ScmInvIsEnough == ScmInv => EachWorldReadsTheOther
<1> SUFFICES ASSUME ScmInv, scm.todo # <<>>
             PROVE  /\ Now.do = "smc" => \A b \in Now.on : mem[b] = latest[b]
                    /\ Now.do = "use" => \A b \in Now.on : Seen(b) = latest[b]
  BY DEF EachWorldReadsTheOther, Doing
<1>1. PICK F, M, F1, M1 \in SUBSET Buffers :
        Known(F, M) /\ StepKeeps(Now, F, M, F1, M1)
  BY NextStepIsSafe
<1> QED
  BY <1>1 DEF StepKeeps, Known, Fresh, InMemory

-----------------------------------------------------------------------------
(* A call begins with nothing known.                                       *)
LEMMA ScmInvInit == ScmInit /\ Calls \subseteq FlushedCalls => ScmInv
<1> SUFFICES ASSUME ScmInit, Calls \subseteq FlushedCalls PROVE ScmInv
  OBVIOUS
<1>1. PICK c \in Calls :
        scm = [asked |-> c[1], op |-> c[1], v8 |-> c[2],
               todo |-> OperationOf(c[1], c[2], TRUE).before, ret |-> 0,
               last |-> "call", secured |-> TRUE]
  BY DEF ScmInit
<1>2. c \in FlushedOps /\ c = <<c[1], c[2]>> /\ c[1] \in Names /\ c[2] \in BOOLEAN
  <2>1. c \in FlushedCalls
    OBVIOUS
  <2>2. c \in Names \X BOOLEAN
    BY <2>1, FlushedOpsAreNamed DEF FlushedOps
  <2>3. c = <<c[1], c[2]>> /\ c[1] \in Names /\ c[2] \in BOOLEAN
    BY <2>2
  <2> QED
    BY <2>1, <2>3 DEF FlushedOps
<1>3. KeepsTheRule(c[1], c[2])
  BY <1>2, FlushedCallsKeepTheRule
<1>4. ScmTypeOK
  <2>1. OperationOf(c[1], c[2], TRUE).before \in Seq(ScmSteps)
    BY <1>3 DEF KeepsTheRule
  <2>2. /\ mem \in [Buffers -> Writers] /\ latest \in [Buffers -> Writers]
        /\ cache \in [Buffers -> [state : {"none", "clean", "dirty"}, value : Writers]]
    BY DEF ScmInit, NoLine, Writers
  <2> QED
    BY <1>1, <1>2, <2>1, <2>2 DEF ScmTypeOK
<1>5. SafeToGoOn
  <2>1. ToCome(scm) = Whole(OperationOf(c[1], c[2], TRUE))
    BY <1>1 DEF ToCome, Whole
  <2>2. \E F2, M2 : Follows(ToCome(scm), {}, {}, F2, M2)
    BY <1>3, <2>1 DEF KeepsTheRule
  <2>3. Known({}, {}) /\ {} \in SUBSET Buffers
    BY DEF Known
  <2> QED
    BY <2>2, <2>3 DEF SafeToGoOn
<1> QED
  BY <1>1, <1>2, <1>4, <1>5 DEF ScmInv

(* What is known while the caller or the secure world does a step.         *)
LEMMA StepGoesOn ==
  ASSUME ScmInv, scm.todo # <<>>, ScmTypeOK',
         scm'.op = scm.op, scm'.v8 = scm.v8, scm'.last = scm.last, scm'.todo = Tail(scm.todo),
         \A F, M, F1, M1 \in SUBSET Buffers :
           Known(F, M) /\ StepKeeps(Now, F, M, F1, M1) => Known(F1, M1)'
  PROVE  ScmInv'
<1>1. PICK F, M, F1, M1 \in SUBSET Buffers :
        /\ Known(F, M) /\ StepKeeps(Now, F, M, F1, M1)
        /\ \A s : s.op = scm.op /\ s.v8 = scm.v8 /\ s.last = scm.last /\ s.todo = Tail(scm.todo)
             => \E F2, M2 : Follows(ToCome(s), F1, M1, F2, M2)
  BY NextStepIsSafe
<1>2. \E F2, M2 : Follows(ToCome(scm'), F1, M1, F2, M2)
  BY <1>1
<1>3. SafeToGoOn'
  BY <1>1, <1>2 DEF SafeToGoOn
<1> QED
  BY <1>3 DEF ScmInv

(* And while only the cache moves, or the answer comes.                    *)
LEMMA StepWaits ==
  ASSUME ScmInv, ScmTypeOK', UNCHANGED scm,
         \A F, M \in SUBSET Buffers :
           /\ Known(F, M)
           /\ scm.todo # <<>> => \E F1, M1 \in SUBSET Buffers : StepKeeps(Now, F, M, F1, M1)
           => Known(F, M)'
  PROVE  ScmInv'
<1>1. CASE scm.last = "call" /\ scm.todo = <<>> /\ scm.ret = 1
  BY <1>1 DEF ScmInv
<1>2. CASE SafeToGoOn /\ scm.todo = <<>>
  BY <1>2 DEF ScmInv, SafeToGoOn
<1>3. CASE scm.todo # <<>>
  <2>1. PICK F, M, F1, M1 \in SUBSET Buffers :
          /\ Known(F, M) /\ StepKeeps(Now, F, M, F1, M1)
          /\ \E F2, M2 : Follows(ToCome(scm), F, M, F2, M2)
    BY <1>3, NextStepIsSafe
  <2>2. SafeToGoOn'
    BY <2>1 DEF SafeToGoOn
  <2> QED
    BY <2>2 DEF ScmInv
<1> QED
  BY <1>1, <1>2, <1>3 DEF ScmInv

(* Every step keeps the types.                                             *)
LEMMA TypesAreKept == ScmInv /\ ScmNext => ScmTypeOK'
<1> SUFFICES ASSUME ScmInv, ScmNext PROVE ScmTypeOK'
  OBVIOUS
<1>1. ScmTypeOK /\ <<scm.op, scm.v8>> \in FlushedOps
  BY DEF ScmInv
<1>2. /\ scm.todo \in Seq(ScmSteps) /\ <<>> \in Seq(ScmSteps)
      /\ scm.todo # <<>> => Tail(scm.todo) \in Seq(ScmSteps) /\ Now \in ScmSteps
  BY <1>1, HeadTailProperties DEF ScmTypeOK, Now
<1>3. NoLine \in [state : {"none", "clean", "dirty"}, value : Writers]
  BY DEF NoLine, Writers
<1>4. ASSUME Advance, scm.todo # <<>>
      PROVE  scm' \in [asked : Names, op : Names, v8 : BOOLEAN, todo : Seq(ScmSteps),
                       ret : {0, 1}, last : {"call", "after", "end"}, secured : BOOLEAN]
  BY <1>1, <1>2, <1>4 DEF Advance, ScmTypeOK
<1>5. CASE FillBuffers
  <2>1. cache' \in [Buffers -> [state : {"none", "clean", "dirty"}, value : Writers]]
    BY <1>1, <1>5 DEF FillBuffers, ScmTypeOK, Writers
  <2>2. mem' \in [Buffers -> Writers] /\ latest' \in [Buffers -> Writers]
    BY <1>1, <1>5 DEF FillBuffers, ScmTypeOK, Writers
  <2> QED
    BY <1>4, <1>5, <2>1, <2>2 DEF FillBuffers, ScmTypeOK, Doing
<1>6. ASSUME NEW S
      PROVE  /\ WrittenBack(S) \in [Buffers -> Writers]
             /\ Dropped(S) \in [Buffers -> [state : {"none", "clean", "dirty"}, value : Writers]]
  BY <1>1, <1>3 DEF WrittenBack, Dropped, ScmTypeOK
<1>7. CASE CleanInvalidate
  BY <1>1, <1>4, <1>6, <1>7 DEF CleanInvalidate, ScmTypeOK, Doing
<1>8. CASE Invalidate
  BY <1>1, <1>4, <1>6, <1>8 DEF Invalidate, ScmTypeOK, Doing
<1>9. CASE SecureWorld
  <2>1. scm' \in [asked : Names, op : Names, v8 : BOOLEAN, todo : Seq(ScmSteps),
                  ret : {0, 1}, last : {"call", "after", "end"}, secured : BOOLEAN]
    BY ZenonT(60), <1>1, <1>2, <1>9 DEF SecureWorld, ScmTypeOK, Doing
  <2>2. mem' \in [Buffers -> Writers] /\ latest' \in [Buffers -> Writers]
    <3>1. \/ UNCHANGED <<mem, latest>>
          \/ \E w : /\ mem' = [b \in Buffers |-> IF b \in w THEN "secure" ELSE mem[b]]
                    /\ latest' = [b \in Buffers |-> IF b \in w THEN "secure" ELSE latest[b]]
      BY <1>9 DEF SecureWorld
    <3> QED
      BY <1>1, <3>1 DEF ScmTypeOK, Writers
  <2> QED
    BY <1>1, <1>9, <2>1, <2>2 DEF SecureWorld, ScmTypeOK
<1>10. CASE Responds
  BY <1>1, <1>10 DEF Responds, ScmTypeOK, Writers
<1>11. CASE PollFlag
  <2>1. cache' \in [Buffers -> [state : {"none", "clean", "dirty"}, value : Writers]]
    BY <1>1, <1>3, <1>11 DEF PollFlag, ScmTypeOK
  <2> QED
    BY <1>1, <1>4, <1>11, <2>1 DEF PollFlag, ScmTypeOK, Doing, Advance
<1>12. CASE UseBuffers
  BY <1>1, <1>4, <1>12 DEF UseBuffers, ScmTypeOK, Doing
<1>13. CASE EndCall
  <2>2. KeepsTheRule(scm.op, scm.v8) /\ scm.v8 \in BOOLEAN
    BY <1>1, FlushedCallsKeepTheRule DEF ScmTypeOK
  <2>3. CASE scm.last = "call"
    <3>1. PICK t \in Seq(ScmSteps) : scm' = [scm EXCEPT !.last = "after", !.todo = t]
      <4>1. CASE scm.ret = 0
        BY <1>13, <2>2, <2>3, <4>1 DEF EndCall, KeepsTheRule
      <4>2. CASE scm.ret # 0
        <5>1. OperationOf(scm.op, scm.v8, FALSE).after \in Seq(ScmSteps)
          BY <2>2 DEF KeepsTheRule
        <5>2. /\ OperationOf(scm.op, scm.v8, FALSE).after \o <<>>
                   = OperationOf(scm.op, scm.v8, FALSE).after
          BY <5>1, ConcatEmptySeq
        <5>3. scm' = [scm EXCEPT !.last = "after",
                        !.todo = OperationOf(scm.op, scm.v8, FALSE).after \o <<>>]
          BY <1>13, <2>3, <4>2 DEF EndCall
        <5> QED
          BY <5>1, <5>2, <5>3
      <4> QED
        BY <4>1, <4>2
    <3> QED
      BY <1>1, <1>13, <3>1 DEF EndCall, ScmTypeOK
  <2>4. CASE scm.last # "call"
    <3>1. PICK op \in NextOp(scm.op, scm.ret = 0) :
            scm' = IF op = "none" THEN [scm EXCEPT !.last = "end"]
                   ELSE [scm EXCEPT !.op = op, !.last = "call",
                            !.todo = OperationOf(op, scm.v8, TRUE).before]
      BY <1>13, <2>4 DEF EndCall
    <3>2. op # "none" => <<op, scm.v8>> \in FlushedOps
      BY <1>1, <2>2, NextOpsAreFlushed
    <3>3. op # "none" => op \in Names /\ OperationOf(op, scm.v8, TRUE).before \in Seq(ScmSteps)
      BY <2>2, <3>2, FlushedOpsAreNamed, FlushedCallsKeepTheRule DEF KeepsTheRule
    <3> QED
      BY <1>1, <1>13, <3>1, <3>3 DEF EndCall, ScmTypeOK
  <2> QED
    BY <2>3, <2>4
<1>14. CASE Fetch
  <2>1. PICK b \in Buffers :
          cache' = [cache EXCEPT ![b] = [state |-> "clean", value |-> mem[b]]]
    BY <1>14 DEF Fetch
  <2>2. [state |-> "clean", value |-> mem[b]] \in [state : {"none", "clean", "dirty"}, value : Writers]
    BY <1>1 DEF ScmTypeOK
  <2>3. cache' \in [Buffers -> [state : {"none", "clean", "dirty"}, value : Writers]]
    BY <1>1, <2>1, <2>2 DEF ScmTypeOK
  <2> QED
    BY <1>1, <1>14, <2>3 DEF Fetch, ScmTypeOK
<1>15. CASE Evict
  BY <1>1, <1>6, <1>15 DEF Evict, ScmTypeOK
<1> QED
  BY <1>5, <1>7, <1>8, <1>9, <1>10, <1>11, <1>12, <1>13, <1>14, <1>15 DEF ScmNext

(* Every step, also of the cache and the secure world, keeps the rest safe.*)
LEMMA ScmInvStep == ScmInv /\ [ScmNext]_scmVars => ScmInv'
<1>1. CASE UNCHANGED scmVars
  BY <1>1 DEF scmVars, ScmInv, ScmTypeOK, SafeToGoOn, Known, Fresh, InMemory, Seen, ToCome
<1> SUFFICES ASSUME ScmInv, ScmNext PROVE ScmInv'
  BY <1>1
<1>2. ScmTypeOK /\ ScmTypeOK'
  BY TypesAreKept DEF ScmInv
<1>3. \A b \in Buffers : cache[b].state \in {"none", "clean", "dirty"}
  BY <1>2 DEF ScmTypeOK
<1>4. Advance /\ scm.todo # <<>>
        => /\ scm'.op = scm.op /\ scm'.v8 = scm.v8 /\ scm'.last = scm.last
           /\ scm'.todo = Tail(scm.todo)
  BY <1>2 DEF Advance, ScmTypeOK
<1>5. CASE FillBuffers
  <2>1. ASSUME NEW F \in SUBSET Buffers, NEW M \in SUBSET Buffers, NEW F1 \in SUBSET Buffers,
               NEW M1 \in SUBSET Buffers, Known(F, M), StepKeeps(Now, F, M, F1, M1)
        PROVE  Known(F1, M1)'
    <3>1. F1 \subseteq F \cup Now.on /\ M1 \subseteq M \ Now.on
      BY <1>5, <2>1 DEF StepKeeps, FillBuffers, Doing
    <3> QED
      BY <1>5, <2>1, <3>1 DEF FillBuffers, Known, Fresh, InMemory, Seen
  <2> QED
    BY <1>2, <1>4, <1>5, <2>1, StepGoesOn DEF FillBuffers, Doing
<1>6. CASE CleanInvalidate
  <2>1. ASSUME NEW F \in SUBSET Buffers, NEW M \in SUBSET Buffers, NEW F1 \in SUBSET Buffers,
               NEW M1 \in SUBSET Buffers, Known(F, M), StepKeeps(Now, F, M, F1, M1)
        PROVE  Known(F1, M1)'
    <3>1. F1 \subseteq F \cup (M \cap Now.on) /\ M1 \subseteq M \cup (F \cap Now.on)
      BY <1>6, <2>1 DEF StepKeeps, CleanInvalidate, Doing
    <3> QED
      BY <1>3, <1>6, <2>1, <3>1
      DEF CleanInvalidate, WrittenBack, Dropped, NoLine, Known, Fresh, InMemory, Seen
  <2> QED
    BY <1>2, <1>4, <1>6, <2>1, StepGoesOn DEF CleanInvalidate, Doing
<1>7. CASE Invalidate
  <2>1. ASSUME NEW F \in SUBSET Buffers, NEW M \in SUBSET Buffers, NEW F1 \in SUBSET Buffers,
               NEW M1 \in SUBSET Buffers, Known(F, M), StepKeeps(Now, F, M, F1, M1)
        PROVE  Known(F1, M1)'
    <3>1. F1 \subseteq (F \ Now.on) \cup (M \cap Now.on) /\ M1 \subseteq M
      BY <1>7, <2>1 DEF StepKeeps, Invalidate, Doing
    <3> QED
      BY <1>3, <1>7, <2>1, <3>1 DEF Invalidate, Dropped, NoLine, Known, Fresh, InMemory, Seen
  <2> QED
    BY <1>2, <1>4, <1>7, <2>1, StepGoesOn DEF Invalidate, Doing
<1>8. CASE UseBuffers
  <2>1. ASSUME NEW F \in SUBSET Buffers, NEW M \in SUBSET Buffers, NEW F1 \in SUBSET Buffers,
               NEW M1 \in SUBSET Buffers, Known(F, M), StepKeeps(Now, F, M, F1, M1)
        PROVE  Known(F1, M1)'
    <3>1. F1 \subseteq F /\ M1 \subseteq M
      BY <1>8, <2>1 DEF StepKeeps, UseBuffers, Doing
    <3> QED
      BY <1>8, <2>1, <3>1 DEF UseBuffers, Known, Fresh, InMemory, Seen
  <2> QED
    BY <1>2, <1>4, <1>8, <2>1, StepGoesOn DEF UseBuffers, Doing
<1>9. CASE SecureWorld
  <2> DEFINE w == Now.to \ {"rsp", "flag"}
  <2>1. CASE /\ \E bits \in BOOLEAN :
                  scm' = [scm EXCEPT !.todo = Tail(@), !.ret = 0,
                            !.secured = IF scm.op = "check_boot_fuses" THEN bits ELSE @]
             /\ mem'    = [b \in Buffers |-> IF b \in w THEN "secure" ELSE mem[b]]
             /\ latest' = [b \in Buffers |-> IF b \in w THEN "secure" ELSE latest[b]]
    <3>1. ASSUME NEW F \in SUBSET Buffers, NEW M \in SUBSET Buffers, NEW F1 \in SUBSET Buffers,
                 NEW M1 \in SUBSET Buffers, Known(F, M), StepKeeps(Now, F, M, F1, M1)
          PROVE  Known(F1, M1)'
      <4>1. F1 \subseteq F \ w /\ M1 \subseteq M
        BY <1>9, <3>1 DEF StepKeeps, SecureWorld, Doing
      <4>2. UNCHANGED cache
        BY <1>9 DEF SecureWorld
      <4> HIDE DEF w
      <4> QED
        BY <2>1, <3>1, <4>1, <4>2 DEF Known, Fresh, InMemory, Seen
    <3>2. /\ scm'.op = scm.op /\ scm'.v8 = scm.v8 /\ scm'.last = scm.last
          /\ scm'.todo = Tail(scm.todo)
      BY <1>2, <2>1 DEF ScmTypeOK
    <3>3. scm.todo # <<>>
      BY <1>9 DEF SecureWorld, Doing
    <3> QED
      BY <1>2, <3>1, <3>2, <3>3, StepGoesOn
  <2>2. CASE scm' = [scm EXCEPT !.todo = <<>>, !.ret = IF scm.op = "check_boot_fuses" THEN 0 ELSE 1,
                                !.secured = TRUE]
    <3>1. /\ scm'.op = scm.op /\ scm'.v8 = scm.v8 /\ scm'.last = scm.last /\ scm'.todo = <<>>
          /\ scm.op # "check_boot_fuses" => scm'.ret = 1
      BY <1>2, <2>2 DEF ScmTypeOK
    <3>2. CASE scm.op = "check_boot_fuses" \/ scm.last # "call"
      <4>1. ToCome(scm') = <<>>
        <5>1. CASE scm.last # "call"
          BY <3>1, <5>1 DEF ToCome
        <5>2. CASE scm.op = "check_boot_fuses"
          <6>1. Bare(OperationOf(scm.op, scm.v8, TRUE))
            <7>1. scm.v8 \in BOOLEAN /\ <<scm.op, scm.v8>> \in FlushedOps /\ TRUE \in BOOLEAN
              BY <1>2 DEF ScmTypeOK, ScmInv
            <7> QED
              BY <5>2, <7>1, SimpleCalls
          <6> QED
            BY <3>1, <6>1, EmptyFollows DEF Bare, ToCome
        <5> QED
          BY <3>2, <5>1, <5>2
      <4>2. Known({}, {})' /\ {} \in SUBSET Buffers
        BY DEF Known
      <4>3. SafeToGoOn'
        BY <4>1, <4>2, EmptyFollows DEF SafeToGoOn
      <4> QED
        BY <1>2, <3>1, <4>3 DEF ScmInv
    <3>3. CASE scm.op # "check_boot_fuses" /\ scm.last = "call"
      BY <1>2, <3>1, <3>3 DEF ScmInv
    <3> QED
      BY <3>2, <3>3
  <2> QED
    BY <1>9, <2>1, <2>2 DEF SecureWorld
<1>10. CASE Responds
  <2>1. ASSUME NEW F \in SUBSET Buffers, NEW M \in SUBSET Buffers, Known(F, M),
               NEW F1 \in SUBSET Buffers, NEW M1 \in SUBSET Buffers, StepKeeps(Now, F, M, F1, M1)
        PROVE  Known(F, M)'
    <3>1. {"rsp", "flag"} \subseteq M \ F
      BY <1>10, <2>1 DEF StepKeeps, Responds, Doing
    <3> QED
      BY <1>2, <1>10, <2>1, <3>1 DEF Responds, ScmTypeOK, Known, Fresh, InMemory, Seen
  <2>2. scm.todo # <<>> /\ UNCHANGED scm
    BY <1>10 DEF Responds, Doing
  <2> QED
    BY <1>2, <2>1, <2>2, StepWaits
<1>11. CASE PollFlag
  <2>1. ASSUME NEW F \in SUBSET Buffers, NEW M \in SUBSET Buffers, Known(F, M),
               NEW F1 \in SUBSET Buffers, NEW M1 \in SUBSET Buffers, StepKeeps(Now, F, M, F1, M1)
        PROVE  Known(F, M)' /\ Known(F1, M1)'
    <3>1. {"rsp", "flag"} \subseteq M \ F /\ F1 \subseteq F /\ M1 \subseteq M
      BY <1>11, <2>1 DEF StepKeeps, PollFlag, Doing
    <3> QED
      BY <1>2, <1>11, <2>1, <3>1 DEF PollFlag, NoLine, ScmTypeOK, Known, Fresh, InMemory, Seen
  <2>2. scm.todo # <<>>
    BY <1>11 DEF PollFlag, Doing
  <2>3. CASE mem["flag"] = "secure"
    <3>1. Advance
      BY <1>11, <2>3 DEF PollFlag, Advance
    <3> QED
      BY <1>2, <1>4, <2>1, <2>2, <3>1, StepGoesOn
  <2>4. CASE mem["flag"] # "secure"
    <3>1. UNCHANGED scm
      BY <1>11, <2>4 DEF PollFlag
    <3> QED
      BY <1>2, <2>1, <2>2, <3>1, StepWaits
  <2> QED
    BY <2>3, <2>4
<1>12. CASE Fetch \/ Evict
  <2>1. ASSUME NEW F \in SUBSET Buffers, NEW M \in SUBSET Buffers, Known(F, M)
        PROVE  Known(F, M)'
    <3>1. CASE Fetch
      BY <1>2, <2>1, <3>1 DEF Fetch, ScmTypeOK, Known, Fresh, InMemory, Seen
    <3>2. CASE Evict
      BY <1>3, <2>1, <3>2
      DEF Evict, WrittenBack, Dropped, NoLine, Known, Fresh, InMemory, Seen
    <3> QED
      BY <1>12, <3>1, <3>2
  <2>2. UNCHANGED scm
    BY <1>12 DEF Fetch, Evict
  <2> QED
    BY <1>2, <2>1, <2>2, StepWaits
<1>13. CASE EndCall
  <2>0. /\ scm.todo = <<>> /\ scm.v8 \in BOOLEAN /\ <<scm.op, scm.v8>> \in FlushedOps
        /\ scm.ret \in {0, 1} /\ UNCHANGED <<mem, cache, latest>>
    BY <1>2, <1>13 DEF EndCall, ScmTypeOK, ScmInv
  <2>1. KeepsTheRule(scm.op, scm.v8)
    BY <2>0, FlushedCallsKeepTheRule
  <2>none. \A F, M \in SUBSET Buffers : Known(F, M) => Known(F, M)'
    BY <2>0 DEF Known, Fresh, InMemory, Seen
  <2>empty. Known({}, {}) /\ {} \in SUBSET Buffers
    BY DEF Known
  <2>2. CASE scm.last = "call" /\ scm.ret = 0
    <3>1. PICK F, M \in SUBSET Buffers :
            Known(F, M) /\ \E F2, M2 : Follows(ToCome(scm), F, M, F2, M2)
      BY <2>2 DEF ScmInv, SafeToGoOn
    <3>2. PICK done : done = OperationOf(scm.op, scm.v8, TRUE)
      OBVIOUS
    <3>3. done.after \o done.results \in Seq(ScmSteps)
      BY <2>1, <3>2 DEF KeepsTheRule
    <3>4. ToCome(scm) = done.after \o done.results
      BY <2>0, <2>2, <3>2, <3>3, ConcatEmptySeq DEF ToCome
    <3>5. scm' = [scm EXCEPT !.last = "after", !.todo = done.after \o done.results]
      BY <1>13, <2>2, <3>2 DEF EndCall
    <3>6. ToCome(scm') = ToCome(scm) /\ scm'.op = scm.op /\ scm'.v8 = scm.v8
      BY <1>2, <3>4, <3>5 DEF ToCome, ScmTypeOK
    <3>7. SafeToGoOn'
      BY <2>none, <3>1, <3>6 DEF SafeToGoOn
    <3> QED
      BY <1>2, <2>0, <3>6, <3>7 DEF ScmInv
  <2>3. CASE scm.last = "call" /\ scm.ret # 0
    <3>1. PICK after : after = OperationOf(scm.op, scm.v8, FALSE).after
      OBVIOUS
    <3>2. after \in Seq(ScmSteps) /\ \E F, M : Follows(after, {}, {}, F, M)
      BY <2>1, <3>1 DEF KeepsTheRule
    <3>3. scm' = [scm EXCEPT !.last = "after", !.todo = after \o <<>>]
      BY <1>13, <2>3, <3>1 DEF EndCall
    <3>4. ToCome(scm') = after /\ scm'.op = scm.op /\ scm'.v8 = scm.v8
      BY <1>2, <3>2, <3>3, ConcatEmptySeq DEF ToCome, ScmTypeOK
    <3>5. SafeToGoOn'
      BY <2>none, <2>empty, <3>2, <3>4 DEF SafeToGoOn
    <3> QED
      BY <1>2, <2>0, <3>4, <3>5 DEF ScmInv
  <2>4. CASE scm.last # "call"
    <3>1. PICK op \in NextOp(scm.op, scm.ret = 0) :
            scm' = IF op = "none" THEN [scm EXCEPT !.last = "end"]
                   ELSE [scm EXCEPT !.op = op, !.last = "call",
                            !.todo = OperationOf(op, scm.v8, TRUE).before]
      BY <1>13, <2>4 DEF EndCall
    <3>2. CASE op = "none"
      <4>1. scm'.op = scm.op /\ scm'.v8 = scm.v8 /\ scm'.todo = <<>> /\ scm'.last = "end"
        BY <1>2, <2>0, <3>1, <3>2 DEF ScmTypeOK
      <4>2. ToCome(scm') = <<>>
        BY <4>1 DEF ToCome
      <4>3. SafeToGoOn'
        BY <2>none, <2>empty, <4>2, EmptyFollows DEF SafeToGoOn
      <4> QED
        BY <1>2, <2>0, <4>1, <4>3 DEF ScmInv
    <3>3. CASE op # "none"
      <4>1. <<op, scm.v8>> \in FlushedOps
        BY <2>0, <3>3, NextOpsAreFlushed
      <4>2. KeepsTheRule(op, scm.v8)
        BY <2>0, <4>1, FlushedCallsKeepTheRule
      <4>3. PICK done : done = OperationOf(op, scm.v8, TRUE)
        OBVIOUS
      <4>4. scm' = [scm EXCEPT !.op = op, !.last = "call", !.todo = done.before]
        BY <3>1, <3>3, <4>3
      <4>5. /\ scm'.op = op /\ scm'.v8 = scm.v8 /\ scm'.last = "call" /\ scm'.todo = done.before
        BY <1>2, <4>4 DEF ScmTypeOK
      <4>6. ToCome(scm') = Whole(done)
        BY <4>3, <4>5 DEF ToCome, Whole
      <4>7. \E F, M : Follows(Whole(done), {}, {}, F, M)
        BY <4>2, <4>3 DEF KeepsTheRule
      <4>8. SafeToGoOn'
        BY <2>none, <2>empty, <4>6, <4>7 DEF SafeToGoOn
      <4> QED
        BY <1>2, <4>1, <4>5, <4>8 DEF ScmInv
    <3> QED
      BY <3>2, <3>3
  <2> QED
    BY <2>2, <2>3, <2>4
<1> QED
  BY <1>5, <1>6, <1>7, <1>8, <1>9, <1>10, <1>11, <1>12, <1>13 DEF ScmNext

(* EachWorldReadsTheOther: whatever the cache takes in or throws out       *)
(* meanwhile, and whenever the secure world answers or refuses, the flushed*)
(* calls never let one world read what the other has not put there.        *)
THEOREM FlushedCallsAreSafe ==
  ScmSpec /\ Calls \subseteq FlushedCalls => []EachWorldReadsTheOther
<1>1. ScmInv => EachWorldReadsTheOther
  BY ScmInvIsEnough
<1> QED
  BY ScmInvInit, ScmInvStep, <1>1, PTL DEF ScmSpec

-----------------------------------------------------------------------------
(* The timer: a free running counter that wraps.                           *)

USE TimerDelayAssumption DEF TimerDelayAssumption

(* Where the counter stands after it ran past its end once at most.        *)
Wrapped(a) == IF a < CounterSize THEN a ELSE a - CounterSize

(* What the remainders of the code are then.                               *)
LEMMA WrapOnce ==
  \A a \in Nat : a < 2 * CounterSize => a % CounterSize = Wrapped(a)
BY DEF Wrapped

(* A reading is below the counter's size.                                  *)
Count == 0..(CounterSize - 1)
(* Whatever the counter is at.                                             *)
LEMMA Reading == \A a \in Nat : a % CounterSize \in Count
BY DEF Count

-----------------------------------------------------------------------------

DelayTypeOK ==
  delay \in [pc : {"idle", "wrap", "count", "done"}, ticks : 0..MaxTicks,
             count : Count, init : Count, timeout : Count, elapsed : Nat]

(* As long as it matters the driver knows how much time has passed.        *)
CountTellsTime ==
  delay.init + delay.elapsed < 2 * CounterSize
    => delay.count = Wrapped(delay.init + delay.elapsed)
TimeoutIsWrapped == delay.pc # "idle" => delay.timeout = Wrapped(delay.init + delay.ticks)

(* The first loop is not left before the counter has wrapped, if the       *)
(* timeout lies behind that.                                               *)
WrapWasAwaited ==
  delay.pc = "count" /\ delay.init + delay.ticks >= CounterSize
    => delay.init + delay.elapsed >= CounterSize

DelayInv == /\ DelayTypeOK /\ CountTellsTime /\ TimeoutIsWrapped
            /\ WrapWasAwaited /\ DelayIsLongEnough

(* Any reading is a place to start from.                                   *)
LEMMA DelayInvInit == TimerDelayInit => DelayInv
BY DEF TimerDelayInit, DelayInv, DelayTypeOK, Count, CountTellsTime, Wrapped,
       TimeoutIsWrapped, WrapWasAwaited, DelayIsLongEnough

(* Reading the counter again keeps count of the time.                      *)
LEMMA PollKeepsTime ==
  ASSUME DelayTypeOK, CountTellsTime, NEW gap \in 0..MaxGap,
         delay' = Poll(delay, gap)
  PROVE  /\ DelayTypeOK' /\ CountTellsTime'
         /\ delay'.pc = delay.pc /\ delay'.init = delay.init
         /\ delay'.ticks = delay.ticks /\ delay'.timeout = delay.timeout
         /\ delay'.elapsed >= delay.elapsed
<1>1. /\ delay.count + gap \in Nat /\ delay.init + delay.elapsed \in Nat
      /\ delay.elapsed \in Nat /\ delay.init \in Count /\ delay.count \in Count
  BY DEF DelayTypeOK, Count
<1>2. delay' = [delay EXCEPT !.count = (delay.count + gap) % CounterSize,
                             !.elapsed = delay.elapsed + gap]
  BY DEF Poll
<1> DEFINE reading == (delay.count + gap) % CounterSize
<1>3. reading \in Count
  BY <1>1, Reading
<1>4. delay' = [delay EXCEPT !.count = reading, !.elapsed = delay.elapsed + gap]
  BY <1>2
<1> HIDE DEF reading
<1>5. /\ delay'.count = reading /\ delay'.elapsed = delay.elapsed + gap
      /\ delay'.pc = delay.pc /\ delay'.init = delay.init
      /\ delay'.ticks = delay.ticks /\ delay'.timeout = delay.timeout
  BY <1>4 DEF DelayTypeOK
<1>6. DelayTypeOK'
  <2>1. delay.elapsed + gap \in Nat
    BY <1>1
  <2> QED
    BY <1>3, <1>4, <2>1 DEF DelayTypeOK
<1>7. CountTellsTime'
  <2>1. SUFFICES ASSUME delay.init + delay.elapsed + gap < 2 * CounterSize
                 PROVE  delay'.count = Wrapped(delay.init + delay.elapsed + gap)
    <3>1. delay'.init + delay'.elapsed = delay.init + delay.elapsed + gap
      BY <1>1, <1>5 DEF Count
    <3> QED
      BY <3>1 DEF CountTellsTime
  <2>2. delay.count = Wrapped(delay.init + delay.elapsed)
    BY <1>1, <2>1 DEF CountTellsTime
  <2>3. delay.count + gap < 2 * CounterSize
    BY <1>1, <2>1, <2>2 DEF Wrapped, Count
  <2>4. delay'.count = Wrapped(delay.count + gap)
    BY <1>1, <1>5, <2>3, WrapOnce DEF reading
  <2> QED
    BY <1>1, <2>1, <2>2, <2>4 DEF Wrapped, Count
<1> QED
  BY <1>1, <1>5, <1>6, <1>7

(* One step per action of the delay.                                       *)
LEMMA DelayInvStep == DelayInv /\ [TimerDelayNext]_delayVars => DelayInv'
<1> SUFFICES ASSUME DelayInv, [TimerDelayNext]_delayVars PROVE DelayInv'
  OBVIOUS
<1>t. /\ delay.pc \in {"idle", "wrap", "count", "done"}
      /\ delay.ticks \in 0..MaxTicks /\ delay.elapsed \in Nat
      /\ delay.count \in Count /\ delay.init \in Count /\ delay.timeout \in Count
  BY DEF DelayInv, DelayTypeOK
<1>1. CASE MicroSecondDelay
  <2>1. PICK ticks \in 0..MaxTicks :
          delay' = [delay EXCEPT !.pc = "wrap", !.ticks = ticks, !.init = delay.count,
                      !.timeout = (delay.count + ticks) % CounterSize, !.elapsed = 0]
    BY <1>1 DEF MicroSecondDelay
  <2>2. /\ delay.count + ticks \in Nat /\ delay.count + ticks < 2 * CounterSize
    BY <1>t DEF Count
  <2>3. (delay.count + ticks) % CounterSize \in Count
    BY <2>2, Reading
  <2>4. (delay.count + ticks) % CounterSize = Wrapped(delay.count + ticks)
    BY <2>2, WrapOnce
  <2>5. /\ delay'.pc = "wrap" /\ delay'.ticks = ticks /\ delay'.init = delay.count
        /\ delay'.timeout = (delay.count + ticks) % CounterSize
        /\ delay'.elapsed = 0 /\ delay'.count = delay.count
    BY <2>1 DEF DelayInv, DelayTypeOK
  <2>6. DelayTypeOK'
    BY <1>t, <2>1, <2>3 DEF DelayInv, DelayTypeOK
  <2> QED
    BY <1>t, <2>2, <2>4, <2>5, <2>6
    DEF DelayInv, CountTellsTime, TimeoutIsWrapped, WrapWasAwaited, DelayIsLongEnough,
        Wrapped, Count
<1>2. ASSUME NEW gap \in 0..MaxGap, delay' = Poll(delay, gap), delay.pc \in {"wrap", "count"}
      PROVE  DelayInv'
  <2>1. /\ DelayTypeOK' /\ CountTellsTime'
        /\ delay'.pc = delay.pc /\ delay'.init = delay.init
        /\ delay'.ticks = delay.ticks /\ delay'.timeout = delay.timeout
        /\ delay'.elapsed >= delay.elapsed
    BY <1>2, PollKeepsTime DEF DelayInv
  <2>2. delay'.elapsed \in Nat
    BY <2>1 DEF DelayTypeOK
  <2> QED
    BY <1>t, <1>2, <2>1, <2>2
    DEF DelayInv, TimeoutIsWrapped, WrapWasAwaited, DelayIsLongEnough, Wrapped, Count
<1>3. CASE WaitForWrap
  <2>1. CASE StaysInFirst(delay)
    BY <1>2, <1>3, <2>1 DEF WaitForWrap
  <2>2. CASE ~StaysInFirst(delay)
    <3>1. delay' = [delay EXCEPT !.pc = "count"] /\ delay.pc = "wrap"
      BY <1>3, <2>2 DEF WaitForWrap
    <3>2. /\ delay'.pc = "count" /\ delay'.ticks = delay.ticks /\ delay'.init = delay.init
          /\ delay'.timeout = delay.timeout /\ delay'.count = delay.count
          /\ delay'.elapsed = delay.elapsed
      BY <3>1 DEF DelayInv, DelayTypeOK
    <3>3. DelayTypeOK'
      BY <3>1 DEF DelayInv, DelayTypeOK
    <3>4. delay.init + delay.ticks >= CounterSize
            => delay.init + delay.elapsed >= CounterSize
      <4> SUFFICES ASSUME delay.init + delay.ticks >= CounterSize,
                          delay.init + delay.elapsed < CounterSize
                   PROVE  FALSE
        BY <1>t DEF Count
      <4>1. delay.count = delay.init + delay.elapsed
        BY <1>t DEF DelayInv, CountTellsTime, Wrapped, Count
      <4>2. delay.timeout = delay.init + delay.ticks - CounterSize
        BY <1>t, <3>1 DEF DelayInv, TimeoutIsWrapped, Wrapped, Count
      <4> QED
        BY <1>t, <2>2, <4>1, <4>2 DEF StaysInFirst, Count
    <3> QED
      BY <1>t, <3>1, <3>2, <3>3, <3>4
      DEF DelayInv, CountTellsTime, TimeoutIsWrapped, WrapWasAwaited, DelayIsLongEnough
  <2> QED
    BY <2>1, <2>2
<1>4. CASE WaitForCount
  <2>1. CASE delay.timeout > delay.count
    BY <1>2, <1>4, <2>1 DEF WaitForCount
  <2>2. CASE ~(delay.timeout > delay.count)
    <3>1. delay' = [delay EXCEPT !.pc = "done"] /\ delay.pc = "count"
      BY <1>4, <2>2 DEF WaitForCount
    <3>2. /\ delay'.pc = "done" /\ delay'.ticks = delay.ticks /\ delay'.init = delay.init
          /\ delay'.timeout = delay.timeout /\ delay'.count = delay.count
          /\ delay'.elapsed = delay.elapsed
      BY <3>1 DEF DelayInv, DelayTypeOK
    <3>3. DelayTypeOK'
      BY <3>1 DEF DelayInv, DelayTypeOK
    <3>4. delay.elapsed >= delay.ticks
      <4> SUFFICES ASSUME delay.elapsed < delay.ticks PROVE FALSE
        BY <1>t
      <4>1. delay.count = Wrapped(delay.init + delay.elapsed)
        BY <1>t DEF DelayInv, CountTellsTime, Count
      <4>2. delay.timeout = Wrapped(delay.init + delay.ticks)
        BY <3>1 DEF DelayInv, TimeoutIsWrapped
      <4>3. delay.init + delay.ticks >= CounterSize
              => delay.init + delay.elapsed >= CounterSize
        BY <3>1 DEF DelayInv, WrapWasAwaited
      <4> QED
        BY <1>t, <2>2, <4>1, <4>2, <4>3 DEF Wrapped, Count
    <3> QED
      BY <1>t, <3>1, <3>2, <3>3, <3>4
      DEF DelayInv, CountTellsTime, TimeoutIsWrapped, WrapWasAwaited, DelayIsLongEnough
  <2> QED
    BY <2>1, <2>2
<1>5. CASE UNCHANGED delayVars
  BY <1>5
  DEF delayVars, DelayInv, DelayTypeOK, CountTellsTime, TimeoutIsWrapped, WrapWasAwaited,
      DelayIsLongEnough
<1> QED
  BY <1>1, <1>3, <1>4, <1>5 DEF TimerDelayNext

(* DelayIsLongEnough: MicroSecondDelay does not return before its ticks    *)
(* are over, also when the counter wraps meanwhile and however late it is  *)
(* read.                                                                   *)
THEOREM DelaysAreLongEnough == TimerDelaySpec => []DelayIsLongEnough
<1>1. DelayInv => DelayIsLongEnough
  BY DEF DelayInv
<1> QED
  BY DelayInvInit, DelayInvStep, <1>1, PTL DEF TimerDelaySpec

-----------------------------------------------------------------------------
(* The search for the registers of a pulse width.                         *)

(* Every set of naturals has a least one.                                  *)
LEMMA LeastNatural ==
  ASSUME NEW T, T \subseteq Nat, T # {}
  PROVE  \E x \in T : \A y \in T : x <= y
<1>1. IsWellFoundedOn(OpToRel(<, Nat), Nat)
  BY NatLessThanWellFounded
<1>2. PICK x \in T : \A y \in T : ~ (<<y, x>> \in OpToRel(<, Nat))
  BY <1>1, WFMin
<1>3. \A y \in T : ~(y < x)
  BY <1>2 DEF OpToRel
<1> QED
  BY <1>3

(* Hence induction, for a property given as the set of what has it.        *)
LEMMA UpToN ==
  ASSUME NEW N \in Nat, NEW T, 0 \in T,
         \A m \in 1..N : m - 1 \in T => m \in T
  PROVE  0..N \subseteq T
<1> DEFINE Bad == (0..N) \ T
<1>1. SUFFICES ASSUME Bad # {} PROVE FALSE
  OBVIOUS
<1>2. PICK m \in Bad : \A k \in Bad : m <= k
  <2>1. Bad \subseteq Nat
    OBVIOUS
  <2> HIDE DEF Bad
  <2> QED
    BY <1>1, <2>1, LeastNatural
<1>3. m \in 1..N /\ m - 1 \in 0..N /\ ~(m <= m - 1)
  BY <1>2
<1>4. m - 1 \in T
  BY <1>2, <1>3
<1> QED
  BY <1>2, <1>3, <1>4

LEMMA LeastIsTaken ==
  ASSUME NEW T, T \subseteq Nat, T # {}
  PROVE  PwmMin(T) \in T /\ \A y \in T : PwmMin(T) <= y
BY LeastNatural DEF PwmMin

(* tmp_p is defined for every number of turns, and a natural.              *)
LEMMA TurnsAreDefined ==
  ASSUME NEW p \in Nat, NEW step \in [Nat -> Nat]
  PROVE  /\ Turns(p, step) \in [0..PwmMaxExp -> Nat]
         /\ Turns(p, step)[0] = p
         /\ \A m \in 1..PwmMaxExp : Turns(p, step)[m] = step[Turns(p, step)[m - 1]]
<1> DEFINE Is(h, n) == h = [m \in 0..n |-> IF m = 0 THEN p ELSE step[h[m - 1]]]
           Computed  == {n \in 0..PwmMaxExp : \E h : Is(h, n) /\ h[n] \in Nat}
           t == Turns(p, step)
<1>1. PwmMaxExp \in Nat
  BY PwmAssumption
<1>2. 0 \in Computed
  <2> DEFINE g == [m \in 0..0 |-> p]
  <2>1. Is(g, 0)
    OBVIOUS
  <2>2. g[0] \in Nat
    OBVIOUS
  <2> HIDE DEF Is, g
  <2> QED
    BY <2>1, <2>2, <1>1
<1>3. ASSUME NEW n \in 1..PwmMaxExp, n - 1 \in Computed PROVE n \in Computed
  <2>1. PICK h : Is(h, n - 1) /\ h[n - 1] \in Nat
    BY <1>3
  <2> DEFINE g == [m \in 0..n |-> IF m = n THEN step[h[n - 1]] ELSE h[m]]
  <2>2. ASSUME NEW m \in 0..n PROVE g[m] = IF m = 0 THEN p ELSE step[g[m - 1]]
    <3>1. CASE m = n
      BY <3>1
    <3>2. CASE m # n
      <4>1. m \in 0..(n - 1) /\ g[m] = h[m]
        BY <3>2
      <4>2. h[m] = IF m = 0 THEN p ELSE step[h[m - 1]]
        BY <4>1, <2>1
      <4>3. m # 0 => m - 1 \in 0..n /\ m - 1 # n
        BY <3>2
      <4> QED
        BY <4>1, <4>2, <4>3
    <3> QED
      BY <3>1, <3>2
  <2>3. Is(g, n)
    BY <2>2
  <2>4. g[n] \in Nat
    <3>1. h[n - 1] \in Nat
      <4> HIDE DEF Is
      <4> QED
        BY <2>1
    <3>2. g[n] = step[h[n - 1]]
      OBVIOUS
    <3> HIDE DEF g, Is
    <3> QED
      BY <3>1, <3>2
  <2>5. n \in 0..PwmMaxExp
    BY <1>1
  <2> HIDE DEF Is, g
  <2> QED
    BY <2>3, <2>4, <2>5
<1>4. 0..PwmMaxExp \subseteq Computed
  <2> HIDE DEF Computed
  <2> QED
    BY <1>1, <1>2, <1>3, UpToN
<1>5. Is(t, PwmMaxExp)
  <2>1. \E h : Is(h, PwmMaxExp)
    <3>1. PwmMaxExp \in Computed
      <4> HIDE DEF Computed
      <4> QED
        BY <1>1, <1>4
    <3> HIDE DEF Is
    <3> QED
      BY <3>1
  <2> QED
    BY <2>1 DEF Turns
<1> HIDE DEF t
<1>6. t[0] = p /\ \A m \in 1..PwmMaxExp : t[m] = step[t[m - 1]]
  <2>1. \A m \in 0..PwmMaxExp : t[m] = IF m = 0 THEN p ELSE step[t[m - 1]]
    BY ONLY <1>5
  <2> HIDE DEF Is
  <2> QED
    BY <1>1, <2>1
<1>7. 0..PwmMaxExp \subseteq {m \in 0..PwmMaxExp : t[m] \in Nat}
  <2> DEFINE T == {m \in 0..PwmMaxExp : t[m] \in Nat}
  <2>1. 0 \in T /\ \A m \in 1..PwmMaxExp : m - 1 \in T => m \in T
    BY <1>1, <1>6
  <2> HIDE DEF T
  <2> QED
    BY <1>1, <2>1, UpToN DEF T
<1> QED
  BY <1>5, <1>6, <1>7 DEF t

LEMMA HalvedDescends ==
  ASSUME NEW p \in Nat
  PROVE  /\ Halved(p) \in [0..PwmMaxExp -> Nat]
         /\ Halved(p)[0] = p
         /\ \A i, j \in 0..PwmMaxExp : i <= j => Halved(p)[j] <= Halved(p)[i]
<1> DEFINE h == Halved(p)
<1>0. PwmMaxExp \in Nat
  BY PwmAssumption
<1>1. /\ h \in [0..PwmMaxExp -> Nat] /\ h[0] = p
      /\ \A m \in 1..PwmMaxExp : h[m] = h[m - 1] \div 2
  <2> DEFINE step == [x \in Nat |-> x \div 2]
  <2>1. step \in [Nat -> Nat] /\ \A x \in Nat : step[x] = x \div 2
    OBVIOUS
  <2>2. h = Turns(p, step)
    BY DEF Halved
  <2> HIDE DEF step, h
  <2>3. /\ h \in [0..PwmMaxExp -> Nat] /\ h[0] = p
        /\ \A m \in 1..PwmMaxExp : h[m] = step[h[m - 1]]
    BY <2>1, <2>2, TurnsAreDefined
  <2>4. ASSUME NEW m \in 1..PwmMaxExp PROVE h[m - 1] \in Nat /\ h[m] = step[h[m - 1]]
    BY <1>0, <2>3
  <2> QED
    BY <2>1, <2>3, <2>4
<1> HIDE DEF h
<1>2. \A m \in 1..PwmMaxExp : h[m] <= h[m - 1]
  <2> SUFFICES ASSUME NEW m \in 1..PwmMaxExp PROVE h[m] <= h[m - 1]
    OBVIOUS
  <2>1. h[m] = h[m - 1] \div 2 /\ h[m - 1] \in Nat
    BY <1>0, <1>1
  <2> QED
    BY <2>1
<1>3. ASSUME NEW i \in 0..PwmMaxExp, NEW j \in 0..PwmMaxExp, i <= j
      PROVE  h[j] <= h[i]
  <2> DEFINE T == {k \in 0..PwmMaxExp : i <= k => h[k] <= h[i]}
  <2>1. 0 \in T
    BY <1>0, <1>1
  <2>2. ASSUME NEW k \in 1..PwmMaxExp, k - 1 \in T PROVE k \in T
    <3>1. CASE i < k
      <4>1. h[k - 1] <= h[i] /\ h[k] <= h[k - 1] /\ k - 1 \in 0..PwmMaxExp /\ k \in 0..PwmMaxExp
        BY <1>0, <1>2, <2>2, <3>1
      <4>2. h[k] \in Nat /\ h[k - 1] \in Nat /\ h[i] \in Nat
        BY <4>1, <1>1
      <4> QED
        BY <4>1, <4>2
    <3>2. CASE ~(i < k)
      BY <1>0, <1>1, <3>2
    <3> QED
      BY <3>1, <3>2
  <2>3. 0..PwmMaxExp \subseteq T
    <3> HIDE DEF T
    <3> QED
      BY <1>0, <2>1, <2>2, UpToN
  <2> QED
    BY <2>3, <1>3
<1> QED
  BY <1>1, <1>3 DEF h

LEMMA DoubledAscends ==
  ASSUME NEW p \in Nat
  PROVE  /\ Doubled(p) \in [0..PwmMaxExp -> Nat]
         /\ \A m \in 1..PwmMaxExp : Doubled(p)[m] = 2 * Doubled(p)[m - 1]
         /\ \A i, j \in 0..PwmMaxExp : i <= j => Doubled(p)[i] <= Doubled(p)[j]
<1> DEFINE h == Doubled(p)
<1>0. PwmMaxExp \in Nat
  BY PwmAssumption
<1>1. /\ h \in [0..PwmMaxExp -> Nat] /\ h[0] = p
      /\ \A m \in 1..PwmMaxExp : h[m] = 2 * h[m - 1]
  <2> DEFINE step == [x \in Nat |-> 2 * x]
  <2>1. step \in [Nat -> Nat] /\ \A x \in Nat : step[x] = 2 * x
    OBVIOUS
  <2>2. h = Turns(p, step)
    BY DEF Doubled
  <2> HIDE DEF step, h
  <2>3. /\ h \in [0..PwmMaxExp -> Nat] /\ h[0] = p
        /\ \A m \in 1..PwmMaxExp : h[m] = step[h[m - 1]]
    BY ZenonT(60), <2>1, <2>2, TurnsAreDefined
  <2>4. ASSUME NEW m \in 1..PwmMaxExp PROVE h[m - 1] \in Nat /\ h[m] = step[h[m - 1]]
    BY <1>0, <2>3
  <2> QED
    BY <2>1, <2>3, <2>4
<1> HIDE DEF h
<1>2. \A m \in 1..PwmMaxExp : h[m - 1] <= h[m]
  <2> SUFFICES ASSUME NEW m \in 1..PwmMaxExp PROVE h[m - 1] <= h[m]
    OBVIOUS
  <2>1. h[m] = 2 * h[m - 1] /\ h[m - 1] \in Nat
    BY <1>0, <1>1
  <2> QED
    BY <2>1
<1>3. ASSUME NEW i \in 0..PwmMaxExp, NEW j \in 0..PwmMaxExp, i <= j
      PROVE  h[i] <= h[j]
  <2> DEFINE T == {k \in 0..PwmMaxExp : i <= k => h[i] <= h[k]}
  <2>1. 0 \in T
    BY <1>0, <1>1
  <2>2. ASSUME NEW k \in 1..PwmMaxExp, k - 1 \in T PROVE k \in T
    <3>1. CASE i < k
      <4>1. h[i] <= h[k - 1] /\ h[k - 1] <= h[k] /\ k - 1 \in 0..PwmMaxExp /\ k \in 0..PwmMaxExp
        BY <1>0, <1>2, <2>2, <3>1
      <4>2. h[k] \in Nat /\ h[k - 1] \in Nat /\ h[i] \in Nat
        BY <4>1, <1>1
      <4> QED
        BY <4>1, <4>2
    <3>2. CASE ~(i < k)
      BY <1>0, <1>1, <3>2
    <3> QED
      BY <3>1, <3>2
  <2>3. 0..PwmMaxExp \subseteq T
    <3> HIDE DEF T
    <3> QED
      BY <1>0, <2>1, <2>2, UpToN
  <2> QED
    BY <2>3, <1>3
<1> QED
  BY <1>1, <1>3 DEF h

-----------------------------------------------------------------------------
(* The first of the best, in the order they are met, is one of them.       *)
LEMMA BestIsLeast ==
  ASSUME NEW cands,
         cands \subseteq [s : Nat \X Nat, m : Nat, err : Nat],
         cands # {}
  PROVE  BestOf(cands) \in cands /\ \A k \in cands : BestOf(cands).err <= k.err
<1> DEFINE errs  == {k.err : k \in cands}
           least == {c \in cands : c.err = PwmMin(errs)}
           Before(c, k) == c = k \/ Earlier(c.s, k.s) \/ (c.s = k.s /\ c.m <= k.m)
<1>1. PwmMin(errs) \in errs /\ \A e \in errs : PwmMin(errs) <= e
  <2>1. errs \subseteq Nat /\ errs # {}
    OBVIOUS
  <2> HIDE DEF errs
  <2> QED
    BY <2>1, LeastIsTaken
<1>2. least # {} /\ \A c \in least : c \in cands /\ \A k \in cands : c.err <= k.err
  BY <1>1
<1>3. \E c \in least : \A k \in least : Before(c, k)
  <2>0. least \subseteq [s : Nat \X Nat, m : Nat, err : Nat]
    OBVIOUS
  <2> HIDE DEF least
  <2> DEFINE Cs == {k.s[1] : k \in least}
  <2>1. PICK a \in Cs : \A y \in Cs : a <= y
    <3>1. Cs \subseteq Nat /\ Cs # {}
      BY <1>2, <2>0
    <3> HIDE DEF Cs
    <3> QED
      BY <3>1, LeastNatural
  <2> DEFINE Ds == {k.s[2] : k \in {l \in least : l.s[1] = a}}
  <2>2. PICK b \in Ds : \A y \in Ds : b <= y
    <3>1. Ds \subseteq Nat /\ Ds # {}
      BY <2>0, <2>1
    <3> HIDE DEF Ds
    <3> QED
      BY <3>1, LeastNatural
  <2> DEFINE Ms == {k.m : k \in {l \in least : l.s[1] = a /\ l.s[2] = b}}
  <2>3. PICK m \in Ms : \A y \in Ms : m <= y
    <3>1. Ms \subseteq Nat /\ Ms # {}
      BY <2>0, <2>2
    <3> HIDE DEF Ms
    <3> QED
      BY <3>1, LeastNatural
  <2>4. PICK c \in least : c.s[1] = a /\ c.s[2] = b /\ c.m = m
    BY <2>3
  <2>5. ASSUME NEW k \in least PROVE Before(c, k)
    <3>0. /\ c.s \in Nat \X Nat /\ k.s \in Nat \X Nat /\ c.m \in Nat /\ k.m \in Nat
          /\ k.s[1] \in Nat /\ k.s[2] \in Nat /\ a \in Nat /\ b \in Nat
      BY <2>0, <2>4
    <3>1. a <= k.s[1]
      BY <2>1
    <3>2. CASE a < k.s[1]
      BY <3>2, <2>4 DEF Earlier
    <3>3. CASE a = k.s[1] /\ b < k.s[2]
      BY <3>3, <2>4 DEF Earlier
    <3>4. CASE a = k.s[1] /\ b = k.s[2]
      <4>1. m <= k.m
        BY <3>4, <2>3
      <4>2. c.s = k.s
        BY <3>0, <3>4, <2>4
      <4> QED
        BY <4>1, <4>2, <2>4
    <3>5. a = k.s[1] => b <= k.s[2]
      BY <2>2
    <3> QED
      BY <3>0, <3>1, <3>2, <3>3, <3>4, <3>5
  <2> QED
    BY <2>5
<1>4. BestOf(cands) \in least
  <2>1. BestOf(cands) = CHOOSE c \in least : \A k \in least : Before(c, k)
    BY DEF BestOf
  <2> QED
    BY <2>1, <1>3
<1> QED
  BY <1>2, <1>4

LEMMA TableOfNats ==
  /\ <<1, 1>> \in Settings
  /\ \A s \in Settings : /\ s \in Nat \X Nat /\ Pt(s) \in Nat
                         /\ s[1] \in Nat /\ s[2] \in Nat /\ s = <<s[1], s[2]>>
<1>1. Len(PwmTable) \in Nat /\ Len(PwmTable) >= 1 /\ 1 \in DOMAIN PwmTable
  BY PwmAssumption
<1>2. PwmTable[1] \in Seq(Nat) /\ PwmTable[1] # <<>>
  BY <1>1, PwmAssumption
<1>3. Len(PwmTable[1]) \in Nat /\ Len(PwmTable[1]) >= 1
  BY <1>2
<1>4. ASSUME NEW s \in Settings
      PROVE  /\ s \in Nat \X Nat /\ Pt(s) \in Nat
             /\ s[1] \in Nat /\ s[2] \in Nat /\ s = <<s[1], s[2]>>
  <2>1. PICK c \in 1..Len(PwmTable), d \in 1..Len(PwmTable[1]) : s = <<c, d>>
    BY DEF Settings
  <2>2. s[1] = c /\ s[2] = d /\ c \in Nat /\ d \in Nat
    BY <2>1, <1>1, <1>3
  <2>3. PwmTable[c] \in Seq(Nat) /\ Len(PwmTable[c]) = Len(PwmTable[1])
    BY <2>1, <1>1, PwmAssumption
  <2>4. PwmTable[c][d] \in Nat
    BY <2>1, <2>3
  <2> QED
    BY <2>1, <2>2, <2>4 DEF Pt
<1> QED
  BY <1>1, <1>3, <1>4 DEF Settings

LEMMA PerStepIsNat ==
  ASSUME NEW period \in PwmPeriods PROVE PerStep(period) \in Nat
<1>1. period \in Nat
  BY PwmAssumption
<1>2. StepSize(period) \in {6, 9}
  BY DEF StepSize
<1>3. 2^6 = 64 /\ 2^9 = 512
  OBVIOUS
<1>4. CASE StepSize(period) = 6
  BY <1>1, <1>3, <1>4 DEF PerStep
<1>5. CASE StepSize(period) = 9
  BY <1>1, <1>3, <1>5 DEF PerStep
<1> QED
  BY <1>2, <1>4, <1>5

(* The registers hold the candidate that was chosen.                       *)
LEMMA ChosenIsBest ==
  ASSUME NEW best \in [s : Nat \X Nat, m : Nat, err : Nat], NEW period
  PROVE  Chosen(Setting(best, period)) = <<best.s, best.m>>
<1>1. best.s \in Nat \X Nat
  OBVIOUS
<1>2. PICK a \in Nat, b \in Nat : best.s = <<a, b>>
  BY <1>1
<1>3. /\ Setting(best, period).clk = a - 1 /\ Setting(best, period).div = b - 1
      /\ Setting(best, period).m = best.m
  BY <1>2 DEF Setting
<1>4. (a - 1) + 1 = a /\ (b - 1) + 1 = b
  BY <1>2
<1> QED
  BY <1>2, <1>3, <1>4 DEF Chosen

-----------------------------------------------------------------------------
(* Once doubling the clock makes the error larger, it does so for ever, so *)
(* that the loop may be left.                                              *)
LEMMA TriedAreEnough ==
  ASSUME NEW p \in Nat, NEW s \in Settings, NEW m \in 0..PwmMaxExp
  PROVE  /\ Err8x41(p, s, m) \in Nat
         /\ \E k \in 0..PwmMaxExp : k \in Tried(p, s) /\ Err8x41(p, s, k) <= Err8x41(p, s, m)
<1> DEFINE t == Doubled(Pt(s))
           Err(k) == Err8x41(p, s, k)
<1>0. PwmMaxExp \in Nat
  BY PwmAssumption
<1>1. /\ t \in [0..PwmMaxExp -> Nat]
      /\ \A k \in 1..PwmMaxExp : t[k] = 2 * t[k - 1]
      /\ \A i, j \in 0..PwmMaxExp : i <= j => t[i] <= t[j]
  BY TableOfNats, DoubledAscends
<1>2. \A k : Err(k) = IF p - t[k] < 0 THEN -(p - t[k]) ELSE p - t[k]
  BY DEF Err8x41, Abs
<1>3. \A k : k \in Tried(p, s) <=> /\ k \in 0..PwmMaxExp
                                   /\ \A l \in 1..(k - 1) : Err(l) <= Err(l - 1)
  BY DEF Tried
<1> HIDE DEF t, Err
<1>4. \A k \in 0..PwmMaxExp : Err(k) \in Nat
  <2> SUFFICES ASSUME NEW k \in 0..PwmMaxExp PROVE Err(k) \in Nat
    OBVIOUS
  <2>1. t[k] \in Nat
    BY <1>1
  <2> QED
    BY <2>1, <1>2
<1>5. CASE m \in Tried(p, s)
  BY <1>4, <1>5 DEF Err
<1>6. CASE m \notin Tried(p, s)
  <2> DEFINE Grows == {l \in 1..(m - 1) : ~(Err(l) <= Err(l - 1))}
  <2>1. PICK k \in Grows : \A l \in Grows : k <= l
    <3>1. Grows \subseteq Nat /\ Grows # {}
      BY <1>3, <1>6
    <3> HIDE DEF Grows
    <3> QED
      BY <3>1, LeastNatural
  <2>2. /\ k \in 1..PwmMaxExp /\ k \in 0..PwmMaxExp /\ k - 1 \in 0..PwmMaxExp /\ k <= m
        /\ k \in Nat /\ ~(Err(k) <= Err(k - 1))
    BY <1>0, <2>1
  <2>3. k - 1 \in Tried(p, s)
    <3>1. ASSUME NEW l \in 1..((k - 1) - 1) PROVE Err(l) <= Err(l - 1)
      <4>1. l \in 1..(m - 1) /\ ~(k <= l)
        BY <2>2
      <4> QED
        BY <4>1, <2>1
    <3> QED
      BY <3>1, <2>2, <1>3
  <2>4. Err(k - 1) <= Err(m)
    <3>1. t[k - 1] \in Nat /\ t[k] = 2 * t[k - 1] /\ t[m] \in Nat /\ t[k] <= t[m]
      BY <2>2, <1>1
    <3>2. /\ Err(k) = IF p - t[k] < 0 THEN -(p - t[k]) ELSE p - t[k]
          /\ Err(k - 1) = IF p - t[k - 1] < 0 THEN -(p - t[k - 1]) ELSE p - t[k - 1]
          /\ Err(m) = IF p - t[m] < 0 THEN -(p - t[m]) ELSE p - t[m]
      BY <1>2
    <3>3. ~(Err(k) <= Err(k - 1))
      BY <2>2
    <3> QED
      BY <3>1, <3>2, <3>3
  <2> QED
    BY <2>2, <2>3, <2>4, <1>4 DEF Err
<1> QED
  BY <1>5, <1>6

(* Best8x41: the newer search, which leaves its loop when the error grows, *)
(* misses no setting that is closer, whatever the clocks and dividers are. *)
THEOREM NewerSearchFindsBest == \A period \in PwmPeriods : Best8x41(period)
<1> SUFFICES ASSUME NEW period \in PwmPeriods PROVE Best8x41(period)
  OBVIOUS
<1> DEFINE p == PerStep(period)
           cands == {[s |-> x[1], m |-> x[2], err |-> Err8x41(p, x[1], x[2])] :
                       x \in {y \in Everything : y[2] \in Tried(p, y[1])}}
           best == BestOf(cands)
<1>1. p \in Nat /\ PwmMaxExp \in Nat
  BY PerStepIsNat, PwmAssumption
<1>2. Chosen(CalcPeriod8x41(period)) = Chosen(Setting(best, period))
  BY DEF CalcPeriod8x41
<1>3. \A c \in cands : \E s \in Settings, m \in 0..PwmMaxExp :
        c = [s |-> s, m |-> m, err |-> Err8x41(p, s, m)]
  BY DEF Everything
<1>4. \A s \in Settings, m \in 0..PwmMaxExp :
        m \in Tried(p, s) => [s |-> s, m |-> m, err |-> Err8x41(p, s, m)] \in cands
  <2> SUFFICES ASSUME NEW s \in Settings, NEW m \in 0..PwmMaxExp, m \in Tried(p, s)
               PROVE  [s |-> s, m |-> m, err |-> Err8x41(p, s, m)] \in cands
    OBVIOUS
  <2>1. <<s, m>> \in Everything
    BY DEF Everything
  <2>2. <<s, m>>[1] = s /\ <<s, m>>[2] = m
    OBVIOUS
  <2> QED
    BY <2>1, <2>2
<1>5. Best8x41(period) <=> \A x \in Everything :
        Err8x41(p, Chosen(CalcPeriod8x41(period))[1], Chosen(CalcPeriod8x41(period))[2])
          <= Err8x41(p, x[1], x[2])
  BY DEF Best8x41
<1> HIDE DEF p, cands
<1>6. cands \subseteq [s : Nat \X Nat, m : Nat, err : Nat]
  <2> SUFFICES ASSUME NEW c \in cands PROVE c \in [s : Nat \X Nat, m : Nat, err : Nat]
    OBVIOUS
  <2>1. PICK s \in Settings, m \in 0..PwmMaxExp : c = [s |-> s, m |-> m, err |-> Err8x41(p, s, m)]
    BY <1>3
  <2>2. s \in Nat \X Nat /\ m \in Nat /\ Err8x41(p, s, m) \in Nat
    BY <2>1, <1>1, TableOfNats, TriedAreEnough
  <2> QED
    BY <2>1, <2>2
<1>7. ASSUME NEW s \in Settings, NEW m \in 0..PwmMaxExp
      PROVE  \E k \in 0..PwmMaxExp :
               /\ [s |-> s, m |-> k, err |-> Err8x41(p, s, k)] \in cands
               /\ Err8x41(p, s, k) <= Err8x41(p, s, m)
  BY <1>1, <1>4, TriedAreEnough
<1>8. best \in cands /\ \A k \in cands : best.err <= k.err
  <2>1. cands # {}
    <3>1. 0 \in 0..PwmMaxExp
      BY <1>1
    <3> QED
      BY <3>1, <1>7, TableOfNats
  <2> QED
    BY <2>1, <1>6, BestIsLeast
<1> HIDE DEF best
<1>9. PICK s \in Settings, m \in 0..PwmMaxExp : best = [s |-> s, m |-> m, err |-> Err8x41(p, s, m)]
  BY <1>3, <1>8
<1>10. Chosen(CalcPeriod8x41(period)) = <<s, m>>
  BY <1>2, <1>6, <1>8, <1>9, ChosenIsBest
<1>11. ASSUME NEW x \in Everything PROVE Err8x41(p, s, m) <= Err8x41(p, x[1], x[2])
  <2>1. x[1] \in Settings /\ x[2] \in 0..PwmMaxExp
    BY DEF Everything
  <2>2. PICK k \in 0..PwmMaxExp :
          /\ [s |-> x[1], m |-> k, err |-> Err8x41(p, x[1], k)] \in cands
          /\ Err8x41(p, x[1], k) <= Err8x41(p, x[1], x[2])
    BY <2>1, <1>7
  <2>3. Err8x41(p, s, m) <= Err8x41(p, x[1], k)
    BY <1>8, <1>9, <2>2
  <2>4. /\ Err8x41(p, s, m) \in Nat /\ Err8x41(p, x[1], k) \in Nat
        /\ Err8x41(p, x[1], x[2]) \in Nat
    BY <1>1, <1>9, <2>1, <2>2, TriedAreEnough
  <2> QED
    BY <2>2, <2>3, <2>4
<1> QED
  BY <1>5, <1>10, <1>11

-----------------------------------------------------------------------------
(* The exponent at which the halved period crosses the clock, or the one   *)
(* before it, is the closest.                                              *)
LEMMA CrossingIsClosest ==
  ASSUME NEW p \in Nat, NEW s \in Settings, Halved(p)[PwmMaxExp] <= Pt(s)
  PROVE  LET c == Crossing(p, s, PwmMin({m \in 0..PwmMaxExp : Halved(p)[m] <= Pt(s)}))
         IN  /\ c.s = s /\ c.m \in 0..PwmMaxExp /\ c \in [s : Nat \X Nat, m : Nat, err : Nat]
             /\ c.err = Abs(Halved(p)[c.m] - Pt(s))
             /\ \A m \in 0..PwmMaxExp : c.err <= Abs(Halved(p)[m] - Pt(s))
<1> DEFINE h == Halved(p)
           Under == {m \in 0..PwmMaxExp : h[m] <= Pt(s)}
           k == PwmMin(Under)
           c == Crossing(p, s, k)
<1>0. PwmMaxExp \in Nat /\ s \in Nat \X Nat /\ Pt(s) \in Nat
  BY PwmAssumption, TableOfNats
<1>1. /\ h \in [0..PwmMaxExp -> Nat]
      /\ \A i, j \in 0..PwmMaxExp : i <= j => h[j] <= h[i]
  BY HalvedDescends
<1>2. h[PwmMaxExp] <= Pt(s)
  OBVIOUS
<1>3. c = IF k = 0 \/ Pt(s) - h[k] < h[k - 1] - Pt(s)
          THEN [s |-> s, m |-> k, err |-> Pt(s) - h[k]]
          ELSE [s |-> s, m |-> k - 1, err |-> h[k - 1] - Pt(s)]
  BY DEF Crossing
<1> HIDE DEF h, c
<1>4. k \in Under /\ \A m \in Under : k <= m
  <2>1. Under \subseteq Nat /\ Under # {}
    BY <1>0, <1>2
  <2> HIDE DEF Under
  <2> QED
    BY <2>1, LeastIsTaken
<1>5. k \in 0..PwmMaxExp /\ h[k] <= Pt(s) /\ \A m \in 0..PwmMaxExp : h[m] <= Pt(s) => k <= m
  BY <1>4
<1> HIDE DEF k
<1>6. \A m \in 0..PwmMaxExp : k <= m => h[m] <= h[k]
  BY <1>1, <1>5
<1>7. \A m \in 0..PwmMaxExp : ~(k <= m) => k # 0 /\ k - 1 \in 0..PwmMaxExp /\ h[k - 1] <= h[m]
  BY <1>0, <1>1, <1>5
<1>8. k # 0 => k - 1 \in 0..PwmMaxExp /\ ~(h[k - 1] <= Pt(s)) /\ h[k - 1] \in Nat
  BY <1>0, <1>1, <1>5
<1>9. \A m \in 0..PwmMaxExp : h[m] \in Nat
  BY <1>1
<1>10. CASE k = 0 \/ Pt(s) - h[k] < h[k - 1] - Pt(s)
  <2>1. c = [s |-> s, m |-> k, err |-> Pt(s) - h[k]]
    BY <1>3, <1>10
  <2>2. Pt(s) - h[k] \in Nat /\ Pt(s) - h[k] = Abs(h[k] - Pt(s)) /\ k \in Nat
    BY <1>0, <1>5, <1>9 DEF Abs
  <2>3. ASSUME NEW m \in 0..PwmMaxExp PROVE Pt(s) - h[k] <= Abs(h[m] - Pt(s))
    <3>1. CASE k <= m
      <4>1. h[m] <= h[k] /\ h[m] \in Nat /\ h[k] \in Nat
        BY <3>1, <1>5, <1>6, <1>9
      <4> QED
        BY <4>1, <1>0, <1>5 DEF Abs
    <3>2. CASE ~(k <= m)
      <4>1. /\ h[k - 1] <= h[m] /\ h[m] \in Nat /\ h[k] \in Nat /\ h[k - 1] \in Nat
            /\ Pt(s) - h[k] < h[k - 1] - Pt(s)
        BY <3>2, <1>5, <1>7, <1>8, <1>9, <1>10
      <4> QED
        BY <4>1, <1>0, <1>5 DEF Abs
    <3> QED
      BY <3>1, <3>2
  <2>4. /\ c.s = s /\ c.m = k /\ c.err = Pt(s) - h[k]
        /\ c \in [s : Nat \X Nat, m : Nat, err : Nat]
    BY <2>1, <2>2, <1>0
  <2> QED
    BY <2>2, <2>3, <2>4, <1>5 DEF c, k, h
<1>11. CASE ~(k = 0 \/ Pt(s) - h[k] < h[k - 1] - Pt(s))
  <2>1. c = [s |-> s, m |-> k - 1, err |-> h[k - 1] - Pt(s)]
    BY <1>3, <1>11
  <2>2. /\ h[k - 1] - Pt(s) \in Nat /\ h[k - 1] - Pt(s) = Abs(h[k - 1] - Pt(s))
        /\ k - 1 \in Nat /\ k - 1 \in 0..PwmMaxExp
    BY <1>0, <1>8, <1>11 DEF Abs
  <2>3. ASSUME NEW m \in 0..PwmMaxExp PROVE h[k - 1] - Pt(s) <= Abs(h[m] - Pt(s))
    <3>0. ~(Pt(s) - h[k] < h[k - 1] - Pt(s)) /\ h[k] \in Nat /\ h[k - 1] \in Nat
      BY <1>5, <1>8, <1>9, <1>11
    <3>1. CASE k <= m
      <4>1. h[m] <= h[k] /\ h[m] \in Nat
        BY <3>1, <1>6, <1>9
      <4> QED
        BY <3>0, <4>1, <1>0, <1>5 DEF Abs
    <3>2. CASE ~(k <= m)
      <4>1. h[k - 1] <= h[m] /\ h[m] \in Nat
        BY <3>2, <1>7, <1>9
      <4> QED
        BY <3>0, <4>1, <1>0, <1>8, <1>11 DEF Abs
    <3> QED
      BY <3>1, <3>2
  <2>4. /\ c.s = s /\ c.m = k - 1 /\ c.err = h[k - 1] - Pt(s)
        /\ c \in [s : Nat \X Nat, m : Nat, err : Nat]
    BY <2>1, <2>2, <1>0
  <2> QED
    BY <2>2, <2>3, <2>4 DEF c, k, h
<1> QED
  BY <1>10, <1>11

(* Best8921: the older search, which stops where the halved period crosses *)
(* the clock, misses no closer setting of the clocks the period can be     *)
(* halved down to.                                                         *)
THEOREM OlderSearchFindsBest == \A period \in PwmPeriods : Best8921(period)
<1> SUFFICES ASSUME NEW period \in PwmPeriods PROVE Best8921(period)
  OBVIOUS
<1> DEFINE p == PerStep(period)
           Crossed == {s \in Settings : Halved(p)[PwmMaxExp] <= Pt(s)}
           At(s) == Crossing(p, s, PwmMin({m \in 0..PwmMaxExp : Halved(p)[m] <= Pt(s)}))
           cands == {At(s) : s \in Crossed}
           Err(s, m) == Abs(Halved(p)[m] - Pt(s))
           best == BestOf(cands)
<1>1. p \in Nat
  BY PerStepIsNat
<1>2. CalcPeriod8921(period) =
        Setting(IF cands = {} THEN [s |-> <<1, 1>>, m |-> 0] ELSE best, period)
  BY DEF CalcPeriod8921, Candidates8921
<1>3. Best8921(period) <=> \A x \in Everything : Halved(p)[PwmMaxExp] <= Pt(x[1]) =>
        Err(Chosen(CalcPeriod8921(period))[1], Chosen(CalcPeriod8921(period))[2]) <= Err(x[1], x[2])
  BY DEF Best8921
<1>4. ASSUME NEW s \in Crossed
      PROVE  /\ At(s).s = s /\ At(s).m \in 0..PwmMaxExp
             /\ At(s) \in [s : Nat \X Nat, m : Nat, err : Nat]
             /\ At(s).err = Err(s, At(s).m)
             /\ \A m \in 0..PwmMaxExp : At(s).err <= Err(s, m)
  <2>1. s \in Settings /\ Halved(p)[PwmMaxExp] <= Pt(s)
    OBVIOUS
  <2> HIDE DEF p
  <2> QED
    BY <1>1, <2>1, CrossingIsClosest
<1>5. \A x \in Everything : Halved(p)[PwmMaxExp] <= Pt(x[1]) =>
        x[1] \in Crossed /\ x[2] \in 0..PwmMaxExp
  BY DEF Everything
<1> HIDE DEF p, Crossed, At, Err
<1> SUFFICES ASSUME NEW x \in Everything, x[1] \in Crossed, x[2] \in 0..PwmMaxExp
             PROVE  Err(Chosen(CalcPeriod8921(period))[1], Chosen(CalcPeriod8921(period))[2])
                      <= Err(x[1], x[2])
  BY <1>3, <1>5
<1>6. cands # {} /\ cands \subseteq [s : Nat \X Nat, m : Nat, err : Nat]
  BY <1>4
<1>7. best \in cands /\ \A k \in cands : best.err <= k.err
  <2> HIDE DEF cands
  <2> QED
    BY <1>6, BestIsLeast
<1>8. PICK s \in Crossed : best = At(s)
  BY <1>7
<1> HIDE DEF best
<1>9. Chosen(CalcPeriod8921(period)) = <<s, best.m>>
  <2>1. best \in [s : Nat \X Nat, m : Nat, err : Nat] /\ best.s = s
    BY <1>4, <1>8
  <2>2. CalcPeriod8921(period) = Setting(best, period)
    BY <1>2, <1>6
  <2> QED
    BY <2>1, <2>2, ChosenIsBest
<1>10. Err(s, best.m) = best.err
  BY <1>4, <1>8
<1>11. best.err <= At(x[1]).err /\ At(x[1]).err <= Err(x[1], x[2])
  BY <1>4, <1>7
<1>12. best.err \in Nat /\ At(x[1]).err \in Nat
  BY <1>4, <1>8
<1>13. Err(x[1], x[2]) \in Int
  <2>1. x[1] \in Settings
    BY DEF Everything
  <2>2. Halved(p)[x[2]] \in Nat /\ Pt(x[1]) \in Nat
    BY <1>1, <2>1, TableOfNats, HalvedDescends
  <2> QED
    BY <2>2 DEF Err, Abs
<1> QED
  BY <1>9, <1>10, <1>11, <1>12, <1>13

-----------------------------------------------------------------------------
(* The clock tree.                                                         *)

Sources  == {c \in Clks : Kind(c) \in {"fixed", "pll", "gpll"}}
Switches == {c \in Clks : Kind(c) \in {"pll", "gpll"}}  \* sources that go off
AnyRate  == Nat \X (Clks \cup {NoClock})

ClockTypes ==
  /\ tree \in Trees
  /\ count \in [Clks -> Nat] /\ flag \in [Clks -> BOOLEAN] /\ bank \in [Clks -> {0, 1}]
  /\ cur \in [Rated -> AnyRate] /\ selects \in [Rated -> [{0, 1} -> AnyRate]]
  /\ \A c \in Rated : cur[c] = NoRate \/ cur[c] \in tree[c].table
  /\ on \subseteq Clks

(* The clocks that need a source to run: the newer ones from the moment    *)
(* they have a rate, the older ones while they are enabled.                *)
Users(s) == {c \in Rated : cur[c][2] = s /\ (IsOlder(c) => count[c] > 0)}

(* Every user of a source has a vote of its own there.                     *)
UsersAreCounted == \A s \in Switches : Cardinality(Users(s)) <= count[s]
CountedAreOn ==
  /\ \A c \in Clks : Kind(c) = "fixed" \/ count[c] > 0 => c \in on
  /\ \A c \in Clks : IsOlder(c) /\ count[c] > 0 => tree[c].parent \in on \cup {NoClock}
RegistersAreSet ==
  /\ \A c \in Clks : IsOlder(c) /\ count[c] > 0 => flag[c]
  /\ \A c \in Rated : ~IsOlder(c) \/ flag[c] => selects[c][bank[c]] = cur[c]
ClocksInv == ClockTypes /\ UsersAreCounted /\ CountedAreOn /\ RegistersAreSet

(* What the tables say of a clock.                                         *)
LEMMA TreeIs ==
  ASSUME tree \in Trees, NEW c \in Clks
  PROVE  /\ IsFiniteSet(Clks) /\ c # NoClock /\ NoClock \notin Clks
         /\ Kind(c) \in {"fixed", "pll", "local", "banked", "gpll", "rcg", "branch", "vote"}
         /\ \/ tree[c].parent = NoClock
            \/ /\ c \in Switches /\ tree[c].parent \in Clks
               /\ Kind(tree[c].parent) = "fixed"
            \/ IsOlder(c) /\ tree[c].parent \in Clks /\ Kind(tree[c].parent) = "vote"
            \/ Kind(c) = "branch" /\ tree[c].parent \in Clks /\ Kind(tree[c].parent) = "rcg"
         /\ c \in Rated <=> IsOlder(c) \/ Kind(c) = "rcg"
         /\ \A f \in tree[c].table :
              f \in AnyRate /\ f[2] \in Sources /\ f # NoRate
BY ClocksAssumption
   DEF ClocksAssumption, OfKind, Clks, Kind, Switches, Sources, IsOlder, Rated, AnyRate, NoRate

(* A clock is in the state of its rate, if any.                            *)
LEMMA CurIs ==
  ASSUME ClockTypes, NEW c \in Rated
  PROVE  c \in Clks /\ cur[c] \in AnyRate /\ (cur[c][2] = NoClock \/ cur[c][2] \in Sources)
<1>1. c \in Clks /\ cur[c] \in AnyRate
  BY DEF Rated, ClockTypes
<1>2. cur[c] = NoRate \/ cur[c] \in tree[c].table
  BY DEF ClockTypes
<1>3. cur[c] \in tree[c].table => cur[c][2] \in Sources
  BY <1>1, TreeIs DEF ClockTypes
<1> QED
  BY <1>1, <1>2, <1>3 DEF NoRate

-----------------------------------------------------------------------------
(* What is above a clock: sources and what an older one depends on.        *)
LEMMA AboveIs ==
  ASSUME ClockTypes, NEW n \in {0, 1}, NEW c \in Clks
  PROVE  /\ Above(c, n) \subseteq Clks
         /\ IsOlder(c) => \A y \in Above(c, n) :
              \/ y \in Sources /\ y = cur[c][2] /\ count[c] = n
              \/ Kind(y) = "vote" /\ y = tree[c].parent /\ n = 0
         /\ c \in Switches => \A y \in Above(c, n) : Kind(y) = "fixed"
         /\ ~IsOlder(c) /\ c \notin Switches => Above(c, n) = {}
         /\ IsOlder(c) /\ count[c] = n /\ cur[c][2] # NoClock => cur[c][2] \in Above(c, n)
         /\ IsOlder(c) /\ count[c] = 0 /\ n = 0 /\ tree[c].parent # NoClock
              => tree[c].parent \in Above(c, n)
<1>1. CASE IsOlder(c)
  <2>1. c \in Rated /\ Parent(c) = cur[c][2] /\ c \notin Switches
    BY <1>1, TreeIs DEF ClockTypes, Parent, IsOlder, Switches
  <2>2. Parent(c) = NoClock \/ Parent(c) \in Sources
    BY <2>1, CurIs
  <2>3. tree[c].parent = NoClock \/ (tree[c].parent \in Clks /\ Kind(tree[c].parent) = "vote")
    BY <1>1, TreeIs DEF ClockTypes, IsOlder, Switches
  <2> QED
    BY <1>1, <2>1, <2>2, <2>3 DEF Above, Sources
<1>2. CASE c \in Switches
  <2>1. ~IsOlder(c) /\ Parent(c) \in {NoClock, tree[c].parent}
    BY <1>2 DEF Parent, IsOlder, Switches
  <2>2. tree[c].parent = NoClock \/ (tree[c].parent \in Clks /\ Kind(tree[c].parent) = "fixed")
    BY <1>2, TreeIs DEF ClockTypes, IsOlder, Switches
  <2> QED
    BY <1>2, <2>1, <2>2 DEF Above
<1>3. CASE ~IsOlder(c) /\ c \notin Switches
  <2>1. Parent(c) = NoClock
    BY <1>3, TreeIs DEF ClockTypes, Parent, IsOlder, Switches
  <2> QED
    BY <1>3, <2>1 DEF Above
<1> QED
  BY <1>1, <1>2, <1>3

(* clk_enable and clk_disable go up two clocks at most: the recursion ends.*)
LEMMA UpwardsIs ==
  ASSUME ClockTypes, NEW n \in {0, 1}, NEW c \in Clks
  PROVE  Upwards(n)[c] = {c} \cup Above(c, n) \cup UNION {Above(y, n) : y \in Above(c, n)}
<1> DEFINE Two(x) == {x} \cup Above(x, n) \cup UNION {Above(y, n) : y \in Above(x, n)}
           Is(h) == h = [x \in Clks |-> {x} \cup UNION {h[y] : y \in Above(x, n)}]
           g == [x \in Clks |-> Two(x)]
<1>1. ASSUME NEW x \in Clks, NEW y \in Above(x, n)
      PROVE  y \in Clks /\ \A z \in Above(y, n) : Above(z, n) = {}
  <2>1. y \in Clks /\ (Kind(y) \in {"fixed", "vote"} \/ y \in Sources)
    BY <1>1, AboveIs DEF Switches
  <2>2. \A z \in Above(y, n) : z \in Clks /\ Kind(z) = "fixed"
    BY <2>1, AboveIs DEF Sources, Switches, IsOlder
  <2> QED
    BY <2>1, <2>2, AboveIs DEF Switches, IsOlder
<1>2. ASSUME NEW x \in Clks, NEW y \in Above(x, n) PROVE Two(y) = {y} \cup Above(y, n)
  BY <1>1
<1>3. ASSUME NEW x \in Clks
      PROVE  g[x] = {x} \cup UNION {g[y] : y \in Above(x, n)}
  <2>1. \A y \in Above(x, n) : g[y] = {y} \cup Above(y, n)
    BY <1>1, <1>2
  <2>2. g[x] = Two(x)
    OBVIOUS
  <2> HIDE DEF g
  <2> QED
    BY <2>1, <2>2
<1>4. Is(g)
  <2> HIDE DEF Two
  <2>1. g = [x \in Clks |-> g[x]]
    OBVIOUS
  <2> HIDE DEF g
  <2> QED
    BY <1>3, <2>1
<1>5. Is(Upwards(n))
  <2>1. \E h : Is(h)
    <3> HIDE DEF Is, g
    <3> QED
      BY <1>4
  <2>2. Upwards(n) = CHOOSE h : Is(h)
    BY DEF Upwards
  <2> HIDE DEF Is
  <2> QED
    BY <2>1, <2>2
<1>6. ASSUME NEW x \in Clks
      PROVE  Upwards(n)[x] = {x} \cup UNION {Upwards(n)[y] : y \in Above(x, n)}
  BY <1>5
<1>7. ASSUME NEW y \in Above(c, n) PROVE Upwards(n)[y] = {y} \cup Above(y, n)
  <2>1. \A z \in Above(y, n) : Upwards(n)[z] = {z}
    BY <1>1, <1>6, AboveIs
  <2>2. y \in Clks
    BY <1>1
  <2> QED
    BY <2>1, <1>6, <2>2
<1> QED
  BY <1>6, <1>7

(* What clk_enable (n = 0) and clk_disable (n = 1) go through.             *)
LEMMA UpIs ==
  ASSUME ClockTypes, NEW n \in {0, 1}, NEW c \in Clks
  PROVE  /\ Up(c, n) \subseteq Clks /\ c \in Up(c, n)
         /\ \A x \in Up(c, n) \ {c} :
              /\ ~IsOlder(x) /\ (Kind(x) \in {"fixed", "vote"} \/ x \in Switches)
              /\ x \in Switches => IsOlder(c) /\ count[c] = n /\ x = cur[c][2]
              /\ Kind(x) = "vote" => IsOlder(c) /\ x = tree[c].parent /\ n = 0
         /\ IsOlder(c) /\ count[c] = n /\ cur[c][2] # NoClock => cur[c][2] \in Up(c, n)
         /\ IsOlder(c) /\ count[c] = 0 /\ n = 0 /\ tree[c].parent # NoClock
              => tree[c].parent \in Up(c, n)
<1>1. Up(c, n) = {c} \cup Above(c, n) \cup UNION {Above(y, n) : y \in Above(c, n)}
  BY UpwardsIs, TreeIs DEF Up, ClockTypes
<1>2. \A y \in Above(c, n) :
        /\ y \in Clks
        /\ Kind(y) \in {"fixed", "vote"} \/ y \in Switches
        /\ y \in Switches => IsOlder(c) /\ count[c] = n /\ y = cur[c][2]
        /\ Kind(y) = "vote" => IsOlder(c) /\ y = tree[c].parent /\ n = 0
  BY AboveIs DEF Sources, Switches, IsOlder
<1>3. \A y \in Above(c, n) : \A z \in Above(y, n) : z \in Clks /\ Kind(z) = "fixed"
  <2> SUFFICES ASSUME NEW y \in Above(c, n), NEW z \in Above(y, n) PROVE z \in Clks /\ Kind(z) = "fixed"
    OBVIOUS
  <2>1. y \in Clks /\ ~IsOlder(y)
    BY <1>2 DEF Switches, IsOlder
  <2> QED
    BY <2>1, AboveIs
<1>4. \A x \in Clks : Kind(x) \in {"fixed", "vote"} => ~IsOlder(x) /\ x \notin Switches
  BY DEF IsOlder, Switches
<1>5. \A x \in Switches : ~IsOlder(x) /\ Kind(x) \notin {"fixed", "vote"}
  BY DEF IsOlder, Switches
<1>6. ASSUME NEW x \in Up(c, n) \ {c}
      PROVE  /\ x \in Clks
             /\ ~IsOlder(x) /\ (Kind(x) \in {"fixed", "vote"} \/ x \in Switches)
             /\ x \in Switches => IsOlder(c) /\ count[c] = n /\ x = cur[c][2]
             /\ Kind(x) = "vote" => IsOlder(c) /\ x = tree[c].parent /\ n = 0
  <2>1. x \in Above(c, n) \/ (x \in Clks /\ Kind(x) = "fixed")
    BY <1>1, <1>3
  <2> QED
    BY <2>1, <1>2, <1>4, <1>5
<1>7. /\ IsOlder(c) /\ count[c] = n /\ cur[c][2] # NoClock => cur[c][2] \in Above(c, n)
      /\ IsOlder(c) /\ count[c] = 0 /\ n = 0 /\ tree[c].parent # NoClock
           => tree[c].parent \in Above(c, n)
  BY AboveIs
<1> QED
  BY <1>1, <1>6, <1>7

(* A clock is fed if it and what it comes from are on.                     *)
LEMMA FedIs ==
  ASSUME ClockTypes, NEW c \in Clks, Kind(c) \in {"fixed", "vote", "pll", "gpll", "rcg"},
         c \in on, \A x \in Clks : Kind(x) = "fixed" => x \in on
  PROVE  Fed(c)
<1> DEFINE On(x)  == x \in on /\ (tree[x].parent = NoClock \/ tree[x].parent \in on)
           Is(h) == h = [x \in Clks |-> x \in on /\ (tree[x].parent = NoClock \/ h[tree[x].parent])]
           g == [x \in Clks |-> On(x)]
<1>1. ASSUME NEW x \in Clks, tree[x].parent # NoClock
      PROVE  tree[x].parent \in Clks /\ tree[tree[x].parent].parent = NoClock
  <2>1. PICK y : y = tree[x].parent
    OBVIOUS
  <2>2. y \in Clks /\ Kind(y) \in {"fixed", "vote", "rcg"}
    BY <1>1, <2>1, TreeIs DEF ClockTypes
  <2>3. tree[y].parent = NoClock
    BY <2>2, TreeIs DEF ClockTypes, Switches, IsOlder
  <2> QED
    BY <2>1, <2>2, <2>3
<1>2. ASSUME NEW x \in Clks
      PROVE  g[x] = (x \in on /\ (tree[x].parent = NoClock \/ g[tree[x].parent]))
  <2>1. CASE tree[x].parent = NoClock
    BY <2>1
  <2>2. CASE tree[x].parent # NoClock
    <3>1. PICK y : y = tree[x].parent
      OBVIOUS
    <3>2. y \in Clks /\ g[y] = (y \in on)
      BY <1>1, <2>2, <3>1
    <3> QED
      BY <2>2, <3>1, <3>2
  <2> QED
    BY <2>1, <2>2
<1>3. Is(g)
  <2>1. g = [x \in Clks |-> g[x]]
    OBVIOUS
  <2> HIDE DEF g
  <2> QED
    BY <1>2, <2>1
<1>4. Is(Feeding)
  <2>1. \E h : Is(h)
    <3> HIDE DEF Is, g
    <3> QED
      BY <1>3
  <2>2. Feeding = CHOOSE h : Is(h)
    BY DEF Feeding
  <2> HIDE DEF Is
  <2> QED
    BY <2>1, <2>2
<1>5. \A x \in Clks : Feeding[x] = (x \in on /\ (tree[x].parent = NoClock \/ Feeding[tree[x].parent]))
  BY <1>4
<1>6. CASE tree[c].parent = NoClock
  BY <1>5, <1>6 DEF Fed
<1>7. CASE tree[c].parent # NoClock
  <2>1. PICK y : y = tree[c].parent
    OBVIOUS
  <2>2. y \in Clks /\ Kind(y) = "fixed"
    BY <1>7, <2>1, TreeIs DEF ClockTypes, Switches, IsOlder
  <2>3. y \in on /\ tree[y].parent = NoClock
    BY <1>1, <1>7, <2>1, <2>2
  <2>4. Feeding[y] = TRUE
    BY <1>5, <2>2, <2>3
  <2> QED
    BY <1>5, <2>1, <2>4 DEF Fed
<1> QED
  BY <1>6, <1>7

(* The invariant is what was promised.                                     *)
LEMMA ClocksInvIsEnough == ClocksInv => UsedClocksRun
<1> SUFFICES ASSUME ClocksInv, NEW c \in Rated, Used(c)
             PROVE  /\ selects[c][bank[c]] = cur[c]
                    /\ Fed(cur[c][2]) /\ Fed(tree[c].parent)
  BY DEF UsedClocksRun
<1>1. ClockTypes /\ c \in Clks /\ (IsOlder(c) \/ Kind(c) = "rcg")
  BY TreeIs DEF ClocksInv, ClockTypes, Rated
<1>2. IsOlder(c) => count[c] > 0
  BY DEF Used, IsOlder
<1>3. selects[c][bank[c]] = cur[c]
  BY <1>1, <1>2 DEF ClocksInv, RegistersAreSet
<1>4. cur[c][2] = NoClock \/ cur[c][2] \in on
  <2> SUFFICES ASSUME cur[c][2] # NoClock PROVE cur[c][2] \in on
    OBVIOUS
  <2>1. PICK s : s = cur[c][2]
    OBVIOUS
  <2>2. s \in Sources
    BY <1>1, <2>1, CurIs
  <2>3. CASE Kind(s) = "fixed"
    BY <2>1, <2>2, <2>3 DEF ClocksInv, CountedAreOn, Sources
  <2>4. CASE Kind(s) # "fixed"
    <3>1. s \in Switches /\ s \in Clks /\ c \in Users(s)
      BY <1>2, <2>1, <2>2, <2>4 DEF Sources, Switches, Users
    <3>2. IsFiniteSet(Users(s))
      BY <1>1, TreeIs, FS_Subset DEF ClockTypes, Users, Rated
    <3>3. Cardinality(Users(s)) \in Nat /\ Cardinality(Users(s)) # 0
      BY <3>1, <3>2, FS_EmptySet, FS_CardinalityType
    <3>4. count[s] \in Nat /\ count[s] >= Cardinality(Users(s))
      BY <1>1, <3>1 DEF ClocksInv, UsersAreCounted, ClockTypes
    <3>5. count[s] > 0
      BY <3>3, <3>4
    <3> QED
      BY <2>1, <3>1, <3>5 DEF ClocksInv, CountedAreOn
  <2> QED
    BY <2>3, <2>4
<1>5. \A x \in Clks : Kind(x) = "fixed" => x \in on
  BY DEF ClocksInv, CountedAreOn
<1>6. Fed(cur[c][2])
  <2>1. PICK s : s = cur[c][2]
    OBVIOUS
  <2>2. s = NoClock \/ (s \in Clks /\ Kind(s) \in {"fixed", "pll", "gpll"} /\ s \in on)
    BY <1>1, <1>4, <2>1, CurIs DEF Sources
  <2>3. s = NoClock => Fed(s)
    BY DEF Fed
  <2>4. s # NoClock => Fed(s)
    BY <1>1, <1>5, <2>2, FedIs
  <2> QED
    BY <2>1, <2>3, <2>4
<1>7. Fed(tree[c].parent)
  <2>1. PICK p : p = tree[c].parent
    OBVIOUS
  <2>2. p = NoClock \/ (p \in Clks /\ Kind(p) = "vote" /\ p \in on)
    <3>1. p = NoClock \/ (IsOlder(c) /\ p \in Clks /\ Kind(p) = "vote")
      BY <1>1, <2>1, TreeIs DEF ClockTypes, IsOlder, Switches
    <3>2. IsOlder(c) => p \in on \cup {NoClock}
      BY <1>1, <1>2, <2>1 DEF ClocksInv, CountedAreOn
    <3> QED
      BY <3>1, <3>2
  <2>3. p = NoClock => Fed(p)
    BY DEF Fed
  <2>4. p # NoClock => Fed(p)
    BY <1>1, <1>5, <2>2, FedIs
  <2> QED
    BY <2>1, <2>3, <2>4
<1> QED
  BY <1>3, <1>6, <1>7

-----------------------------------------------------------------------------
LEMMA ClocksInvInit == ClocksInit => ClocksInv
<1> SUFFICES ASSUME ClocksInit PROVE ClocksInv
  OBVIOUS
<1>1. tree \in Trees /\ NoClock \notin Clks /\ NoRate \in AnyRate
  BY ClocksAssumption DEF ClocksInit, ClocksAssumption, Clks, AnyRate, NoRate
<1>2. ClockTypes
  BY <1>1 DEF ClocksInit, ClockTypes, Rated
<1>3. UsersAreCounted
  <2> SUFFICES ASSUME NEW s \in Switches PROVE Cardinality(Users(s)) <= count[s]
    BY DEF UsersAreCounted
  <2>1. s \in Clks /\ s # NoClock
    BY <1>1 DEF Switches
  <2>2. Users(s) = {}
    BY <2>1 DEF ClocksInit, Users, NoRate
  <2> QED
    BY <2>1, <2>2, FS_EmptySet DEF ClocksInit
<1>4. CountedAreOn
  BY DEF ClocksInit, CountedAreOn
<1>5. RegistersAreSet
  <2>1. \A c \in Rated : c \in Clks
    BY DEF Rated
  <2> QED
    BY <2>1 DEF ClocksInit, RegistersAreSet
<1> QED
  BY <1>2, <1>3, <1>4, <1>5 DEF ClocksInv

(* The users of a source after a step in which at most one clock became    *)
(* one, and what its votes must be then.                                   *)
LEMMA UsersGrow ==
  ASSUME ClocksInv, NEW T, NEW s \in Switches, NEW n \in Nat,
         \/ T \subseteq Users(s) /\ n >= count[s]
         \/ n = count[s] + 1 /\ \E c : T \subseteq Users(s) \cup {c}
         \/ n = count[s] - 1 /\ \E c \in Users(s) : T \subseteq Users(s) \ {c}
  PROVE  Cardinality(T) <= n
<1>1. /\ IsFiniteSet(Users(s)) /\ Cardinality(Users(s)) \in Nat
      /\ count[s] \in Nat /\ Cardinality(Users(s)) <= count[s]
  <2>1. s \in Clks /\ IsFiniteSet(Clks) /\ Users(s) \subseteq Clks
    BY TreeIs DEF ClocksInv, ClockTypes, Switches, Users, Rated
  <2> QED
    BY <2>1, FS_Subset, FS_CardinalityType DEF ClocksInv, ClockTypes, UsersAreCounted
<1>2. CASE T \subseteq Users(s) /\ n >= count[s]
  <2>1. Cardinality(T) \in Nat /\ Cardinality(T) <= Cardinality(Users(s))
    BY <1>1, <1>2, FS_Subset, FS_CardinalityType
  <2> QED
    BY <1>1, <1>2, <2>1
<1>3. CASE n = count[s] + 1 /\ \E c : T \subseteq Users(s) \cup {c}
  <2>1. PICK c : T \subseteq Users(s) \cup {c}
    BY <1>3
  <2>2. /\ IsFiniteSet(Users(s) \cup {c})
        /\ Cardinality(Users(s) \cup {c}) \in Nat
        /\ Cardinality(Users(s) \cup {c}) <= Cardinality(Users(s)) + 1
    <3>1. /\ IsFiniteSet(Users(s) \cup {c})
          /\ Cardinality(Users(s) \cup {c}) =
               IF c \in Users(s) THEN Cardinality(Users(s)) ELSE Cardinality(Users(s)) + 1
      BY <1>1, FS_AddElement
    <3> QED
      BY <1>1, <3>1
  <2>3. Cardinality(T) \in Nat /\ Cardinality(T) <= Cardinality(Users(s) \cup {c})
    BY <2>1, <2>2, FS_Subset, FS_CardinalityType
  <2> QED
    BY <1>1, <1>3, <2>2, <2>3
<1>4. CASE n = count[s] - 1 /\ \E c \in Users(s) : T \subseteq Users(s) \ {c}
  <2>1. PICK c \in Users(s) : T \subseteq Users(s) \ {c}
    BY <1>4
  <2>2. /\ IsFiniteSet(Users(s) \ {c})
        /\ Cardinality(Users(s) \ {c}) = Cardinality(Users(s)) - 1
    BY <1>1, <2>1, FS_RemoveElement
  <2>3. Cardinality(T) \in Nat /\ Cardinality(T) <= Cardinality(Users(s) \ {c})
    BY <2>1, <2>2, FS_Subset, FS_CardinalityType
  <2> QED
    BY <1>1, <1>4, <2>2, <2>3
<1> QED
  BY <1>2, <1>3, <1>4

(* clk_enable.                                                             *)
LEMMA EnableKeepsClocks ==
  ASSUME ClocksInv, NEW c \in Asked, ClkEnable(c) PROVE ClocksInv'
<1>1. ClockTypes /\ c \in Clks /\ c \notin Switches /\ Kind(c) # "fixed"
  BY DEF ClocksInv, Asked, Switches
<1>2. PICK S : S = Up(c, 0)
  OBVIOUS
<1>3. /\ S \subseteq Clks /\ c \in S
      /\ \A x \in S \ {c} :
           ~IsOlder(x) /\ (x \in Switches => IsOlder(c) /\ count[c] = 0 /\ x = cur[c][2])
      /\ IsOlder(c) /\ count[c] = 0 /\ cur[c][2] # NoClock => cur[c][2] \in S
      /\ IsOlder(c) /\ count[c] = 0 /\ tree[c].parent # NoClock => tree[c].parent \in S
  BY <1>1, <1>2, UpIs
<1>4. /\ tree' = tree /\ cur' = cur /\ bank' = bank
      /\ count' = [x \in Clks |-> IF x \in S THEN count[x] + 1 ELSE count[x]]
      /\ on' = on \cup {x \in S : count[x] = 0}
      /\ flag' = [x \in Clks |-> flag[x] \/ (x \in S /\ count[x] = 0 /\ IsOlder(x))]
      /\ selects' = [x \in Rated |-> IF x \in S /\ count[x] = 0 /\ IsOlder(x)
                                     THEN [selects[x] EXCEPT ![bank[x]] = cur[x]] ELSE selects[x]]
  BY <1>2 DEF ClkEnable, Counted, SwitchedOn, FirstOf, Staged
<1>5. Rated \subseteq Clks
  BY DEF Rated
<1>6. ClockTypes'
  <2>1. Clks' = Clks /\ Rated' = Rated /\ AnyRate' = AnyRate
    BY <1>4 DEF Clks, Rated, AnyRate
  <2>2. count' \in [Clks -> Nat]
    BY <1>1, <1>4 DEF ClockTypes
  <2>3. flag' \in [Clks -> BOOLEAN]
    <3>1. \A x \in Clks : (flag[x] \/ (x \in S /\ count[x] = 0 /\ IsOlder(x))) \in BOOLEAN
      OBVIOUS
    <3> QED
      BY <1>4, <3>1, Zenon
  <2>4. selects' \in [Rated -> [{0, 1} -> AnyRate]]
    <3>1. \A x \in Rated : [selects[x] EXCEPT ![bank[x]] = cur[x]] \in [{0, 1} -> AnyRate]
      BY <1>1, <1>5 DEF ClockTypes
    <3> QED
      BY <1>1, <1>4, <3>1 DEF ClockTypes
  <2>5. on' \subseteq Clks
    BY <1>1, <1>3, <1>4 DEF ClockTypes
  <2> QED
    BY <1>1, <1>4, <2>1, <2>2, <2>3, <2>4, <2>5 DEF ClockTypes
<1>7. UsersAreCounted'
  <2> SUFFICES ASSUME NEW s \in Switches PROVE Cardinality(Users(s)') <= count'[s]
    BY <1>4 DEF UsersAreCounted, Switches, Clks, Kind, Users, Rated, IsOlder
  <2>1. s \in Clks /\ count[s] \in Nat /\ count'[s] \in Nat
    BY <1>1, <1>6, <1>4 DEF Switches, ClockTypes, Clks
  <2>2. Users(s)' = {x \in Rated : cur[x][2] = s /\ (IsOlder(x) => count'[x] > 0)}
    BY <1>4 DEF Users, Rated, Clks, IsOlder, Kind
  <2>3. \A x \in Rated : IsOlder(x) /\ x # c => count'[x] = count[x]
    BY <1>3, <1>4, <1>5
  <2>4. CASE s \in S
    <3>1. count'[s] = count[s] + 1
      BY <1>4, <2>1, <2>4
    <3>2. Users(s)' \subseteq Users(s) \cup {c}
      BY <2>2, <2>3 DEF Users
    <3> QED
      BY <2>1, <3>1, <3>2, UsersGrow
  <2>5. CASE s \notin S
    <3>1. count'[s] = count[s]
      BY <1>4, <2>1, <2>5
    <3>2. c \in Rated /\ IsOlder(c) /\ cur[c][2] = s => count[c] > 0
      <4>1. s # NoClock
        BY <1>1, <2>1, TreeIs DEF ClockTypes
      <4> QED
        BY <1>1, <1>3, <2>5, <4>1 DEF ClockTypes
    <3>3. Users(s)' \subseteq Users(s)
      BY <2>2, <2>3, <3>2 DEF Users
    <3>4. count'[s] >= count[s]
      BY <2>1, <3>1
    <3> QED
      BY <2>1, <3>3, <3>4, UsersGrow
  <2> QED
    BY <2>4, <2>5
<1>8. CountedAreOn'
  <2>1. ASSUME NEW x \in Clks, Kind(x) = "fixed" \/ count'[x] > 0 PROVE x \in on'
    BY <1>1, <1>4, <2>1 DEF ClocksInv, CountedAreOn, ClockTypes
  <2>2. ASSUME NEW x \in Clks, IsOlder(x), count'[x] > 0 PROVE tree[x].parent \in on' \cup {NoClock}
    <3>1. count[x] > 0 => tree[x].parent \in on' \cup {NoClock}
      BY <1>4, <2>2 DEF ClocksInv, CountedAreOn
    <3>2. count[x] = 0 => x = c
      BY <1>3, <1>4, <2>2
    <3>3. x = c /\ count[x] = 0 => tree[x].parent \in on' \cup {NoClock}
      <4> SUFFICES ASSUME x = c, count[x] = 0, tree[x].parent # NoClock
                   PROVE  tree[x].parent \in on'
        OBVIOUS
      <4>1. PICK p : p = tree[x].parent
        OBVIOUS
      <4>2. p \in S /\ p \in Clks
        BY <1>3, <2>2, <4>1
      <4>3. count'[p] > 0
        BY <1>1, <1>4, <4>2 DEF ClockTypes
      <4> QED
        BY <2>1, <4>1, <4>2, <4>3
    <3> QED
      BY <1>1, <3>1, <3>2, <3>3 DEF ClockTypes
  <2> QED
    BY <1>4, <2>1, <2>2 DEF CountedAreOn, Clks, Kind, IsOlder
<1>9. RegistersAreSet'
  <2>1. ASSUME NEW x \in Clks, IsOlder(x), count'[x] > 0 PROVE flag'[x]
    <3>1. count[x] > 0 \/ (x \in S /\ count[x] = 0)
      BY <1>1, <1>4, <2>1 DEF ClockTypes
    <3>2. count[x] > 0 => flag[x]
      BY <2>1 DEF ClocksInv, RegistersAreSet
    <3> QED
      BY <1>4, <2>1, <3>1, <3>2
  <2>2. ASSUME NEW x \in Rated, ~IsOlder(x) \/ flag'[x] PROVE selects'[x][bank'[x]] = cur'[x]
    <3>1. x \in Clks /\ bank[x] \in {0, 1} /\ selects[x] \in [{0, 1} -> AnyRate]
      BY <1>1, <1>5 DEF ClockTypes
    <3>2. CASE x \in S /\ count[x] = 0 /\ IsOlder(x)
      BY <1>4, <3>1, <3>2
    <3>3. CASE ~(x \in S /\ count[x] = 0 /\ IsOlder(x))
      <4>1. selects'[x] = selects[x] /\ (~IsOlder(x) \/ flag[x])
        BY <1>4, <2>2, <3>1, <3>3
      <4> QED
        BY <1>4, <4>1 DEF ClocksInv, RegistersAreSet
    <3> QED
      BY <3>2, <3>3
  <2> QED
    BY <1>4, <2>1, <2>2 DEF RegistersAreSet, Clks, Kind, IsOlder, Rated
<1> QED
  BY <1>6, <1>7, <1>8, <1>9 DEF ClocksInv

(* clk_disable.                                                            *)
LEMMA DisableKeepsClocks ==
  ASSUME ClocksInv, NEW c \in Asked, count[c] > 0, ClkDisable(c) PROVE ClocksInv'
<1>1. ClockTypes /\ c \in Clks /\ c \notin Switches /\ Kind(c) # "fixed"
  BY DEF ClocksInv, Asked, Switches
<1>2. PICK S : S = LastUsers(c)
  OBVIOUS
<1>3. /\ S \subseteq Clks /\ c \in S /\ \A x \in S : count[x] > 0
      /\ \A x \in S \ {c} :
           /\ ~IsOlder(x) /\ Kind(x) # "vote"
           /\ x \in Switches => IsOlder(c) /\ count[c] = 1 /\ x = cur[c][2]
  <2>1. PICK U : U = Up(c, 1)
    OBVIOUS
  <2>2. /\ U \subseteq Clks /\ c \in U
        /\ \A x \in U \ {c} :
             /\ ~IsOlder(x) /\ (Kind(x) = "vote" => FALSE)
             /\ x \in Switches => IsOlder(c) /\ count[c] = 1 /\ x = cur[c][2]
    BY <1>1, <2>1, UpIs
  <2> QED
    BY <1>2, <2>1, <2>2 DEF LastUsers
<1>4. /\ tree' = tree /\ cur' = cur /\ bank' = bank /\ flag' = flag /\ selects' = selects
      /\ count' = [x \in Clks |-> IF x \in S THEN count[x] - 1 ELSE count[x]]
      /\ on' = on \ {x \in S : count[x] = 1 /\ Kind(x) \notin {"fixed", "local", "banked", "rcg"}}
  <2>1. \A x \in Clks : count[x] + (-1) = count[x] - 1
    BY <1>1 DEF ClockTypes
  <2> QED
    BY <1>2, <2>1 DEF ClkDisable, Counted, LastOf
<1>5. Rated \subseteq Clks
  BY DEF Rated
<1>6. ClockTypes'
  <2>1. Clks' = Clks /\ Rated' = Rated /\ AnyRate' = AnyRate
    BY <1>4 DEF Clks, Rated, AnyRate
  <2>2. count' \in [Clks -> Nat]
    BY <1>1, <1>3, <1>4 DEF ClockTypes
  <2> QED
    BY <1>1, <1>4, <2>1, <2>2 DEF ClockTypes
<1>7. UsersAreCounted'
  <2> SUFFICES ASSUME NEW s \in Switches PROVE Cardinality(Users(s)') <= count'[s]
    BY <1>4 DEF UsersAreCounted, Switches, Clks, Kind, Users, Rated, IsOlder
  <2>1. s \in Clks /\ count[s] \in Nat /\ count'[s] \in Nat /\ s # c
    BY <1>1, <1>6, <1>4 DEF Switches, ClockTypes, Clks
  <2>2. Users(s)' = {x \in Rated : cur[x][2] = s /\ (IsOlder(x) => count'[x] > 0)}
    BY <1>4 DEF Users, Rated, Clks, IsOlder, Kind
  <2>3. \A x \in Rated : IsOlder(x) /\ count'[x] > 0 => count[x] > 0
    BY <1>1, <1>4, <1>5 DEF ClockTypes
  <2>4. Users(s)' \subseteq Users(s)
    BY <2>2, <2>3 DEF Users
  <2>5. CASE s \in S
    <3>1. count'[s] = count[s] - 1
      BY <1>4, <2>1, <2>5
    <3>2. IsOlder(c) /\ count[c] = 1 /\ cur[c][2] = s /\ c \in Rated
      BY <1>1, <1>3, <2>1, <2>5, TreeIs DEF ClockTypes
    <3>3. c \in Users(s)
      BY <3>2 DEF Users
    <3>4. c \notin Users(s)'
      BY <1>1, <1>3, <1>4, <2>2, <3>2
    <3> QED
      BY <2>1, <2>4, <3>1, <3>3, <3>4, UsersGrow
  <2>6. CASE s \notin S
    <3>1. count'[s] >= count[s]
      BY <1>4, <2>1, <2>6
    <3> QED
      BY <2>1, <2>4, <3>1, UsersGrow
  <2> QED
    BY <2>5, <2>6
<1>8. CountedAreOn'
  <2>1. ASSUME NEW x \in Clks, Kind(x) = "fixed" \/ count'[x] > 0 PROVE x \in on'
    BY <1>1, <1>4, <2>1 DEF ClocksInv, CountedAreOn, ClockTypes
  <2>2. ASSUME NEW x \in Clks, IsOlder(x), count'[x] > 0 PROVE tree[x].parent \in on' \cup {NoClock}
    <3>1. count[x] > 0
      BY <1>1, <1>4, <2>2 DEF ClockTypes
    <3>2. PICK p : p = tree[x].parent
      OBVIOUS
    <3>3. p \in on \cup {NoClock}
      BY <2>2, <3>1, <3>2 DEF ClocksInv, CountedAreOn
    <3>4. p = NoClock \/ (p \in Clks /\ Kind(p) = "vote")
      BY <1>1, <2>2, <3>2, TreeIs DEF ClockTypes, IsOlder, Switches
    <3>5. p # c
      BY <2>2, <3>2 DEF Asked
    <3> QED
      BY <1>1, <1>3, <1>4, <3>2, <3>3, <3>4, <3>5, TreeIs DEF ClockTypes
  <2> QED
    BY <1>4, <2>1, <2>2 DEF CountedAreOn, Clks, Kind, IsOlder
<1>9. RegistersAreSet'
  <2>1. \A x \in Clks : count'[x] > 0 => count[x] > 0
    BY <1>1, <1>4 DEF ClockTypes
  <2> QED
    BY <1>4, <2>1 DEF ClocksInv, RegistersAreSet, Clks, Kind, IsOlder, Rated
<1> QED
  BY <1>6, <1>7, <1>8, <1>9 DEF ClocksInv

(* clk_set_rate.                                                           *)
LEMMA SetRateKeepsClocks ==
  ASSUME ClocksInv, NEW c, NEW rate, CanSet(c, rate), SetRate(c, rate) PROVE ClocksInv'
<1>1. /\ ClockTypes /\ c \in Rated /\ c \in Clks /\ c \notin Switches /\ Rated \subseteq Clks
      /\ bank[c] \in {0, 1} /\ selects[c] \in [{0, 1} -> AnyRate]
  BY TreeIs DEF ClocksInv, ClockTypes, CanSet, Rated, Switches, IsOlder
<1>2. PICK nf : nf = Row(c, rate)
  OBVIOUS
<1>3. nf \in tree[c].table /\ nf \in AnyRate /\ nf[2] \in Sources /\ nf[2] \in Clks
  <2>1. nf \in tree[c].table
    BY <1>2 DEF CanSet, Row
  <2> QED
    BY <1>1, <2>1, TreeIs DEF ClockTypes, Sources
<1>4. CASE nf = cur[c]
  <2>1. UNCHANGED clockVars
    BY <1>2, <1>4 DEF SetRate
  <2> QED
    BY <2>1 DEF clockVars, ClocksInv, ClockTypes, UsersAreCounted, CountedAreOn, RegistersAreSet,
                Users, Switches, AnyRate, Clks, Rated, Kind, IsOlder
<1>5. CASE nf # cur[c]
  <2>1. PICK S : S = IF SourceFirst(c) THEN Up(nf[2], 0) ELSE {}
    OBVIOUS
  <2>2. /\ S \subseteq Clks /\ (SourceFirst(c) => nf[2] \in S)
        /\ \A x \in S : ~IsOlder(x)
    <3>1. ~IsOlder(nf[2])
      BY <1>3 DEF Sources, IsOlder
    <3>2. \A x \in Up(nf[2], 0) \ {nf[2]} : ~IsOlder(x)
      BY <1>1, <1>3, UpIs
    <3>3. Up(nf[2], 0) \subseteq Clks /\ nf[2] \in Up(nf[2], 0)
      BY <1>1, <1>3, UpIs
    <3> QED
      BY <2>1, <3>1, <3>2, <3>3
  <2>3. PICK to : to = Switched(c)
    OBVIOUS
  <2>4. to \in {0, 1} /\ (Kind(c) # "banked" => to = bank[c])
    BY <1>1, <2>3 DEF Switched
  <2>5. /\ tree' = tree
        /\ count' = [x \in Clks |-> IF x \in S THEN count[x] + 1 ELSE count[x]]
        /\ on' = on \cup {x \in S : count[x] = 0}
        /\ flag' = [x \in Clks |-> flag[x] \/ (x \in FirstOf(S) /\ IsOlder(x))]
        /\ cur' = [cur EXCEPT ![c] = nf] /\ bank' = [bank EXCEPT ![c] = to]
        /\ selects' = IF IsOlder(c) /\ ~flag[c] THEN selects
                       ELSE [selects EXCEPT ![c] =
                               IF Kind(c) = "banked" THEN [b \in {0, 1} |-> IF b = to THEN nf ELSE NoRate]
                               ELSE [@ EXCEPT ![bank[c]] = nf]]
    BY <1>2, <1>5, <2>1, <2>3 DEF SetRate, Counted, SwitchedOn, FirstOf
  <2>6. flag' = flag
    <3>1. \A x \in Clks : (flag[x] \/ (x \in FirstOf(S) /\ IsOlder(x))) = flag[x]
      BY <1>1, <2>2 DEF FirstOf, ClockTypes
    <3>2. flag = [x \in Clks |-> flag[x]]
      BY <1>1 DEF ClockTypes
    <3> QED
      BY <2>5, <3>1, <3>2, Zenon
  <2>7. Clks' = Clks /\ Rated' = Rated /\ AnyRate' = AnyRate
    BY <2>5 DEF Clks, Rated, AnyRate
  <2>8. /\ selects' \in [Rated -> [{0, 1} -> AnyRate]]
        /\ \A x \in Rated \ {c} : selects'[x] = selects[x] /\ bank'[x] = bank[x] /\ cur'[x] = cur[x]
        /\ cur'[c] = nf /\ bank'[c] = to
        /\ ~IsOlder(c) \/ flag[c] => selects'[c][to] = nf
    <3>1. NoRate \in AnyRate
      BY DEF NoRate, AnyRate
    <3>2. /\ [b \in {0, 1} |-> IF b = to THEN nf ELSE NoRate] \in [{0, 1} -> AnyRate]
          /\ [selects[c] EXCEPT ![bank[c]] = nf] \in [{0, 1} -> AnyRate]
          /\ [selects[c] EXCEPT ![bank[c]] = nf][bank[c]] = nf
      BY <1>1, <1>3, <3>1
    <3>3. \A x \in Rated \ {c} : bank'[x] = bank[x] /\ cur'[x] = cur[x]
      BY <1>1, <2>5 DEF ClockTypes
    <3>4. cur'[c] = nf /\ bank'[c] = to
      BY <1>1, <2>5 DEF ClockTypes
    <3>5. CASE IsOlder(c) /\ ~flag[c]
      BY <1>1, <2>5, <3>3, <3>4, <3>5 DEF ClockTypes
    <3>6. CASE ~(IsOlder(c) /\ ~flag[c])
      <4>1. PICK w : w = IF Kind(c) = "banked" THEN [b \in {0, 1} |-> IF b = to THEN nf ELSE NoRate]
                         ELSE [selects[c] EXCEPT ![bank[c]] = nf]
        OBVIOUS
      <4>2. w \in [{0, 1} -> AnyRate] /\ w[to] = nf
        BY <2>4, <3>2, <4>1
      <4>3. selects' = [selects EXCEPT ![c] = w]
        BY <2>5, <3>6, <4>1
      <4> QED
        BY <1>1, <3>3, <3>4, <4>2, <4>3 DEF ClockTypes
    <3> QED
      BY <3>5, <3>6
  <2>9. ClockTypes'
    <3>1. count' \in [Clks -> Nat]
      BY <1>1, <2>5 DEF ClockTypes
    <3>2. bank' \in [Clks -> {0, 1}] /\ cur' \in [Rated -> AnyRate] /\ on' \subseteq Clks
      BY <1>1, <1>3, <2>2, <2>4, <2>5 DEF ClockTypes
    <3>3. \A x \in Rated : cur'[x] = NoRate \/ cur'[x] \in tree[x].table
      BY <1>1, <1>3, <2>8 DEF ClockTypes
    <3> QED
      BY <1>1, <2>5, <2>6, <2>7, <2>8, <3>1, <3>2, <3>3 DEF ClockTypes
  <2>10. UsersAreCounted'
    <3> SUFFICES ASSUME NEW s \in Switches PROVE Cardinality(Users(s)') <= count'[s]
      BY <2>5 DEF UsersAreCounted, Switches, Clks, Kind, Users, Rated, IsOlder
    <3>1. s \in Clks /\ count[s] \in Nat /\ count'[s] \in Nat
      BY <1>1, <2>9, <2>7 DEF Switches, ClockTypes
    <3>2. Users(s)' = {x \in Rated : cur'[x][2] = s /\ (IsOlder(x) => count'[x] > 0)}
      BY <2>5 DEF Users, Rated, Clks, IsOlder, Kind
    <3>3. \A x \in Rated : IsOlder(x) => count'[x] = count[x]
      BY <1>1, <2>2, <2>5
    <3>4. Users(s)' \subseteq Users(s) \cup {c}
      BY <2>8, <3>2, <3>3 DEF Users
    <3>5. count'[s] >= count[s] /\ (s \in S => count'[s] = count[s] + 1)
      BY <2>5, <3>1
    <3>6. s \in S \/ Users(s)' \subseteq Users(s)
      <4> SUFFICES ASSUME s \notin S PROVE c \notin Users(s)'
        BY <3>4
      <4>1. CASE nf[2] # s
        BY <2>8, <3>2, <4>1
      <4>2. CASE nf[2] = s
        <5>1. IsOlder(c) /\ ~flag[c]
          BY <2>2, <4>2 DEF SourceFirst
        <5>2. ~(count[c] > 0)
          BY <1>1, <5>1 DEF ClocksInv, RegistersAreSet
        <5> QED
          BY <1>1, <3>2, <3>3, <5>1, <5>2
      <4> QED
        BY <4>1, <4>2
    <3> QED
      BY <3>1, <3>4, <3>5, <3>6, UsersGrow
  <2>11. CountedAreOn'
    <3>1. ASSUME NEW x \in Clks, Kind(x) = "fixed" \/ count'[x] > 0 PROVE x \in on'
      BY <1>1, <2>5, <3>1 DEF ClocksInv, CountedAreOn, ClockTypes
    <3>2. ASSUME NEW x \in Clks, IsOlder(x), count'[x] > 0 PROVE tree[x].parent \in on' \cup {NoClock}
      BY <2>2, <2>5, <3>2 DEF ClocksInv, CountedAreOn
    <3> QED
      BY <2>5, <3>1, <3>2 DEF CountedAreOn, Clks, Kind, IsOlder
  <2>12. RegistersAreSet'
    <3>1. ASSUME NEW x \in Clks, IsOlder(x), count'[x] > 0 PROVE flag'[x]
      BY <2>2, <2>5, <2>6, <3>1 DEF ClocksInv, RegistersAreSet
    <3>2. ASSUME NEW x \in Rated, ~IsOlder(x) \/ flag'[x] PROVE selects'[x][bank'[x]] = cur'[x]
      BY <2>6, <2>8, <3>2 DEF ClocksInv, RegistersAreSet
    <3> QED
      BY <2>5, <3>1, <3>2 DEF RegistersAreSet, Clks, Kind, IsOlder, Rated
  <2> QED
    BY <2>9, <2>10, <2>11, <2>12 DEF ClocksInv
<1> QED
  BY <1>4, <1>5

(* UsedClocksRun: whatever the platform's tables are and however drivers   *)
(* share sources, a clock that is used runs at the rate that was set last. *)
THEOREM UsedClocksAlwaysRun == ClocksSpec => []UsedClocksRun
<1>1. ClocksInv /\ [ClocksNext]_clockVars => ClocksInv'
  <2> SUFFICES ASSUME ClocksInv, [ClocksNext]_clockVars PROVE ClocksInv'
    OBVIOUS
  <2>1. CASE GetSetRate
    BY <2>1, SetRateKeepsClocks DEF GetSetRate
  <2>2. CASE GetEnable
    BY <2>2, EnableKeepsClocks DEF GetEnable
  <2>3. CASE Release
    BY <2>3, DisableKeepsClocks DEF Release
  <2>4. CASE UNCHANGED clockVars
    BY <2>4 DEF clockVars, ClocksInv, ClockTypes, UsersAreCounted, CountedAreOn, RegistersAreSet,
                Users, Switches, AnyRate, Clks, Rated, Kind, IsOlder
  <2> QED
    BY <2>1, <2>2, <2>3, <2>4 DEF ClocksNext
<1> QED
  BY <1>1, ClocksInvInit, ClocksInvIsEnough, PTL DEF ClocksSpec

-----------------------------------------------------------------------------
(* PM8921.  s is a state of the chip; a step that succeeds puts one value  *)
(* into one register, and the others keep theirs.                          *)
IsPm(s) == s = [reg |-> s.reg, faults |-> s.faults, calls |-> s.calls,
                call |-> s.call, ret |-> s.ret]
IsOutcome(o) == o = [s |-> o.s, ret |-> o.ret]
PutIn(s, r, v, t) == \A q : ValueOf(t, q) = IF q = r THEN v ELSE ValueOf(s, q)
Takes(s, given, t) ==
  LET st == Located(s, given) IN PutIn(s, st.reg, Written(s, st), t)

LEMMA PutPuts ==
  ASSUME NEW s, IsPm(s), NEW r, NEW v
  PROVE  IsPm(Put(s, r, v)) /\ PutIn(s, r, v, Put(s, r, v))
<1> DEFINE f == [q \in DOMAIN s.reg \cup {r} |-> IF q = r THEN v ELSE s.reg[q]]
           t == Put(s, r, v)
<1>1. t = [s EXCEPT !.reg = f]
  BY DEF Put
<1>2. t = [reg |-> f, faults |-> s.faults, calls |-> s.calls, call |-> s.call, ret |-> s.ret]
  <2> HIDE DEF f, t
  <2> QED
    BY <1>1 DEF IsPm
<1>3. IsPm(t) /\ t.reg = f
  <2> HIDE DEF f, t
  <2> QED
    BY <1>2 DEF IsPm
<1>4. \A q : ValueOf(t, q) = IF q = r THEN v ELSE ValueOf(s, q)
  <2> HIDE DEF t
  <2> QED
    BY <1>3 DEF ValueOf
<1> QED
  BY <1>3, <1>4 DEF PutIn

(* A time-out costs one fault and is reported.                             *)
LEMMA TimeOuts ==
  ASSUME NEW s, IsPm(s), NEW o \in TimedOut(s)
  PROVE  IsOutcome(o) /\ IsPm(o.s) /\ o.ret = 1
<1> DEFINE t == [s EXCEPT !.faults = @ - 1]
<1>1. o = [s |-> t, ret |-> 1]
  BY DEF TimedOut, Return
<1>2. t = [reg |-> s.reg, faults |-> s.faults - 1, calls |-> s.calls, call |-> s.call, ret |-> s.ret]
  BY DEF IsPm
<1>3. IsPm(t)
  BY <1>2 DEF IsPm
<1> HIDE DEF t
<1> QED
  BY <1>1, <1>3 DEF IsOutcome

LEMMA DoneIs ==
  ASSUME NEW s, NEW o \in Done(s)
  PROVE  IsOutcome(o) /\ o.s = s /\ o.ret = 0
BY DEF Done, Return, IsOutcome

LEMMA StepTakes ==
  ASSUME NEW s, IsPm(s), NEW given, NEW o \in SsbiStep(s, given)
  PROVE  IsOutcome(o) /\ IsPm(o.s) /\ (o.ret = 0 => Takes(s, given, o.s))
<1> DEFINE st == Located(s, given)
           Writes(t) == SsbiWrite(t, st.reg, Written(t, st))
           first == IF st.modify THEN SsbiRead(s) ELSE Done(s)
<1>1. o \in Then(first, Writes)
  BY DEF SsbiStep
<1>2. \A x \in first : IsOutcome(x) /\ IsPm(x.s) /\ (x.ret = 0 => x.s = s)
  <2>1. \A x \in Done(s) : IsOutcome(x) /\ x.s = s /\ x.ret = 0
    BY DoneIs
  <2>2. \A x \in TimedOut(s) : IsOutcome(x) /\ IsPm(x.s) /\ x.ret = 1
    BY TimeOuts
  <2> QED
    BY <2>1, <2>2 DEF SsbiRead
<1> HIDE DEF first
<1>3. \A x \in Writes(s) : IsOutcome(x) /\ IsPm(x.s) /\ (x.ret = 0 => Takes(s, given, x.s))
  <2> DEFINE t == Put(s, st.reg, Written(s, st))
  <2>1. IsPm(t) /\ PutIn(s, st.reg, Written(s, st), t)
    BY PutPuts
  <2>2. Writes(s) = Done(t) \cup TimedOut(s) \cup TimedOut(t)
    BY DEF SsbiWrite
  <2>3. \A x \in Done(t) : IsOutcome(x) /\ x.s = t /\ x.ret = 0
    BY DoneIs
  <2>4. Takes(s, given, t)
    BY <2>1 DEF Takes
  <2> HIDE DEF t, Writes, st
  <2>5. \A x \in TimedOut(s) \cup TimedOut(t) : IsOutcome(x) /\ IsPm(x.s) /\ x.ret = 1
    BY <2>1, TimeOuts
  <2> QED
    BY <2>1, <2>2, <2>3, <2>4, <2>5
<1> HIDE DEF Writes, st
<1>4. PICK x \in first : o \in (IF x.ret = 0 THEN Writes(x.s) ELSE {x})
  BY <1>1 DEF Then
<1> QED
  BY <1>2, <1>3, <1>4

(* A sequence that succeeds went through a state after each of its steps.  *)
IsTrace(s, steps, n, t) ==
  t[0] = s /\ \A i \in 1..n : Takes(t[i - 1], steps[i], t[i])
WentOn(s, steps, n, o) ==
  IsOutcome(o) /\ IsPm(o.s) /\ (o.ret = 0 => \E t : IsTrace(s, steps, n, t) /\ o.s = t[n])

LEMMA OneStepOn ==
  ASSUME NEW s, NEW steps, NEW n \in Nat \ {0}, NEW o, WentOn(s, steps, n - 1, o), o.ret = 0,
         NEW x \in SsbiStep(o.s, steps[n])
  PROVE  WentOn(s, steps, n, x)
<1>1. IsOutcome(x) /\ IsPm(x.s) /\ (x.ret = 0 => Takes(o.s, steps[n], x.s))
  BY StepTakes DEF WentOn
<1>2. SUFFICES ASSUME x.ret = 0 PROVE \E t : IsTrace(s, steps, n, t) /\ x.s = t[n]
  BY <1>1 DEF WentOn
<1>3. PICK t : IsTrace(s, steps, n - 1, t) /\ o.s = t[n - 1]
  BY DEF WentOn
<1> DEFINE u == [i \in 0..n |-> IF i = n THEN x.s ELSE t[i]]
<1>4. u[0] = s /\ u[n] = x.s /\ u[n - 1] = o.s
  BY <1>3 DEF IsTrace
<1>5. ASSUME NEW i \in 1..n PROVE Takes(u[i - 1], steps[i], u[i])
  <2>1. CASE i = n
    BY <1>1, <1>2, <1>4, <2>1
  <2>2. CASE i # n
    <3>1. i \in 1..(n - 1) /\ i \in 0..n /\ i - 1 \in 0..n /\ i - 1 # n
      BY <2>2
    <3>2. u[i] = t[i] /\ u[i - 1] = t[i - 1]
      BY <2>2, <3>1
    <3> QED
      BY <1>3, <3>1, <3>2 DEF IsTrace
  <2> QED
    BY <2>1, <2>2
<1>6. IsTrace(s, steps, n, u) /\ x.s = u[n]
  <2> HIDE DEF u
  <2> QED
    BY <1>4, <1>5 DEF IsTrace
<1> QED
  BY <1>6

LEMMA SequenceTakes ==
  ASSUME NEW s, IsPm(s), NEW steps, NEW N \in Nat, Len(steps) = N,
         NEW o \in Sequence8921(s, steps)
  PROVE  WentOn(s, steps, N, o)
<1> DEFINE Turn(i, O) == UNION {IF x.ret = 0 THEN SsbiStep(x.s, steps[i]) ELSE {x} : x \in O}
           Is(h, n) == h = [i \in 0..n |-> IF i < 1 THEN Done(s) ELSE Turn(i, h[i - 1])]
           Well(O, i) == \A x \in O : WentOn(s, steps, i, x)
<1>1. Well(Done(s), 0)
  <2> DEFINE t == [i \in 0..0 |-> s]
  <2>1. IsTrace(s, steps, 0, t) /\ t[0] = s
    BY DEF IsTrace
  <2> HIDE DEF t
  <2>2. \A x \in Done(s) : IsOutcome(x) /\ x.s = s /\ x.ret = 0
    BY DoneIs
  <2> QED
    BY <2>1, <2>2 DEF WentOn
<1>2. ASSUME NEW i \in Nat \ {0}, NEW O, Well(O, i - 1) PROVE Well(Turn(i, O), i)
  <2> SUFFICES ASSUME NEW x \in Turn(i, O) PROVE WentOn(s, steps, i, x)
    OBVIOUS
  <2>1. PICK y \in O : x \in (IF y.ret = 0 THEN SsbiStep(y.s, steps[i]) ELSE {y})
    OBVIOUS
  <2>2. WentOn(s, steps, i - 1, y)
    BY <1>2
  <2> HIDE DEF Turn, Well
  <2>3. CASE y.ret = 0
    BY <2>1, <2>2, <2>3, OneStepOn
  <2>4. CASE y.ret # 0
    BY <2>1, <2>2, <2>4 DEF WentOn
  <2> QED
    BY <2>3, <2>4
<1> HIDE DEF Turn
<1> DEFINE Defined == {n \in 0..N : \E h : Is(h, n)}
<1>5. 0 \in Defined
  <2> DEFINE g == [i \in 0..0 |-> Done(s)]
  <2>1. Is(g, 0)
    OBVIOUS
  <2> HIDE DEF Is, g
  <2> QED
    BY <2>1
<1>6. ASSUME NEW n \in 1..N, n - 1 \in Defined PROVE n \in Defined
  <2>1. PICK h : Is(h, n - 1)
    BY <1>6
  <2> DEFINE g == [i \in 0..n |-> IF i = n THEN Turn(n, h[n - 1]) ELSE h[i]]
  <2>2. ASSUME NEW i \in 0..n PROVE g[i] = IF i < 1 THEN Done(s) ELSE Turn(i, g[i - 1])
    <3>1. CASE i = n
      BY <3>1
    <3>2. CASE i # n
      <4>1. i \in 0..(n - 1) /\ g[i] = h[i]
        BY <3>2
      <4>2. h[i] = IF i < 1 THEN Done(s) ELSE Turn(i, h[i - 1])
        BY <4>1, <2>1
      <4>3. ~(i < 1) => i - 1 \in 0..n /\ i - 1 # n
        BY <3>2
      <4> QED
        BY <4>1, <4>2, <4>3
    <3> QED
      BY <3>1, <3>2
  <2>3. Is(g, n)
    BY <2>2
  <2> HIDE DEF Is, g
  <2> QED
    BY <2>3
<1>7. PICK up : Is(up, N) /\ Sequence8921(s, steps) = IF N < 1 THEN Done(s) ELSE up[N]
  <2> DEFINE g == CHOOSE h : Is(h, N)
  <2>1. 0..N \subseteq Defined
    <3> HIDE DEF Defined
    <3> QED
      BY <1>5, <1>6, UpToN
  <2>2. \E h : Is(h, N)
    <3>1. N \in Defined
      <4> HIDE DEF Defined
      <4> QED
        BY <2>1
    <3> HIDE DEF Is
    <3> QED
      BY <3>1
  <2>3. Is(g, N)
    <3> HIDE DEF Is
    <3> QED
      BY <2>2
  <2>4. Sequence8921(s, steps) = IF N < 1 THEN Done(s) ELSE g[N]
    BY DEF Sequence8921, Perform, ForEach, Then, Turn
  <2> HIDE DEF g, Is
  <2> QED
    BY <2>3, <2>4
<1>8. \A i \in 0..N : up[i] = IF i < 1 THEN Done(s) ELSE Turn(i, up[i - 1])
  BY ONLY <1>7
<1> HIDE DEF Is, Well
<1> DEFINE T == {i \in 0..N : Well(up[i], i)}
<1>9. 0 \in T
  BY <1>1, <1>8
<1>10. ASSUME NEW i \in 1..N, i - 1 \in T PROVE i \in T
  <2>1. Well(up[i - 1], i - 1)
    BY <1>10
  <2>2. Well(Turn(i, up[i - 1]), i)
    BY <1>2, <2>1
  <2> QED
    BY <1>8, <2>2
<1>11. N \in T
  <2> HIDE DEF T
  <2>2. 0..N \subseteq T
    BY <1>9, <1>10, UpToN
  <2> QED
    BY <2>2
<1>12. Well(Sequence8921(s, steps), N)
  BY <1>1, <1>7, <1>11
<1> QED
  BY <1>12 DEF Well

-----------------------------------------------------------------------------
(* The calls.  What a step writes is held, what it does not name is kept.  *)
Ordinary(r) == r[1] # "LPG_CTL"

LEMMA StoreTakes ==
  ASSUME NEW s, NEW r, NEW v, NEW t, Takes(s, Store(r, v), t), Ordinary(r)
  PROVE  PutIn(s, r, v, t)
<1> DEFINE st == Store(r, v)
<1>1. st.reg = r /\ ~st.modify /\ st.set = v
  BY DEF Store
<1>2. Located(s, st) = st
  BY <1>1 DEF Located, Ordinary
<1>3. Written(s, st) = v
  BY <1>1 DEF Written
<1> QED
  BY <1>1, <1>2, <1>3 DEF Takes

LEMMA ModifyTakes ==
  ASSUME NEW s, NEW r, NEW clear, NEW set, NEW t, Takes(s, Modify(r, clear, set), t), Ordinary(r)
  PROVE  PutIn(s, r, Without(ValueOf(s, r), clear) \cup set, t)
<1> DEFINE st == Modify(r, clear, set)
<1>1. st.reg = r /\ st.modify /\ st.set = set /\ st.clear = clear
  BY DEF Modify
<1>2. Located(s, st) = st
  BY <1>1 DEF Located, Ordinary
<1>3. Written(s, st) = Without(ValueOf(s, r), clear) \cup set
  BY <1>1 DEF Written
<1> QED
  BY <1>1, <1>2, <1>3 DEF Takes

(* A store into the generator goes to the bank that was selected last.     *)
LEMMA BankIsSelected ==
  ASSUME NEW s, NEW bk, ValueOf(s, <<"LPG_BANK_SEL", 0, 0>>) = {<<"BANK", bk>>}
  PROVE  SelectedBank(s) = bk
<1> DEFINE sel == {<<"BANK", bk>>}
           f   == CHOOSE x \in sel : TRUE
<1>1. f = <<"BANK", bk>>
  OBVIOUS
<1>2. sel # {} /\ f[2] = bk
  BY <1>1
<1> HIDE DEF f
<1> QED
  BY <1>2 DEF SelectedBank, f

LEMMA GeneratorTakes ==
  ASSUME NEW s, NEW b, NEW v, NEW t, NEW bk,
         ValueOf(s, <<"LPG_BANK_SEL", 0, 0>>) = {<<"BANK", bk>>},
         Takes(s, Store(<<"LPG_CTL", 0, b>>, v), t)
  PROVE  /\ PutIn(s, <<"LPG_CTL", bk, b>>, v, t)
         /\ ValueOf(t, <<"LPG_BANK_SEL", 0, 0>>) = {<<"BANK", bk>>}
<1> DEFINE st == Store(<<"LPG_CTL", 0, b>>, v)
           at == [modify |-> FALSE, reg |-> <<"LPG_CTL", bk, b>>, clear |-> {}, set |-> v]
<1>1. st.reg[1] = "LPG_CTL" /\ st.reg[3] = b
  BY DEF Store
<1>2. Located(s, st) = at
  BY <1>1, BankIsSelected DEF Located, Store
<1>3. Written(s, at) = v /\ at.reg = <<"LPG_CTL", bk, b>>
  BY DEF Written
<1>4. PutIn(s, <<"LPG_CTL", bk, b>>, v, t)
  BY <1>2, <1>3 DEF Takes
<1>5. <<"LPG_CTL", bk, b>> # <<"LPG_BANK_SEL", 0, 0>>
  OBVIOUS
<1> QED
  BY <1>4, <1>5 DEF PutIn

(* A GPIO's six banks.                                                     *)
GpioIs(t, gpio, dir) == \A b \in 0..5 : ValueOf(t, <<"GPIO", gpio, b>>) = {<<"FIELDS", dir>>}
OnlyGpio(s, gpio, t) ==
  \A q : (\A b \in 0..5 : q # <<"GPIO", gpio, b>>) => ValueOf(t, q) = ValueOf(s, q)
LEMMA GpioHolds ==
  ASSUME NEW s, IsPm(s), NEW gpio, NEW dir, NEW o \in Pm8921GpioConfig(s, gpio, dir)
  PROVE  /\ IsOutcome(o) /\ IsPm(o.s)
         /\ o.ret = 0 => GpioIs(o.s, gpio, dir) /\ OnlyGpio(s, gpio, o.s)
<1> DEFINE steps == [b \in 1..6 |-> Store(<<"GPIO", gpio, b - 1>>, {<<"FIELDS", dir>>})]
           v     == {<<"FIELDS", dir>>}
<1>1. Len(steps) = 6 /\ \A i \in 1..6 : steps[i] = Store(<<"GPIO", gpio, i - 1>>, v)
  <2>1. steps \in [1..6 -> {steps[i] : i \in 1..6}]
    OBVIOUS
  <2>2. steps \in Seq({steps[i] : i \in 1..6})
    BY <2>1
  <2> QED
    BY <2>2
<1>2. WentOn(s, steps, 6, o)
  <2>1. o \in Sequence8921(s, steps)
    BY DEF Pm8921GpioConfig
  <2> HIDE DEF steps
  <2> QED
    BY <1>1, <2>1, SequenceTakes
<1> SUFFICES ASSUME o.ret = 0
             PROVE  GpioIs(o.s, gpio, dir) /\ OnlyGpio(s, gpio, o.s)
  BY <1>2 DEF WentOn
<1>3. PICK t : IsTrace(s, steps, 6, t) /\ o.s = t[6]
  BY <1>2 DEF WentOn
<1> HIDE DEF steps
<1>4. ASSUME NEW i \in 1..6 PROVE PutIn(t[i - 1], <<"GPIO", gpio, i - 1>>, v, t[i])
  <2>1. Takes(t[i - 1], Store(<<"GPIO", gpio, i - 1>>, v), t[i])
    BY <1>1, <1>3 DEF IsTrace
  <2>2. Ordinary(<<"GPIO", gpio, i - 1>>)
    BY DEF Ordinary
  <2> QED
    BY <2>1, <2>2, StoreTakes
<1>5. /\ PutIn(t[0], <<"GPIO", gpio, 0>>, v, t[1]) /\ PutIn(t[1], <<"GPIO", gpio, 1>>, v, t[2])
      /\ PutIn(t[2], <<"GPIO", gpio, 2>>, v, t[3]) /\ PutIn(t[3], <<"GPIO", gpio, 3>>, v, t[4])
      /\ PutIn(t[4], <<"GPIO", gpio, 4>>, v, t[5]) /\ PutIn(t[5], <<"GPIO", gpio, 5>>, v, t[6])
  BY <1>4
<1>6. \A q : (\A b \in 0..5 : q # <<"GPIO", gpio, b>>) => ValueOf(t[6], q) = ValueOf(t[0], q)
  BY <1>5 DEF PutIn
<1>7. \A b \in 0..5 : ValueOf(t[6], <<"GPIO", gpio, b>>) = v
  <2>1. \A b, c \in 0..5 : b # c => <<"GPIO", gpio, b>> # <<"GPIO", gpio, c>>
    OBVIOUS
  <2> QED
    BY <1>5, <2>1 DEF PutIn
<1> QED
  BY <1>3, <1>6, <1>7 DEF IsTrace, GpioIs, OnlyGpio

(* Two calls in a row: the state after the first is one for the second.    *)
LEMMA ThenGoesOn ==
  ASSUME NEW first, NEW o \in UNION {IF x.ret = 0 THEN SsbiRead(x.s) ELSE {x} : x \in first},
         \A x \in first : IsPm(x.s)
  PROVE  IsPm(o.s)
<1>1. PICK x \in first : o \in (IF x.ret = 0 THEN SsbiRead(x.s) ELSE {x})
  OBVIOUS
<1>2. IsPm(x.s)
  OBVIOUS
<1>3. \A y \in TimedOut(x.s) : IsPm(y.s)
  BY <1>2, TimeOuts
<1>4. \A y \in Done(x.s) : y.s = x.s
  BY DEF Done, Return
<1> QED
  BY <1>1, <1>2, <1>3, <1>4 DEF SsbiRead

(* Every GPIO of an array, if no write of any failed.                      *)
LEMMA GpiosHold ==
  ASSUME NEW s, IsPm(s), NEW g, NEW h, NEW dir, NEW o \in GpioConfigArray(s, <<g, h>>, dir)
  PROVE  /\ IsPm(o.s)
         /\ o.ret = 0 => GpioIs(o.s, g, dir) /\ GpioIs(o.s, h, dir)
<1> DEFINE gpios == <<g, h>>
           Next(O, i) == UNION {{[x EXCEPT !.ret = IF @ = 0 THEN before.ret ELSE 1] :
                                   x \in Pm8921GpioConfig(before.s, gpios[i], dir)} :
                                before \in O}
           Is(done) == done = [i \in 0..Len(gpios) |-> IF i = 0 THEN Done(s) ELSE Next(done[i - 1], i)]
<1>1. Len(gpios) = 2 /\ gpios[1] = g /\ gpios[2] = h
  OBVIOUS
<1> DEFINE one == [i \in 0..2 |-> IF i = 0 THEN Done(s) ELSE IF i = 1 THEN Next(Done(s), 1)
                                  ELSE Next(Next(Done(s), 1), 2)]
<1> HIDE DEF Next, gpios
<1>2. Is(one)
  <2>1. one[0] = Done(s) /\ one[1] = Next(one[0], 1) /\ one[2] = Next(one[1], 2)
    OBVIOUS
  <2>2. \A i \in 0..2 : one[i] = IF i = 0 THEN Done(s) ELSE Next(one[i - 1], i)
    <3> HIDE DEF one
    <3> QED
      BY <2>1
  <2>3. one = [i \in 0..2 |-> one[i]]
    OBVIOUS
  <2> HIDE DEF one
  <2> QED
    BY <1>1, <2>2, <2>3
<1> DEFINE done == CHOOSE d : Is(d)
<1>3. Is(done)
  <2> HIDE DEF Is, one
  <2> QED
    BY <1>2
<1>4. GpioConfigArray(s, <<g, h>>, dir) = done[2]
  <2>1. GpioConfigArray(s, <<g, h>>, dir) = done[Len(gpios)]
    BY DEF GpioConfigArray, Next, gpios
  <2> HIDE DEF done
  <2> QED
    BY <2>1, <1>1
<1>5. done[2] = Next(Next(Done(s), 1), 2)
  <2>1. done = [i \in 0..2 |-> IF i = 0 THEN Done(s) ELSE Next(done[i - 1], i)]
    BY <1>1, <1>3
  <2> HIDE DEF done
  <2> QED
    BY <2>1
<1> HIDE DEF done, Is, one
<1>6. PICK y \in Next(Done(s), 1) :
        \E z \in Pm8921GpioConfig(y.s, h, dir) :
          o = [z EXCEPT !.ret = IF @ = 0 THEN y.ret ELSE 1]
  <2>1. o \in Next(Next(Done(s), 1), 2)
    BY <1>4, <1>5, Zenon
  <2>2. PICK y \in Next(Done(s), 1) :
          o \in {[x EXCEPT !.ret = IF @ = 0 THEN y.ret ELSE 1] :
                   x \in Pm8921GpioConfig(y.s, gpios[2], dir)}
    BY <2>1, Zenon DEF Next
  <2> QED
    BY <1>1, <2>2, Zenon
<1>7. PICK z \in Pm8921GpioConfig(y.s, h, dir) :
          o = [z EXCEPT !.ret = IF @ = 0 THEN y.ret ELSE 1]
  BY <1>6
<1>8. \A x \in Done(s) : x.s = s /\ x.ret = 0
  BY DEF Done, Return
<1>9. PICK x \in Pm8921GpioConfig(s, g, dir) : y = [x EXCEPT !.ret = IF @ = 0 THEN 0 ELSE 1]
  BY <1>1, <1>6, <1>8 DEF Next
<1>10. /\ IsOutcome(x) /\ IsPm(x.s)
       /\ x.ret = 0 => GpioIs(x.s, g, dir)
  BY GpioHolds
<1>11. y.s = x.s /\ (y.ret = 0 => x.ret = 0)
  BY <1>9, <1>10 DEF IsOutcome
<1>12. /\ IsOutcome(z) /\ IsPm(z.s)
       /\ z.ret = 0 => GpioIs(z.s, h, dir) /\ OnlyGpio(y.s, h, z.s)
  <2>1. IsPm(y.s)
    BY <1>10, <1>11
  <2> QED
    BY <2>1, GpioHolds
<1>13. o.s = z.s /\ (o.ret = 0 => z.ret = 0 /\ y.ret = 0)
  BY <1>7, <1>12 DEF IsOutcome
<1>14. o.ret = 0 /\ g # h => GpioIs(o.s, g, dir)
  <2>1. g # h => \A b, c \in 0..5 : <<"GPIO", g, b>> # <<"GPIO", h, c>>
    OBVIOUS
  <2>2. o.ret = 0 => GpioIs(y.s, g, dir) /\ OnlyGpio(y.s, h, o.s)
    BY <1>10, <1>11, <1>12, <1>13
  <2> QED
    BY <2>1, <2>2 DEF GpioIs, OnlyGpio
<1> QED
  BY <1>12, <1>13, <1>14

(* Sequences of one, of two and of three steps.                            *)
LEMMA OneTaken ==
  ASSUME NEW s, IsPm(s), NEW a, NEW o \in Sequence8921(s, <<a>>)
  PROVE  IsOutcome(o) /\ IsPm(o.s) /\ (o.ret = 0 => Takes(s, a, o.s))
<1> DEFINE steps == <<a>>
<1>1. Len(steps) = 1 /\ steps[1] = a /\ 1 \in Nat
  OBVIOUS
<1> HIDE DEF steps
<1>2. WentOn(s, steps, 1, o)
  BY <1>1, SequenceTakes DEF steps
<1>3. \A t : IsTrace(s, steps, 1, t) => Takes(s, a, t[1])
  BY <1>1 DEF IsTrace
<1> QED
  BY <1>2, <1>3 DEF WentOn

LEMMA TwoTaken ==
  ASSUME NEW s, IsPm(s), NEW a, NEW b, NEW o \in Sequence8921(s, <<a, b>>)
  PROVE  /\ IsOutcome(o) /\ IsPm(o.s)
         /\ o.ret = 0 => \E t : Takes(s, a, t) /\ Takes(t, b, o.s)
<1> DEFINE steps == <<a, b>>
<1>1. Len(steps) = 2 /\ steps[1] = a /\ steps[2] = b /\ 2 \in Nat
  OBVIOUS
<1> HIDE DEF steps
<1>2. WentOn(s, steps, 2, o)
  BY <1>1, SequenceTakes DEF steps
<1>3. \A t : IsTrace(s, steps, 2, t) => Takes(s, a, t[1]) /\ Takes(t[1], b, t[2])
  BY <1>1 DEF IsTrace
<1> QED
  BY <1>2, <1>3 DEF WentOn

LEMMA ThreeTaken ==
  ASSUME NEW s, IsPm(s), NEW a, NEW b, NEW c, NEW o \in Sequence8921(s, <<a, b, c>>)
  PROVE  /\ IsOutcome(o) /\ IsPm(o.s)
         /\ o.ret = 0 => \E t, u : Takes(s, a, t) /\ Takes(t, b, u) /\ Takes(u, c, o.s)
<1> DEFINE steps == <<a, b, c>>
<1>1. Len(steps) = 3 /\ steps[1] = a /\ steps[2] = b /\ steps[3] = c /\ 3 \in Nat
  OBVIOUS
<1> HIDE DEF steps
<1>2. WentOn(s, steps, 3, o)
  BY <1>1, SequenceTakes DEF steps
<1>3. \A t : IsTrace(s, steps, 3, t) => Takes(s, a, t[1]) /\ Takes(t[1], b, t[2]) /\ Takes(t[2], c, t[3])
  BY <1>1 DEF IsTrace
<1> QED
  BY <1>2, <1>3 DEF WentOn

(* The regulators.                                                         *)
Held(s, r, f) == f \in ValueOf(s, r)
LdoIsOn(s, ldo, volt) ==
  /\ Held(s, <<"LDO_CTRL", ldo, 0>>, <<"ENABLE">>)
  /\ Held(s, <<"LDO_CTRL", ldo, 0>>, <<"VOLTAGE", volt>>)
  /\ ldo \in PLdos => \A b \in {2, 4} : Held(s, <<"LDO_TEST", ldo, b>>, <<"BANK_SEL", b>>)

LEMMA LdoHolds ==
  ASSUME NEW s, IsPm(s), NEW ldo, NEW volt, NEW o \in Pm8921LdoSetVoltage(s, ldo, volt)
  PROVE  IsOutcome(o) /\ IsPm(o.s) /\ (o.ret = 0 => LdoIsOn(o.s, ldo, volt))
<1> DEFINE test(b) == Store(<<"LDO_TEST", ldo, b>>, {<<"RW">>, <<"BANK_SEL", b>>})
           yes   == {<<"ENABLE">>, <<"PULL_DOWN">>, <<"VOLTAGE", volt>>}
           ctrl == Store(<<"LDO_CTRL", ldo, 0>>, yes)
<1>1. \A t, u, b : Takes(t, test(b), u) => PutIn(t, <<"LDO_TEST", ldo, b>>, {<<"RW">>, <<"BANK_SEL", b>>}, u)
  <2> SUFFICES ASSUME NEW t, NEW u, NEW b, Takes(t, test(b), u)
               PROVE  PutIn(t, <<"LDO_TEST", ldo, b>>, {<<"RW">>, <<"BANK_SEL", b>>}, u)
    OBVIOUS
  <2>1. Ordinary(<<"LDO_TEST", ldo, b>>)
    BY DEF Ordinary
  <2> QED
    BY <2>1, StoreTakes
<1>2. \A t, u : Takes(t, ctrl, u) => PutIn(t, <<"LDO_CTRL", ldo, 0>>, yes, u)
  <2> SUFFICES ASSUME NEW t, NEW u, Takes(t, ctrl, u) PROVE PutIn(t, <<"LDO_CTRL", ldo, 0>>, yes, u)
    OBVIOUS
  <2>1. Ordinary(<<"LDO_CTRL", ldo, 0>>)
    BY DEF Ordinary
  <2> QED
    BY <2>1, StoreTakes
<1>3. CASE ldo \in PLdos
  <2>1. o \in Sequence8921(s, <<test(2), test(4), ctrl>>)
    BY <1>3 DEF Pm8921LdoSetVoltage
  <2> HIDE DEF test, ctrl
  <2>2. /\ IsOutcome(o) /\ IsPm(o.s)
        /\ o.ret = 0 => \E t, u : Takes(s, test(2), t) /\ Takes(t, test(4), u) /\ Takes(u, ctrl, o.s)
    BY <2>1, ThreeTaken
  <2>3. ASSUME o.ret = 0 PROVE LdoIsOn(o.s, ldo, volt)
    <3>1. PICK t, u : Takes(s, test(2), t) /\ Takes(t, test(4), u) /\ Takes(u, ctrl, o.s)
      BY <2>2, <2>3
    <3>2. /\ PutIn(s, <<"LDO_TEST", ldo, 2>>, {<<"RW">>, <<"BANK_SEL", 2>>}, t)
          /\ PutIn(t, <<"LDO_TEST", ldo, 4>>, {<<"RW">>, <<"BANK_SEL", 4>>}, u)
          /\ PutIn(u, <<"LDO_CTRL", ldo, 0>>, yes, o.s)
      BY <3>1, <1>1, <1>2
    <3>3. /\ <<"LDO_TEST", ldo, 2>> # <<"LDO_TEST", ldo, 4>>
          /\ <<"LDO_TEST", ldo, 2>> # <<"LDO_CTRL", ldo, 0>>
          /\ <<"LDO_TEST", ldo, 4>> # <<"LDO_CTRL", ldo, 0>>
      OBVIOUS
    <3> QED
      BY <3>2, <3>3 DEF PutIn, LdoIsOn, Held
  <2> QED
    BY <2>2, <2>3
<1>4. CASE ldo \notin PLdos
  <2>1. o \in Sequence8921(s, <<ctrl>>)
    BY <1>4 DEF Pm8921LdoSetVoltage
  <2> HIDE DEF ctrl
  <2>2. IsOutcome(o) /\ IsPm(o.s) /\ (o.ret = 0 => Takes(s, ctrl, o.s))
    BY <2>1, OneTaken
  <2> QED
    BY <1>2, <1>4, <2>2 DEF PutIn, LdoIsOn, Held
<1> QED
  BY <1>3, <1>4

(* The resets.                                                             *)
ResetIs(s, reset) ==
  /\ Held(s, <<"SLEEP_CTRL", 0, 0>>, <<"SMPL_EN">>) <=> reset
  /\ Held(s, <<"PON_CTRL_1", 0, 0>>, <<"WD_EN">>) <=> reset

LEMMA ResetHolds ==
  ASSUME NEW s, IsPm(s), NEW reset \in BOOLEAN, NEW o \in ConfigResetPwrOff(s, reset)
  PROVE  IsOutcome(o) /\ IsPm(o.s) /\ (o.ret = 0 => ResetIs(o.s, reset))
<1> DEFINE smpl == <<"SLEEP_CTRL", 0, 0>>
           pon  == <<"PON_CTRL_1", 0, 0>>
           sets == IF reset THEN {<<"SMPL_EN">>} ELSE {}
           pons == {<<"PULL_UP">>, <<"USB_PWR_EN">>} \cup IF reset THEN {<<"WD_EN">>} ELSE {}
           one  == Modify(smpl, {"SMPL_EN"}, sets)
           two  == Modify(pon, {"PULL_UP", "USB_PWR_EN", "WD_EN"}, pons)
<1>1. o \in Sequence8921(s, <<one, two>>)
  BY DEF ConfigResetPwrOff
<1>2. Ordinary(smpl) /\ Ordinary(pon) /\ smpl # pon
  BY DEF Ordinary
<1>3. \A v : <<"SMPL_EN">> \in Without(v, {"SMPL_EN"}) \cup sets <=> reset
  BY DEF Without
<1>4. \A v : <<"WD_EN">> \in Without(v, {"PULL_UP", "USB_PWR_EN", "WD_EN"}) \cup pons <=> reset
  BY DEF Without
<1> HIDE DEF one, two, sets, pons, smpl, pon
<1>5. /\ IsOutcome(o) /\ IsPm(o.s)
      /\ o.ret = 0 => \E t : Takes(s, one, t) /\ Takes(t, two, o.s)
  BY <1>1, TwoTaken
<1>6. ASSUME o.ret = 0 PROVE ResetIs(o.s, reset)
  <2>1. PICK t : Takes(s, one, t) /\ Takes(t, two, o.s)
    BY <1>5, <1>6
  <2>2. PutIn(s, smpl, Without(ValueOf(s, smpl), {"SMPL_EN"}) \cup sets, t)
    BY <2>1, <1>2, ModifyTakes DEF one
  <2>3. PutIn(t, pon, Without(ValueOf(t, pon), {"PULL_UP", "USB_PWR_EN", "WD_EN"}) \cup pons, o.s)
    BY <2>1, <1>2, ModifyTakes DEF two
  <2>4. Held(o.s, smpl, <<"SMPL_EN">>) <=> reset
    BY <2>2, <2>3, <1>2, <1>3 DEF PutIn, Held
  <2>5. Held(o.s, pon, <<"WD_EN">>) <=> reset
    BY <2>3, <1>4 DEF PutIn, Held
  <2> QED
    BY <2>4, <2>5 DEF ResetIs, smpl, pon
<1> QED
  BY <1>5, <1>6

(* The modulator is started in the bank of its channel.                    *)
LEMMA PwmStarts ==
  ASSUME NEW s, IsPm(s), NEW channel, NEW o \in Pm8921PwmEnable(s, channel)
  PROVE  /\ IsOutcome(o) /\ IsPm(o.s)
         /\ o.ret = 0 => Held(o.s, <<"LPG_CTL", channel, 0>>, <<"PWM_START">>)
<1> DEFINE sel == <<"LPG_BANK_SEL", 0, 0>>
           bk == {<<"BANK", channel>>}
           a == Modify(<<"LPG_BANK_ENABLE", 0, 0>>, {}, {<<"ON", channel>>})
           b == Store(sel, bk)
           c == Modify(<<"LPG_CTL", 0, 0>>, {"RAMP_GEN", "PWM_START"}, {<<"PWM_START">>})
<1>1. o \in Sequence8921(s, <<a, b, c>>)
  BY DEF Pm8921PwmEnable
<1>2. /\ IsOutcome(o) /\ IsPm(o.s)
      /\ o.ret = 0 => \E t, u : Takes(s, a, t) /\ Takes(t, b, u) /\ Takes(u, c, o.s)
  <2> HIDE DEF a, b, c
  <2> QED
    BY <1>1, ThreeTaken
<1>3. ASSUME o.ret = 0 PROVE Held(o.s, <<"LPG_CTL", channel, 0>>, <<"PWM_START">>)
  <2>1. PICK t, u : Takes(s, a, t) /\ Takes(t, b, u) /\ Takes(u, c, o.s)
    <3> HIDE DEF a, b, c
    <3> QED
      BY <1>2, <1>3
  <2>2. PutIn(t, sel, bk, u)
    <3>1. Ordinary(sel)
      BY DEF Ordinary
    <3> QED
      BY <2>1, <3>1, StoreTakes
  <2>3. SelectedBank(u) = channel
    BY <2>2, BankIsSelected DEF PutIn
  <2> DEFINE at == [modify |-> TRUE, reg |-> <<"LPG_CTL", channel, 0>>,
                    clear |-> {"RAMP_GEN", "PWM_START"}, set |-> {<<"PWM_START">>}]
  <2>4. c.reg[1] = "LPG_CTL" /\ c.reg[3] = 0
    BY DEF Modify
  <2>5. Located(u, c) = at
    BY <2>3, <2>4 DEF Located, Modify
  <2>6. <<"PWM_START">> \in Written(u, at)
    BY DEF Written
  <2> QED
    BY <2>1, <2>5, <2>6 DEF Takes, PutIn, Held
<1> QED
  BY <1>2, <1>3

(* The modulator's settings, in the bank of the channel: the bank is       *)
(* selected first, and six control registers follow.                       *)
LEMMA PwmIsSet ==
  ASSUME NEW s, IsPm(s), NEW channel, NEW period, NEW o \in Pm8921PwmConfig(s, channel, period)
  PROVE  /\ IsOutcome(o) /\ IsPm(o.s)
         /\ o.ret = 0 => Held(o.s, <<"LPG_CTL", channel, 3>>,
                              <<"VALUE", CalcPeriod8921(period).value>>)
<1> DEFINE k    == CalcPeriod8921(period)
           v    == {<<"VALUE", k.value>>}
           ctl  == <<{}, {<<"BYPASS_LUT">>}, {}, v,
                     {<<"CLK", k.clk + 1>>, <<"PRE_DIV", k.div>>, <<"EXP", k.m>>},
                     {<<"SIZE", k.n>>}>>
           sel  == <<"LPG_BANK_SEL", 0, 0>>
           bk == {<<"BANK", channel>>}
           head == <<Store(sel, bk)>>
           tail == [i \in 1..6 |-> Store(<<"LPG_CTL", 0, i - 1>>, ctl[i])]
           steps == head \o tail
<1>1. CASE period \notin PwmPeriods
  <2>1. o \in Return(s, 1)
    BY <1>1 DEF Pm8921PwmConfig, Checked
  <2> QED
    BY <2>1 DEF Return, IsOutcome
<1>2. CASE period \in PwmPeriods
  <2>1. o \in Sequence8921(s, steps)
    BY <1>2 DEF Pm8921PwmConfig, Checked
  <2> HIDE DEF k
  <2>2. /\ Len(steps) = 7 /\ steps[1] = Store(sel, bk)
        /\ \A i \in 2..7 : steps[i] = Store(<<"LPG_CTL", 0, i - 2>>, ctl[i - 1])
    <3>1. tail \in Seq({tail[i] : i \in 1..6}) /\ Len(tail) = 6
      <4>1. tail \in [1..6 -> {tail[i] : i \in 1..6}]
        OBVIOUS
      <4> QED
        BY <4>1
    <3>2. head \in Seq({head[1]}) /\ Len(head) = 1 /\ head[1] = Store(sel, bk)
      OBVIOUS
    <3>3. \A i \in 1..6 : tail[i] = Store(<<"LPG_CTL", 0, i - 1>>, ctl[i])
      OBVIOUS
    <3> DEFINE E == {head[1]} \cup {tail[i] : i \in 1..6}
    <3>4. head \in Seq(E) /\ tail \in Seq(E)
      <4>1. \A i \in 1..1 : head[i] \in E
        OBVIOUS
      <4>2. \A i \in 1..6 : tail[i] \in E
        OBVIOUS
      <4> HIDE DEF E, head, tail
      <4> QED
        BY SMTT(40), <3>1, <3>2, <4>1, <4>2
    <3> HIDE DEF E, head, tail, ctl
    <3>5. Len(steps) = 7 /\ \A i \in 1..7 : steps[i] = IF i <= 1 THEN head[i] ELSE tail[i - 1]
      <4>1. /\ Len(head \o tail) = Len(head) + Len(tail)
            /\ \A i \in 1..Len(head) + Len(tail) :
                 (head \o tail)[i] = IF i <= Len(head) THEN head[i] ELSE tail[i - Len(head)]
        BY <3>4, ConcatProperties
      <4> QED
        BY <4>1, <3>1, <3>2
    <3>6. \A i \in 2..7 : i - 1 \in 1..6 /\ (i - 1) - 1 = i - 2 /\ i \in 1..7 /\ ~(i <= 1)
      OBVIOUS
    <3>7. ASSUME NEW i \in 2..7 PROVE steps[i] = Store(<<"LPG_CTL", 0, i - 2>>, ctl[i - 1])
      <4>1. steps[i] = tail[i - 1]
        BY <3>5, <3>6
      <4> QED
        BY <3>3, <3>6, <4>1
    <3> QED
      BY SMTT(40), <3>2, <3>5, <3>7
  <2>3. ctl[4] = v
    OBVIOUS
  <2> HIDE DEF steps, ctl, v
  <2>4. WentOn(s, steps, 7, o)
    BY <2>1, <2>2, SequenceTakes
  <2>5. ASSUME o.ret = 0 PROVE Held(o.s, <<"LPG_CTL", channel, 3>>, <<"VALUE", k.value>>)
    <3>1. PICK t : IsTrace(s, steps, 7, t) /\ o.s = t[7]
      BY <2>4, <2>5 DEF WentOn
    <3> DEFINE Bank(i) == ValueOf(t[i], sel) = bk
    <3>2. Bank(1)
      <4>1. Takes(t[0], Store(sel, bk), t[1])
        BY <3>1, <2>2 DEF IsTrace
      <4>2. Ordinary(sel)
        BY DEF Ordinary
      <4>3. PutIn(t[0], sel, bk, t[1])
        BY <4>1, <4>2, StoreTakes
      <4> QED
        BY <4>3 DEF PutIn
    <3>3. ASSUME NEW i \in 2..7, Bank(i - 1)
          PROVE  Bank(i) /\ PutIn(t[i - 1], <<"LPG_CTL", channel, i - 2>>, ctl[i - 1], t[i])
      <4>1. Takes(t[i - 1], Store(<<"LPG_CTL", 0, i - 2>>, ctl[i - 1]), t[i])
        BY <3>1, <2>2 DEF IsTrace
      <4> QED
        BY <3>3, <4>1, GeneratorTakes
    <3> HIDE DEF Bank
    <3>4. Bank(2) /\ Bank(3) /\ Bank(4)
      BY <3>2, <3>3
    <3>5. Bank(5) /\ PutIn(t[4], <<"LPG_CTL", channel, 3>>, ctl[4], t[5])
      BY <3>4, <3>3
    <3>6. Bank(6) /\ PutIn(t[5], <<"LPG_CTL", channel, 4>>, ctl[5], t[6])
      BY <3>5, <3>3
    <3>7. PutIn(t[6], <<"LPG_CTL", channel, 5>>, ctl[6], t[7])
      BY <3>6, <3>3
    <3>8. ValueOf(t[7], <<"LPG_CTL", channel, 3>>) = v
      <4>1. /\ <<"LPG_CTL", channel, 3>> # <<"LPG_CTL", channel, 4>>
            /\ <<"LPG_CTL", channel, 3>> # <<"LPG_CTL", channel, 5>>
        OBVIOUS
      <4> QED
        BY <3>5, <3>6, <3>7, <2>3, <4>1 DEF PutIn
    <3> QED
      BY <3>1, <3>8 DEF Held, v
  <2> QED
    BY <2>4, <2>5 DEF WentOn, k
<1> QED
  BY <1>1, <1>2

LEMMA PeriodIsAllowed ==
  ASSUME NEW s, NEW channel, NEW period, NEW o \in Pm8921PwmConfig(s, channel, period), o.ret = 0
  PROVE  period \in PwmPeriods
BY DEF Pm8921PwmConfig, Checked, Return

(* The calls of which nothing is promised leave a state all the same.      *)
LEMMA StatesAreLeft ==
  ASSUME NEW s, IsPm(s)
  PROVE  /\ \A r, v : \A o \in SsbiWrite(s, r, v) : IsPm(o.s)
         /\ \A o \in SsbiRead(s) : IsPm(o.s) /\ (o.ret = 0 => o.s = s)
<1>1. \A o \in Done(s) : o.s = s
  BY DoneIs
<1>2. \A o \in TimedOut(s) : IsPm(o.s) /\ o.ret = 1
  BY TimeOuts
<1>3. ASSUME NEW r, NEW v, NEW o \in SsbiWrite(s, r, v) PROVE IsPm(o.s)
  <2> DEFINE t == Put(s, r, v)
  <2>1. IsPm(t)
    BY PutPuts
  <2>2. o \in Done(t) \cup TimedOut(s) \cup TimedOut(t)
    BY DEF SsbiWrite
  <2> HIDE DEF t
  <2> QED
    BY <2>1, <2>2, <1>2, DoneIs, TimeOuts
<1> QED
  BY <1>1, <1>2, <1>3 DEF SsbiRead

LEMMA IrqLeaves ==
  ASSUME NEW s, IsPm(s), NEW block, NEW o \in IrqGetBlockStatus(s, block)
  PROVE  IsPm(o.s)
<1> DEFINE a == Store(<<"IRQ_BLOCK_SEL", 0, 0>>, {<<"BLOCK", block>>})
           first == Sequence8921(s, <<a>>)
<1>1. \A x \in first : IsPm(x.s)
  <2> HIDE DEF a
  <2> QED
    BY OneTaken
<1>2. o \in UNION {IF x.ret = 0 THEN SsbiRead(x.s) ELSE {x} : x \in first}
  BY DEF IrqGetBlockStatus, Then
<1> HIDE DEF first
<1> QED
  BY <1>1, <1>2, ThenGoesOn

LEMMA SwitchLeaves ==
  ASSUME NEW s, IsPm(s), NEW lvs, NEW o \in LowVoltageSwitchEnable(s, lvs)
  PROVE  IsPm(o.s)
<1> DEFINE a == Store(<<"LVS_CTRL", lvs, 0>>, {<<"SW_EN">>, <<"SLEEP_B_IGNORE">>})
           next(t) == IF <<"VOUT_OK">> \in ValueOf(t, <<"LVS_TEST", lvs, 0>>) THEN Done(t)
                      ELSE Sequence8921(t, <<a>>)
<1>1. CASE lvs \notin 1..7 \ {2}
  <2>1. o \in Return(s, 1)
    BY <1>1 DEF LowVoltageSwitchEnable
  <2> QED
    BY <2>1 DEF Return
<1>2. CASE lvs \in 1..7 \ {2}
  <2>1. o \in UNION {IF x.ret = 0 THEN next(x.s) ELSE {x} : x \in SsbiRead(s)}
    BY <1>2 DEF LowVoltageSwitchEnable, Then
  <2>2. PICK x \in SsbiRead(s) : o \in (IF x.ret = 0 THEN next(x.s) ELSE {x})
    BY <2>1
  <2>3. IsPm(x.s)
    BY StatesAreLeft
  <2>4. \A y \in Done(x.s) : IsPm(y.s)
    BY <2>3, DoneIs
  <2> HIDE DEF a
  <2>5. \A y \in Sequence8921(x.s, <<a>>) : IsPm(y.s)
    BY <2>3, OneTaken
  <2> QED
    BY <2>2, <2>3, <2>4, <2>5
<1> QED
  BY <1>1, <1>2

LEMMA BootLeaves ==
  ASSUME NEW s, IsPm(s), NEW o \in Pm8921BootDone(s)
  PROVE  IsPm(o.s)
<1> DEFINE Try(t, r, set) ==
             UNION {Ignoring(SsbiWrite(x.s, r, (IF x.ret = 0 THEN ValueOf(x.s, r) ELSE {}) \cup set),
                             Done) : x \in SsbiRead(t)}
           first == Try(s, <<"PBL_ACCESS_2", 0, 0>>, {<<"ENUM_TIMER_STOP">>})
           second(t) == Try(t, <<"SYS_CONFIG_2", 0, 0>>,
                            {<<"BOOT_DONE">>, <<"ADAPTIVE_BOOT_DISABLE">>})
<1>1. ASSUME NEW t, IsPm(t), NEW r, NEW set, NEW x \in Try(t, r, set) PROVE IsPm(x.s)
  <2>1. PICK y \in SsbiRead(t) :
          x \in Ignoring(SsbiWrite(y.s, r, (IF y.ret = 0 THEN ValueOf(y.s, r) ELSE {}) \cup set), Done)
    BY <1>1
  <2> DEFINE v == (IF y.ret = 0 THEN ValueOf(y.s, r) ELSE {}) \cup set
  <2>2. IsPm(y.s)
    BY <1>1, StatesAreLeft
  <2> HIDE DEF v
  <2>3. \A z \in SsbiWrite(y.s, r, v) : IsPm(z.s)
    BY <2>2, StatesAreLeft
  <2>4. PICK z \in SsbiWrite(y.s, r, v) : x \in Done(z.s)
    BY <2>1 DEF Ignoring, v
  <2> QED
    BY <2>3, <2>4, DoneIs
<1>2. o \in UNION {IF x.ret = 0 THEN second(x.s) ELSE {x} : x \in first}
  BY DEF Pm8921BootDone, Then
<1>3. PICK x \in first : o \in (IF x.ret = 0 THEN second(x.s) ELSE {x})
  BY <1>2
<1> HIDE DEF Try
<1>4. IsPm(x.s)
  BY <1>1
<1> QED
  BY <1>1, <1>3, <1>4

-----------------------------------------------------------------------------
(* What a call promises is what the lemmas say.                            *)
LEMMA PromisedIs ==
  ASSUME NEW s, NEW c
  PROVE  Promised(s, c) <=>
    /\ c.op = "gpio" => \A g \in {c.unit, c.unit + 1}, b \in 0..5 :
                          Held(s, <<"GPIO", g, b>>, <<"FIELDS", c.arg>>)
    /\ c.op = "ldo" => LdoIsOn(s, c.unit, c.arg)
    /\ (c.op = "ldo89" /\ c.unit \in NamedLdos) => LdoIsOn(s, c.unit, c.arg)
    /\ c.op = "reset" => ResetIs(s, c.arg = 1)
    /\ c.op = "pwmon" => Held(s, <<"LPG_CTL", c.unit, 0>>, <<"PWM_START">>)
    /\ c.op = "pwm" => Held(s, <<"LPG_CTL", c.unit, 3>>, <<"VALUE", CalcPeriod8921(c.arg).value>>)
<1> DEFINE pairs == {<<<<"SLEEP_CTRL", 0, 0>>, <<"SMPL_EN">>>>, <<<<"PON_CTRL_1", 0, 0>>, <<"WD_EN">>>>}
<1>1. (\A x \in pairs : Held(s, x[1], x[2]) <=> c.arg = 1) <=> ResetIs(s, c.arg = 1)
  BY DEF ResetIs
<1> QED
  BY <1>1 DEF Promised, Held, LdoIsOn

LEMMA CallsKeepPromises ==
  ASSUME NEW s, IsPm(s), NEW c, NEW o \in Pm8921Call(s, c)
  PROVE  IsPm(o.s) /\ (o.ret = 0 => Promised(o.s, c))
<1>1. CASE c.op = "gpio"
  <2>1. o \in GpioConfigArray(s, <<c.unit, c.unit + 1>>, c.arg)
    BY <1>1 DEF Pm8921Call
  <2>2. /\ IsPm(o.s)
        /\ o.ret = 0 => GpioIs(o.s, c.unit, c.arg) /\ GpioIs(o.s, c.unit + 1, c.arg)
    BY <2>1, GpiosHold
  <2> QED
    BY <1>1, <2>2, PromisedIs DEF GpioIs, Held
<1>2. CASE c.op = "irq"
  <2>1. o \in IrqGetBlockStatus(s, c.unit)
    BY <1>2 DEF Pm8921Call
  <2> QED
    BY <1>2, <2>1, IrqLeaves, PromisedIs
<1>3. CASE c.op = "ldo"
  <2>1. o \in Pm8921LdoSetVoltage(s, c.unit, c.arg)
    BY <1>3 DEF Pm8921Call
  <2> QED
    BY <1>3, <2>1, LdoHolds, PromisedIs
<1>4. CASE c.op = "ldo89"
  <2>1. o \in Pm8921LdoSetVoltage(s, LdoGet(c.unit), c.arg)
    BY <1>4 DEF Pm8921Call, Pm89xxLdoSetVoltage
  <2>2. c.unit \in NamedLdos => LdoGet(c.unit) = c.unit
    BY DEF LdoGet
  <2>3. IsPm(o.s) /\ (o.ret = 0 => LdoIsOn(o.s, LdoGet(c.unit), c.arg))
    BY <2>1, LdoHolds
  <2> QED
    BY <1>4, <2>2, <2>3, PromisedIs
<1>5. CASE c.op = "reset"
  <2>1. o \in ConfigResetPwrOff(s, c.arg = 1)
    BY <1>5 DEF Pm8921Call
  <2>2. IsPm(o.s) /\ (o.ret = 0 => ResetIs(o.s, c.arg = 1))
    BY <2>1, ResetHolds
  <2> QED
    BY <1>5, <2>2, PromisedIs
<1>6. CASE c.op = "lvs"
  <2>1. o \in LowVoltageSwitchEnable(s, c.unit)
    BY <1>6 DEF Pm8921Call
  <2> QED
    BY <1>6, <2>1, SwitchLeaves, PromisedIs
<1>7. CASE c.op = "pwm"
  <2>1. o \in Pm8921PwmConfig(s, c.unit, c.arg)
    BY <1>7 DEF Pm8921Call
  <2> QED
    BY <1>7, <2>1, PwmIsSet, PromisedIs
<1>8. CASE c.op = "pwmon"
  <2>1. o \in Pm8921PwmEnable(s, c.unit)
    BY <1>8 DEF Pm8921Call
  <2> QED
    BY <1>8, <2>1, PwmStarts, PromisedIs
<1>9. CASE c.op = "alarm"
  <2> DEFINE a == Store(<<"BAT_ALRM_THRESH", 0, 0>>, {<<"VOL", c.arg>>})
             b == Modify(<<"BAT_ALRM_CTRL", 0, 0>>, {}, {<<"ENABLE">>})
  <2>1. o \in Return(s, 1) \/ o \in Sequence8921(s, <<a, b>>)
    BY <1>9 DEF Pm8921Call, Pm8921BatAlarmSet, Checked
  <2> HIDE DEF a, b
  <2>2. IsPm(o.s)
    BY <2>1, TwoTaken DEF Return
  <2> QED
    BY <1>9, <2>2, PromisedIs
<1>10. CASE c.op = "rtc"
  <2> DEFINE a == Modify(<<"RTC_CTRL", 0, 0>>, {"ALARM_EN"}, {})
  <2>1. o \in Sequence8921(s, <<a>>)
    BY <1>10 DEF Pm8921Call, RtcAlarmDisable
  <2> HIDE DEF a
  <2>2. IsPm(o.s)
    BY <2>1, OneTaken
  <2> QED
    BY <1>10, <2>2, PromisedIs
<1>11. CASE c.op = "boot"
  <2>1. o \in Pm8921BootDone(s)
    BY <1>11 DEF Pm8921Call
  <2> QED
    BY <1>11, <2>1, BootLeaves, PromisedIs
<1>12. CASE c.op \notin {"gpio", "irq", "ldo", "ldo89", "reset", "lvs", "pwm", "pwmon", "alarm",
                         "rtc", "boot"}
  <2> DEFINE a == Store(<<c.op, c.unit, 0>>, {<<"LEVEL", c.arg>>})
  <2>1. o \in WriteOne(s, c.op, c.unit, c.arg)
    BY <1>12 DEF Pm8921Call
  <2>2. o \in Return(s, 1) \/ o \in Sequence8921(s, <<a>>)
    BY <2>1 DEF WriteOne, Checked
  <2> HIDE DEF a
  <2>3. IsPm(o.s)
    BY <2>2, OneTaken DEF Return
  <2> QED
    BY <1>12, <2>3, PromisedIs
<1> QED
  BY <1>1, <1>2, <1>3, <1>4, <1>5, <1>6, <1>7, <1>8, <1>9, <1>10, <1>11, <1>12

(* The invariant: what a success says of the chip, and of its argument.    *)
ChipIsTrue ==
  /\ IsPm(pm) /\ SuccessReachedTheChip
  /\ pm.call.op = "pwm" /\ pm.ret = 0 => pm.call.arg \in PwmPeriods

LEMMA ChipStaysTrue == Pm8921Spec => []ChipIsTrue
<1>1. Pm8921Init => ChipIsTrue
  <2> SUFFICES ASSUME Pm8921Init PROVE ChipIsTrue
    OBVIOUS
  <2>1. IsPm(pm) /\ pm.call = NoPmCall
    BY DEF Pm8921Init, IsPm
  <2>2. NoPmCall.op = "none"
    BY DEF NoPmCall
  <2> QED
    BY <2>1, <2>2, PromisedIs DEF ChipIsTrue, SuccessReachedTheChip
<1>2. ChipIsTrue /\ [Pm8921Next]_pm8921Vars => ChipIsTrue'
  <2> SUFFICES ASSUME ChipIsTrue, [Pm8921Next]_pm8921Vars PROVE ChipIsTrue'
    OBVIOUS
  <2>1. CASE CallPm8921
    <3> DEFINE s == [pm EXCEPT !.calls = @ - 1]
    <3>1. PICK c \in PmCalls : \E o \in Pm8921Call(s, c) : pm' = [o.s EXCEPT !.call = c, !.ret = o.ret]
      BY <2>1 DEF CallPm8921
    <3>2. PICK o \in Pm8921Call(s, c) : pm' = [o.s EXCEPT !.call = c, !.ret = o.ret]
      BY <3>1, Zenon
    <3>3. IsPm(s)
      <4>1. s = [reg |-> pm.reg, faults |-> pm.faults, calls |-> pm.calls - 1,
                 call |-> pm.call, ret |-> pm.ret]
        BY DEF ChipIsTrue, IsPm
      <4> HIDE DEF s
      <4> QED
        BY <4>1 DEF IsPm
    <3> HIDE DEF s
    <3>4. IsPm(o.s) /\ (o.ret = 0 => Promised(o.s, c))
      BY <3>3, CallsKeepPromises
    <3> DEFINE x == o.s
    <3>5. pm' = [reg |-> x.reg, faults |-> x.faults, calls |-> x.calls, call |-> c, ret |-> o.ret]
      <4> HIDE DEF x
      <4>1. IsPm(x) /\ pm' = [x EXCEPT !.call = c, !.ret = o.ret]
        BY <3>2, <3>4 DEF x
      <4> QED
        BY <4>1 DEF IsPm
    <3> HIDE DEF x
    <3>6. pm'.reg = x.reg /\ pm'.call = c /\ pm'.ret = o.ret
      BY <3>5
    <3>7. IsPm(pm')
      BY <3>5 DEF IsPm
    <3>8. \A r : ValueOf(pm', r) = ValueOf(x, r)
      BY <3>6 DEF ValueOf
    <3>9. Promised(x, c) => Promised(pm', c)
      BY <3>8, PromisedIs DEF Held, LdoIsOn, ResetIs
    <3>10. c.op = "pwm" /\ o.ret = 0 => c.arg \in PwmPeriods
      <4>1. c.op = "pwm" => o \in Pm8921PwmConfig(s, c.unit, c.arg)
        BY DEF Pm8921Call
      <4> QED
        BY <4>1, PeriodIsAllowed
    <3> QED
      BY <3>4, <3>6, <3>7, <3>9, <3>10 DEF ChipIsTrue, SuccessReachedTheChip, x
  <2>2. CASE UNCHANGED pm8921Vars
    BY <2>2 DEF ChipIsTrue, SuccessReachedTheChip, pm8921Vars
  <2> QED
    BY <2>1, <2>2 DEF Pm8921Next
<1> QED
  BY <1>1, <1>2, PTL DEF Pm8921Spec

(* A call that returns success has done on the chip all it was called for, *)
(* wherever the bus failed, whichever bank of the generator was selected   *)
(* before, and whatever the other calls left half done (pm8921.c,          *)
(* pm8921_pwm.c).                                                          *)
THEOREM SuccessIsTrue == Pm8921Spec => []SuccessReachedTheChip
<1>1. ChipIsTrue => SuccessReachedTheChip
  BY DEF ChipIsTrue
<1> QED
  BY <1>1, ChipStaysTrue, PTL

-----------------------------------------------------------------------------
(* The chips behind the arbiter.  No call looks at a failure, but s.failed *)
(* remembers one; while there was none a step takes one register to one    *)
(* value, unless that is secured and was not unlocked.                     *)
IsPx(s) == s = [reg |-> s.reg, chnl_tbl |-> s.chnl_tbl, wled_slave_id |-> s.wled_slave_id,
                gwled |-> s.gwled, unlocked |-> s.unlocked, failed |-> s.failed,
                faults |-> s.faults, calls |-> s.calls, call |-> s.call, ret |-> s.ret]
CameFrom(s, t) ==
  /\ IsPx(t) /\ t.chnl_tbl = s.chnl_tbl /\ t.wled_slave_id = s.wled_slave_id /\ t.gwled = s.gwled
  /\ s.failed => t.failed
SpmiTakes(s, st, t) ==
  LET r    == Reached(s, st.reg)
      v    == IF st.modify THEN Without(ValueOf(s, r), st.clear) \cup st.set ELSE st.set
      open == <<r[2], r[3]>> \in Secured => s.unlocked = <<r[1], r[2]>>
  IN  /\ \A q : ValueOf(t, q) = IF q = r /\ open THEN v ELSE ValueOf(s, q)
      /\ t.unlocked = IF r[3] = "SEC_ACCESS" THEN <<r[1], r[2]>> ELSE <<>>
      /\ t.chnl_tbl = s.chnl_tbl

LEMMA ChipTakesIt ==
  ASSUME NEW s, IsPx(s), NEW r, NEW v, NEW t, t = ChipTakes(s, r, v)
  PROVE  /\ CameFrom(s, t)
         /\ \A q : ValueOf(t, q) =
              IF q = r /\ (<<r[2], r[3]>> \in Secured => s.unlocked = <<r[1], r[2]>>) THEN v
              ELSE ValueOf(s, q)
         /\ t.unlocked = IF r[3] = "SEC_ACCESS" THEN <<r[1], r[2]>> ELSE <<>>
<1> DEFINE key == IF r[3] = "SEC_ACCESS" THEN <<r[1], r[2]>> ELSE <<>>
           u == [s EXCEPT !.unlocked = key]
           f == [q \in DOMAIN s.reg \cup {r} |-> IF q = r THEN v ELSE s.reg[q]]
           open == <<r[2], r[3]>> \in Secured => s.unlocked = <<r[1], r[2]>>
<1>1. u = [reg |-> s.reg, chnl_tbl |-> s.chnl_tbl, wled_slave_id |-> s.wled_slave_id,
           gwled |-> s.gwled, unlocked |-> key, failed |-> s.failed,
           faults |-> s.faults, calls |-> s.calls, call |-> s.call, ret |-> s.ret]
  <2> HIDE DEF key
  <2> QED
    BY DEF IsPx
<1>2. t = IF open THEN Put(u, r, v) ELSE u
  BY DEF ChipTakes
<1> HIDE DEF u, key
<1>3. CASE ~open
  <2>1. t = u
    BY <1>2, <1>3
  <2>2. CameFrom(s, t) /\ t.reg = s.reg /\ t.unlocked = key
    BY <1>1, <2>1 DEF CameFrom, IsPx
  <2>3. \A q : ValueOf(t, q) = ValueOf(s, q)
    BY <2>2 DEF ValueOf
  <2> QED
    BY <1>3, <2>2, <2>3 DEF key
<1>4. CASE open
  <2>1. u.reg = s.reg
    BY <1>1
  <2>2. t = [u EXCEPT !.reg = f]
    BY <1>2, <1>4, <2>1 DEF Put
  <2> HIDE DEF f
  <2>3. t = [reg |-> f, chnl_tbl |-> s.chnl_tbl, wled_slave_id |-> s.wled_slave_id,
             gwled |-> s.gwled, unlocked |-> key, failed |-> s.failed,
             faults |-> s.faults, calls |-> s.calls, call |-> s.call, ret |-> s.ret]
    BY <1>1, <2>2
  <2>4. CameFrom(s, t) /\ t.reg = f /\ t.unlocked = key
    BY <2>3 DEF CameFrom, IsPx
  <2>5. \A q : ValueOf(t, q) = IF q = r THEN v ELSE ValueOf(s, q)
    BY <2>4 DEF ValueOf, f
  <2> QED
    BY <1>4, <2>4, <2>5 DEF key
<1> QED
  BY <1>3, <1>4

LEMMA LostIs ==
  ASSUME NEW s, IsPx(s)
  PROVE  CameFrom(s, Lost(s)) /\ Lost(s).failed
<1> DEFINE t == Lost(s)
           n == s.faults - 1
<1>1. t = [reg |-> s.reg, chnl_tbl |-> s.chnl_tbl, wled_slave_id |-> s.wled_slave_id,
           gwled |-> s.gwled, unlocked |-> s.unlocked, failed |-> TRUE,
           faults |-> n, calls |-> s.calls, call |-> s.call, ret |-> s.ret]
  <2> DEFINE u == [s EXCEPT !.faults = n]
  <2>1. t = [u EXCEPT !.failed = TRUE]
    BY DEF Lost
  <2> HIDE DEF n
  <2>2. u = [reg |-> s.reg, chnl_tbl |-> s.chnl_tbl, wled_slave_id |-> s.wled_slave_id,
             gwled |-> s.gwled, unlocked |-> s.unlocked, failed |-> s.failed,
             faults |-> n, calls |-> s.calls, call |-> s.call, ret |-> s.ret]
    BY DEF IsPx
  <2> HIDE DEF u, t
  <2> QED
    BY <2>1, <2>2
<1> HIDE DEF t
<1>2. CameFrom(s, t) /\ t.failed
  BY <1>1 DEF CameFrom, IsPx
<1> QED
  BY <1>2 DEF t

LEMMA RegWrites ==
  ASSUME NEW s, IsPx(s), NEW r, NEW v, NEW o \in RegWrite(s, r, v)
  PROVE  /\ IsOutcome(o) /\ o.ret = 0 /\ CameFrom(s, o.s)
         /\ ~o.s.failed => o.s = ChipTakes(s, Reached(s, r), v)
<1> DEFINE at == Reached(s, r)
           t == ChipTakes(s, at, v)
           l == Lost(s)
<1>1. o \in Done(t) \/ o \in Done(l)
  BY DEF RegWrite
<1>2. CameFrom(s, t)
  <2> HIDE DEF at
  <2> QED
    BY ChipTakesIt
<1>3. CameFrom(s, l) /\ l.failed
  BY LostIs
<1> HIDE DEF t, l
<1>4. IsOutcome(o) /\ o.ret = 0 /\ (o.s = t \/ o.s = l)
  BY <1>1, DoneIs
<1> QED
  BY <1>2, <1>3, <1>4 DEF t

LEMMA SpmiStepTakes ==
  ASSUME NEW s, IsPx(s), NEW st, NEW o \in SpmiStep(s, st)
  PROVE  /\ IsOutcome(o) /\ o.ret = 0 /\ CameFrom(s, o.s)
         /\ ~o.s.failed => SpmiTakes(s, st, o.s)
<1> DEFINE r == Reached(s, st.reg)
           mod == Without(ValueOf(s, r), st.clear) \cup st.set
           none == Without({}, st.clear) \cup st.set
<1>1. CASE ~st.modify
  <2>1. o \in RegWrite(s, st.reg, st.set)
    BY <1>1 DEF SpmiStep
  <2>2. /\ IsOutcome(o) /\ o.ret = 0 /\ CameFrom(s, o.s)
        /\ ~o.s.failed => o.s = ChipTakes(s, r, st.set)
    BY <2>1, RegWrites
  <2>3. ASSUME ~o.s.failed PROVE SpmiTakes(s, st, o.s)
    <3>1. o.s = ChipTakes(s, r, st.set)
      BY <2>2, <2>3
    <3> HIDE DEF r
    <3>2. /\ CameFrom(s, o.s)
          /\ \A q : ValueOf(o.s, q) =
               IF q = r /\ (<<r[2], r[3]>> \in Secured => s.unlocked = <<r[1], r[2]>>) THEN st.set
               ELSE ValueOf(s, q)
          /\ o.s.unlocked = IF r[3] = "SEC_ACCESS" THEN <<r[1], r[2]>> ELSE <<>>
      BY <3>1, ChipTakesIt
    <3> QED
      BY <1>1, <3>2 DEF SpmiTakes, CameFrom, r
  <2> QED
    BY <2>2, <2>3
<1>2. CASE st.modify
  <2> DEFINE l == Lost(s)
  <2>1. o \in RegWrite(s, st.reg, mod) \/ o \in RegWrite(l, st.reg, none)
    BY <1>2 DEF SpmiStep, ReadThen
  <2>2. CASE o \in RegWrite(l, st.reg, none)
    <3>1. CameFrom(s, l) /\ l.failed /\ IsPx(l)
      BY LostIs DEF CameFrom
    <3> HIDE DEF l, none
    <3>2. IsOutcome(o) /\ o.ret = 0 /\ CameFrom(l, o.s)
      BY <2>2, <3>1, RegWrites
    <3> QED
      BY <3>1, <3>2 DEF CameFrom
  <2>3. CASE o \in RegWrite(s, st.reg, mod)
    <3> HIDE DEF mod
    <3>1. /\ IsOutcome(o) /\ o.ret = 0 /\ CameFrom(s, o.s)
          /\ ~o.s.failed => o.s = ChipTakes(s, r, mod)
      BY <2>3, RegWrites
    <3>2. ASSUME ~o.s.failed PROVE SpmiTakes(s, st, o.s)
      <4>1. o.s = ChipTakes(s, r, mod)
        BY <3>1, <3>2
      <4> HIDE DEF r
      <4>2. /\ CameFrom(s, o.s)
            /\ \A q : ValueOf(o.s, q) =
                 IF q = r /\ (<<r[2], r[3]>> \in Secured => s.unlocked = <<r[1], r[2]>>) THEN mod
                 ELSE ValueOf(s, q)
            /\ o.s.unlocked = IF r[3] = "SEC_ACCESS" THEN <<r[1], r[2]>> ELSE <<>>
        BY <4>1, ChipTakesIt
      <4> QED
        BY <1>2, <4>2 DEF SpmiTakes, CameFrom, r, mod
    <3> QED
      BY <3>1, <3>2
  <2> QED
    BY <2>1, <2>2, <2>3
<1> QED
  BY <1>1, <1>2

(* A sequence during which nothing failed went through a state after each  *)
(* of its steps.                                                           *)
IsRun(s, steps, n, t) ==
  t[0] = s /\ \A i \in 1..n : SpmiTakes(t[i - 1], steps[i], t[i])
RanOn(s, steps, n, o) ==
  /\ IsOutcome(o) /\ o.ret = 0 /\ CameFrom(s, o.s)
  /\ ~o.s.failed => \E t : IsRun(s, steps, n, t) /\ o.s = t[n]

LEMMA OneRunOn ==
  ASSUME NEW s, NEW steps, NEW n \in Nat \ {0}, NEW o, RanOn(s, steps, n - 1, o),
         NEW x \in SpmiStep(o.s, steps[n])
  PROVE  RanOn(s, steps, n, x)
<1>1. /\ IsOutcome(x) /\ x.ret = 0 /\ CameFrom(o.s, x.s)
      /\ ~x.s.failed => SpmiTakes(o.s, steps[n], x.s)
  BY SpmiStepTakes DEF RanOn, CameFrom
<1>2. CameFrom(s, x.s)
  BY <1>1 DEF RanOn, CameFrom
<1>3. SUFFICES ASSUME ~x.s.failed PROVE \E t : IsRun(s, steps, n, t) /\ x.s = t[n]
  BY <1>1, <1>2 DEF RanOn
<1>4. PICK t : IsRun(s, steps, n - 1, t) /\ o.s = t[n - 1]
  BY <1>1, <1>3 DEF RanOn, CameFrom
<1> DEFINE u == [i \in 0..n |-> IF i = n THEN x.s ELSE t[i]]
<1>5. u[0] = s /\ u[n] = x.s /\ u[n - 1] = o.s
  BY <1>4 DEF IsRun
<1>6. ASSUME NEW i \in 1..n PROVE SpmiTakes(u[i - 1], steps[i], u[i])
  <2>1. CASE i = n
    BY <1>1, <1>3, <1>5, <2>1
  <2>2. CASE i # n
    <3>1. i \in 1..(n - 1) /\ i \in 0..n /\ i - 1 \in 0..n /\ i - 1 # n
      BY <2>2
    <3>2. u[i] = t[i] /\ u[i - 1] = t[i - 1]
      BY <2>2, <3>1
    <3> QED
      BY <1>4, <3>1, <3>2 DEF IsRun
  <2> QED
    BY <2>1, <2>2
<1>7. IsRun(s, steps, n, u) /\ x.s = u[n]
  <2> HIDE DEF u
  <2> QED
    BY <1>5, <1>6 DEF IsRun
<1> QED
  BY <1>7

LEMMA SequenceRuns ==
  ASSUME NEW s, IsPx(s), NEW steps, NEW N \in Nat, Len(steps) = N,
         NEW o \in Sequence8x41(s, steps)
  PROVE  RanOn(s, steps, N, o)
<1> DEFINE Turn(i, O) == UNION {IF x.ret = 0 THEN SpmiStep(x.s, steps[i]) ELSE {x} : x \in O}
           Is(h, n) == h = [i \in 0..n |-> IF i < 1 THEN Done(s) ELSE Turn(i, h[i - 1])]
           Well(O, i) == \A x \in O : RanOn(s, steps, i, x)
<1>1. Well(Done(s), 0)
  <2> DEFINE t == [i \in 0..0 |-> s]
  <2>1. IsRun(s, steps, 0, t) /\ t[0] = s
    BY DEF IsRun
  <2> HIDE DEF t
  <2>2. \A x \in Done(s) : IsOutcome(x) /\ x.s = s /\ x.ret = 0
    BY DoneIs
  <2> QED
    BY <2>1, <2>2 DEF RanOn, CameFrom
<1>2. ASSUME NEW i \in Nat \ {0}, NEW O, Well(O, i - 1) PROVE Well(Turn(i, O), i)
  <2> SUFFICES ASSUME NEW x \in Turn(i, O) PROVE RanOn(s, steps, i, x)
    OBVIOUS
  <2>1. PICK y \in O : x \in (IF y.ret = 0 THEN SpmiStep(y.s, steps[i]) ELSE {y})
    OBVIOUS
  <2>2. RanOn(s, steps, i - 1, y)
    BY <1>2
  <2> HIDE DEF Turn, Well
  <2>3. y.ret = 0
    BY <2>2 DEF RanOn
  <2> QED
    BY <2>1, <2>2, <2>3, OneRunOn
<1> HIDE DEF Turn
<1> DEFINE Defined == {n \in 0..N : \E h : Is(h, n)}
<1>5. 0 \in Defined
  <2> DEFINE g == [i \in 0..0 |-> Done(s)]
  <2>1. Is(g, 0)
    OBVIOUS
  <2> HIDE DEF Is, g
  <2> QED
    BY <2>1
<1>6. ASSUME NEW n \in 1..N, n - 1 \in Defined PROVE n \in Defined
  <2>1. PICK h : Is(h, n - 1)
    BY <1>6
  <2> DEFINE g == [i \in 0..n |-> IF i = n THEN Turn(n, h[n - 1]) ELSE h[i]]
  <2>2. ASSUME NEW i \in 0..n PROVE g[i] = IF i < 1 THEN Done(s) ELSE Turn(i, g[i - 1])
    <3>1. CASE i = n
      BY <3>1
    <3>2. CASE i # n
      <4>1. i \in 0..(n - 1) /\ g[i] = h[i]
        BY <3>2
      <4>2. h[i] = IF i < 1 THEN Done(s) ELSE Turn(i, h[i - 1])
        BY <4>1, <2>1
      <4>3. ~(i < 1) => i - 1 \in 0..n /\ i - 1 # n
        BY <3>2
      <4> QED
        BY <4>1, <4>2, <4>3
    <3> QED
      BY <3>1, <3>2
  <2>3. Is(g, n)
    BY <2>2
  <2> HIDE DEF Is, g
  <2> QED
    BY <2>3
<1>7. PICK up : Is(up, N) /\ Sequence8x41(s, steps) = IF N < 1 THEN Done(s) ELSE up[N]
  <2> DEFINE g == CHOOSE h : Is(h, N)
  <2>1. 0..N \subseteq Defined
    <3> HIDE DEF Defined
    <3> QED
      BY <1>5, <1>6, UpToN
  <2>2. \E h : Is(h, N)
    <3>1. N \in Defined
      <4> HIDE DEF Defined
      <4> QED
        BY <2>1
    <3> HIDE DEF Is
    <3> QED
      BY <3>1
  <2>3. Is(g, N)
    <3> HIDE DEF Is
    <3> QED
      BY <2>2
  <2>4. Sequence8x41(s, steps) = IF N < 1 THEN Done(s) ELSE g[N]
    BY DEF Sequence8x41, Perform, ForEach, Then, Turn
  <2> HIDE DEF g, Is
  <2> QED
    BY <2>3, <2>4
<1>8. \A i \in 0..N : up[i] = IF i < 1 THEN Done(s) ELSE Turn(i, up[i - 1])
  BY ONLY <1>7
<1> HIDE DEF Is, Well
<1> DEFINE T == {i \in 0..N : Well(up[i], i)}
<1>9. 0 \in T
  BY <1>1, <1>8
<1>10. ASSUME NEW i \in 1..N, i - 1 \in T PROVE i \in T
  <2>1. Well(up[i - 1], i - 1)
    BY <1>10
  <2>2. Well(Turn(i, up[i - 1]), i)
    BY <1>2, <2>1
  <2> QED
    BY <1>8, <2>2
<1>11. N \in T
  <2> HIDE DEF T
  <2>2. 0..N \subseteq T
    BY <1>9, <1>10, UpToN
  <2> QED
    BY <2>2
<1>12. Well(Sequence8x41(s, steps), N)
  BY <1>1, <1>7, <1>11
<1> QED
  BY <1>12 DEF Well

-----------------------------------------------------------------------------
(* A run of steps none of which goes to a register of the names X, but to  *)
(* the registers Y.  The channel decides which peripheral is reached, not  *)
(* which of its registers.                                                 *)
IsStep(d) == d = [modify |-> d.modify, reg |-> d.reg, clear |-> d.clear, set |-> d.set]
Fits(d, X, Y) == IsStep(d) /\ (d.reg[3] \notin X \/ d.reg \in Y)
Avoids(steps, X, Y) ==
  /\ Len(steps) \in Nat /\ steps \in Seq({steps[i] : i \in 1..Len(steps)})
  /\ \A i \in 1..Len(steps) : Fits(steps[i], X, Y)
KeepsBut(s, t, X, Y) ==
  \A q : q[3] \in X /\ q \notin {Reached(s, r) : r \in Y} => ValueOf(t, q) = ValueOf(s, q)
KeepsAll(s, t, X) == \A q : q[3] \in X => ValueOf(t, q) = ValueOf(s, q)

LEMMA StepFits ==
  ASSUME NEW r, NEW v, NEW clear, NEW X, NEW Y, r[3] \notin X \/ r \in Y
  PROVE  Fits(Store(r, v), X, Y) /\ Fits(Modify(r, clear, v), X, Y)
BY DEF Store, Modify, IsStep, Fits

LEMMA ReachedIs ==
  ASSUME NEW s, NEW t, t.chnl_tbl = s.chnl_tbl, NEW r
  PROVE  Reached(t, r) = Reached(s, r) /\ Reached(s, r)[3] = r[3]
BY DEF Reached

LEMMA RunKeeps ==
  ASSUME NEW s, NEW X, NEW Y, NEW steps, Avoids(steps, X, Y), NEW t, IsRun(s, steps, Len(steps), t)
  PROVE  KeepsBut(s, t[Len(steps)], X, Y) /\ t[Len(steps)].chnl_tbl = s.chnl_tbl
<1> DEFINE N == Len(steps)
           T == {i \in 0..N : KeepsBut(s, t[i], X, Y) /\ t[i].chnl_tbl = s.chnl_tbl}
<1>1. N \in Nat
  BY DEF Avoids
<1>2. 0 \in T
  BY <1>1 DEF IsRun, KeepsBut
<1>3. ASSUME NEW i \in 1..N, i - 1 \in T PROVE i \in T
  <2>1. SpmiTakes(t[i - 1], steps[i], t[i]) /\ (steps[i].reg[3] \notin X \/ steps[i].reg \in Y)
    BY <1>1 DEF IsRun, Avoids, Fits
  <2> DEFINE r == Reached(t[i - 1], steps[i].reg)
  <2>2. r[3] = steps[i].reg[3] /\ r = Reached(s, steps[i].reg)
    BY <1>3, ReachedIs
  <2>3. \A q : q # r => ValueOf(t[i], q) = ValueOf(t[i - 1], q)
    BY <2>1 DEF SpmiTakes
  <2>4. t[i].chnl_tbl = t[i - 1].chnl_tbl
    BY <2>1 DEF SpmiTakes
  <2> HIDE DEF r
  <2>5. KeepsBut(s, t[i], X, Y)
    BY <1>3, <2>1, <2>2, <2>3 DEF KeepsBut
  <2> QED
    BY <1>1, <1>3, <2>4, <2>5
<1>4. N \in T
  <2> HIDE DEF T, N
  <2>1. 0..N \subseteq T
    BY <1>1, <1>2, <1>3, UpToN
  <2> QED
    BY <1>1, <2>1
<1> QED
  BY <1>4

(* Sequences in a row are a sequence.                                      *)
LEMMA AvoidsBoth ==
  ASSUME NEW X, NEW Y, NEW a, NEW b, Avoids(a, X, Y), Avoids(b, X, Y)
  PROVE  Avoids(a \o b, X, Y) /\ Len(a \o b) = Len(a) + Len(b)
<1> DEFINE A == {a[i] : i \in 1..Len(a)}
           B == {b[i] : i \in 1..Len(b)}
           E == A \cup B
           c == a \o b
<1>1. Len(a) \in Nat /\ Len(b) \in Nat /\ a \in Seq(A) /\ b \in Seq(B)
  BY DEF Avoids
<1>2. a \in Seq(E) /\ b \in Seq(E)
  <2>1. A \subseteq E /\ B \subseteq E
    OBVIOUS
  <2> HIDE DEF A, B, E
  <2> QED
    BY <1>1, <2>1
<1>3. /\ c \in Seq(E) /\ Len(c) = Len(a) + Len(b)
      /\ \A i \in 1..Len(a) + Len(b) : c[i] = IF i <= Len(a) THEN a[i] ELSE b[i - Len(a)]
  <2> HIDE DEF A, B, E
  <2> QED
    BY <1>2, ConcatProperties, Zenon
<1>4. \A i \in 1..Len(c) : Fits(c[i], X, Y)
  <2> SUFFICES ASSUME NEW i \in 1..Len(c) PROVE Fits(c[i], X, Y)
    OBVIOUS
  <2> HIDE DEF c, A, B, E
  <2>1. CASE i <= Len(a)
    <3>1. i \in 1..Len(a) /\ i \in 1..Len(a) + Len(b)
      BY <1>1, <1>3, <2>1
    <3>2. c[i] = a[i]
      BY <1>3, <2>1, <3>1
    <3>3. \A j \in 1..Len(a) : Fits(a[j], X, Y)
      BY DEF Avoids
    <3> QED
      BY <3>1, <3>2, <3>3
  <2>2. CASE ~(i <= Len(a))
    <3>1. i - Len(a) \in 1..Len(b) /\ i \in 1..Len(a) + Len(b)
      BY <1>1, <1>3, <2>2
    <3>2. c[i] = b[i - Len(a)]
      BY <1>3, <2>2, <3>1
    <3>3. \A j \in 1..Len(b) : Fits(b[j], X, Y)
      BY DEF Avoids
    <3> QED
      BY <3>1, <3>2, <3>3
  <2> QED
    BY <2>1, <2>2
<1>5. c \in Seq({c[i] : i \in 1..Len(c)})
  <2> HIDE DEF c, A, B, E
  <2> QED
    BY <1>3
<1> HIDE DEF A, B, E
<1>6. Len(c) \in Nat
  <2> HIDE DEF c
  <2> QED
    BY <1>1, <1>3
<1> QED
  BY <1>3, <1>4, <1>5, <1>6, Zenon DEF Avoids

Rest(s, steps, t, u) == IsRun(s, steps, Len(steps), u) /\ u[Len(steps)] = t

LEMMA RunParts ==
  ASSUME NEW X, NEW Y, NEW a, NEW b, Avoids(a, X, Y), Avoids(b, X, Y),
         NEW s, NEW t, IsRun(s, a \o b, Len(a \o b), t)
  PROVE  /\ IsRun(s, a, Len(a), t)
         /\ \E u : Rest(t[Len(a)], b, t[Len(a \o b)], u)
<1> DEFINE A == {a[i] : i \in 1..Len(a)}
           B == {b[i] : i \in 1..Len(b)}
           E == A \cup B
           c == a \o b
           m == Len(a)
           n == Len(b)
           u == [i \in 0..n |-> t[m + i]]
<1>1. m \in Nat /\ n \in Nat /\ a \in Seq(A) /\ b \in Seq(B)
  BY DEF Avoids
<1>2. a \in Seq(E) /\ b \in Seq(E)
  <2>1. A \subseteq E /\ B \subseteq E
    OBVIOUS
  <2> HIDE DEF A, B, E
  <2> QED
    BY <1>1, <2>1
<1>3. Len(c) = m + n /\ \A i \in 1..m + n : c[i] = IF i <= m THEN a[i] ELSE b[i - m]
  <2> HIDE DEF A, B, E
  <2> QED
    BY <1>2, ConcatProperties
<1> HIDE DEF A, B, E, c, m, n
<1>4. IsRun(s, c, m + n, t)
  BY <1>3 DEF c
<1>5. IsRun(s, a, m, t)
  <2>1. ASSUME NEW i \in 1..m PROVE SpmiTakes(t[i - 1], a[i], t[i])
    <3>1. i \in 1..m + n /\ i <= m
      BY <1>1
    <3>2. c[i] = a[i]
      BY <1>3, <3>1
    <3> QED
      BY <1>4, <3>1, <3>2 DEF IsRun
  <2> QED
    BY <1>4, <2>1 DEF IsRun
<1>6. IsRun(t[m], b, n, u)
  <2>1. u[0] = t[m]
    BY <1>1
  <2>2. ASSUME NEW i \in 1..n PROVE SpmiTakes(u[i - 1], b[i], u[i])
    <3>1. m + i \in 1..m + n /\ ~(m + i <= m) /\ (m + i) - m = i /\ i \in 0..n /\ i - 1 \in 0..n
          /\ (m + i) - 1 = m + (i - 1)
      BY <1>1
    <3>2. c[m + i] = b[i] /\ u[i] = t[m + i] /\ u[i - 1] = t[m + (i - 1)]
      BY <1>3, <3>1
    <3>3. SpmiTakes(t[(m + i) - 1], c[m + i], t[m + i])
      BY <1>4, <3>1 DEF IsRun
    <3> QED
      BY <3>1, <3>2, <3>3
  <2> HIDE DEF u
  <2> QED
    BY <2>1, <2>2 DEF IsRun
<1>7. u[n] = t[m + n]
  BY <1>1
<1>8. m + n = Len(a \o b)
  BY <1>3 DEF c
<1> HIDE DEF u
<1>9. IsRun(t[m], b, n, u) /\ u[n] = t[Len(a \o b)]
  BY <1>6, <1>7, <1>8
<1> QED
  BY <1>5, <1>9 DEF Rest, m, n

(* What a call leaves whatever fails, and what it keeps if nothing fails.  *)
Leaves(s, o, X) ==
  IsOutcome(o) /\ CameFrom(s, o.s) /\ (~o.s.failed => KeepsAll(s, o.s, X))

LEMMA SequenceLeaves ==
  ASSUME NEW s, IsPx(s), NEW X, NEW steps, Avoids(steps, X, {}), NEW o \in Sequence8x41(s, steps)
  PROVE  Leaves(s, o, X) /\ o.ret = 0
<1>1. Len(steps) \in Nat
  BY DEF Avoids
<1>2. RanOn(s, steps, Len(steps), o)
  BY <1>1, SequenceRuns
<1>3. ~o.s.failed => KeepsAll(s, o.s, X)
  <2>1. ~o.s.failed => KeepsBut(s, o.s, X, {})
    BY <1>2, RunKeeps DEF RanOn
  <2> QED
    BY <2>1 DEF KeepsBut, KeepsAll
<1> QED
  BY <1>2, <1>3 DEF RanOn, Leaves

LEMMA LeavesOn ==
  ASSUME NEW s, NEW o, NEW p, NEW X, Leaves(s, o, X), Leaves(o.s, p, X)
  PROVE  Leaves(s, p, X)
BY DEF Leaves, CameFrom, KeepsAll

(* The sequences that are written out.                                     *)
LEMMA OneFits ==
  ASSUME NEW X, NEW Y, NEW a, Fits(a, X, Y)
  PROVE  Avoids(<<a>>, X, Y) /\ Len(<<a>>) = 1
<1> DEFINE z == <<a>>
<1>1. Len(z) = 1 /\ z[1] = a /\ z \in Seq({a})
  OBVIOUS
<1> HIDE DEF z
<1> QED
  BY <1>1 DEF Avoids, z

LEMMA TwoFit ==
  ASSUME NEW X, NEW Y, NEW a, NEW b, Fits(a, X, Y), Fits(b, X, Y)
  PROVE  Avoids(<<a, b>>, X, Y) /\ Len(<<a, b>>) = 2
<1> DEFINE z == <<a, b>>
<1>1. Len(z) = 2 /\ z[1] = a /\ z[2] = b /\ z \in Seq({a, b})
  OBVIOUS
<1> HIDE DEF z
<1>2. {z[i] : i \in 1..2} = {a, b}
  BY <1>1
<1> QED
  BY <1>1, <1>2 DEF Avoids, z

LEMMA ThreeFit ==
  ASSUME NEW X, NEW Y, NEW a, NEW b, NEW c, Fits(a, X, Y), Fits(b, X, Y), Fits(c, X, Y)
  PROVE  Avoids(<<a, b, c>>, X, Y) /\ Len(<<a, b, c>>) = 3
<1> DEFINE z == <<a, b, c>>
<1>1. Len(z) = 3 /\ z[1] = a /\ z[2] = b /\ z[3] = c /\ z \in Seq({a, b, c})
  OBVIOUS
<1> HIDE DEF z
<1>2. {z[i] : i \in 1..3} = {a, b, c}
  BY <1>1
<1> QED
  BY <1>1, <1>2 DEF Avoids, z

LEMMA FourFit ==
  ASSUME NEW X, NEW Y, NEW a, NEW b, NEW c, NEW d, Fits(a, X, Y), Fits(b, X, Y), Fits(c, X, Y),
         Fits(d, X, Y)
  PROVE  Avoids(<<a, b, c, d>>, X, Y)
<1>1. <<a, b, c, d>> = <<a, b>> \o <<c, d>>
  OBVIOUS
<1> QED
  BY <1>1, TwoFit, AvoidsBoth

LEMMA NoneFits ==
  ASSUME NEW X, NEW Y
  PROVE  Avoids(<<>>, X, Y)
BY DEF Avoids

LEMMA FunctionFits ==
  ASSUME NEW X, NEW Y, NEW n \in Nat, NEW f, f = [i \in 1..n |-> f[i]],
         \A i \in 1..n : Fits(f[i], X, Y)
  PROVE  Avoids(f, X, Y)
<1> DEFINE S == {f[i] : i \in 1..n}
<1>1. f \in [1..n -> S]
  OBVIOUS
<1>2. f \in Seq(S) /\ Len(f) = n
  <2> HIDE DEF S
  <2> QED
    BY <1>1
<1> QED
  BY <1>2 DEF Avoids

(* The backlight's sequences go to the slave that was told.                *)
LEMMA WledFits ==
  ASSUME NEW X, NEW s, NEW steps, Avoids(steps, X, {})
  PROVE  Avoids([i \in DOMAIN steps |-> [steps[i] EXCEPT !.reg = <<WledSid(s), @[2], @[3]>>]], X, {})
<1> DEFINE g == [i \in DOMAIN steps |-> [steps[i] EXCEPT !.reg = <<WledSid(s), @[2], @[3]>>]]
           n == Len(steps)
<1>1. n \in Nat /\ DOMAIN steps = 1..n
  BY DEF Avoids
<1>2. ASSUME NEW i \in 1..n PROVE Fits(g[i], X, {})
  <2> DEFINE d == steps[i]
             r == <<WledSid(s), d.reg[2], d.reg[3]>>
  <2>1. IsStep(d) /\ d.reg[3] \notin X
    BY DEF Avoids, Fits
  <2>2. g[i] = [d EXCEPT !.reg = r]
    BY <1>1
  <2>3. r[3] = d.reg[3]
    OBVIOUS
  <2> HIDE DEF d, r, g
  <2>4. g[i] = [modify |-> d.modify, reg |-> r, clear |-> d.clear, set |-> d.set]
    BY <2>1, <2>2 DEF IsStep
  <2>5. IsStep(g[i]) /\ g[i].reg = r
    BY <2>4 DEF IsStep
  <2> QED
    BY <2>1, <2>3, <2>5 DEF Fits
<1>3. g = [i \in 1..n |-> g[i]]
  BY <1>1
<1> HIDE DEF g
<1>4. Avoids(g, X, {})
  BY <1>1, <1>2, <1>3, FunctionFits
<1> QED
  BY <1>4 DEF g

LEMMA WledLeaves ==
  ASSUME NEW s, IsPx(s), NEW X, NEW steps, Avoids(steps, X, {}), NEW o \in WledSequence(s, steps)
  PROVE  Leaves(s, o, X) /\ o.ret = 0
<1> DEFINE g == [i \in DOMAIN steps |-> [steps[i] EXCEPT !.reg = <<WledSid(s), @[2], @[3]>>]]
<1>1. o \in Sequence8x41(s, g)
  BY DEF WledSequence
<1>2. Avoids(g, X, {})
  BY WledFits
<1> HIDE DEF g
<1> QED
  BY <1>1, <1>2, SequenceLeaves

-----------------------------------------------------------------------------
(* What the invariants are about: the charger's registers and those of the *)
(* display's bias.                                                         *)
Kept == {"IBAT_ATC", "VBAT_DET", "VCP", "TRKL_CHG_TEST", "FCC_CFG", "MODULE_EN", "OUTPUT_VOLTAGE"}

LEMMA GpioKeeps ==
  ASSUME NEW s, IsPx(s), NEW sid, NEW gpio, NEW c, NEW o \in GpioConfig(s, sid, gpio, c)
  PROVE  Leaves(s, o, Kept)
<1> DEFINE r(n) == <<sid, gpio, n>>
           a == Modify(r("EN_CTL"), {"EN"}, {})
           b == Store(r("MODE_CTL"), {<<"DIRECTION", c.dir>>, <<"FUNCTION", c.function>>})
           d == Store(r("DIG_PULL_CTL"), {<<"PULL", c.function>>})
           e == Store(r("DIG_VIN_CTL"), {<<"VIN_SEL", c.function>>})
           f == Store(r("DIG_OUT_CTL"), {<<"STRENGTH", c.function>>})
           g == Modify(r("EN_CTL"), {}, {En})
           mid == IF c.dir = 1 THEN <<f>> ELSE <<>>
           steps == <<a, b, d, e>> \o mid \o <<g>>
<1>1. /\ Fits(a, Kept, {}) /\ Fits(b, Kept, {}) /\ Fits(d, Kept, {}) /\ Fits(e, Kept, {})
      /\ Fits(f, Kept, {}) /\ Fits(g, Kept, {})
  <2>1. \A n \in {"EN_CTL", "MODE_CTL", "DIG_PULL_CTL", "DIG_VIN_CTL", "DIG_OUT_CTL"} :
          r(n)[3] \notin Kept
    BY DEF Kept
  <2> QED
    BY <2>1, StepFits
<1>2. o \in Sequence8x41(s, steps)
  BY DEF GpioConfig, GpioSteps
<1> HIDE DEF a, b, d, e, f, g
<1>3. Avoids(mid, Kept, {})
  BY <1>1, OneFits, NoneFits
<1>4. Avoids(<<a, b, d, e>>, Kept, {}) /\ Avoids(<<g>>, Kept, {})
  BY <1>1, OneFits, FourFit
<1> HIDE DEF mid
<1>5. Avoids(steps, Kept, {})
  BY <1>3, <1>4, AvoidsBoth
<1> QED
  BY <1>2, <1>5, SequenceLeaves

LEMMA OneStepKeeps ==
  ASSUME NEW s, IsPx(s), NEW r, r[3] \notin Kept, NEW clear, NEW set,
         NEW o \in Sequence8x41(s, <<Modify(r, clear, set)>>)
  PROVE  Leaves(s, o, Kept)
<1> DEFINE a == Modify(r, clear, set)
<1>1. Fits(a, Kept, {})
  BY StepFits
<1> HIDE DEF a
<1>2. Avoids(<<a>>, Kept, {})
  BY <1>1, OneFits
<1> QED
  BY <1>2, SequenceLeaves DEF a

LEMMA ResetsKeep ==
  ASSUME NEW s, IsPx(s), NEW type, NEW o \in ResetConfigure(s, type) \cup Pm8994ResetConfigure(s, type)
  PROVE  Leaves(s, o, Kept)
<1> DEFINE a == Store(Pon("PS_HOLD_RESET_CTL2"), {})
           b == Store(Pon("PS_HOLD_RESET_CTL"), {<<"TYPE", type>>})
           c == Store(<<2, "PON", "PS_HOLD_RESET_CTL">>, {<<"TYPE", type>>})
           d == Store(Pon("PS_HOLD_RESET_CTL2"), {En})
<1>1. Fits(a, Kept, {}) /\ Fits(b, Kept, {}) /\ Fits(c, Kept, {}) /\ Fits(d, Kept, {})
  <2>1. /\ Pon("PS_HOLD_RESET_CTL2")[3] \notin Kept /\ Pon("PS_HOLD_RESET_CTL")[3] \notin Kept
        /\ <<2, "PON", "PS_HOLD_RESET_CTL">>[3] \notin Kept
    BY DEF Pon, Kept
  <2> QED
    BY <2>1, StepFits
<1>2. o \in Sequence8x41(s, <<a, b, d>>) \/ o \in Sequence8x41(s, <<a, b, c, d>>)
  BY DEF ResetConfigure, Pm8994ResetConfigure
<1> HIDE DEF a, b, c, d
<1>3. Avoids(<<a, b, d>>, Kept, {}) /\ Avoids(<<a, b, c, d>>, Kept, {})
  BY <1>1, ThreeFit, FourFit
<1> QED
  BY <1>2, <1>3, SequenceLeaves

LEMMA ResinKeeps ==
  ASSUME NEW s, IsPx(s), NEW o \in V2ResinStatus(s)
  PROVE  Leaves(s, o, Kept)
<1> DEFINE a == Store(Pon("RESIN_S2_CTL"), {})
           b == Store(Pon("RESIN_S1_TIMER"), {})
           c == Store(Pon("RESIN_S2_TIMER"), {<<"TIME", 7>>})
           d == Store(Pon("RESIN_S2_CTL"), {<<"TYPE", 1>>})
           e == Modify(Pon("RESIN_S2_CTL"), {}, {En})
<1>1. /\ Fits(a, Kept, {}) /\ Fits(b, Kept, {}) /\ Fits(c, Kept, {}) /\ Fits(d, Kept, {})
      /\ Fits(e, Kept, {})
  <2>1. \A n \in {"RESIN_S2_CTL", "RESIN_S1_TIMER", "RESIN_S2_TIMER"} : Pon(n)[3] \notin Kept
    BY DEF Pon, Kept
  <2> QED
    BY <2>1, StepFits
<1>2. o \in Sequence8x41(s, <<a, b, c, d, e, a>>)
  BY DEF V2ResinStatus
<1> HIDE DEF a, b, c, d, e
<1>3. <<a, b, c, d, e, a>> = <<a, b, c>> \o <<d, e, a>>
  OBVIOUS
<1>4. Avoids(<<a, b, c, d, e, a>>, Kept, {})
  BY <1>1, <1>3, ThreeFit, AvoidsBoth
<1> QED
  BY <1>2, <1>4, SequenceLeaves

LEMMA RegulatorKeeps ==
  ASSUME NEW s, IsPx(s), NEW ldo, NEW volt, NEW o \in LdoSetVoltage(s, ldo, volt)
  PROVE  Leaves(s, o, Kept)
<1> DEFINE r(n) == <<1, ldo, n>>
           a == Store(r("POWER_MODE"), {<<"NORMAL">>})
           b == Store(r("RANGE_CTRL"), {<<"RANGE", 2 + volt \div 2>>})
           c == Store(r("STEP_CTRL"), {<<"VSET", volt % 2>>})
<1>1. Fits(a, Kept, {}) /\ Fits(b, Kept, {}) /\ Fits(c, Kept, {})
  <2>1. \A n \in {"POWER_MODE", "RANGE_CTRL", "STEP_CTRL"} : r(n)[3] \notin Kept
    BY DEF Kept
  <2> QED
    BY <2>1, StepFits
<1>2. o \in Sequence8x41(s, <<a, b, c>>)
  BY DEF LdoSetVoltage
<1> HIDE DEF a, b, c
<1>3. Avoids(<<a, b, c>>, Kept, {})
  BY <1>1, ThreeFit
<1> QED
  BY <1>2, <1>3, SequenceLeaves

LEMMA ModulatorKeeps ==
  ASSUME NEW s, IsPx(s), NEW period, NEW o \in PmPwmConfig(s, period)
  PROVE  Leaves(s, o, Kept) /\ (o.ret = 0 => period \in PwmPeriods)
<1> DEFINE k == CalcPeriod8x41(period)
           r(n) == <<1, "PWM", n>>
           a == Store(r("SIZE_CLK"), {<<"SIZE", k.n>>, <<"CLK", k.clk + 1>>})
           b == Store(r("FREQ_PREDIV"), {<<"PRE_DIV", k.div>>, <<"EXP", k.m>>})
           c == Store(r("TYPE_CONFIG"), {<<"GLITCH_REMOVAL">>})
           d == Store(r("VALUE"), {<<"VALUE", k.value>>})
           e == Store(r("SYNC"), {<<"SYNC">>})
<1>1. /\ Fits(a, Kept, {}) /\ Fits(b, Kept, {}) /\ Fits(c, Kept, {}) /\ Fits(d, Kept, {})
      /\ Fits(e, Kept, {})
  <2>1. \A n \in {"SIZE_CLK", "FREQ_PREDIV", "TYPE_CONFIG", "VALUE", "SYNC"} : r(n)[3] \notin Kept
    BY DEF Kept
  <2> HIDE DEF k
  <2> QED
    BY <2>1, StepFits
<1>2. CASE period \notin PwmPeriods
  <2>1. o \in Return(s, 1)
    BY <1>2 DEF PmPwmConfig
  <2>2. IsOutcome(o) /\ o.s = s /\ o.ret = 1
    BY <2>1 DEF Return, IsOutcome
  <2> QED
    BY <2>2 DEF Leaves, CameFrom, KeepsAll
<1>3. CASE period \in PwmPeriods
  <2>1. o \in Sequence8x41(s, <<a, b, c, d, e>>)
    BY <1>3 DEF PmPwmConfig
  <2> HIDE DEF a, b, c, d, e
  <2>2. <<a, b, c, d, e>> = <<a, b, c>> \o <<d, e>>
    OBVIOUS
  <2>3. Avoids(<<a, b, c, d, e>>, Kept, {})
    BY <1>1, <2>2, ThreeFit, TwoFit, AvoidsBoth
  <2> QED
    BY <1>3, <2>1, <2>3, SequenceLeaves
<1> QED
  BY <1>2, <1>3

LEMMA ConverterKeeps ==
  ASSUME NEW s, IsPx(s), NEW o \in AdcChannelRead(s, "BAT")
  PROVE  Leaves(s, o, Kept)
<1>1. ASSUME NEW t, IsPx(t), NEW channel, NEW x \in AdcConfigure(t, channel)
      PROVE  Leaves(t, x, Kept) /\ x.ret = 0
  <2> DEFINE r(n) == <<0, "VADC", n>>
             a == Store(r("CHAN_SEL"), {<<"CHANNEL", channel>>})
             b == Store(r("EN_CTL"), {En})
             c == Store(r("CONV_REQ"), {<<"REQ">>})
             d == Store(r("EN_CTL"), {})
  <2>1. Fits(a, Kept, {}) /\ Fits(b, Kept, {}) /\ Fits(c, Kept, {}) /\ Fits(d, Kept, {})
    <3>1. \A n \in {"CHAN_SEL", "EN_CTL", "CONV_REQ"} : r(n)[3] \notin Kept
      BY DEF Kept
    <3> QED
      BY <3>1, StepFits
  <2>2. x \in Sequence8x41(t, <<a, b, c, d>>)
    BY <1>1 DEF AdcConfigure
  <2> HIDE DEF a, b, c, d
  <2>3. Avoids(<<a, b, c, d>>, Kept, {})
    BY <2>1, FourFit
  <2> QED
    BY <1>1, <2>2, <2>3, SequenceLeaves
<1> DEFINE second(t) == UNION {IF x.ret = 0 THEN AdcConfigure(x.s, "REF2") ELSE {x} :
                                 x \in AdcConfigure(t, "REF1")}
<1>2. PICK x \in AdcConfigure(s, "BAT") : o \in (IF x.ret = 0 THEN second(x.s) ELSE {x})
  BY DEF AdcChannelRead, Then
<1>3. Leaves(s, x, Kept) /\ x.ret = 0 /\ IsPx(x.s)
  BY <1>1 DEF Leaves, CameFrom
<1>4. PICK y \in AdcConfigure(x.s, "REF1") : o \in (IF y.ret = 0 THEN AdcConfigure(y.s, "REF2") ELSE {y})
  BY <1>2, <1>3
<1>5. Leaves(x.s, y, Kept) /\ y.ret = 0 /\ IsPx(y.s)
  BY <1>1, <1>3 DEF Leaves, CameFrom
<1>6. Leaves(y.s, o, Kept)
  BY <1>1, <1>4, <1>5
<1> QED
  BY <1>3, <1>5, <1>6, LeavesOn

(* The backlight's configuration and its level.                            *)
LEMMA StringsAre == \A i \in 1..3 : Strings[i] \in {"LED1", "LED2", "LED3"}
BY DEF Strings

LEMMA WStepFits ==
  ASSUME NEW p, NEW r, r \notin Kept, NEW v, NEW clear
  PROVE  Fits(WStore(p, r, v), Kept, {}) /\ Fits(WModify(p, r, clear, v), Kept, {})
<1>1. <<0, p, r>>[3] \notin Kept
  OBVIOUS
<1> QED
  BY <1>1, StepFits DEF WStore, WModify

LEMMA LevelsFit ==
  ASSUME NEW v
  PROVE  Avoids([i \in 1..3 |-> WStore("WLED", Strings[i], v)], Kept, {})
<1> DEFINE f == [i \in 1..3 |-> WStore("WLED", Strings[i], v)]
<1>1. \A i \in 1..3 : Strings[i] \notin Kept
  BY StringsAre DEF Kept
<1>2. \A i \in 1..3 : Fits(f[i], Kept, {})
  BY <1>1, WStepFits
<1>3. f = [i \in 1..3 |-> f[i]]
  OBVIOUS
<1> HIDE DEF f
<1>4. Avoids(f, Kept, {})
  BY <1>2, <1>3, FunctionFits
<1> QED
  BY <1>4 DEF f

LEMMA LevelKeeps ==
  ASSUME NEW s, IsPx(s), NEW o \in SetLevel(s)
  PROVE  Leaves(s, o, Kept) /\ o.ret = 0
<1> DEFINE f == [i \in 1..3 |-> WStore("WLED", Strings[i], {<<"BRIGHTNESS", 4>>})]
           a == WStore("WLED", "SYNC", {<<"SYNC">>})
           b == WStore("WLED", "SYNC", {})
<1>1. Avoids(f, Kept, {})
  BY LevelsFit
<1>2. Fits(a, Kept, {}) /\ Fits(b, Kept, {})
  <2>1. "SYNC" \notin Kept
    BY DEF Kept
  <2> QED
    BY <2>1, WStepFits
<1>3. o \in WledSequence(s, f \o <<a, b>>)
  BY DEF SetLevel
<1> HIDE DEF f, a, b
<1>4. Avoids(f \o <<a, b>>, Kept, {})
  BY <1>1, <1>2, TwoFit, AvoidsBoth
<1> QED
  BY <1>3, <1>4, WledLeaves

LEMMA WledKeeps ==
  ASSUME NEW s, IsPx(s), NEW o \in WledConfig(s)
  PROVE  Leaves(s, o, Kept)
<1> DEFINE a == WStore("WLED", "MODULATION_SCHEME", {<<"SCHEME">>})
           f == [i \in 1..3 |-> WStore("WLED", Strings[i], {<<"BRIGHTNESS", 1>>})]
           b == WStore("WLED", "MAX_DUTY_CYCLE", {})
           c == WStore("WLED", "OVP", {<<"OVP", 1>>})
           d == WStore("WLED", "FDBCK", {})
           e == WStore("LAB", "CURRENT_SENSE", {<<"SENSE">>})
           g == WStore("LAB", "PS_CTL", {<<"PS">>})
           last == <<b, c, d, e, g>>
<1>1. Avoids(f, Kept, {})
  BY LevelsFit
<1>2. /\ Fits(a, Kept, {}) /\ Fits(b, Kept, {}) /\ Fits(c, Kept, {}) /\ Fits(d, Kept, {})
      /\ Fits(e, Kept, {}) /\ Fits(g, Kept, {})
  <2>1. \A n \in {"MODULATION_SCHEME", "MAX_DUTY_CYCLE", "OVP", "FDBCK", "CURRENT_SENSE", "PS_CTL"} :
          n \notin Kept
    BY DEF Kept
  <2> QED
    BY <2>1, WStepFits
<1>3. o \in WledSequence(s, <<a>> \o f \o last)
  BY DEF WledConfig
<1> HIDE DEF a, b, c, d, e, f, g
<1>4. last = <<b, c, d>> \o <<e, g>>
  OBVIOUS
<1>5. Avoids(last, Kept, {})
  BY <1>2, <1>4, ThreeFit, TwoFit, AvoidsBoth
<1>6. Avoids(<<a>>, Kept, {})
  BY <1>2, OneFits
<1> HIDE DEF last
<1>7. Avoids(<<a>> \o f \o last, Kept, {})
  BY <1>1, <1>5, <1>6, AvoidsBoth
<1> QED
  BY <1>3, <1>7, WledLeaves

(* The first part of the display's configuration.                          *)
LEMMA StringFits ==
  ASSUME NEW i \in 1..3
  PROVE  Avoids(PerString(i), Kept, {})
<1> DEFINE p == Strings[i]
           a == WModify(p, "MOD_EN", {"EN"}, {En})
           b == WModify(p, "SYNC_DLY", {"DLY"}, {<<"DLY", 2>>})
           c == WModify(p, "FS_CURR", {"CURR"}, {<<"CURR", 6>>})
           d == WModify(p, "CABC", {"CABC"}, {})
           e == WModify("WLED", "CURR_SINK", {}, {<<"SINK", i>>})
<1>1. /\ Fits(a, Kept, {}) /\ Fits(b, Kept, {}) /\ Fits(c, Kept, {}) /\ Fits(d, Kept, {})
      /\ Fits(e, Kept, {})
  <2>1. \A n \in {"MOD_EN", "SYNC_DLY", "FS_CURR", "CABC", "CURR_SINK"} : n \notin Kept
    BY DEF Kept
  <2> HIDE DEF p
  <2> QED
    BY <2>1, WStepFits
<1>2. PerString(i) = <<a, b, c, d, e>>
  BY DEF PerString
<1> HIDE DEF a, b, c, d, e
<1>3. <<a, b, c, d, e>> = <<a, b, c>> \o <<d, e>>
  OBVIOUS
<1> QED
  BY <1>1, <1>2, <1>3, ThreeFit, TwoFit, AvoidsBoth

LEMMA SumFits ==
  ASSUME NEW f, Len(f) = 3, \A i \in 1..3 : Avoids(f[i], Kept, {})
  PROVE  Avoids(Sum(f), Kept, {})
<1> DEFINE On(x, i) == x \o f[i]
           Is(g) == g = [i \in 0..Len(f) |-> IF i = 0 THEN <<>> ELSE On(g[i - 1], i)]
           one   == [i \in 0..3 |-> IF i = 0 THEN <<>> ELSE IF i = 1 THEN On(<<>>, 1)
                                    ELSE IF i = 2 THEN On(On(<<>>, 1), 2)
                                    ELSE On(On(On(<<>>, 1), 2), 3)]
           upTo  == CHOOSE g : Is(g)
<1>1. Sum(f) = upTo[3]
  <2>1. Sum(f) = upTo[Len(f)]
    BY DEF Sum
  <2> QED
    BY <2>1
<1>2. ASSUME NEW x, Avoids(x, Kept, {}), NEW i \in 1..3 PROVE Avoids(On(x, i), Kept, {})
  BY <1>2, AvoidsBoth
<1> HIDE DEF On
<1>3. Is(one)
  <2>1. one[0] = <<>> /\ one[1] = On(one[0], 1) /\ one[2] = On(one[1], 2) /\ one[3] = On(one[2], 3)
    OBVIOUS
  <2>2. \A i \in 0..3 : one[i] = IF i = 0 THEN <<>> ELSE On(one[i - 1], i)
    <3> HIDE DEF one
    <3> QED
      BY <2>1
  <2>3. one = [i \in 0..3 |-> one[i]]
    OBVIOUS
  <2> HIDE DEF one
  <2> QED
    BY <2>2, <2>3
<1>4. Is(upTo)
  <2> HIDE DEF Is, one
  <2> QED
    BY <1>3
<1> HIDE DEF upTo, one
<1>5. \A i \in 0..3 : upTo[i] = IF i = 0 THEN <<>> ELSE On(upTo[i - 1], i)
  BY <1>4
<1>6. Avoids(upTo[0], Kept, {})
  BY <1>5, NoneFits
<1>7. ASSUME NEW i \in 1..3, Avoids(upTo[i - 1], Kept, {}) PROVE Avoids(upTo[i], Kept, {})
  <2>1. upTo[i] = On(upTo[i - 1], i)
    BY <1>5
  <2> QED
    BY <1>2, <1>7, <2>1
<1>8. Avoids(upTo[1], Kept, {})
  BY <1>6, <1>7
<1>9. Avoids(upTo[2], Kept, {})
  BY <1>8, <1>7
<1>10. Avoids(upTo[3], Kept, {})
  BY <1>9, <1>7
<1> QED
  BY <1>1, <1>10

LEMMA BiasStepsFit == Avoids(BiasSteps, Kept, {})
<1> DEFINE a == WModify("LAB", "FAST_PC", {"PC"}, {<<"PC">>})
           b == WModify("LAB", "DISP_SEL", {"AMOLED"}, {})
           c == WModify("LAB", "MODULE_RDY", {"RDY"}, {<<"RDY">>})
           d == WStore("IBB", "SEC_ACCESS", {<<"KEY">>})
           e == WStore("IBB", "BIAS", {<<"DELAYS">>})
           f == WModify("IBB", "DISP_SEL", {"AMOLED"}, {})
           g == WModify("IBB", "MODULE_RDY", {"RDY"}, {<<"RDY">>})
<1>1. /\ Fits(a, Kept, {}) /\ Fits(b, Kept, {}) /\ Fits(c, Kept, {}) /\ Fits(d, Kept, {})
      /\ Fits(e, Kept, {}) /\ Fits(f, Kept, {}) /\ Fits(g, Kept, {})
  <2>1. \A n \in {"FAST_PC", "DISP_SEL", "MODULE_RDY", "SEC_ACCESS", "BIAS"} : n \notin Kept
    BY DEF Kept
  <2> QED
    BY <2>1, WStepFits
<1>2. BiasSteps = <<a, b, c, d, e, f, g>>
  BY DEF BiasSteps
<1> HIDE DEF a, b, c, d, e, f, g
<1>3. <<a, b, c, d, e, f, g>> = <<a, b, c, d>> \o <<e, f, g>>
  OBVIOUS
<1> QED
  BY <1>1, <1>2, <1>3, FourFit, ThreeFit, AvoidsBoth

ConfigSteps ==
  <<WModify("WLED", "DISP_SEL", {"AMOLED"}, {}), WModify("WLED", "FDBK_OP", {"OP"}, {<<"OP", 1>>}),
    WModify("WLED", "VREF", {"VREF"}, {<<"VREF", 3>>}),
    WModify("WLED", "ILIM", {"ILIM"}, {<<"ILIM", 5>>, <<"OVERWRITE">>}),
    WModify("WLED", "BOOST_DUTY", {"DUTY"}, {<<"DUTY", 1>>}),
    WModify("WLED", "SWITCH_FREQ", {"FREQ"}, {<<"FREQ", 2>>}),
    WModify("WLED", "OVP", {"OVP"}, {<<"OVP", 1>>}),
    WModify("WLED", "MOD", {"FREQ", "DIM"}, {<<"STAG">>, <<"HYBRID">>}),
    WModify("WLED", "HYB_THRES", {"THRES"}, {<<"THRES", 5>>})>>
    \o Sum([i \in 1..3 |-> PerString(i)])
    \o BiasSteps

LEMMA ConfigStepsFit == Avoids(ConfigSteps, Kept, {})
<1> DEFINE a == WModify("WLED", "DISP_SEL", {"AMOLED"}, {})
           b == WModify("WLED", "FDBK_OP", {"OP"}, {<<"OP", 1>>})
           c == WModify("WLED", "VREF", {"VREF"}, {<<"VREF", 3>>})
           d == WModify("WLED", "ILIM", {"ILIM"}, {<<"ILIM", 5>>, <<"OVERWRITE">>})
           e == WModify("WLED", "BOOST_DUTY", {"DUTY"}, {<<"DUTY", 1>>})
           f == WModify("WLED", "SWITCH_FREQ", {"FREQ"}, {<<"FREQ", 2>>})
           g == WModify("WLED", "OVP", {"OVP"}, {<<"OVP", 1>>})
           h == WModify("WLED", "MOD", {"FREQ", "DIM"}, {<<"STAG">>, <<"HYBRID">>})
           k == WModify("WLED", "HYB_THRES", {"THRES"}, {<<"THRES", 5>>})
           l == [i \in 1..3 |-> PerString(i)]
           first == <<a, b, c, d, e, f, g, h, k>>
<1>1. /\ Fits(a, Kept, {}) /\ Fits(b, Kept, {}) /\ Fits(c, Kept, {}) /\ Fits(d, Kept, {})
      /\ Fits(e, Kept, {}) /\ Fits(f, Kept, {}) /\ Fits(g, Kept, {}) /\ Fits(h, Kept, {})
      /\ Fits(k, Kept, {})
  <2>1. \A n \in {"DISP_SEL", "FDBK_OP", "VREF", "ILIM", "BOOST_DUTY", "SWITCH_FREQ", "OVP", "MOD",
                  "HYB_THRES"} : n \notin Kept
    BY DEF Kept
  <2> QED
    BY <2>1, WStepFits
<1>2. ConfigSteps = first \o Sum(l) \o BiasSteps
  BY DEF ConfigSteps
<1> HIDE DEF a, b, c, d, e, f, g, h, k
<1>3. first = <<a, b, c>> \o <<d, e, f>> \o <<g, h, k>>
  OBVIOUS
<1>4. Avoids(first, Kept, {})
  BY <1>1, <1>3, ThreeFit, AvoidsBoth
<1>5. Len(l) = 3 /\ \A i \in 1..3 : Avoids(l[i], Kept, {})
  <2>1. l \in [1..3 -> {l[i] : i \in 1..3}]
    OBVIOUS
  <2>2. \A i \in 1..3 : l[i] = PerString(i)
    OBVIOUS
  <2> HIDE DEF l
  <2> QED
    BY <2>1, <2>2, StringFits
<1> HIDE DEF first, l
<1>6. Avoids(Sum(l), Kept, {})
  BY <1>5, SumFits
<1> QED
  BY <1>2, <1>4, <1>6, BiasStepsFit, AvoidsBoth

-----------------------------------------------------------------------------
(* The display's peripherals are reached where they are.                   *)
LEMMA LastChannel ==
  ASSUME NEW p \in Peripherals
  PROVE  Channels[SpmiLookupChnlNumber[p]] = p
<1> DEFINE n == Len(Channels)
           Ours == {i \in DOMAIN Channels : Channels[i] = p}
           T == {n - i : i \in Ours}
           Is(i) == i \in DOMAIN Channels /\ Channels[i] = p
                    /\ \A j \in DOMAIN Channels : Channels[j] = p => j <= i
<1>1. n \in Nat /\ DOMAIN Channels = 1..n
  BY BoardAssumption
<1>2. Ours # {}
  BY BoardAssumption
<1>3. T \subseteq Nat /\ T # {}
  BY <1>1, <1>2
<1>4. PICK k \in T : \A j \in T : k <= j
  <2> HIDE DEF T
  <2> QED
    BY <1>3, LeastNatural
<1>5. PICK i \in Ours : k = n - i
  BY <1>4
<1>6. Is(i)
  <2>1. ASSUME NEW j \in DOMAIN Channels, Channels[j] = p PROVE j <= i
    <3>1. n - j \in T
      BY <2>1
    <3>2. n - i <= n - j
      BY <1>4, <1>5, <3>1
    <3> QED
      BY <1>1, <3>2
  <2> QED
    BY <2>1
<1> DEFINE c == CHOOSE x \in DOMAIN Channels :
                  Channels[x] = p /\ \A j \in DOMAIN Channels : Channels[j] = p => j <= x
<1>7. Channels[c] = p
  <2>1. \E x \in DOMAIN Channels : Channels[x] = p /\ \A j \in DOMAIN Channels : Channels[j] = p => j <= x
    BY <1>6
  <2> QED
    BY <2>1
<1>8. SpmiLookupChnlNumber[p] = c
  BY DEF SpmiLookupChnlNumber
<1> HIDE DEF c
<1> QED
  BY <1>7, <1>8

IsBoard(s) == s.chnl_tbl = SpmiLookupChnlNumber /\ s.wled_slave_id \in {0, 3}

LEMMA DisplayIsReached ==
  ASSUME NEW s, IsBoard(s), NEW sid \in {1, 3}, NEW m \in {"WLED", "LAB", "IBB"}, NEW n
  PROVE  Reached(s, <<sid, m, n>>) = <<sid, m, n>>
<1> DEFINE p == <<sid, m>>
           r == <<sid, m, n>>
<1>1. p \in Peripherals
  BY BoardAssumption
<1>2. Channels[SpmiLookupChnlNumber[p]] = p
  BY <1>1, LastChannel
<1>3. Channels[s.chnl_tbl[<<r[1], r[2]>>]] = p
  BY <1>2 DEF IsBoard
<1>4. p[1] = sid /\ p[2] = m /\ r[3] = n
  OBVIOUS
<1> HIDE DEF p, r
<1> QED
  BY <1>3, <1>4 DEF Reached, r

(* One register of the display, read and written back.                     *)
Becomes(s, r, clear, set, t) ==
  \A q : ValueOf(t, q) = IF q = r THEN Without(ValueOf(s, r), clear) \cup set ELSE ValueOf(s, q)

LEMMA WledOne ==
  ASSUME NEW s, IsPx(s), IsBoard(s), NEW m \in {"WLED", "LAB", "IBB"}, NEW n,
         n \in {"MODULE_EN", "OUTPUT_VOLTAGE", "IBB_RDY"}, NEW clear, NEW set,
         NEW o \in WledSequence(s, <<WModify(m, n, clear, set)>>)
  PROVE  /\ IsOutcome(o) /\ o.ret = 0 /\ CameFrom(s, o.s)
         /\ ~o.s.failed => Becomes(s, <<WledSid(s), m, n>>, clear, set, o.s)
<1> DEFINE d == WModify(m, n, clear, set)
           r == <<WledSid(s), m, n>>
           st == [modify |-> TRUE, reg |-> r, clear |-> clear, set |-> set]
           steps == <<d>>
           g == [i \in DOMAIN steps |-> [steps[i] EXCEPT !.reg = <<WledSid(s), @[2], @[3]>>]]
<1>1. WledSid(s) \in {1, 3}
  BY DEF IsBoard, WledSid
<1>2. Len(g) = 1 /\ g[1] = st
  <2>1. DOMAIN steps = 1..1 /\ steps[1] = d
    OBVIOUS
  <2>2. [d EXCEPT !.reg = <<WledSid(s), @[2], @[3]>>] = st
    <3> DEFINE z == <<0, m, n>>
               yes == TRUE
    <3>1. d = [modify |-> yes, reg |-> z, clear |-> clear, set |-> set]
      BY DEF WModify, Modify
    <3>2. z[2] = m /\ z[3] = n
      OBVIOUS
    <3>3. d.reg = z
      BY <3>1
    <3> HIDE DEF z, d
    <3>4. [d EXCEPT !.reg = <<WledSid(s), d.reg[2], d.reg[3]>>] = [d EXCEPT !.reg = r]
      BY <3>2, <3>3
    <3> HIDE DEF r
    <3> HIDE DEF yes
    <3>5. [d EXCEPT !.reg = r] = [modify |-> yes, reg |-> r, clear |-> clear, set |-> set]
      BY <3>1
    <3> QED
      BY <3>4, <3>5 DEF yes
  <2> HIDE DEF d, st
  <2>3. g[1] = st
    BY <2>1, <2>2
  <2>4. g \in [1..1 -> {g[1]}]
    BY <2>1
  <2> HIDE DEF g
  <2>5. Len(g) = 1
    BY <2>4
  <2> QED
    BY <2>3, <2>5
<1>3. o \in Sequence8x41(s, g)
  BY DEF WledSequence
<1> HIDE DEF g
<1>4. RanOn(s, g, 1, o)
  BY <1>2, <1>3, SequenceRuns
<1>5. ASSUME ~o.s.failed PROVE Becomes(s, r, clear, set, o.s)
  <2>1. PICK t : IsRun(s, g, 1, t) /\ o.s = t[1]
    BY <1>4, <1>5 DEF RanOn
  <2>2. SpmiTakes(s, st, o.s)
    <3> HIDE DEF st
    <3> QED
      BY <1>2, <2>1 DEF IsRun
  <2>3. Reached(s, r) = r
    BY <1>1, DisplayIsReached
  <2>4. st.modify /\ st.reg = r /\ st.clear = clear /\ st.set = set
    OBVIOUS
  <2>5. <<r[2], r[3]>> \notin Secured
    BY DEF Secured
  <2> HIDE DEF st, r
  <2> QED
    BY <2>2, <2>3, <2>4, <2>5 DEF SpmiTakes, Becomes
<1> QED
  BY <1>4, <1>5 DEF RanOn

-----------------------------------------------------------------------------
(* The invariant: the charger is as it was found, the bias is on only on   *)
(* the slave whose rails are set.                                          *)
ChargerIs(s) ==
  /\ ValueOf(s, <<0, "CHG", "TRKL_CHG_TEST">>) = {}
  /\ ValueOf(s, <<0, "CHG", "IBAT_ATC">>) = {<<"CURRENT", 3>>}
  /\ ValueOf(s, <<0, "CHG", "VBAT_DET">>) = {<<"VOLTAGE", 2>>}
  /\ ValueOf(s, <<0, "BAT_IF", "VCP">>) = {En}
  /\ ValueOf(s, <<2, "CHGR", "FCC_CFG">>) = {<<"CURRENT", 4>>}
RailIs(s, rail, m) ==
  \E i \in DOMAIN LabibbConfigs :
    /\ Settable(LabibbConfigs[i][rail])
    /\ <<"VOLTAGE", LabibbConfigs[i][rail].min>> \in ValueOf(s, <<3, m, "OUTPUT_VOLTAGE">>)
RailsAre(s) == RailIs(s, "lab", "LAB") /\ RailIs(s, "ibb", "IBB")
BiasIs(s) ==
  /\ s.gwled # <<>> => s.wled_slave_id = 3 /\ RailsAre(s)
  /\ \A sid \in {1, 3} :
       En \in ValueOf(s, <<sid, "IBB", "MODULE_EN">>) => sid = 3 /\ s.gwled # <<>>
IsFine(s) == ChargerIs(s) /\ BiasIs(s)
LeavesFine(s, o) ==
  /\ IsOutcome(o) /\ IsPx(o.s) /\ IsBoard(o.s)
  /\ s.failed => o.s.failed
  /\ ~o.s.failed /\ IsFine(s) => IsFine(o.s)

LEMMA KeptAreFine ==
  ASSUME NEW s, IsPx(s), IsBoard(s), NEW o, Leaves(s, o, Kept)
  PROVE  LeavesFine(s, o)
<1>1. ASSUME KeepsAll(s, o.s, Kept), IsFine(s), o.s.gwled = s.gwled, o.s.wled_slave_id = s.wled_slave_id
      PROVE  IsFine(o.s)
  <2> DEFINE t == o.s
  <2>1. \A n \in Kept : \A a, b : ValueOf(t, <<a, b, n>>) = ValueOf(s, <<a, b, n>>)
    <3>1. \A n, a, b : <<a, b, n>>[3] = n
      OBVIOUS
    <3> QED
      BY <1>1, <3>1 DEF KeepsAll
  <2> HIDE DEF t
  <2>2. {"IBAT_ATC", "VBAT_DET", "VCP", "TRKL_CHG_TEST", "FCC_CFG", "MODULE_EN", "OUTPUT_VOLTAGE"} \subseteq Kept
    BY DEF Kept
  <2>3. ChargerIs(t)
    BY <1>1, <2>1, <2>2 DEF ChargerIs, IsFine
  <2>4. BiasIs(t)
    BY <1>1, <2>1, <2>2 DEF BiasIs, IsFine, RailsAre, RailIs, t
  <2> QED
    BY <2>3, <2>4 DEF IsFine, t
<1> QED
  BY <1>1 DEF Leaves, LeavesFine, CameFrom, IsBoard

LEMMA FineGoesOn ==
  ASSUME NEW s, NEW o, LeavesFine(s, o), NEW p, LeavesFine(o.s, p)
  PROVE  LeavesFine(s, p)
BY DEF LeavesFine

(* A register of the display that neither the rails nor the bias are in.   *)
LEMMA ElseIsFine ==
  ASSUME NEW s, IsPx(s), IsBoard(s), NEW o, IsOutcome(o), CameFrom(s, o.s),
         NEW r, r[3] \notin Kept \/ (r[2] = "WLED" /\ r[3] = "MODULE_EN"), NEW clear, NEW set,
         ~o.s.failed => Becomes(s, r, clear, set, o.s)
  PROVE  LeavesFine(s, o)
<1>1. ASSUME ~o.s.failed, IsFine(s) PROVE IsFine(o.s)
  <2> DEFINE t == o.s
  <2>1. \A q : q # r => ValueOf(t, q) = ValueOf(s, q)
    BY <1>1 DEF Becomes
  <2>2. t.gwled = s.gwled /\ t.wled_slave_id = s.wled_slave_id
    BY DEF CameFrom
  <2>3. \A q : q[3] \in Kept /\ q[2] # "WLED" => q # r
    OBVIOUS
  <2>4. \A a : \A b \in {"CHG", "BAT_IF", "CHGR", "LAB", "IBB"} : \A n \in Kept :
          ValueOf(t, <<a, b, n>>) = ValueOf(s, <<a, b, n>>)
    <3>1. \A a, b, n : <<a, b, n>>[3] = n /\ <<a, b, n>>[2] = b
      OBVIOUS
    <3> HIDE DEF t
    <3> QED
      BY <2>1, <2>3, <3>1
  <2> HIDE DEF t
  <2>5. {"IBAT_ATC", "VBAT_DET", "VCP", "TRKL_CHG_TEST", "FCC_CFG", "MODULE_EN", "OUTPUT_VOLTAGE"} \subseteq Kept
    BY DEF Kept
  <2>6. ChargerIs(t)
    BY <1>1, <2>4, <2>5 DEF ChargerIs, IsFine
  <2>7. BiasIs(t)
    BY ZenonT(60), <1>1, <2>2, <2>4, <2>5 DEF BiasIs, IsFine, RailsAre, RailIs
  <2> QED
    BY <2>6, <2>7 DEF IsFine, t
<1> QED
  BY <1>1 DEF LeavesFine, CameFrom, IsBoard

(* The backlight on and off.                                               *)
LEMMA DoneIsFine ==
  ASSUME NEW s, IsPx(s), IsBoard(s), NEW code, NEW o \in Return(s, code)
  PROVE  LeavesFine(s, o) /\ o.s = s /\ o.ret = code
<1>1. IsOutcome(o) /\ o.s = s /\ o.ret = code
  BY DEF Return, IsOutcome
<1> QED
  BY <1>1 DEF LeavesFine

LEMMA BacklightIsFine ==
  ASSUME NEW s, IsPx(s), IsBoard(s), NEW yes \in BOOLEAN, NEW o \in EnableBacklight(s, yes)
  PROVE  LeavesFine(s, o)
<1>1. CASE s.gwled = <<>>
  <2>1. o \in Return(s, 0)
    BY <1>1 DEF EnableBacklight, Done
  <2> QED
    BY <2>1, DoneIsFine
<1>2. CASE s.gwled # <<>>
  <2> DEFINE first == IF yes THEN SetLevel(s) ELSE Done(s)
             bit == IF yes THEN {En} ELSE {}
  <2>1. PICK x \in first : o \in (IF x.ret = 0 THEN WledEnable(x.s, "WLED", yes) ELSE {x})
    BY <1>2 DEF EnableBacklight, Then
  <2>2. LeavesFine(s, x) /\ x.ret = 0 /\ IsPx(x.s) /\ IsBoard(x.s)
    <3>1. CASE yes
      <4>1. Leaves(s, x, Kept) /\ x.ret = 0
        BY <2>1, <3>1, LevelKeeps
      <4> QED
        BY <4>1, KeptAreFine DEF LeavesFine
    <3>2. CASE ~yes
      <4>1. x \in Return(s, 0)
        BY <2>1, <3>2 DEF Done
      <4> QED
        BY <4>1, DoneIsFine
    <3> QED
      BY <3>1, <3>2
  <2>3. o \in WledSequence(x.s, <<WModify("WLED", "MODULE_EN", {"EN"}, bit)>>)
    BY <2>1, <2>2 DEF WledEnable
  <2> DEFINE r == <<WledSid(x.s), "WLED", "MODULE_EN">>
  <2> HIDE DEF bit
  <2>4. /\ IsOutcome(o) /\ CameFrom(x.s, o.s)
        /\ ~o.s.failed => Becomes(x.s, r, {"EN"}, bit, o.s)
    BY <2>2, <2>3, WledOne
  <2>5. r[2] = "WLED" /\ r[3] = "MODULE_EN"
    OBVIOUS
  <2> HIDE DEF r
  <2>6. LeavesFine(x.s, o)
    BY <2>2, <2>4, <2>5, ElseIsFine
  <2> QED
    BY <2>2, <2>6, FineGoesOn
<1> QED
  BY <1>1, <1>2

(* The bias on and off: only once the display was configured.              *)
LEMMA BiasSwitchIsFine ==
  ASSUME NEW s, IsPx(s), IsBoard(s), NEW yes \in BOOLEAN, NEW o \in IbbEnable(s, yes)
  PROVE  LeavesFine(s, o)
<1>1. CASE s.gwled = <<>>
  <2>1. o \in Return(s, 1)
    BY <1>1 DEF IbbEnable
  <2> QED
    BY <2>1, DoneIsFine
<1>2. CASE s.gwled # <<>>
  <2> DEFINE bit == IF yes THEN {En} ELSE {}
             first == WledSequence(s, <<WModify("LAB", "IBB_RDY", {"EN"}, bit)>>)
  <2>1. PICK x \in first : o \in (IF x.ret = 0 THEN WledEnable(x.s, "IBB", yes) ELSE {x})
    BY <1>2 DEF IbbEnable, Then
  <2> DEFINE r == <<WledSid(s), "LAB", "IBB_RDY">>
  <2>2. r[3] \notin Kept
    BY DEF Kept
  <2>3. /\ IsOutcome(x) /\ CameFrom(s, x.s) /\ x.ret = 0
        /\ ~x.s.failed => Becomes(s, r, {"EN"}, bit, x.s)
    <3> HIDE DEF bit
    <3> QED
      BY <2>1, WledOne
  <2>4. LeavesFine(s, x)
    <3> HIDE DEF r, bit
    <3> QED
      BY <2>2, <2>3, ElseIsFine
  <2>5. IsPx(x.s) /\ IsBoard(x.s) /\ x.s.gwled # <<>>
    BY <1>2, <2>3, <2>4 DEF LeavesFine, CameFrom
  <2>6. o \in WledSequence(x.s, <<WModify("IBB", "MODULE_EN", {"EN"}, bit)>>)
    BY <2>1, <2>3 DEF WledEnable
  <2> DEFINE b == <<WledSid(x.s), "IBB", "MODULE_EN">>
  <2>7. /\ IsOutcome(o) /\ CameFrom(x.s, o.s)
        /\ ~o.s.failed => Becomes(x.s, b, {"EN"}, bit, o.s)
    <3> HIDE DEF bit
    <3> QED
      BY <2>5, <2>6, WledOne
  <2>8. ASSUME ~o.s.failed, IsFine(x.s) PROVE IsFine(o.s)
    <3> DEFINE t == o.s
               u == x.s
    <3>1. u.wled_slave_id = 3 /\ WledSid(u) = 3
      BY <2>5, <2>8 DEF IsFine, BiasIs, WledSid
    <3>2. b = <<3, "IBB", "MODULE_EN">>
      BY <3>1
    <3>3. \A q : q # <<3, "IBB", "MODULE_EN">> => ValueOf(t, q) = ValueOf(u, q)
      BY <2>7, <2>8, <3>2 DEF Becomes
    <3>4. t.gwled = u.gwled /\ t.wled_slave_id = u.wled_slave_id /\ t.gwled # <<>>
      BY <2>5, <2>7 DEF CameFrom
    <3>5. \A a, m, n : n # "MODULE_EN" \/ a = 1 => <<a, m, n>> # <<3, "IBB", "MODULE_EN">>
      OBVIOUS
    <3>6. IsFine(u)
      BY <2>8
    <3> HIDE DEF t, u, b
    <3>7. ChargerIs(t)
      BY <3>3, <3>5, <3>6 DEF ChargerIs, IsFine
    <3>8. BiasIs(t)
      BY <3>3, <3>4, <3>5, <3>6 DEF BiasIs, IsFine, RailsAre, RailIs
    <3> QED
      BY <3>7, <3>8 DEF IsFine, t
  <2>9. LeavesFine(x.s, o)
    BY <2>5, <2>7, <2>8 DEF LeavesFine, CameFrom, IsBoard
  <2> QED
    BY <2>4, <2>9, FineGoesOn
<1> QED
  BY <1>1, <1>2

(* A rail set, one of the two.                                             *)
LEMMA RailIsSet ==
  ASSUME NEW s, IsPx(s), IsBoard(s), s.wled_slave_id = 3, NEW rail, NEW m,
         <<rail, m>> \in {<<"lab", "LAB">>, <<"ibb", "IBB">>},
         NEW i \in DOMAIN LabibbConfigs, Settable(LabibbConfigs[i][rail]),
         NEW o \in WledSequence(s, <<WModify(m, "OUTPUT_VOLTAGE", {"VOLTAGE", "OVERRIDE"},
                                             {<<"VOLTAGE", LabibbConfigs[i][rail].min>>, <<"OVERRIDE">>})>>)
  PROVE  /\ LeavesFine(s, o) /\ o.ret = 0 /\ CameFrom(s, o.s)
         /\ ~o.s.failed => /\ RailIs(o.s, rail, m)
                           /\ \A k, n : n # m /\ RailIs(s, k, n) => RailIs(o.s, k, n)
<1> DEFINE v == LabibbConfigs[i][rail].min
           set == {<<"VOLTAGE", v>>, <<"OVERRIDE">>}
           r == <<3, m, "OUTPUT_VOLTAGE">>
           t == o.s
<1>1. WledSid(s) = 3 /\ m \in {"LAB", "IBB"}
  BY DEF WledSid
<1>2. /\ IsOutcome(o) /\ o.ret = 0 /\ CameFrom(s, t)
      /\ ~t.failed => Becomes(s, r, {"VOLTAGE", "OVERRIDE"}, set, t)
  <2>1. o \in WledSequence(s, <<WModify(m, "OUTPUT_VOLTAGE", {"VOLTAGE", "OVERRIDE"}, set)>>)
    OBVIOUS
  <2> HIDE DEF set
  <2>2. m \in {"WLED", "LAB", "IBB"}
    BY <1>1
  <2> QED
    BY <1>1, <2>1, <2>2, WledOne
<1>3. ASSUME ~t.failed
      PROVE  /\ RailIs(t, rail, m)
             /\ \A k, n : n # m /\ RailIs(s, k, n) => RailIs(t, k, n)
  <2>1. \A q : q # r => ValueOf(t, q) = ValueOf(s, q)
    BY <1>2, <1>3 DEF Becomes
  <2>2. <<"VOLTAGE", v>> \in ValueOf(t, r)
    BY <1>2, <1>3 DEF Becomes
  <2>3. \A n : n # m => <<3, n, "OUTPUT_VOLTAGE">> # r
    OBVIOUS
  <2> HIDE DEF t
  <2>4. \A k, n : n # m /\ RailIs(s, k, n) => RailIs(t, k, n)
    BY <2>1, <2>3 DEF RailIs
  <2> QED
    BY <2>2, <2>4 DEF RailIs
<1>4. ASSUME ~t.failed, IsFine(s) PROVE IsFine(t)
  <2>1. \A q : q # r => ValueOf(t, q) = ValueOf(s, q)
    BY <1>2, <1>4 DEF Becomes
  <2>2. \A a, b, n : n # "OUTPUT_VOLTAGE" => <<a, b, n>> # r
    OBVIOUS
  <2>3. t.gwled = s.gwled /\ t.wled_slave_id = s.wled_slave_id
    BY <1>2 DEF CameFrom
  <2>4. RailIs(s, "lab", "LAB") => RailIs(t, "lab", "LAB")
    BY <1>3, <1>4
  <2>5. RailIs(s, "ibb", "IBB") => RailIs(t, "ibb", "IBB")
    BY <1>3, <1>4
  <2> HIDE DEF t, r
  <2>6. ChargerIs(t)
    BY <1>4, <2>1, <2>2 DEF ChargerIs, IsFine
  <2>7. BiasIs(t)
    BY <1>4, <2>1, <2>2, <2>3, <2>4, <2>5 DEF BiasIs, IsFine, RailsAre
  <2> QED
    BY <2>6, <2>7 DEF IsFine
<1> QED
  BY <1>2, <1>3, <1>4 DEF LeavesFine, CameFrom, IsBoard

(* Both rails, or what stopped them.                                       *)
LEMMA RailsAreSet ==
  ASSUME NEW s, IsPx(s), IsBoard(s), s.wled_slave_id = 3, NEW i \in DOMAIN LabibbConfigs,
         NEW o \in LabibbSetVoltage(s, LabibbConfigs[i])
  PROVE  /\ LeavesFine(s, o) /\ o.s.wled_slave_id = 3
         /\ o.ret = 0 /\ ~o.s.failed => RailsAre(o.s)
<1> DEFINE c == LabibbConfigs[i]
           Output(m, v) == <<WModify(m, "OUTPUT_VOLTAGE", {"VOLTAGE", "OVERRIDE"},
                                     {<<"VOLTAGE", v.min>>, <<"OVERRIDE">>})>>
           second(t) == IF ~Settable(c.ibb) THEN Return(t, 1) ELSE WledSequence(t, Output("IBB", c.ibb))
<1>1. c.lab = LabibbConfigs[i]["lab"] /\ c.ibb = LabibbConfigs[i]["ibb"]
  OBVIOUS
<1>2. CASE ~Settable(c.lab)
  <2>1. o \in Return(s, 1)
    BY <1>2 DEF LabibbSetVoltage
  <2> QED
    BY <2>1, DoneIsFine
<1>3. CASE Settable(c.lab)
  <2>1. PICK x \in WledSequence(s, Output("LAB", c.lab)) : o \in (IF x.ret = 0 THEN second(x.s) ELSE {x})
    BY <1>3 DEF LabibbSetVoltage, Then
  <2>2. /\ LeavesFine(s, x) /\ x.ret = 0 /\ CameFrom(s, x.s)
        /\ ~x.s.failed => RailIs(x.s, "lab", "LAB")
    <3>1. x \in WledSequence(s, <<WModify("LAB", "OUTPUT_VOLTAGE", {"VOLTAGE", "OVERRIDE"},
                                          {<<"VOLTAGE", LabibbConfigs[i]["lab"].min>>, <<"OVERRIDE">>})>>)
      BY <1>1, <2>1
    <3>2. Settable(LabibbConfigs[i]["lab"]) /\ <<"lab", "LAB">> \in {<<"lab", "LAB">>, <<"ibb", "IBB">>}
      BY <1>1, <1>3
    <3> HIDE DEF c, second, Output
    <3> QED
      BY <3>1, <3>2, RailIsSet
  <2>3. IsPx(x.s) /\ IsBoard(x.s) /\ x.s.wled_slave_id = 3
    BY <2>2 DEF LeavesFine, CameFrom
  <2>4. CASE ~Settable(c.ibb)
    <3>1. o \in Return(x.s, 1)
      BY <2>1, <2>2, <2>4
    <3>2. LeavesFine(x.s, o) /\ o.s = x.s /\ o.ret = 1
      BY <2>3, <3>1, DoneIsFine
    <3> QED
      BY <2>2, <2>3, <3>2, FineGoesOn
  <2>5. CASE Settable(c.ibb)
    <3>1. o \in WledSequence(x.s, Output("IBB", c.ibb))
      BY <2>1, <2>2, <2>5
    <3>2. /\ LeavesFine(x.s, o) /\ o.ret = 0 /\ CameFrom(x.s, o.s)
          /\ ~o.s.failed => /\ RailIs(o.s, "ibb", "IBB")
                            /\ \A k, n : n # "IBB" /\ RailIs(x.s, k, n) => RailIs(o.s, k, n)
      BY <2>3, <2>5, <3>1, RailIsSet
    <3>3. LeavesFine(s, o)
      BY <2>2, <3>2, FineGoesOn
    <3>4. ~o.s.failed => RailsAre(o.s)
      BY <2>2, <3>2 DEF RailsAre, CameFrom
    <3> QED
      BY <2>3, <3>2, <3>3, <3>4 DEF CameFrom
  <2> QED
    BY <2>4, <2>5
<1> QED
  BY <1>2, <1>3

LEMMA ConfigIsFine ==
  ASSUME NEW s, IsPx(s), IsBoard(s), s.wled_slave_id = 3, NEW i \in DOMAIN LabibbConfigs,
         NEW o \in QpnpWledConfig(s, LabibbConfigs[i])
  PROVE  /\ LeavesFine(s, o) /\ o.s.wled_slave_id = 3
         /\ o.ret = 0 /\ ~o.s.failed => RailsAre(o.s)
<1> DEFINE second(t) == LabibbSetVoltage(t, LabibbConfigs[i])
<1>1. o \in UNION {IF x.ret = 0 THEN second(x.s) ELSE {x} : x \in WledSequence(s, ConfigSteps)}
  BY DEF QpnpWledConfig, ConfigSteps, Then
<1>2. PICK x \in WledSequence(s, ConfigSteps) : o \in (IF x.ret = 0 THEN second(x.s) ELSE {x})
  BY <1>1
<1>3. Leaves(s, x, Kept) /\ x.ret = 0
  BY <1>2, ConfigStepsFit, WledLeaves
<1>4. LeavesFine(s, x) /\ x.s.wled_slave_id = 3
  BY <1>3, KeptAreFine DEF Leaves, CameFrom
<1>5. /\ LeavesFine(x.s, o) /\ o.s.wled_slave_id = 3
      /\ o.ret = 0 /\ ~o.s.failed => RailsAre(o.s)
  BY <1>2, <1>3, <1>4, RailsAreSet DEF LeavesFine
<1> QED
  BY <1>4, <1>5, FineGoesOn

(* The display's initialisation: the slave is told first, the display is   *)
(* there for the other calls when all of it succeeded.                     *)
LEMMA InitIsFine ==
  ASSUME NEW s, IsPx(s), IsBoard(s), NEW i \in DOMAIN LabibbConfigs,
         NEW o \in QpnpWledInit(Pm8x41WledConfigSlaveId(s, 3), LabibbConfigs[i])
  PROVE  LeavesFine(s, o)
<1> DEFINE t == Pm8x41WledConfigSlaveId(s, 3)
           c == LabibbConfigs[i]
<1>1. t = [reg |-> s.reg, chnl_tbl |-> s.chnl_tbl, wled_slave_id |-> 3,
           gwled |-> s.gwled, unlocked |-> s.unlocked, failed |-> s.failed,
           faults |-> s.faults, calls |-> s.calls, call |-> s.call, ret |-> s.ret]
  BY DEF Pm8x41WledConfigSlaveId, IsPx
<1>2. PICK x \in QpnpWledConfig(t, c) :
        o \in (IF x.ret = 0 THEN Done([x.s EXCEPT !.gwled = <<c>>]) ELSE {x})
  BY DEF QpnpWledInit, Then
<1> HIDE DEF t
<1>3. /\ IsPx(t) /\ t.reg = s.reg /\ t.chnl_tbl = s.chnl_tbl /\ t.wled_slave_id = 3
      /\ t.gwled = s.gwled /\ t.failed = s.failed
  BY <1>1 DEF IsPx
<1>4. IsBoard(t) /\ (IsFine(s) => IsFine(t))
  <2>1. \A q : ValueOf(t, q) = ValueOf(s, q)
    BY <1>3 DEF ValueOf
  <2> QED
    BY <1>3, <2>1 DEF IsBoard, IsFine, ChargerIs, BiasIs, RailsAre, RailIs
<1>5. /\ LeavesFine(t, x) /\ x.s.wled_slave_id = 3
      /\ x.ret = 0 /\ ~x.s.failed => RailsAre(x.s)
  BY <1>2, <1>3, <1>4, ConfigIsFine
<1>6. LeavesFine(s, x)
  BY <1>3, <1>4, <1>5 DEF LeavesFine
<1>7. CASE x.ret # 0
  <2>1. o = x
    BY <1>2, <1>7
  <2> QED
    BY <1>6, <2>1
<1>8. CASE x.ret = 0
  <2> DEFINE u == x.s
             b == <<c>>
             w == [u EXCEPT !.gwled = b]
  <2>1. o \in Done(w)
    BY <1>2, <1>8
  <2> HIDE DEF b
  <2>2. w = [reg |-> u.reg, chnl_tbl |-> u.chnl_tbl, wled_slave_id |-> u.wled_slave_id,
             gwled |-> b, unlocked |-> u.unlocked, failed |-> u.failed,
             faults |-> u.faults, calls |-> u.calls, call |-> u.call, ret |-> u.ret]
    <3> HIDE DEF u
    <3>1. IsPx(u)
      BY <1>6 DEF LeavesFine, u
    <3> QED
      BY <3>1 DEF IsPx
  <2>3. b # <<>>
    BY DEF b
  <2> HIDE DEF u, w
  <2>4. /\ IsPx(w) /\ w.reg = u.reg /\ w.chnl_tbl = u.chnl_tbl /\ w.wled_slave_id = u.wled_slave_id
        /\ w.gwled = b /\ w.failed = u.failed
    BY <2>2 DEF IsPx
  <2>5. IsOutcome(o) /\ o.s = w
    BY <2>1, DoneIs
  <2>6. IsBoard(w) /\ w.wled_slave_id = 3 /\ (s.failed => w.failed)
    BY <1>5, <1>6, <2>4 DEF IsBoard, LeavesFine, u
  <2>7. ASSUME ~w.failed, IsFine(s) PROVE IsFine(w)
    <3>1. IsFine(u) /\ RailsAre(u)
      BY <1>5, <1>6, <1>8, <2>4, <2>7 DEF LeavesFine, u
    <3>2. \A q : ValueOf(w, q) = ValueOf(u, q)
      BY <2>4 DEF ValueOf
    <3>3. ChargerIs(w)
      BY <3>1, <3>2 DEF IsFine, ChargerIs
    <3>4. RailsAre(w)
      BY <3>1, <3>2 DEF RailsAre, RailIs
    <3>5. BiasIs(w)
      BY <2>3, <2>4, <2>6, <3>1, <3>2, <3>4 DEF IsFine, BiasIs
    <3> QED
      BY <3>3, <3>5 DEF IsFine
  <2> QED
    BY <2>4, <2>5, <2>6, <2>7 DEF LeavesFine
<1> QED
  BY <1>7, <1>8

-----------------------------------------------------------------------------
(* The battery tests give the charger's registers back.                    *)
LEMMA StoreIsTaken ==
  ASSUME NEW s, NEW r, NEW v, NEW t, SpmiTakes(s, Store(r, v), t),
         NEW at, at = Reached(s, r), <<at[2], r[3]>> \notin Secured
  PROVE  /\ ValueOf(t, at) = v
         /\ \A q : q[3] # r[3] => ValueOf(t, q) = ValueOf(s, q)
<1> DEFINE st == Store(r, v)
<1>1. ~st.modify /\ st.reg = r /\ st.set = v
  BY DEF Store
<1>2. at[3] = r[3]
  BY ReachedIs
<1> HIDE DEF st
<1>3. SpmiTakes(s, st, t)
  BY DEF st
<1> QED
  BY <1>1, <1>2, <1>3 DEF SpmiTakes

LEMMA BatteryIsFine ==
  ASSUME NEW s, IsPx(s), IsBoard(s), NEW o \in IsBatteryBroken(s)
  PROVE  LeavesFine(s, o)
<1> DEFINE ibat == Chg("IBAT_ATC")
           vdet == Chg("VBAT_DET")
           trkl == Chg("TRKL_CHG_TEST")
           vcp  == <<0, "BAT_IF", "VCP">>
           key  == Store(Chg("SEC_ACCESS"), {<<"KEY">>})
           endt == Store(trkl, {})
           Y == {ibat, vdet, trkl, vcp}
           A == <<Store(ibat, {}), Store(vdet, {<<"VOLTAGE", 4>>})>>
           B == <<key, Store(Chg("COMP_OVR0"), {<<"DIS_VTRKL_FAULT">>})>>
           C == <<Store(vcp, {})>>
           Ours == <<key, Store(trkl, {<<"FORCED">>})>>
           E == <<key, endt>>
           F(i, v) == <<Store(vcp, {En}), Store(ibat, i), Store(vdet, v)>>
           head == A \o B \o C \o Ours
           all(i, v) == head \o E \o F(i, v)
<1>1. PICK u, i, v : /\ o \in Sequence8x41(u, all(i, v))
                     /\ CameFrom(s, u)
                     /\ ~u.failed => u = s /\ i = ValueOf(s, Reached(s, ibat))
                                           /\ v = ValueOf(s, Reached(s, vdet))
  <2> DEFINE Two(t, i) ==
        ReadThen(t, vdet, LAMBDA w, v : Sequence8x41(w, all(i, v)))
  <2>1. o \in Two(s, ValueOf(s, Reached(s, ibat))) \/ o \in Two(Lost(s), {})
    BY DEF IsBatteryBroken, ReadThen, Unlocked, EndTest
  <2>2. \A t, i : o \in Two(t, i) => \/ o \in Sequence8x41(t, all(i, ValueOf(t, Reached(t, vdet))))
                                     \/ o \in Sequence8x41(Lost(t), all(i, {}))
    <3> HIDE DEF all
    <3> QED
      BY DEF ReadThen
  <2> HIDE DEF Two, all, ibat, vdet
  <2>3. CameFrom(s, s) /\ CameFrom(s, Lost(s)) /\ Lost(s).failed
    BY LostIs DEF CameFrom
  <2>4. CameFrom(s, Lost(Lost(s))) /\ Lost(Lost(s)).failed
    <3> DEFINE l == Lost(s)
    <3>1. IsPx(l) /\ l.failed /\ CameFrom(s, l)
      BY <2>3 DEF CameFrom
    <3> HIDE DEF l
    <3>2. CameFrom(l, Lost(l)) /\ Lost(l).failed
      BY <3>1, LostIs
    <3> QED
      BY <3>1, <3>2 DEF CameFrom, l
  <2> QED
    BY <2>1, <2>2, <2>3, <2>4
<1>2. /\ Fits(key, Kept, Y) /\ Fits(endt, Kept, Y)
      /\ \A w : Fits(Store(ibat, w), Kept, Y) /\ Fits(Store(vdet, w), Kept, Y)
                /\ Fits(Store(trkl, w), Kept, Y) /\ Fits(Store(vcp, w), Kept, Y)
                /\ Fits(Store(Chg("COMP_OVR0"), w), Kept, Y)
  <2>1. Chg("SEC_ACCESS")[3] \notin Kept /\ Chg("COMP_OVR0")[3] \notin Kept
    BY DEF Chg, Kept
  <2>2. ibat \in Y /\ vdet \in Y /\ trkl \in Y /\ vcp \in Y
    OBVIOUS
  <2> HIDE DEF ibat, vdet, trkl, vcp, Y
  <2> QED
    BY <2>1, <2>2, StepFits
<1>3. Avoids(A, Kept, Y) /\ Avoids(B, Kept, Y) /\ Avoids(C, Kept, Y) /\ Avoids(Ours, Kept, Y)
      /\ Avoids(E, Kept, Y) /\ Avoids(F(i, v), Kept, Y) /\ Len(E) = 2 /\ Len(F(i, v)) = 3
  <2> HIDE DEF ibat, vdet, trkl, vcp, key, endt, Y
  <2> QED
    BY <1>2, OneFits, TwoFit, ThreeFit
<1> DEFINE G == F(i, v)
           N == Len(all(i, v))
<1>4. Avoids(head, Kept, Y) /\ Avoids(head \o E, Kept, Y) /\ Avoids(head \o E \o G, Kept, Y)
  <2> HIDE DEF A, B, C, Ours, E, F, Y
  <2> QED
    BY <1>3, AvoidsBoth
<1>5. RanOn(u, all(i, v), N, o)
  <2>1. N \in Nat /\ IsPx(u)
    BY <1>1, <1>4 DEF Avoids, CameFrom
  <2> HIDE DEF head, E, F
  <2> QED
    BY <1>1, <2>1, SequenceRuns
<1>6. ASSUME ~o.s.failed
      PROVE  /\ KeepsBut(s, o.s, Kept, Y)
             /\ ValueOf(o.s, Reached(s, ibat)) = ValueOf(s, Reached(s, ibat))
             /\ ValueOf(o.s, Reached(s, vdet)) = ValueOf(s, Reached(s, vdet))
             /\ ValueOf(o.s, Reached(s, vcp)) = {En}
             /\ ValueOf(o.s, Reached(s, trkl)) = {}
  <2>1. u = s /\ i = ValueOf(s, Reached(s, ibat)) /\ v = ValueOf(s, Reached(s, vdet))
    BY <1>1, <1>5, <1>6 DEF RanOn, CameFrom
  <2>2. PICK f : IsRun(s, all(i, v), N, f) /\ o.s = f[N]
    BY <1>5, <1>6, <2>1 DEF RanOn
  <2>3. KeepsBut(s, o.s, Kept, Y)
    <3> HIDE DEF head, E, F, Y
    <3> QED
      BY <1>4, <2>2, RunKeeps
  <2>4. PICK g : IsRun(f[Len(head \o E)], G, 3, g) /\ g[3] = o.s
    <3> DEFINE a == head \o E
    <3>1. /\ Avoids(a, Kept, Y) /\ Avoids(G, Kept, Y) /\ Len(G) = 3
          /\ IsRun(s, a \o G, Len(a \o G), f) /\ o.s = f[Len(a \o G)]
      BY <1>3, <1>4, <2>2
    <3> HIDE DEF a, G, Y
    <3>2. \E w : Rest(f[Len(a)], G, f[Len(a \o G)], w)
      BY <3>1, RunParts
    <3> QED
      BY <3>1, <3>2 DEF Rest, a
  <2>5. IsRun(s, head \o E, Len(head \o E), f)
    <3> HIDE DEF head, E, F, Y
    <3> QED
      BY <1>3, <1>4, <2>2, RunParts
  <2>6. PICK h : IsRun(f[Len(head)], E, 2, h) /\ h[2] = f[Len(head \o E)]
    <3>1. Avoids(head, Kept, Y) /\ Avoids(E, Kept, Y) /\ Len(E) = 2
      BY <1>3, <1>4
    <3> HIDE DEF head, E, Y
    <3>2. \E w : Rest(f[Len(head)], E, f[Len(head \o E)], w)
      BY <2>5, <3>1, RunParts
    <3> QED
      BY <3>1, <3>2 DEF Rest
  <2>7. f[Len(head)].chnl_tbl = s.chnl_tbl
    <3>1. IsRun(s, head, Len(head), f)
      <4> HIDE DEF head, E, F, Y
      <4> QED
        BY <1>3, <1>4, <2>5, RunParts
    <3> HIDE DEF head, E, F, Y
    <3> QED
      BY <1>4, <3>1, RunKeeps
  <2>8. SpmiTakes(h[0], key, h[1]) /\ SpmiTakes(h[1], endt, h[2]) /\ h[0] = f[Len(head)]
    <3>1. E[1] = key /\ E[2] = endt
      OBVIOUS
    <3> HIDE DEF E, key, endt, head
    <3> QED
      BY <2>6, <3>1 DEF IsRun
  <2>9. /\ SpmiTakes(g[0], Store(vcp, {En}), g[1]) /\ SpmiTakes(g[1], Store(ibat, i), g[2])
        /\ SpmiTakes(g[2], Store(vdet, v), g[3]) /\ g[0] = h[2]
    <3> DEFINE a == Store(vcp, {En})
               b == Store(ibat, i)
               c == Store(vdet, v)
    <3>1. G[1] = a /\ G[2] = b /\ G[3] = c
      OBVIOUS
    <3> HIDE DEF G, a, b, c, head, E
    <3>2. SpmiTakes(g[0], a, g[1]) /\ SpmiTakes(g[1], b, g[2]) /\ SpmiTakes(g[2], c, g[3]) /\ g[0] = h[2]
      BY <2>4, <2>6, <3>1 DEF IsRun
    <3> QED
      BY <3>2 DEF a, b, c
  <2>10. /\ h[1].chnl_tbl = s.chnl_tbl /\ h[2].chnl_tbl = s.chnl_tbl /\ g[1].chnl_tbl = s.chnl_tbl
         /\ g[2].chnl_tbl = s.chnl_tbl
    BY <2>7, <2>8, <2>9 DEF SpmiTakes
  <2>11. ValueOf(h[2], Reached(s, trkl)) = {}
    <3> DEFINE r == Reached(s, trkl)
               k == Reached(s, Chg("SEC_ACCESS"))
    <3>1. Reached(h[1], trkl) = r /\ Reached(h[0], Chg("SEC_ACCESS")) = k
      BY <2>7, <2>8, <2>10, ReachedIs
    <3>2. k[1] = r[1] /\ k[2] = r[2] /\ k[3] = "SEC_ACCESS"
      BY DEF Reached, Chg
    <3>3. h[1].unlocked = <<r[1], r[2]>>
      <4>1. key.reg = Chg("SEC_ACCESS")
        BY DEF Store
      <4> HIDE DEF key, r, k
      <4> QED
        BY <2>8, <3>1, <3>2, <4>1 DEF SpmiTakes
    <3>4. ~endt.modify /\ endt.reg = trkl /\ endt.set = {}
      BY DEF Store
    <3> HIDE DEF key, r, k, endt, trkl
    <3> QED
      BY <2>8, <3>1, <3>3, <3>4 DEF SpmiTakes, r
  <2>12. /\ ValueOf(g[1], Reached(s, vcp)) = {En}
         /\ \A q : q[3] # "VCP" => ValueOf(g[1], q) = ValueOf(h[2], q)
    <3>1. vcp[3] = "VCP" /\ Reached(g[0], vcp) = Reached(s, vcp)
      BY <2>9, <2>10, ReachedIs
    <3>2. <<Reached(s, vcp)[2], "VCP">> \notin Secured
      BY DEF Secured
    <3>3. SpmiTakes(g[0], Store(vcp, {En}), g[1]) /\ g[0] = h[2]
      BY <2>9
    <3> HIDE DEF vcp
    <3> QED
      BY <3>1, <3>2, <3>3, StoreIsTaken
  <2>13. /\ ValueOf(g[2], Reached(s, ibat)) = i
         /\ \A q : q[3] # "IBAT_ATC" => ValueOf(g[2], q) = ValueOf(g[1], q)
    <3>1. ibat[3] = "IBAT_ATC" /\ Reached(g[1], ibat) = Reached(s, ibat)
      BY <2>10, ReachedIs DEF Chg
    <3>2. <<Reached(s, ibat)[2], "IBAT_ATC">> \notin Secured
      BY DEF Secured
    <3>3. SpmiTakes(g[1], Store(ibat, i), g[2])
      BY <2>9
    <3> HIDE DEF ibat
    <3> QED
      BY <3>1, <3>2, <3>3, StoreIsTaken
  <2>14. /\ ValueOf(g[3], Reached(s, vdet)) = v
         /\ \A q : q[3] # "VBAT_DET" => ValueOf(g[3], q) = ValueOf(g[2], q)
    <3>1. vdet[3] = "VBAT_DET" /\ Reached(g[2], vdet) = Reached(s, vdet)
      BY <2>10, ReachedIs DEF Chg
    <3>2. <<Reached(s, vdet)[2], "VBAT_DET">> \notin Secured
      BY DEF Secured
    <3>3. SpmiTakes(g[2], Store(vdet, v), g[3])
      BY <2>9
    <3> HIDE DEF vdet
    <3> QED
      BY <3>1, <3>2, <3>3, StoreIsTaken
  <2>15. /\ Reached(s, ibat)[3] = "IBAT_ATC" /\ Reached(s, vdet)[3] = "VBAT_DET"
         /\ Reached(s, trkl)[3] = "TRKL_CHG_TEST" /\ Reached(s, vcp)[3] = "VCP"
    BY DEF Reached, Chg
  <2> HIDE DEF ibat, vdet, trkl, vcp, Y
  <2> QED
    BY <2>1, <2>3, <2>4, <2>11, <2>12, <2>13, <2>14, <2>15
<1>7. ASSUME ~o.s.failed, IsFine(s) PROVE IsFine(o.s)
  <2> DEFINE t == o.s
             Was == {Reached(s, r) : r \in Y}
  <2>1. CameFrom(s, t)
    BY <1>1, <1>5 DEF RanOn, CameFrom
  <2>2. /\ \A q : q[3] \in Kept /\ q \notin Was => ValueOf(t, q) = ValueOf(s, q)
        /\ ValueOf(t, Reached(s, ibat)) = ValueOf(s, Reached(s, ibat))
        /\ ValueOf(t, Reached(s, vdet)) = ValueOf(s, Reached(s, vdet))
        /\ ValueOf(t, Reached(s, vcp)) = {En}
        /\ ValueOf(t, Reached(s, trkl)) = {}
    BY <1>6, <1>7 DEF KeepsBut
  <2>3. Was = {Reached(s, ibat), Reached(s, vdet), Reached(s, trkl), Reached(s, vcp)}
    OBVIOUS
  <2>4. /\ Reached(s, ibat)[3] = "IBAT_ATC" /\ Reached(s, vdet)[3] = "VBAT_DET"
        /\ Reached(s, trkl)[3] = "TRKL_CHG_TEST" /\ Reached(s, vcp)[3] = "VCP"
    BY DEF Reached, Chg
  <2> HIDE DEF t, Was, ibat, vdet, trkl, vcp, Y
  <2>5. \A q : q[3] \in Kept /\ q[3] \notin {"TRKL_CHG_TEST", "VCP"} => ValueOf(t, q) = ValueOf(s, q)
    BY <2>2, <2>3, <2>4
  <2>6. \A q : q[3] = "TRKL_CHG_TEST" => ValueOf(t, q) = {} \/ ValueOf(t, q) = ValueOf(s, q)
    <3>1. "TRKL_CHG_TEST" \in Kept
      BY DEF Kept
    <3> QED
      BY <2>2, <2>3, <2>4, <3>1
  <2>7. \A q : q[3] = "VCP" => ValueOf(t, q) = {En} \/ ValueOf(t, q) = ValueOf(s, q)
    <3>1. "VCP" \in Kept
      BY DEF Kept
    <3> QED
      BY <2>2, <2>3, <2>4, <3>1
  <2>8. \A a, b, n : <<a, b, n>>[3] = n
    OBVIOUS
  <2>9. \A n \in {"IBAT_ATC", "VBAT_DET", "FCC_CFG", "MODULE_EN", "OUTPUT_VOLTAGE"} : \A a, b :
          ValueOf(t, <<a, b, n>>) = ValueOf(s, <<a, b, n>>)
    <3>1. \A n \in {"IBAT_ATC", "VBAT_DET", "FCC_CFG", "MODULE_EN", "OUTPUT_VOLTAGE"} :
            n \in Kept /\ n \notin {"TRKL_CHG_TEST", "VCP"}
      BY DEF Kept
    <3> QED
      BY <2>5, <2>8, <3>1
  <2>10. \A a, b : LET q == <<a, b, "TRKL_CHG_TEST">> IN ValueOf(t, q) = {} \/ ValueOf(t, q) = ValueOf(s, q)
    BY <2>6, <2>8
  <2>11. \A a, b : LET q == <<a, b, "VCP">> IN ValueOf(t, q) = {En} \/ ValueOf(t, q) = ValueOf(s, q)
    BY <2>7, <2>8
  <2>12. ChargerIs(t)
    BY <1>7, <2>9, <2>10, <2>11 DEF IsFine, ChargerIs
  <2>13. BiasIs(t)
    BY <1>7, <2>1, <2>9 DEF IsFine, BiasIs, RailsAre, RailIs, CameFrom
  <2> QED
    BY <2>12, <2>13 DEF IsFine, t
<1> QED
  BY <1>1, <1>5, <1>7 DEF RanOn, LeavesFine, CameFrom, IsBoard

(* What follows the two switches: the fast current is read, the voltage    *)
(* forced, the current given back.                                         *)
ForcedCharge(s) ==
  ReadThen(s, Chgr("FCC_CFG"), LAMBDA u, fast :
    Sequence8x41(u, <<Store(Chgr("FCC_CFG"), {}), Store(Chgr("FV_CFG"), {<<"VOLTAGE", 6>>}),
                      Store(Chgr("FV_CFG"), {<<"VOLTAGE", 5>>}),
                      Modify(Chgr("CFG2"), {}, {<<"TERM">>}),
                      Store(Chgr("FCC_CFG"), fast),
                      Modify(Chgr("TRIM_OPTIONS"), {}, {<<"POLLER">>})>>))

LEMMA CurrentIsFine ==
  ASSUME NEW s, IsPx(s), IsBoard(s), NEW o \in ForcedCharge(s)
  PROVE  LeavesFine(s, o)
<1> DEFINE fcc == Chgr("FCC_CFG")
           Y == {fcc}
           a == Store(fcc, {})
           b == Store(Chgr("FV_CFG"), {<<"VOLTAGE", 6>>})
           c == Store(Chgr("FV_CFG"), {<<"VOLTAGE", 5>>})
           d == Modify(Chgr("CFG2"), {}, {<<"TERM">>})
           f(v) == Store(fcc, v)
           g == Modify(Chgr("TRIM_OPTIONS"), {}, {<<"POLLER">>})
           all(v) == <<a, b, c, d, f(v), g>>
           head == <<a, b, c, d>>
           tail(v) == <<f(v), g>>
<1>1. PICK u, v : /\ o \in Sequence8x41(u, head \o tail(v))
                  /\ CameFrom(s, u)
                  /\ ~u.failed => u = s /\ v = ValueOf(s, Reached(s, fcc))
  <2>1. o \in Sequence8x41(s, all(ValueOf(s, Reached(s, fcc)))) \/ o \in Sequence8x41(Lost(s), all({}))
    <3> HIDE DEF a, b, c, d, f, g
    <3> QED
      BY DEF ForcedCharge, ReadThen, a, b, c, d, f, g
  <2>2. \A v : all(v) = head \o tail(v)
    <3> HIDE DEF a, b, c, d, f, g
    <3> QED
      OBVIOUS
  <2> HIDE DEF all, head, tail, fcc
  <2>3. CameFrom(s, s) /\ CameFrom(s, Lost(s)) /\ Lost(s).failed
    BY LostIs DEF CameFrom
  <2> QED
    BY <2>1, <2>2, <2>3
<1>2. /\ Fits(a, Kept, Y) /\ Fits(b, Kept, Y) /\ Fits(c, Kept, Y) /\ Fits(d, Kept, Y)
      /\ Fits(f(v), Kept, Y) /\ Fits(g, Kept, Y)
  <2>1. Chgr("FV_CFG")[3] \notin Kept /\ Chgr("CFG2")[3] \notin Kept /\ Chgr("TRIM_OPTIONS")[3] \notin Kept
    BY DEF Chgr, Kept
  <2>2. fcc \in Y
    OBVIOUS
  <2> HIDE DEF fcc, Y
  <2> QED
    BY <2>1, <2>2, StepFits
<1>3. Avoids(head, Kept, Y) /\ Avoids(tail(v), Kept, Y) /\ Len(head) = 4 /\ Len(tail(v)) = 2
  <2> HIDE DEF a, b, c, d, f, g, Y
  <2>1. Avoids(head, Kept, Y) /\ Avoids(tail(v), Kept, Y)
    BY <1>2, FourFit, TwoFit
  <2> QED
    BY <2>1
<1> DEFINE G == tail(v)
           N == Len(head \o G)
<1>4. Avoids(head \o G, Kept, Y)
  <2> HIDE DEF head, tail, Y
  <2> QED
    BY <1>3, AvoidsBoth
<1>5. RanOn(u, head \o G, N, o)
  <2>1. N \in Nat /\ IsPx(u)
    BY <1>1, <1>4 DEF Avoids, CameFrom
  <2> HIDE DEF head, tail
  <2> QED
    BY <1>1, <2>1, SequenceRuns
<1>6. ASSUME ~o.s.failed
      PROVE  /\ KeepsBut(s, o.s, Kept, Y)
             /\ ValueOf(o.s, Reached(s, fcc)) = ValueOf(s, Reached(s, fcc))
  <2>1. u = s /\ v = ValueOf(s, Reached(s, fcc))
    BY <1>1, <1>5, <1>6 DEF RanOn, CameFrom
  <2>2. PICK h : IsRun(s, head \o G, N, h) /\ o.s = h[N]
    BY <1>5, <1>6, <2>1 DEF RanOn
  <2>3. KeepsBut(s, o.s, Kept, Y)
    <3> HIDE DEF head, tail, Y
    <3> QED
      BY <1>4, <2>2, RunKeeps
  <2>4. PICK k : IsRun(h[Len(head)], G, 2, k) /\ k[2] = o.s
    <3> HIDE DEF head, tail, Y
    <3>1. \E w : Rest(h[Len(head)], G, h[Len(head \o G)], w)
      BY <1>3, <2>2, RunParts
    <3> QED
      BY <1>3, <2>2, <3>1 DEF Rest
  <2>5. h[Len(head)].chnl_tbl = s.chnl_tbl
    <3> HIDE DEF head, tail, Y
    <3>1. IsRun(s, head, Len(head), h)
      BY <1>3, <2>2, RunParts
    <3>2. Avoids(head, Kept, Y)
      BY <1>3
    <3> QED
      BY <3>1, <3>2, RunKeeps
  <2>6. SpmiTakes(k[0], f(v), k[1]) /\ SpmiTakes(k[1], g, k[2]) /\ k[0] = h[Len(head)]
    <3> DEFINE e == f(v)
    <3>1. G[1] = e /\ G[2] = g
      OBVIOUS
    <3> HIDE DEF head, tail, G, e, g
    <3>2. SpmiTakes(k[0], e, k[1]) /\ SpmiTakes(k[1], g, k[2]) /\ k[0] = h[Len(head)]
      BY <2>4, <3>1 DEF IsRun
    <3> QED
      BY <3>2 DEF e
  <2>7. ValueOf(k[1], Reached(s, fcc)) = v /\ k[1].chnl_tbl = s.chnl_tbl
    <3>1. fcc[3] = "FCC_CFG" /\ Reached(k[0], fcc) = Reached(s, fcc) /\ k[1].chnl_tbl = s.chnl_tbl
      BY <2>5, <2>6, ReachedIs DEF Chgr, SpmiTakes
    <3>2. <<Reached(s, fcc)[2], "FCC_CFG">> \notin Secured
      BY DEF Secured
    <3>3. SpmiTakes(k[0], Store(fcc, v), k[1])
      BY <2>6
    <3> HIDE DEF fcc
    <3> QED
      BY <3>1, <3>2, <3>3, StoreIsTaken
  <2>8. ValueOf(k[2], Reached(s, fcc)) = ValueOf(k[1], Reached(s, fcc))
    <3>1. g.reg = Chgr("TRIM_OPTIONS")
      BY DEF Modify
    <3>2. Reached(s, fcc)[3] = "FCC_CFG" /\ Reached(k[1], Chgr("TRIM_OPTIONS"))[3] = "TRIM_OPTIONS"
      BY DEF Reached, Chgr
    <3> HIDE DEF g, fcc
    <3> QED
      BY <2>6, <3>1, <3>2 DEF SpmiTakes
  <2> HIDE DEF fcc, Y
  <2> QED
    BY <2>1, <2>3, <2>4, <2>7, <2>8
<1>7. ASSUME ~o.s.failed, IsFine(s) PROVE IsFine(o.s)
  <2> DEFINE t == o.s
  <2>1. CameFrom(s, t)
    BY <1>1, <1>5 DEF RanOn, CameFrom
  <2>2. \A q : q[3] \in Kept => ValueOf(t, q) = ValueOf(s, q)
    <3>1. {Reached(s, r) : r \in Y} = {Reached(s, fcc)}
      OBVIOUS
    <3> HIDE DEF t, Y, fcc
    <3> QED
      BY <1>6, <1>7, <3>1 DEF KeepsBut, t
  <2>3. Leaves(s, o, Kept)
    BY <1>5, <2>1, <2>2 DEF Leaves, RanOn, KeepsAll
  <2> QED
    BY <1>7, <2>3, KeptAreFine DEF LeavesFine
<1> QED
  BY <1>1, <1>5, <1>7 DEF RanOn, LeavesFine, CameFrom, IsBoard

LEMMA PmiIsFine ==
  ASSUME NEW s, IsPx(s), IsBoard(s), NEW o \in Pmi8994IsBatteryBroken(s)
  PROVE  LeavesFine(s, o)
<1> DEFINE a == Modify(Chgr("TRIM_OPTIONS"), {"POLLER"}, {})
           b == Modify(Chgr("CFG2"), {"TERM"}, {})
<1>1. PICK x \in Sequence8x41(s, <<a, b>>) : o \in (IF x.ret = 0 THEN ForcedCharge(x.s) ELSE {x})
  <2>1. o \in UNION {IF x.ret = 0 THEN ForcedCharge(x.s) ELSE {x} : x \in Sequence8x41(s, <<a, b>>)}
    BY DEF Pmi8994IsBatteryBroken, Then, ForcedCharge, ReadThen
  <2> QED
    BY <2>1
<1>2. Leaves(s, x, Kept) /\ x.ret = 0
  <2>1. Fits(a, Kept, {}) /\ Fits(b, Kept, {})
    <3>1. Chgr("CFG2")[3] \notin Kept /\ Chgr("TRIM_OPTIONS")[3] \notin Kept
      BY DEF Chgr, Kept
    <3> QED
      BY <3>1, StepFits
  <2> HIDE DEF a, b
  <2> QED
    BY <1>1, <2>1, TwoFit, SequenceLeaves
<1>3. LeavesFine(s, x)
  BY <1>2, KeptAreFine
<1>4. LeavesFine(x.s, o)
  <2>1. o \in ForcedCharge(x.s) /\ IsPx(x.s) /\ IsBoard(x.s)
    BY <1>1, <1>2, <1>3 DEF LeavesFine
  <2> QED
    BY <2>1, CurrentIsFine
<1> QED
  BY <1>3, <1>4, FineGoesOn

-----------------------------------------------------------------------------
(* Every call of the chip.                                                 *)
LEMMA CallsAreFine ==
  ASSUME NEW s, IsPx(s), IsBoard(s), NEW c \in Pm8x41Ops, NEW o \in Pm8x41Call(s, c)
  PROVE  LeavesFine(s, o) /\ (c.op = "pwm" /\ o.ret = 0 => c.arg \in PwmPeriods)
<1>1. CASE c.op = "gpio"
  <2> DEFINE g == [dir |-> c.arg, function |-> 1]
  <2>1. o \in GpioConfig(s, c.sid, c.unit, g)
    BY <1>1 DEF Pm8x41Call
  <2> HIDE DEF g
  <2>2. Leaves(s, o, Kept)
    BY <2>1, GpioKeeps
  <2> QED
    BY <1>1, <2>2, KeptAreFine
<1>2. CASE c.op = "gpioset"
  <2> DEFINE r == <<c.sid, c.unit, "MODE_CTL">>
             set == {<<"FUNCTION", 2>>}
  <2>1. o \in Sequence8x41(s, <<Modify(r, {"FUNCTION"}, set)>>)
    BY <1>2 DEF Pm8x41Call, GpioSet
  <2>2. r[3] \notin Kept
    BY DEF Kept
  <2> HIDE DEF r, set
  <2> QED
    BY <1>2, <2>1, <2>2, OneStepKeeps, KeptAreFine
<1>3. CASE c.op = "reset" \/ c.op = "reset94"
  <2>1. o \in ResetConfigure(s, c.arg) \cup Pm8994ResetConfigure(s, c.arg)
    BY <1>3 DEF Pm8x41Call
  <2> QED
    BY <1>3, <2>1, ResetsKeep, KeptAreFine
<1>4. CASE c.op = "resin"
  <2>1. o \in V2ResinStatus(s)
    BY <1>4 DEF Pm8x41Call
  <2> QED
    BY <1>4, <2>1, ResinKeeps, KeptAreFine
<1>5. CASE c.op = "battery"
  <2>1. o \in IsBatteryBroken(s)
    BY <1>5 DEF Pm8x41Call
  <2> QED
    BY <1>5, <2>1, BatteryIsFine
<1>6. CASE c.op = "pmi"
  <2>1. o \in Pmi8994IsBatteryBroken(s)
    BY <1>6 DEF Pm8x41Call
  <2> QED
    BY <1>6, <2>1, PmiIsFine
<1>7. CASE c.op = "ldo"
  <2>1. o \in LdoSetVoltage(s, c.unit, c.arg)
    BY <1>7 DEF Pm8x41Call
  <2> QED
    BY <1>7, <2>1, RegulatorKeeps, KeptAreFine
<1>8. CASE c.op = "switch"
  <2> DEFINE r == <<c.sid, c.unit, "EN_CTL">>
             set == IF c.arg = 1 THEN {En} ELSE {}
  <2>1. o \in Sequence8x41(s, <<Modify(r, {"EN"}, set)>>)
    BY <1>8 DEF Pm8x41Call, SwitchOn
  <2>2. r[3] \notin Kept
    BY DEF Kept
  <2> HIDE DEF r, set
  <2> QED
    BY <1>8, <2>1, <2>2, OneStepKeeps, KeptAreFine
<1>9. CASE c.op = "pwm"
  <2>1. o \in PmPwmConfig(s, c.arg)
    BY <1>9 DEF Pm8x41Call
  <2> QED
    BY <2>1, ModulatorKeeps, KeptAreFine
<1>10. CASE c.op = "adc"
  <2>1. o \in AdcChannelRead(s, "BAT")
    BY <1>10 DEF Pm8x41Call
  <2> QED
    BY <1>10, <2>1, ConverterKeeps, KeptAreFine
<1>11. CASE c.op = "wled"
  <2>1. o \in WledConfig(s)
    BY <1>11 DEF Pm8x41Call
  <2> QED
    BY <1>11, <2>1, WledKeeps, KeptAreFine
<1>12. CASE c.op = "light"
  <2>1. o \in EnableBacklight(s, c.arg = 1)
    BY <1>12 DEF Pm8x41Call
  <2> QED
    BY <1>12, <2>1, BacklightIsFine
<1>13. CASE c.op = "bias"
  <2>1. o \in IbbEnable(s, c.arg = 1)
    BY <1>13 DEF Pm8x41Call
  <2> QED
    BY <1>13, <2>1, BiasSwitchIsFine
<1>14. CASE c.op \notin ChipCalls
  <2>1. o \in QpnpWledInit(Pm8x41WledConfigSlaveId(s, 3), LabibbConfigs[c.arg])
    BY <1>14 DEF Pm8x41Call, ChipCalls
  <2>2. c.arg \in DOMAIN LabibbConfigs
    BY <1>14, BoardAssumption
  <2> QED
    BY <1>14, <2>1, <2>2, InitIsFine DEF ChipCalls
<1> QED
  BY <1>1, <1>2, <1>3, <1>4, <1>5, <1>6, <1>7, <1>8, <1>9, <1>10, <1>11, <1>12, <1>13, <1>14
     DEF ChipCalls

(* Only these two matter to what is fine.                                  *)
LEMMA FineIsSeen ==
  ASSUME NEW s, NEW t, t.reg = s.reg, t.gwled = s.gwled, t.wled_slave_id = s.wled_slave_id, IsFine(s)
  PROVE  IsFine(t)
<1>1. \A q : ValueOf(t, q) = ValueOf(s, q)
  BY DEF ValueOf
<1> QED
  BY <1>1 DEF IsFine, ChargerIs, BiasIs, RailsAre, RailIs

(* The invariant: while no access has failed the charger is as it was      *)
(* found and the bias is on only where both rails are set.                 *)
BoardIsFine ==
  /\ IsPx(px) /\ IsBoard(px)
  /\ ~px.failed => IsFine(px)
  /\ px.call.op = "pwm" /\ px.ret = 0 => px.call.arg \in PwmPeriods

LEMMA BoardStaysFine == Pm8x41Spec => []BoardIsFine
<1>1. Pm8x41Init => BoardIsFine
  <2> SUFFICES ASSUME Pm8x41Init PROVE BoardIsFine
    OBVIOUS
  <2> DEFINE given == [r \in SetBefore |-> CASE r = <<0, "CHG", "IBAT_ATC">> -> {<<"CURRENT", 3>>}
                                             [] r = <<0, "CHG", "VBAT_DET">> -> {<<"VOLTAGE", 2>>}
                                             [] r = <<2, "CHGR", "FCC_CFG">> -> {<<"CURRENT", 4>>}
                                             [] OTHER -> {En}]
             tbl == SpmiLookupChnlNumber
             none == [op |-> "none", sid |-> 0, unit |-> "", arg |-> 0]
             no == FALSE
  <2>1. px = [reg |-> given, chnl_tbl |-> tbl, wled_slave_id |-> 0, gwled |-> <<>>,
              unlocked |-> <<>>, failed |-> no, faults |-> Pm8x41Faults, calls |-> Pm8x41Calls,
              call |-> none, ret |-> 0]
    BY Zenon DEF Pm8x41Init
  <2>2. none.op = "none"
    OBVIOUS
  <2> HIDE DEF given, tbl, none, no
  <2>3. /\ IsPx(px) /\ px.reg = given /\ px.chnl_tbl = tbl /\ px.wled_slave_id = 0 /\ px.gwled = <<>>
        /\ px.call = none
    BY <2>1 DEF IsPx
  <2>4. ChargerIs(px)
    <3>1. /\ <<0, "CHG", "IBAT_ATC">> \in SetBefore /\ <<0, "CHG", "VBAT_DET">> \in SetBefore
          /\ <<2, "CHGR", "FCC_CFG">> \in SetBefore /\ <<0, "BAT_IF", "VCP">> \in SetBefore
          /\ <<0, "CHG", "TRKL_CHG_TEST">> \notin SetBefore
      BY DEF SetBefore
    <3>2. /\ given[<<0, "CHG", "IBAT_ATC">>] = {<<"CURRENT", 3>>}
          /\ given[<<0, "CHG", "VBAT_DET">>] = {<<"VOLTAGE", 2>>}
          /\ given[<<2, "CHGR", "FCC_CFG">>] = {<<"CURRENT", 4>>}
          /\ given[<<0, "BAT_IF", "VCP">>] = {En} /\ DOMAIN given = SetBefore
      BY <3>1 DEF given
    <3> QED
      BY <2>3, <3>1, <3>2 DEF ChargerIs, ValueOf
  <2>5. BiasIs(px)
    <3>1. \A sid \in {1, 3} : <<sid, "IBB", "MODULE_EN">> \notin SetBefore
      BY DEF SetBefore
    <3>2. DOMAIN given = SetBefore
      BY DEF given
    <3> QED
      BY <2>3, <3>1, <3>2 DEF BiasIs, ValueOf
  <2>6. IsBoard(px)
    BY <2>3 DEF IsBoard, tbl
  <2> QED
    BY <2>2, <2>3, <2>4, <2>5, <2>6 DEF BoardIsFine, IsFine
<1>2. BoardIsFine /\ [Pm8x41Next]_pm8x41Vars => BoardIsFine'
  <2> SUFFICES ASSUME BoardIsFine, [Pm8x41Next]_pm8x41Vars PROVE BoardIsFine'
    OBVIOUS
  <2>1. CASE CallPm8x41
    <3> DEFINE s == [px EXCEPT !.calls = @ - 1]
    <3>1. PICK c \in Pm8x41Ops :
            \E o \in Pm8x41Call(s, c) : px' = [o.s EXCEPT !.call = c, !.ret = o.ret, !.unlocked = <<>>]
      BY <2>1, Zenon DEF CallPm8x41
    <3>2. PICK o \in Pm8x41Call(s, c) :
            px' = [o.s EXCEPT !.call = c, !.ret = o.ret, !.unlocked = <<>>]
      BY <3>1, Zenon
    <3>3. /\ IsPx(s) /\ s.reg = px.reg /\ s.chnl_tbl = px.chnl_tbl
          /\ s.wled_slave_id = px.wled_slave_id /\ s.gwled = px.gwled /\ s.failed = px.failed
      <4> DEFINE n == px.calls - 1
      <4>1. s = [reg |-> px.reg, chnl_tbl |-> px.chnl_tbl, wled_slave_id |-> px.wled_slave_id,
                 gwled |-> px.gwled, unlocked |-> px.unlocked, failed |-> px.failed,
                 faults |-> px.faults, calls |-> n, call |-> px.call, ret |-> px.ret]
        <5>1. IsPx(px) /\ s = [px EXCEPT !.calls = n]
          BY DEF BoardIsFine
        <5> HIDE DEF n, s
        <5> QED
          BY <5>1 DEF IsPx
      <4> HIDE DEF s, n
      <4> QED
        BY <4>1 DEF IsPx
    <3> HIDE DEF s
    <3>4. IsBoard(s) /\ (~s.failed => IsFine(s))
      BY <3>3, FineIsSeen DEF BoardIsFine, IsBoard
    <3>5. LeavesFine(s, o) /\ (c.op = "pwm" /\ o.ret = 0 => c.arg \in PwmPeriods)
      BY <3>3, <3>4, CallsAreFine
    <3> DEFINE x == o.s
               locked == <<>>
    <3>6. px' = [reg |-> x.reg, chnl_tbl |-> x.chnl_tbl, wled_slave_id |-> x.wled_slave_id,
                 gwled |-> x.gwled, unlocked |-> locked, failed |-> x.failed,
                 faults |-> x.faults, calls |-> x.calls, call |-> c, ret |-> o.ret]
      <4>1. IsPx(x) /\ px' = [x EXCEPT !.call = c, !.ret = o.ret, !.unlocked = locked]
        BY <3>2, <3>5, Zenon DEF LeavesFine
      <4> HIDE DEF x, locked
      <4> QED
        BY <4>1 DEF IsPx
    <3> HIDE DEF x, locked
    <3>7. /\ px'.reg = x.reg /\ px'.gwled = x.gwled /\ px'.wled_slave_id = x.wled_slave_id
          /\ px'.chnl_tbl = x.chnl_tbl /\ px'.failed = x.failed /\ px'.call = c /\ px'.ret = o.ret
      BY <3>6
    <3>8. IsPx(px')
      BY <3>6 DEF IsPx
    <3>9. IsBoard(px') /\ (~px'.failed => IsFine(px'))
      <4>1. IsBoard(x) /\ (~x.failed => IsFine(x))
        BY <3>4, <3>5 DEF LeavesFine, x
      <4> QED
        BY <3>7, <4>1, FineIsSeen DEF IsBoard
    <3> QED
      BY <3>5, <3>7, <3>8, <3>9 DEF BoardIsFine
  <2>2. CASE UNCHANGED pm8x41Vars
    BY <2>2 DEF BoardIsFine, pm8x41Vars
  <2> QED
    BY <2>1, <2>2 DEF Pm8x41Next
<1> QED
  BY <1>1, <1>2, PTL DEF Pm8x41Spec

(* A battery test leaves no charging forced and the charger's limits as    *)
(* they were, whatever else is called between two of them (pm8x41.c): the  *)
(* secured register is unlocked a second time to end the test, and the     *)
(* limits are those that were read before.                                 *)
THEOREM ChargerIsRestored == Pm8x41Spec => []ChargerRestored
<1>1. BoardIsFine => ChargerRestored
  BY DEF BoardIsFine, IsFine, ChargerIs, ChargerRestored
<1> QED
  BY <1>1, BoardStaysFine, PTL

(* The display bias is never on before the voltages of both rails were set *)
(* within the limits of some configuration (qpnp_wled.c): it is switched   *)
(* only once an initialisation has succeeded, and from then on every write *)
(* goes to the slave whose rails that one has set.                         *)
THEOREM BiasStaysConfigured == Pm8x41Spec => []BiasIsConfigured
<1>1. BoardIsFine => BiasIsConfigured
  <2> SUFFICES ASSUME BoardIsFine, ~px.failed, NEW sid \in {1, 3},
                      En \in ValueOf(px, <<sid, "IBB", "MODULE_EN">>), NEW rail \in {"lab", "ibb"}
               PROVE  LET m == IF rail = "lab" THEN "LAB" ELSE "IBB"
                      IN  \E i \in DOMAIN LabibbConfigs :
                            /\ Settable(LabibbConfigs[i][rail])
                            /\ <<"VOLTAGE", LabibbConfigs[i][rail].min>>
                                 \in ValueOf(px, <<sid, m, "OUTPUT_VOLTAGE">>)
    BY DEF BiasIsConfigured
  <2>1. sid = 3 /\ RailIs(px, "lab", "LAB") /\ RailIs(px, "ibb", "IBB")
    BY DEF BoardIsFine, IsFine, BiasIs, RailsAre
  <2> QED
    BY <2>1 DEF RailIs
<1> QED
  BY <1>1, BoardStaysFine, PTL

(* The two period searches, one a rewrite of the other for SPMI chips, end *)
(* with a setting no other allowed setting comes closer than (pm_pwm.c,    *)
(* pm8921_pwm.c), for every table of clocks and divisors.                  *)
THEOREM PulsesGetTheBest == Pm8921Spec /\ Pm8x41Spec => []PwmSettingsAreBest
<1>1. ChipIsTrue /\ BoardIsFine => PwmSettingsAreBest
  BY NewerSearchFindsBest, OlderSearchFindsBest DEF ChipIsTrue, BoardIsFine, PwmSettingsAreBest
<1> QED
  BY <1>1, ChipStaysTrue, BoardStaysFine, PTL
=============================================================================
