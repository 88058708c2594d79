----------------------------- MODULE Interrupts -----------------------------
(***************************************************************************)
(* The interrupt library (Interrupts.c) and the timer driver (TimerDxe.c)  *)
(* on the interrupt controller.  A driver registers its handler in a list  *)
(* that every interrupt walks; the controller enables a source when it is  *)
(* registered.  Interrupts come between any two steps below TPL_HIGH_LEVEL *)
(* and never interrupt each other.                                         *)
(***************************************************************************)
EXTENDS Integers

CONSTANTS Vectors,   \* sources drivers register handlers for
          Timer,     \* the timer's source
          Periods    \* timer periods; zero stops it

MHandlers == "mHandlers"
Nodes  == Vectors \cup {MHandlers}
Absent == "NULL"

(* A source is neither the head of the list, nor a null link, nor the      *)
(* timer's, which the timer driver handles itself.                         *)
ASSUME InterruptsAssumption == {MHandlers, Absent, Timer} \cap Vectors = {}

VARIABLES
  fwd, back,    \* the links of the list mHandlers
  reg,          \* the registration under way: vector and step
  registered,   \* sources the controller has a handler for
  enabled,      \* sources the controller lets through
  pending,      \* sources that are asserted
  wanted,       \* history: sources their owner has unmasked
  called,       \* history: the handler the last interrupt ran, its vector
  timer         \* [hw: ticks the counter is loaded with, period, notify, told]
irqVars == <<fwd, back, reg, registered, enabled, pending, wanted, called, timer>>

NoReg == [vector |-> Absent, pc |-> "idle"]

InterruptsInit ==
  /\ fwd  = [n \in Nodes |-> IF n = MHandlers THEN MHandlers ELSE Absent]
  /\ back = [n \in Nodes |-> IF n = MHandlers THEN MHandlers ELSE Absent]
  /\ reg = NoReg /\ registered = {} /\ enabled = {} /\ pending = {}
  /\ wanted = {} /\ called = [source |-> Absent, vector |-> Absent]
  /\ timer = [hw |-> 0, period |-> 0, notify |-> FALSE, told |-> 0,
              pc |-> "idle", new |-> 0]

(* GetInterruptHandlerEntry: the nodes a walk from the head comes to, the  *)
(* fewest that hold the first one and the successor of each.               *)
ClosedWalk(S) == /\ fwd[MHandlers] \in S
                 /\ \A n \in S \ {MHandlers, Absent} : fwd[n] \in S
Walk == {v \in Nodes \cup {Absent} :
           \A S \in SUBSET (Nodes \cup {Absent}) : ClosedWalk(S) => v \in S}
HandlerEntry(v) == IF v \in Walk THEN v ELSE Absent

-----------------------------------------------------------------------------
(* register_int_handler                                                    *)
RegisterIntHandler(v) ==
  /\ reg.pc = "idle" /\ HandlerEntry(v) = Absent
  /\ reg' = [vector |-> v, pc |-> "entry.forward"]
  /\ UNCHANGED <<fwd, back, registered, enabled, pending, wanted, called, timer>>

InsertStep(pc, next) == /\ reg.pc = pc /\ reg' = [reg EXCEPT !.pc = next]
                        /\ UNCHANGED <<registered, enabled, pending, wanted,
                                       called, timer>>

(* InsertTailList, store by store.                                         *)
InsertEntryForward == /\ InsertStep("entry.forward", "entry.back")
                      /\ fwd' = [fwd EXCEPT ![reg.vector] = MHandlers]
                      /\ UNCHANGED back
InsertEntryBack == /\ InsertStep("entry.back", "last.forward")
                   /\ back' = [back EXCEPT ![reg.vector] = back[MHandlers]]
                   /\ UNCHANGED fwd
InsertLastForward == /\ InsertStep("last.forward", "head.back")
                     /\ fwd' = [fwd EXCEPT ![back[reg.vector]] = reg.vector]
                     /\ UNCHANGED back
InsertHeadBack == /\ InsertStep("head.back", "register")
                  /\ back' = [back EXCEPT ![MHandlers] = reg.vector]
                  /\ UNCHANGED fwd

(* At TPL_HIGH_LEVEL: the controller enables the source with its handler,  *)
(* and it is masked before the level drops.                                *)
RegisterSourceBug(v) == /\ registered' = registered \cup {v}
                        /\ enabled' = enabled \cup {v}

RegisterSource(v) == /\ registered' = registered \cup {v}
                     /\ enabled' = (enabled \cup {v}) \ {v}

Register ==
  /\ reg.pc = "register" /\ RegisterSource(reg.vector) /\ reg' = NoReg
  /\ UNCHANGED <<fwd, back, pending, wanted, called, timer>>

(* mask_interrupt and unmask_interrupt, by the owner of a source.          *)
MaskInterrupt(v) ==
  /\ v \in registered /\ enabled' = enabled \ {v} /\ wanted' = wanted \ {v}
  /\ UNCHANGED <<fwd, back, reg, registered, pending, called, timer>>
UnmaskInterrupt(v) ==
  /\ v \in registered /\ enabled' = enabled \cup {v} /\ wanted' = wanted \cup {v}
  /\ UNCHANGED <<fwd, back, reg, registered, pending, called, timer>>

-----------------------------------------------------------------------------
(* TimerDriverSetTimerPeriod: the counter stops; the new period and the    *)
(* counter are set at TPL_HIGH_LEVEL; the source follows.                  *)
SetTimerPeriod(p) ==
  /\ timer.pc = "idle"
  /\ timer' = [timer EXCEPT !.hw = 0, !.new = p, !.pc = "stopped"]
  /\ pending' = pending \ {Timer}
  /\ UNCHANGED <<fwd, back, reg, registered, enabled, wanted, called>>

ProgramTimer(p) == [timer EXCEPT !.hw = p, !.period = p, !.pc = "programmed"]

StartTimer ==
  /\ timer.pc = "stopped" /\ timer' = ProgramTimer(timer.new)
  /\ UNCHANGED <<fwd, back, reg, registered, enabled, pending, wanted, called>>

SetTimerSource ==
  /\ timer.pc = "programmed"
  /\ timer' = [timer EXCEPT !.pc = "idle"]
  /\ enabled' = IF timer.new # 0 THEN enabled \cup {Timer} ELSE enabled \ {Timer}
  /\ UNCHANGED <<fwd, back, reg, registered, pending, wanted, called>>

(* TimerDriverRegisterHandler: one notification at a time.                 *)
TimerRegisterHandler(on) ==
  /\ on # timer.notify /\ timer' = [timer EXCEPT !.notify = on]
  /\ UNCHANGED <<fwd, back, reg, registered, enabled, pending, wanted, called>>

(* ExitBootServicesEvent: the counter stops for good.                      *)
ExitBootServices ==
  /\ timer.pc = "idle" /\ timer' = [timer EXCEPT !.hw = 0]
  /\ pending' = pending \ {Timer}
  /\ UNCHANGED <<fwd, back, reg, registered, enabled, wanted, called>>

-----------------------------------------------------------------------------
(* A device asserts its source; the counter of the timer, when it has run  *)
(* down.                                                                   *)
HwAsserts ==
  /\ \E v \in (Vectors \cup IF timer.hw # 0 THEN {Timer} ELSE {}) \ pending :
       pending' = pending \cup {v}
  /\ UNCHANGED <<fwd, back, reg, registered, enabled, wanted, called, timer>>

(* InterruptsLibIrqHandler.                                                *)
IrqHandler ==
  /\ \E v \in Vectors \cap pending \cap enabled :
       /\ called' = [source |-> v, vector |-> HandlerEntry(v)]
       /\ pending' = pending \ {v}
  /\ UNCHANGED <<fwd, back, reg, registered, enabled, wanted, timer>>

(* TimerInterruptHandler: the period is told, the counter loaded again.    *)
TimerInterrupt ==
  /\ Timer \in pending \cap enabled
  /\ pending' = pending \ {Timer}
  /\ timer' = IF timer.notify THEN [timer EXCEPT !.told = timer.period - timer.hw]
              ELSE timer
  /\ UNCHANGED <<fwd, back, reg, registered, enabled, wanted, called>>

InterruptsNext ==
  \/ \E v \in Vectors : \/ RegisterIntHandler(v)
                        \/ MaskInterrupt(v) \/ UnmaskInterrupt(v)
  \/ InsertEntryForward \/ InsertEntryBack \/ InsertLastForward \/ InsertHeadBack
  \/ Register \/ StartTimer \/ SetTimerSource \/ ExitBootServices
  \/ \E p \in Periods : SetTimerPeriod(p)
  \/ \E on \in BOOLEAN : TimerRegisterHandler(on)
  \/ HwAsserts \/ IrqHandler \/ TimerInterrupt

InterruptsSpec == InterruptsInit /\ [][InterruptsNext]_irqVars

-----------------------------------------------------------------------------
(* ASSERT (Entry) of InterruptsLibIrqHandler, and its reason: an interrupt *)
(* that is let through finds its own handler, also while another driver is *)
(* half way through putting its entry into the list; and no source is let  *)
(* through before its owner has unmasked it.                               *)
InterruptsFindTheirHandler ==
  /\ called.source = called.vector
  /\ \A v \in enabled \cap Vectors : HandlerEntry(v) = v /\ v \in wanted
=============================================================================
