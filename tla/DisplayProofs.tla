--------------------------- MODULE DisplayProofs ---------------------------
(***************************************************************************)
(* The display, for any list of panels whose headers agree with themselves *)
(* and any number of failures.  Every routine is given the set of states   *)
(* it leaves when it succeeds and when it fails; the start and the stop    *)
(* follow from those of the calls they make, in their order.               *)
(***************************************************************************)
EXTENDS Display, WellFoundedInduction, SequenceTheorems, FiniteSetTheorems, TLAPS

-----------------------------------------------------------------------------
(* What the model knows of the hardware at any time, and what a panel's    *)
(* headers may say.                                                        *)
ClockNames == {"bus", "mdp", "esc0", "esc1"}
Both    == {0, 1}
Modes   == {"video", "cmd"}
Timings == [line : Int, frame : Int]
States ==
  [gdsc : BOOLEAN, clocks : [ClockNames -> Nat], pll : BOOLEAN,
   lcd : BOOLEAN, ibb : BOOLEAN, out : BOOLEAN, light : BOOLEAN,
   phy : SUBSET Both, host : [Both -> SUBSET Modes], told : BOOLEAN,
   tg : [Both -> Timings], link : [Both -> Timings],
   src : [base : {Nothing, "fb"}, ystride : Int, size : Int \X Int],
   smp : Seq(Seq({"left", "right"})), engine : BOOLEAN,
   panel : DOMAIN Panels \cup {Nothing}, fbcon : BOOLEAN, enabled : BOOLEAN, override : BOOLEAN,
   refused : BOOLEAN, wrong : SUBSET {"mdp", "dsi", "panel"}, gop : BOOLEAN, faults : Nat]
Headers ==
  {p \in [cmd : BOOLEAN, dual : BOOLEAN, split : BOOLEAN, dualPipe : BOOLEAN,
          dstSplit : BOOLEAN, broadcast : BOOLEAN, late : BOOLEAN, lcd : BOOLEAN,
          wled : BOOLEAN, rates : Nat, ratio : Nat, w : Nat, h : Nat \ {0},
          hfp : Nat, hbp : Nat, hpw : Nat, vfp : Nat, vbp : Nat, vpw : Nat] :
     /\ p.split <=> p.dual
     /\ p.dual /\ (p.late \/ ~p.cmd) => p.broadcast}

(* A routine's outcomes: those that return 0 leave a state that is Good,   *)
(* the others one that is Bad.                                             *)
Outcomes == [s : States, ret : Int]
Ends(O, Good, Bad) ==
  \A o \in O :
    /\ o \in Outcomes
    /\ o.ret = 0 => o.s \in Good
    /\ o.ret # 0 => o.s \in Bad

(* How far a start or a stop has come: nothing runs, the clocks run, only  *)
(* the domain and its own clocks do, or the PLL locked as well. What is    *)
(* Kept holds from the power being on until the MDP is set up; r asks that *)
(* the clocks were refused.                                                *)
AtRest(s) == \A k \in ClockNames : s.clocks[k] = 0
Running(s, p) ==
  /\ s.gdsc /\ s.pll
  /\ s.clocks["bus"] = 1 /\ s.clocks["mdp"] = 1 /\ s.clocks["esc0"] = 1
  /\ s.clocks["esc1"] = IF p.dual THEN 1 ELSE 0
Kept(s, id, p) ==
  /\ s.panel = id /\ s.out /\ s.wrong = {} /\ s.lcd = p.lcd /\ s.tg = Off.tg /\ s.link = Off.link
Idle(id, p, r) == {s \in States : Kept(s, id, p) /\ AtRest(s) /\ (r => s.refused)}
Up(id, p, r)   == {s \in States : Kept(s, id, p) /\ Running(s, p) /\ (r => s.refused)}
MdpUp(id, p, r) ==
  {s \in States : /\ Kept(s, id, p) /\ (r => s.refused) /\ s.gdsc
                  /\ s.clocks["bus"] = 1 /\ s.clocks["mdp"] = 1
                  /\ s.clocks["esc0"] = 0 /\ s.clocks["esc1"] = 0}
PllUp(id, p, r) == {s \in MdpUp(id, p, r) : s.pll}

(* Every set of naturals has a least one.                                  *)
LEMMA LeastNatural ==
  ASSUME NEW T, T \subseteq Nat, T # {}
  PROVE  \E x \in T : \A y \in T : x <= y
<1>1. IsWellFoundedOn(OpToRel(<, Nat), Nat)
  BY NatLessThanWellFounded
<1>2. PICK x \in T : \A y \in T : ~ (<<y, x>> \in OpToRel(<, Nat))
  BY <1>1, WFMin
<1>3. \A y \in T : ~(y < x)
  BY <1>2 DEF OpToRel
<1> QED
  BY <1>3

(* Hence induction, for a property given as the set of what has it.        *)
LEMMA UpToN ==
  ASSUME NEW N \in Nat, NEW T, 0 \in T,
         \A m \in 1..N : m - 1 \in T => m \in T
  PROVE  0..N \subseteq T
<1> DEFINE Bad == (0..N) \ T
<1>1. SUFFICES ASSUME Bad # {} PROVE FALSE
  OBVIOUS
<1>2. PICK m \in Bad : \A k \in Bad : m <= k
  <2>1. Bad \subseteq Nat
    OBVIOUS
  <2> HIDE DEF Bad
  <2> QED
    BY <1>1, <2>1, LeastNatural
<1>3. m \in 1..N /\ m - 1 \in 0..N /\ ~(m <= m - 1)
  BY <1>2
<1>4. m - 1 \in T
  BY <1>2, <1>3
<1> QED
  BY <1>2, <1>3, <1>4

(* The display begins in one of the states.                                *)
LEMMA OffIsAState == Off \in States
BY DisplayAssumption DEF Off, States, ClockNames, Both, Modes, Timings, Untimed, Unset, Nothing

(* Clocks are counted up and down, each by itself.                         *)
Core(s, t) ==
  /\ t.gdsc = s.gdsc /\ t.pll = s.pll /\ t.lcd = s.lcd /\ t.ibb = s.ibb /\ t.out = s.out
  /\ t.light = s.light /\ t.phy = s.phy /\ t.tg = s.tg /\ t.link = s.link /\ t.src = s.src
  /\ t.smp = s.smp /\ t.engine = s.engine /\ t.panel = s.panel /\ t.fbcon = s.fbcon
  /\ t.enabled = s.enabled /\ t.override = s.override /\ t.refused = s.refused
OnlyClocks(s, t) == Core(s, t) /\ t.host = s.host /\ t.told = s.told /\ t.wrong = s.wrong
CountedUp(s, C, t) ==
  /\ t \in States /\ OnlyClocks(s, t)
  /\ \A c \in ClockNames : t.clocks[c] = IF c \in C THEN s.clocks[c] + 1 ELSE s.clocks[c]
CountedDown(s, C, t) ==
  /\ t \in States /\ OnlyClocks(s, t)
  /\ \A c \in ClockNames :
       t.clocks[c] = IF c \in C /\ s.clocks[c] > 0 THEN s.clocks[c] - 1 ELSE s.clocks[c]

(* clk_get_set_enable and clk_disable count the clocks named, and no       *)
(* other.                                                                  *)
LEMMA ClocksAreCounted ==
  ASSUME NEW s \in States, NEW C
  PROVE  CountedUp(s, C, Enable(s, C)) /\ CountedDown(s, C, Disable(s, C))
<1>1. s.clocks \in [ClockNames -> Nat] /\ DOMAIN s.clocks = ClockNames
  BY DEF States
<1>2. CountedUp(s, C, Enable(s, C))
  <2> DEFINE f == [c \in ClockNames |-> IF c \in C THEN s.clocks[c] + 1 ELSE s.clocks[c]]
  <2>1. f \in [ClockNames -> Nat]
    BY <1>1
  <2>2. Enable(s, C) = [s EXCEPT !.clocks = f]
    BY <1>1 DEF Enable
  <2>3. \A c \in ClockNames : f[c] = IF c \in C THEN s.clocks[c] + 1 ELSE s.clocks[c]
    OBVIOUS
  <2> HIDE DEF f
  <2>4. [s EXCEPT !.clocks = f] \in States /\ [s EXCEPT !.clocks = f].clocks = f
    BY ZenonT(60), <2>1 DEF States
  <2>5. OnlyClocks(s, [s EXCEPT !.clocks = f])
    BY DEF OnlyClocks, Core, States
  <2> QED
    BY <2>2, <2>3, <2>4, <2>5 DEF CountedUp
<1>3. CountedDown(s, C, Disable(s, C))
  <2> DEFINE f == [c \in ClockNames |-> IF c \in C /\ s.clocks[c] > 0
                                        THEN s.clocks[c] - 1 ELSE s.clocks[c]]
  <2>1. f \in [ClockNames -> Nat]
    BY <1>1
  <2>2. Disable(s, C) = [s EXCEPT !.clocks = f]
    BY <1>1 DEF Disable
  <2>3. \A c \in ClockNames :
          f[c] = IF c \in C /\ s.clocks[c] > 0 THEN s.clocks[c] - 1 ELSE s.clocks[c]
    OBVIOUS
  <2> HIDE DEF f
  <2>4. [s EXCEPT !.clocks = f] \in States /\ [s EXCEPT !.clocks = f].clocks = f
    BY ZenonT(60), <2>1 DEF States
  <2>5. OnlyClocks(s, [s EXCEPT !.clocks = f])
    BY DEF OnlyClocks, Core, States
  <2> QED
    BY <2>2, <2>3, <2>4, <2>5 DEF CountedDown
<1> QED
  BY <1>2, <1>3

(* An operation that failed left everything but the count of failures.     *)
Same(s, t) == t \in States /\ OnlyClocks(s, t) /\ t.clocks = s.clocks
Failing(s, code) == IF s.faults > 0 THEN Return([s EXCEPT !.faults = @ - 1], code) ELSE {}

(* How the outcomes of a return, of a success, of either of two, and of an *)
(* operation that fails are judged.                                        *)
LEMMA ReturnEnds ==
  ASSUME NEW s \in States, NEW code \in Int, NEW Good, NEW Bad,
         code = 0 => s \in Good, code # 0 => s \in Bad
  PROVE  Ends(Return(s, code), Good, Bad)
BY DEF Ends, Outcomes, Return

LEMMA DoneEnds ==
  ASSUME NEW s \in States, NEW Good, NEW Bad, s \in Good
  PROVE  Ends(Done(s), Good, Bad)
BY DEF Ends, Outcomes, Return, Done

LEMMA BothEnd ==
  ASSUME NEW A, NEW B, NEW Good, NEW Bad, Ends(A, Good, Bad), Ends(B, Good, Bad)
  PROVE  Ends(A \cup B, Good, Bad)
BY DEF Ends

LEMMA FailingEnds ==
  ASSUME NEW s \in States, NEW code \in Int \ {0}, NEW Good, NEW Bad,
         \A t \in States : Same(s, t) => t \in Bad
  PROVE  Ends(Failing(s, code), Good, Bad)
<1> SUFFICES ASSUME s.faults > 0 PROVE Ends(Failing(s, code), Good, Bad)
  BY DEF Failing, Ends
<1> DEFINE t == [s EXCEPT !.faults = @ - 1]
<1>1. s.faults - 1 \in Nat
  BY DEF States
<1>2. t \in States
  BY ZenonT(60), <1>1 DEF States
<1>3. t.clocks = s.clocks /\ OnlyClocks(s, t)
  BY DEF States, OnlyClocks, Core
<1>4. Failing(s, code) = {[s |-> t, ret |-> code]}
  BY DEF Failing, Return
<1> HIDE DEF t
<1>5. t \in Bad
  BY <1>2, <1>3 DEF Same
<1> QED
  BY <1>2, <1>4, <1>5 DEF Ends, Outcomes

(* A failure that leaves everything as it was leaves it as far as it had   *)
(* come.                                                                   *)
LEMMA SameIsEnough ==
  ASSUME NEW id, NEW p, NEW r \in BOOLEAN, NEW s, NEW t \in States, Same(s, t)
  PROVE  /\ s \in Idle(id, p, r) => t \in Idle(id, p, r)
         /\ s \in Up(id, p, r) => t \in Up(id, p, r)
         /\ s \in MdpUp(id, p, r) => t \in MdpUp(id, p, r)
         /\ s \in PllUp(id, p, r) => t \in PllUp(id, p, r)
BY DEF Same, OnlyClocks, Core, Idle, Up, MdpUp, PllUp, Kept, AtRest, Running

(* The domain with its own clocks goes on and off.                         *)
LEMMA MdpComesOn ==
  ASSUME NEW id, NEW p, NEW r \in BOOLEAN, NEW s \in Idle(id, p, r)
  PROVE  Enable(Enable(MdpGdscCtrl(s, TRUE), {"bus"}), {"mdp"}) \in MdpUp(id, p, r)
<1> DEFINE a == MdpGdscCtrl(s, TRUE)
           b == Enable(a, {"bus"})
           t == Enable(b, {"mdp"})
<1>1. s \in States /\ Kept(s, id, p) /\ AtRest(s) /\ (r => s.refused)
  BY DEF Idle
<1>2. a \in States /\ Kept(a, id, p) /\ AtRest(a) /\ (r => a.refused) /\ a.gdsc
  BY ZenonT(60), <1>1 DEF MdpGdscCtrl, States, Kept, AtRest
<1> HIDE DEF a
<1>3. CountedUp(a, {"bus"}, b)
  BY <1>2, ClocksAreCounted
<1> HIDE DEF b
<1>4. CountedUp(b, {"mdp"}, t)
  BY <1>3, ClocksAreCounted DEF CountedUp
<1> HIDE DEF t
<1>5. /\ b.clocks["bus"] = 1 /\ b.clocks["mdp"] = 0
      /\ b.clocks["esc0"] = 0 /\ b.clocks["esc1"] = 0
  BY <1>2, <1>3 DEF CountedUp, AtRest, ClockNames
<1>6. /\ t.clocks["bus"] = 1 /\ t.clocks["mdp"] = 1
      /\ t.clocks["esc0"] = 0 /\ t.clocks["esc1"] = 0
  BY <1>4, <1>5 DEF CountedUp, ClockNames
<1>7. t \in States /\ Kept(t, id, p) /\ (r => t.refused) /\ t.gdsc
  BY <1>2, <1>3, <1>4 DEF CountedUp, OnlyClocks, Core, Kept
<1> QED
  BY <1>6, <1>7 DEF MdpUp, a, b, t

(* What is left when the domain collapses.                                 *)
Lost(s, t) ==
  /\ t \in States /\ AtRest(t) /\ ~t.gdsc /\ t.tg = Off.tg /\ t.link = Off.link
  /\ t.panel = s.panel /\ t.out = s.out /\ t.light = s.light /\ t.lcd = s.lcd
  /\ t.wrong = s.wrong /\ t.refused = s.refused /\ t.enabled = s.enabled
  /\ t.override = s.override

(* Without clocks, the domain can go.                                      *)
LEMMA CollapseLoses ==
  ASSUME NEW s \in States, AtRest(s)
  PROVE  Lost(s, Collapsed(s))
<1>1. /\ Off.tg \in [Both -> Timings] /\ Off.link \in [Both -> Timings]
      /\ Unset \in [base : {Nothing, "fb"}, ystride : Int, size : Int \X Int]
      /\ <<>> \in Seq(Seq({"left", "right"})) /\ [c \in {0, 1} |-> {}] \in [Both -> SUBSET Modes]
  BY DEF Off, Untimed, Unset, Both, Modes, Timings, Nothing
<1> DEFINE host == [c \in {0, 1} |-> {}]
           tg == Off.tg
           link == Off.link
           none == <<>>
           u == [s EXCEPT !.gdsc = FALSE, !.pll = FALSE, !.phy = {}, !.host = host, !.engine = FALSE]
           t == [u EXCEPT !.tg = tg, !.link = link, !.src = Unset, !.smp = none]
<1>2. Collapsed(s) = t
  BY DEF Collapsed
<1>3. /\ host \in [Both -> SUBSET Modes] /\ tg \in [Both -> Timings] /\ link \in [Both -> Timings]
      /\ none \in Seq(Seq({"left", "right"}))
  BY <1>1
<1> HIDE DEF host, tg, link, none
<1>4. u \in States /\ ~u.gdsc
  BY ZenonT(60), <1>3 DEF States
<1>5. /\ u.clocks = s.clocks /\ u.panel = s.panel /\ u.out = s.out /\ u.light = s.light
      /\ u.lcd = s.lcd /\ u.wrong = s.wrong /\ u.refused = s.refused /\ u.enabled = s.enabled
      /\ u.override = s.override
  BY DEF States
<1> HIDE DEF u
<1>6. t \in States
  BY ZenonT(60), <1>1, <1>3, <1>4 DEF States
<1>7. /\ t.clocks = u.clocks /\ t.panel = u.panel /\ t.out = u.out /\ t.light = u.light
      /\ t.lcd = u.lcd /\ t.wrong = u.wrong /\ t.refused = u.refused /\ t.enabled = u.enabled
      /\ t.override = u.override /\ t.gdsc = u.gdsc /\ t.tg = tg /\ t.link = link
  BY <1>4 DEF States
<1> HIDE DEF t
<1>8. AtRest(t) /\ t.tg = Off.tg /\ t.link = Off.link
  BY <1>5, <1>7 DEF AtRest, tg, link
<1> QED
  BY <1>2, <1>4, <1>5, <1>6, <1>7, <1>8 DEF Lost

(* Nothing keeps what the collapse of the domain takes.                    *)
LEMMA MdpGoesOff ==
  ASSUME NEW id, NEW p, NEW r \in BOOLEAN, NEW s \in MdpUp(id, p, r)
  PROVE  ClksDisable(s) \in Idle(id, p, r)
<1> DEFINE a == Disable(s, {"mdp"})
           b == Disable(a, {"bus"})
<1>1. s \in States
  BY DEF MdpUp
<1>2. CountedDown(s, {"mdp"}, a)
  BY <1>1, ClocksAreCounted
<1> HIDE DEF a
<1>3. CountedDown(a, {"bus"}, b)
  BY <1>2, ClocksAreCounted DEF CountedDown
<1> HIDE DEF b
<1>6. /\ a.clocks["bus"] = 1 /\ a.clocks["mdp"] = 0
      /\ a.clocks["esc0"] = 0 /\ a.clocks["esc1"] = 0
  BY <1>2 DEF MdpUp, CountedDown, ClockNames
<1>7. AtRest(b)
  BY <1>3, <1>6 DEF CountedDown, ClockNames, AtRest
<1>4. b \in States /\ Kept(b, id, p) /\ AtRest(b) /\ (r => b.refused)
  BY <1>2, <1>3, <1>7 DEF MdpUp, CountedDown, OnlyClocks, Core, Kept
<1> HIDE DEF b
<1>5. Collapsed(b) \in States
  BY <1>4, CollapseLoses DEF Lost
<1>8. Kept(Collapsed(b), id, p) /\ AtRest(Collapsed(b)) /\ (r => Collapsed(b).refused)
  BY <1>4, CollapseLoses DEF Lost, Kept, AtRest
<1> QED
  BY <1>5, <1>8 DEF ClksDisable, MdpGdscCtrl, a, b, Idle

(* TargetPanelClock: on, with what it takes back if it fails, and off.     *)
LEMMA PanelClockComesOn ==
  ASSUME NEW id, NEW p \in Headers, NEW r \in BOOLEAN, NEW s \in Idle(id, p, r)
  PROVE  Ends(TargetPanelClock(s, p, TRUE), Up(id, p, r), Idle(id, p, TRUE))
<1> DEFINE on == Enable(Enable(MdpGdscCtrl(s, TRUE), {"bus"}), {"mdp"})
           Refuse(o) == IF o.ret = 0 THEN {o}
                        ELSE Return([ClksDisable(o.s) EXCEPT !.refused = TRUE], o.ret)
           Locked(t) == Fallible(PllConfig(t, p), -1, LAMBDA u : Done([u EXCEPT !.pll = TRUE]))
           Esced(t) == Done(Enable(t, {Esc(c) : c \in Controllers(p)}))
           first == Fallible(on, -1, Done)
           second == Then(first, Locked)
           third == UNION {Refuse(o) : o \in second}
<1>1. on \in MdpUp(id, p, r)
  BY MdpComesOn
<1> HIDE DEF on
<1>2. Ends(first, MdpUp(id, p, r), MdpUp(id, p, r))
  <2>1. Ends(Failing(on, -1), MdpUp(id, p, r), MdpUp(id, p, r))
    <3>1. on \in States /\ \A t \in States : Same(on, t) => t \in MdpUp(id, p, r)
      BY <1>1, SameIsEnough DEF MdpUp
    <3> QED
      BY <3>1, FailingEnds
  <2>2. Ends(Done(on), MdpUp(id, p, r), MdpUp(id, p, r))
    BY <1>1, DoneEnds DEF MdpUp
  <2> QED
    BY <2>1, <2>2, BothEnd DEF Fallible, Failing
<1>3. ASSUME NEW t \in MdpUp(id, p, r)
      PROVE  Ends(Locked(t), PllUp(id, p, r), MdpUp(id, p, r))
  <2>1. PllConfig(t, p) = t
    BY DEF PllConfig, Needs, MdpOn, MdpUp
  <2>2. [t EXCEPT !.pll = TRUE] \in PllUp(id, p, r)
    <3> DEFINE u == [t EXCEPT !.pll = TRUE]
    <3>1. u \in States /\ u.pll
      BY ZenonT(60) DEF MdpUp, States
    <3>2. u.gdsc = t.gdsc /\ u.clocks = t.clocks /\ u.refused = t.refused
      BY DEF MdpUp, States
    <3>3. Kept(u, id, p)
      BY DEF MdpUp, States, Kept
    <3> QED
      BY <3>1, <3>2, <3>3 DEF PllUp, MdpUp
  <2>3. Ends(Failing(t, -1), PllUp(id, p, r), MdpUp(id, p, r))
    <3>1. t \in States /\ \A u \in States : Same(t, u) => u \in MdpUp(id, p, r)
      BY SameIsEnough DEF MdpUp
    <3> QED
      BY <3>1, FailingEnds
  <2> DEFINE v == [t EXCEPT !.pll = TRUE]
  <2>4. Ends(Done(v), PllUp(id, p, r), MdpUp(id, p, r))
    BY <2>2, DoneEnds DEF MdpUp, PllUp
  <2>5. Locked(t) = Done(v) \cup Failing(t, -1)
    BY <2>1 DEF Fallible, Failing
  <2> HIDE DEF v, Locked
  <2> QED
    BY <2>3, <2>4, <2>5, BothEnd
<1> HIDE DEF first, Locked
<1>4. Ends(second, PllUp(id, p, r), MdpUp(id, p, r))
  BY <1>2, <1>3 DEF Then, Ends
<1> HIDE DEF second
<1>5. Ends(third, PllUp(id, p, r), Idle(id, p, TRUE))
  <2>1. ASSUME NEW o \in second, o.ret # 0
        PROVE  Ends(Refuse(o), PllUp(id, p, r), Idle(id, p, TRUE))
    <3>1. o.s \in MdpUp(id, p, r) /\ o.ret \in Int
      BY <1>4, <2>1 DEF Ends, Outcomes
    <3>2. ClksDisable(o.s) \in Idle(id, p, r)
      BY <3>1, MdpGoesOff
    <3> DEFINE u == ClksDisable(o.s)
    <3>4. u \in Idle(id, p, r)
      BY <3>2
    <3> HIDE DEF u
    <3> DEFINE v == [u EXCEPT !.refused = TRUE]
    <3>8. u \in States /\ Kept(u, id, p) /\ AtRest(u)
      BY <3>4 DEF Idle
    <3>3. v \in States /\ v.refused
      BY ZenonT(60), <3>8 DEF States
    <3>5. Kept(v, id, p) /\ AtRest(v)
      BY <3>8 DEF States, Kept, AtRest
    <3>6. Refuse(o) = Return(v, o.ret)
      BY <2>1 DEF u
    <3> HIDE DEF v, Refuse
    <3>7. v \in Idle(id, p, TRUE)
      BY <3>3, <3>5 DEF Idle
    <3> QED
      BY <2>1, <3>1, <3>3, <3>6, <3>7, ReturnEnds
  <2>2. ASSUME NEW o \in second, o.ret = 0
        PROVE  Ends(Refuse(o), PllUp(id, p, r), Idle(id, p, TRUE))
    BY <1>4, <2>2 DEF Ends
  <2> HIDE DEF Refuse
  <2> QED
    BY <2>1, <2>2 DEF Ends
<1> HIDE DEF third
<1>6. ASSUME NEW t \in PllUp(id, p, r)
      PROVE  Ends(Esced(t), Up(id, p, r), Idle(id, p, TRUE))
  <2> DEFINE C == {Esc(c) : c \in Controllers(p)}
             u == Enable(t, C)
  <2>1. t \in States
    BY DEF PllUp, MdpUp
  <2>2. CountedUp(t, C, u)
    BY <2>1, ClocksAreCounted
  <2>3. "bus" \notin C /\ "mdp" \notin C /\ "esc0" \in C /\ ("esc1" \in C <=> p.dual)
    BY DEF Esc, Controllers, Headers
  <2> HIDE DEF u, C
  <2>4. Running(u, p)
    BY <2>2, <2>3 DEF Running, CountedUp, OnlyClocks, Core, ClockNames, PllUp, MdpUp
  <2>5. u \in Up(id, p, r)
    BY <2>2, <2>4 DEF Up, CountedUp, OnlyClocks, Core, Kept, PllUp, MdpUp
  <2>6. Esced(t) = Done(u) /\ u \in States
    BY <2>5 DEF u, C, Up
  <2> HIDE DEF Esced
  <2> QED
    BY <2>5, <2>6, DoneEnds
<1> HIDE DEF Esced
<1>7. Ends(Then(third, Esced), Up(id, p, r), Idle(id, p, TRUE))
  BY <1>5, <1>6 DEF Then, Ends
<1> QED
  BY <1>7 DEF TargetPanelClock, third, second, first, Refuse, Locked, Esced, on

(* target_panel_clock, off: from any count of at most one.                 *)
LEMMA ClocksGoOff ==
  ASSUME NEW s \in States, NEW p \in Headers,
         s.clocks["bus"] <= 1, s.clocks["mdp"] <= 1, s.clocks["esc0"] <= 1,
         s.clocks["esc1"] <= IF p.dual THEN 1 ELSE 0
  PROVE  \E t \in States : TargetPanelClock(s, p, FALSE) = Done(t) /\ Lost(s, t)
<1> DEFINE C == {Esc(c) : c \in Controllers(p)}
           e == Disable(s, C)
           a == Disable(e, {"mdp"})
           b == Disable(a, {"bus"})
           t == Collapsed(b)
<1>1. "bus" \notin C /\ "mdp" \notin C /\ "esc0" \in C /\ ("esc1" \in C <=> p.dual)
  BY DEF Esc, Controllers, Headers
<1>2. TargetPanelClock(s, p, FALSE) = Done(t)
  BY DEF TargetPanelClock, ClksDisable, MdpGdscCtrl
<1> HIDE DEF C
<1>3. CountedDown(s, C, e)
  BY ClocksAreCounted
<1> HIDE DEF e
<1>4. CountedDown(e, {"mdp"}, a)
  BY <1>3, ClocksAreCounted DEF CountedDown
<1> HIDE DEF a
<1>5. CountedDown(a, {"bus"}, b)
  BY <1>4, ClocksAreCounted DEF CountedDown
<1> HIDE DEF b
<1>6. s.clocks \in [ClockNames -> Nat]
  BY DEF States
<1>7. AtRest(b)
  <2>1. /\ e.clocks["esc0"] = 0 /\ e.clocks["esc1"] = 0
        /\ e.clocks["bus"] = s.clocks["bus"] /\ e.clocks["mdp"] = s.clocks["mdp"]
    BY <1>1, <1>3, <1>6 DEF CountedDown, ClockNames, Headers
  <2>2. /\ a.clocks["esc0"] = 0 /\ a.clocks["esc1"] = 0
        /\ a.clocks["bus"] = s.clocks["bus"] /\ a.clocks["mdp"] = 0
    BY <1>4, <1>6, <2>1 DEF CountedDown, ClockNames
  <2> QED
    BY <1>5, <1>6, <2>2 DEF CountedDown, ClockNames, AtRest
<1>8. b \in States /\ OnlyClocks(s, b)
  BY <1>3, <1>4, <1>5 DEF CountedDown, OnlyClocks, Core
<1>11. Lost(b, t)
  BY <1>7, <1>8, CollapseLoses
<1> HIDE DEF t
<1>12. Lost(s, t)
  BY <1>8, <1>11 DEF Lost, OnlyClocks, Core
<1> QED
  BY <1>2, <1>12 DEF Lost

(* The same after a start of the clocks that succeeded.                    *)
LEMMA PanelClockGoesOff ==
  ASSUME NEW id, NEW p \in Headers, NEW r \in BOOLEAN, NEW s \in Up(id, p, r), NEW Bad
  PROVE  Ends(TargetPanelClock(s, p, FALSE), Idle(id, p, r), Bad)
<1>1. s \in States /\ Running(s, p) /\ Kept(s, id, p) /\ (r => s.refused)
  BY DEF Up
<1>4. /\ s.clocks["bus"] <= 1 /\ s.clocks["mdp"] <= 1 /\ s.clocks["esc0"] <= 1
      /\ s.clocks["esc1"] <= IF p.dual THEN 1 ELSE 0
  BY <1>1 DEF Running
<1>2. PICK t \in States : TargetPanelClock(s, p, FALSE) = Done(t) /\ Lost(s, t)
  BY <1>1, <1>4, ClocksGoOff
<1>3. t \in Idle(id, p, r)
  BY <1>1, <1>2 DEF Lost, Idle, Kept
<1> QED
  BY <1>2, <1>3, DoneEnds

(* Every rate's codes are taken, or the clocks were refused.               *)
LEMMA EveryRateIsTried ==
  ASSUME NEW id, NEW p \in Headers, NEW s \in Idle(id, p, FALSE)
  PROVE  Ends(DfpsConfig(s, p), Idle(id, p, FALSE), Idle(id, p, TRUE))
<1> DEFINE One(o) == Then(TargetPanelClock(o.s, p, TRUE), LAMBDA t : TargetPanelClock(t, p, FALSE))
           Again(o) == {[s |-> q.s, ret |-> IF q.ret = 0 THEN o.ret ELSE q.ret] : q \in One(o)}
           Turn(O)  == UNION {Again(o) : o \in O}
           N        == p.rates
           Is(h, n) == h = [i \in 0..n |-> IF i = 0 THEN Done(s) ELSE Turn(h[i - 1])]
           Well(O)  == Ends(O, Idle(id, p, FALSE), Idle(id, p, TRUE))
<1>1. N \in Nat
  BY DEF Headers
<1>2. ASSUME NEW o \in Outcomes, NEW r \in BOOLEAN, o.s \in Idle(id, p, r)
      PROVE  Ends(One(o), Idle(id, p, r), Idle(id, p, TRUE))
  <2> DEFINE Back(t) == TargetPanelClock(t, p, FALSE)
             first   == TargetPanelClock(o.s, p, TRUE)
  <2>1. Ends(first, Up(id, p, r), Idle(id, p, TRUE))
    BY <1>2, PanelClockComesOn
  <2>2. ASSUME NEW t \in Up(id, p, r) PROVE Ends(Back(t), Idle(id, p, r), Idle(id, p, TRUE))
    BY PanelClockGoesOff
  <2>3. One(o) = Then(first, Back)
    OBVIOUS
  <2> HIDE DEF Back, first, One
  <2> QED
    BY <2>1, <2>2, <2>3 DEF Then, Ends
<1> HIDE DEF One
<1>3. ASSUME NEW O, Well(O) PROVE Well(Turn(O))
  <2> SUFFICES ASSUME NEW x \in Turn(O) PROVE Well({x})
    BY DEF Ends
  <2>6. PICK o \in O : x \in Again(o)
    OBVIOUS
  <2>7. PICK q \in One(o) : x = [s |-> q.s, ret |-> IF q.ret = 0 THEN o.ret ELSE q.ret]
    BY <2>6
  <2>1. o \in Outcomes /\ o.ret \in Int /\ o.s \in Idle(id, p, o.ret # 0)
    BY <1>3 DEF Ends, Outcomes, Idle
  <2>2. Ends(One(o), Idle(id, p, o.ret # 0), Idle(id, p, TRUE))
    BY <1>2, <2>1
  <2>3. q \in Outcomes /\ q.s \in States /\ q.ret \in Int
    BY <2>2 DEF Ends, Outcomes
  <2>4. CASE q.ret = 0
    <3>1. q.s \in Idle(id, p, o.ret # 0)
      BY <2>2, <2>4 DEF Ends
    <3>2. o.ret = 0 => q.s \in Idle(id, p, FALSE)
      BY <3>1 DEF Idle
    <3>3. o.ret # 0 => q.s \in Idle(id, p, TRUE)
      BY <3>1 DEF Idle
    <3>4. Ends(Return(q.s, o.ret), Idle(id, p, FALSE), Idle(id, p, TRUE))
      BY <2>1, <2>3, <3>2, <3>3, ReturnEnds
    <3> QED
      BY <2>4, <2>7, <3>4 DEF Return
  <2>5. CASE q.ret # 0
    <3>1. q.s \in Idle(id, p, TRUE)
      BY <2>2, <2>5 DEF Ends
    <3>2. Ends(Return(q.s, q.ret), Idle(id, p, FALSE), Idle(id, p, TRUE))
      BY <2>3, <2>5, <3>1, ReturnEnds
    <3> QED
      BY <2>5, <2>7, <3>2 DEF Return
  <2> QED
    BY <2>4, <2>5
<1>4. Well(Done(s))
  BY DoneEnds DEF Idle
<1> HIDE DEF Turn
<1> DEFINE Reached == {n \in 0..N : \E h : Is(h, n)}
<1>5. 0 \in Reached
  <2> DEFINE g == [i \in 0..0 |-> Done(s)]
  <2>1. Is(g, 0)
    OBVIOUS
  <2> HIDE DEF Is, g
  <2> QED
    BY <2>1, <1>1
<1>6. ASSUME NEW n \in 1..N, n - 1 \in Reached PROVE n \in Reached
  <2>1. PICK h : Is(h, n - 1)
    BY <1>6
  <2> DEFINE g == [i \in 0..n |-> IF i = n THEN Turn(h[n - 1]) ELSE h[i]]
  <2>2. ASSUME NEW i \in 0..n PROVE g[i] = IF i = 0 THEN Done(s) ELSE Turn(g[i - 1])
    <3>1. CASE i = n
      BY <3>1
    <3>2. CASE i # n
      <4>1. i \in 0..(n - 1) /\ g[i] = h[i]
        BY <3>2
      <4>2. h[i] = IF i = 0 THEN Done(s) ELSE Turn(h[i - 1])
        BY <4>1, <2>1
      <4>3. i # 0 => i - 1 \in 0..n /\ i - 1 # n
        BY <3>2
      <4> QED
        BY <4>1, <4>2, <4>3
    <3> QED
      BY <3>1, <3>2
  <2>3. Is(g, n)
    BY <2>2
  <2>4. n \in 0..N
    BY <1>1
  <2> HIDE DEF Is, g
  <2> QED
    BY <2>3, <2>4
<1>7. PICK taken : Is(taken, N) /\ DfpsConfig(s, p) = taken[N]
  <2> DEFINE g == CHOOSE h : Is(h, N)
  <2>1. 0..N \subseteq Reached
    <3> HIDE DEF Reached
    <3> QED
      BY <1>1, <1>5, <1>6, UpToN
  <2>2. \E h : Is(h, N)
    <3>1. N \in Reached
      <4> HIDE DEF Reached
      <4> QED
        BY <1>1, <2>1
    <3> HIDE DEF Is
    <3> QED
      BY <3>1
  <2>3. Is(g, N)
    <3> HIDE DEF Is
    <3> QED
      BY <2>2
  <2>4. DfpsConfig(s, p) = g[N]
    BY DEF DfpsConfig, Turn, One
  <2> HIDE DEF g, Is
  <2> QED
    BY <2>3, <2>4
<1>8. Well(taken[0]) /\ \A i \in 1..N : Well(taken[i - 1]) => Well(taken[i])
  <2>1. \A i \in 0..N : taken[i] = IF i = 0 THEN Done(s) ELSE Turn(taken[i - 1])
    BY ONLY <1>7
  <2> HIDE DEF Is, Well
  <2> QED
    BY <1>1, <1>3, <1>4, <2>1
<1>9. 0..N \subseteq {i \in 0..N : Well(taken[i])}
  <2> DEFINE T == {i \in 0..N : Well(taken[i])}
  <2> HIDE DEF Well
  <2>1. 0 \in T /\ \A i \in 1..N : i - 1 \in T => i \in T
    BY <1>1, <1>8
  <2> HIDE DEF T
  <2> QED
    BY <1>1, <2>1, UpToN DEF T
<1> HIDE DEF Is, Well
<1>10. Well(DfpsConfig(s, p))
  BY <1>1, <1>7, <1>9
<1> QED
  BY <1>10 DEF Well

(* A register that is touched is noted if its power or its clocks are off. *)
Noted(s, ready, t) ==
  /\ t \in States /\ Core(s, t) /\ t.clocks = s.clocks /\ t.host = s.host /\ t.told = s.told
  /\ ready => t.wrong = s.wrong

(* What is touched when it is ready leaves no note.                        *)
LEMMA NeedsAreNoted ==
  ASSUME NEW s \in States, NEW what \in {"mdp", "dsi", "panel"}, NEW ready
  PROVE  Noted(s, ready, Needs(s, what, ready))
<1>1. CASE ready
  BY <1>1 DEF Noted, Needs, Core
<1>2. CASE ~ready
  <2> DEFINE t == [s EXCEPT !.wrong = @ \cup {what}]
  <2>1. s.wrong \cup {what} \in SUBSET {"mdp", "dsi", "panel"}
    BY DEF States
  <2>2. t \in States
    BY ZenonT(60), <2>1 DEF States
  <2>3. Core(s, t) /\ t.clocks = s.clocks /\ t.host = s.host /\ t.told = s.told
    BY DEF States, Core
  <2>4. Needs(s, what, ready) = t
    BY <1>2 DEF Needs
  <2> HIDE DEF t
  <2> QED
    BY <1>2, <2>2, <2>3, <2>4 DEF Noted
<1> QED
  BY <1>1, <1>2

(* While the clocks run the MDP and every link's controller answer.        *)
LEMMA RunningIsOn ==
  ASSUME NEW s \in States, NEW p \in Headers, Running(s, p)
  PROVE  MdpOn(s) /\ \A c \in Controllers(p) : DsiOn(s, c)
<1>1. MdpOn(s)
  BY DEF Running, MdpOn
<1>2. DsiOn(s, 0)
  BY <1>1 DEF Running, DsiOn, Esc
<1>3. p.dual => DsiOn(s, 1)
  BY <1>1 DEF Running, DsiOn, Esc
<1> QED
  BY <1>1, <1>2, <1>3 DEF Controllers

(* The commands to the panel, whatever becomes of each.                    *)
After(s, p) == {t \in States : Noted(s, Hears(s, p), t)}

(* A failure is one more thing that may come of a command.                 *)
LEMMA SameIsAfter ==
  ASSUME NEW s \in States, NEW p, NEW t \in After(s, p), NEW u, Same(t, u)
  PROVE  u \in After(s, p)
BY DEF After, Noted, Same, OnlyClocks, Core

(* A command does not change whether the panel hears the next.             *)
LEMMA HearsAlike ==
  ASSUME NEW s \in States, NEW p, NEW t \in After(s, p)
  PROVE  Hears(t, p) <=> Hears(s, p)
<1>1. /\ t.out = s.out /\ t.gdsc = s.gdsc /\ t.clocks = s.clocks /\ t.pll = s.pll
      /\ t.phy = s.phy /\ t.host = s.host
  BY DEF After, Noted, Core
<1> QED
  BY <1>1 DEF Hears, DsiOn, MdpOn

(* Waiting for the running picture, sending once, sending two commands.    *)
LEMMA WaitEnds ==
  ASSUME NEW s \in States, NEW p, NEW t \in After(s, p)
  PROVE  Ends(WaitVideoDone(t), After(s, p), After(s, p))
<1>1. t \in States
  BY DEF After
<1>2. Ends(Done(t), After(s, p), After(s, p))
  BY <1>1, DoneEnds
<1>3. Ends(Return(t, -1), After(s, p), After(s, p))
  BY <1>1, ReturnEnds
<1>4. Ends(Failing(t, -1), After(s, p), After(s, p))
  <2>1. \A u \in States : Same(t, u) => u \in After(s, p)
    BY SameIsAfter
  <2> QED
    BY <1>1, <2>1, FailingEnds
<1>5. Ends(Fallible(t, -1, Done), After(s, p), After(s, p))
  BY <1>2, <1>4, BothEnd DEF Fallible, Failing
<1> QED
  BY <1>2, <1>3, <1>5 DEF WaitVideoDone

LEMMA TriggerEnds ==
  ASSUME NEW s \in States, NEW p, NEW t \in After(s, p)
  PROVE  Ends(DmaTrigger(t, p), After(s, p), After(s, p))
<1> DEFINE u == Needs(t, "panel", Hears(t, p))
<1>1. t \in States
  BY DEF After
<1>2. Noted(t, Hears(t, p), u)
  BY <1>1, NeedsAreNoted
<1> HIDE DEF u
<1>3. u \in After(s, p) /\ u \in States
  BY <1>1, <1>2, HearsAlike DEF After, Noted, Core
<1>4. Ends(Done(u), After(s, p), After(s, p))
  BY <1>3, DoneEnds
<1>5. Ends(Failing(u, -1), After(s, p), After(s, p))
  <2>1. \A v \in States : Same(u, v) => v \in After(s, p)
    BY <1>3, SameIsAfter
  <2> QED
    BY <1>3, <2>1, FailingEnds
<1>6. Ends(Fallible(u, -1, Done), After(s, p), After(s, p))
  BY <1>4, <1>5, BothEnd DEF Fallible, Failing
<1> QED
  BY <1>6 DEF DmaTrigger, u

LEMMA CommandsEnd ==
  ASSUME NEW s \in States, NEW p
  PROVE  Ends(CmdsTx(s, p), After(s, p), After(s, p))
<1> DEFINE A == After(s, p)
           Last(v)  == DmaTrigger(v, p)
           Half(u)  == Then(WaitVideoDone(u), Last)
           Whole(t) == Ignoring(DmaTrigger(t, p), Half)
<1>1. s \in A
  BY DEF After, Noted, Core
<1>2. \A t \in A : Ends(WaitVideoDone(t), A, A)
  BY WaitEnds
<1>3. \A t \in A : Ends(Last(t), A, A)
  BY TriggerEnds
<1> HIDE DEF A, Last
<1>4. \A t \in A : Ends(Half(t), A, A)
  BY <1>2, <1>3 DEF Then, Ends
<1> HIDE DEF Half
<1>5. \A t \in A : Ends(Whole(t), A, A)
  BY <1>3, <1>4 DEF Ignoring, Ends, Last
<1> HIDE DEF Whole
<1>6. Ends(Then(WaitVideoDone(s), Whole), A, A)
  BY <1>1, <1>2, <1>5 DEF Then, Ends
<1> QED
  BY <1>6 DEF CmdsTx, Whole, Half, Last, A

(* The controllers' modes.                                                 *)
HostSet(s, C, modes, t) ==
  /\ t \in States /\ Core(s, t) /\ t.clocks = s.clocks /\ t.told = s.told
  /\ (\A c \in C : DsiOn(s, c)) => t.wrong = s.wrong
  /\ \A c \in Both : t.host[c] = IF c \in C THEN modes ELSE s.host[c]

(* mdss_dsi_host_init and its relatives set the modes of the links named.  *)
LEMMA HostIsSet ==
  ASSUME NEW s \in States, NEW C, NEW modes \in SUBSET Modes
  PROVE  HostSet(s, C, modes, SetHost(s, C, modes))
<1> DEFINE ready == \A c \in C : DsiOn(s, c)
           u == Dsi(s, C)
           f == [c \in {0, 1} |-> IF c \in C THEN modes ELSE u.host[c]]
           t == [u EXCEPT !.host = f]
<1>1. Noted(s, ready, u)
  BY NeedsAreNoted DEF Dsi
<1>2. SetHost(s, C, modes) = t
  BY DEF SetHost
<1> HIDE DEF u
<1>3. u \in States /\ u.host \in [Both -> SUBSET Modes]
  BY <1>1 DEF Noted, States
<1>4. f \in [Both -> SUBSET Modes] /\ \A c \in Both : f[c] = IF c \in C THEN modes ELSE u.host[c]
  BY <1>3 DEF Both
<1> HIDE DEF f
<1>5. t \in States /\ t.host = f
  BY ZenonT(60), <1>3, <1>4 DEF States
<1>6. Core(u, t) /\ t.clocks = u.clocks /\ t.told = u.told /\ t.wrong = u.wrong
  BY <1>3 DEF States, Core
<1> HIDE DEF t
<1>7. Core(s, t)
  BY <1>1, <1>6 DEF Noted, Core
<1> QED
  BY <1>1, <1>2, <1>4, <1>5, <1>6, <1>7 DEF Noted, HostSet

(* mdss_dsi_panel_initialize: the panel was told if it says so.            *)
Initialized(s, t) ==
  t \in States /\ Core(s, t) /\ t.clocks = s.clocks /\ t.host = s.host /\ t.wrong = s.wrong

(* A panel whose links are ready, and take commands or are made to, is     *)
(* told to start; on failure no register was touched too early.            *)
LEMMA PanelIsTold ==
  ASSUME NEW s \in States, NEW p \in Headers, Running(s, p), s.out, s.phy = Controllers(p),
         \A c \in Controllers(p) : c \in Sent(p) \/ "cmd" \in s.host[c]
  PROVE  Ends(PanelInitialize(s, p), {t \in States : Initialized(s, t) /\ t.told},
                                     {t \in States : Initialized(s, t)})
<1> DEFINE u == Dsi(s, Sent(p))
           f == [c \in {0, 1} |-> IF c \in Sent(p) THEN u.host[c] \cup {"cmd"} ELSE u.host[c]]
           open == [u EXCEPT !.host = f]
           Out(o) == [s |-> [o.s EXCEPT !.host = s.host, !.told = o.ret = 0], ret |-> o.ret]
<1>1. MdpOn(s) /\ (\A c \in Controllers(p) : DsiOn(s, c)) /\ Sent(p) \subseteq Controllers(p)
  BY RunningIsOn DEF Sent, Controllers
<1>2. u = s
  BY <1>1 DEF Dsi, Needs
<1>3. s.host \in [Both -> SUBSET Modes]
  BY DEF States
<1>4. /\ f \in [Both -> SUBSET Modes]
      /\ \A c \in Both : f[c] = IF c \in Sent(p) THEN s.host[c] \cup {"cmd"} ELSE s.host[c]
  BY <1>2, <1>3 DEF Both, Modes
<1> HIDE DEF f
<1>5. open \in States /\ open.host = f
  BY SMTT(40), <1>2, <1>4 DEF States
<1>6. Core(s, open) /\ open.clocks = s.clocks /\ open.told = s.told /\ open.wrong = s.wrong
  BY <1>2 DEF States, Core
<1>7. PanelInitialize(s, p) = {Out(o) : o \in CmdsTx(open, p)}
  BY DEF PanelInitialize, f
<1> HIDE DEF open
<1>8. Hears(open, p)
  <2>1. \A c \in Controllers(p) : DsiOn(open, c) /\ c \in open.phy
    BY <1>1, <1>6 DEF DsiOn, MdpOn, Core
  <2>2. \A c \in Controllers(p) : c \in Both
    BY DEF Controllers, Both
  <2>3. \A c \in Controllers(p) : "cmd" \in open.host[c]
    BY <1>4, <1>5, <2>2
  <2> QED
    BY <1>6, <2>1, <2>3 DEF Hears, Core
<1>9. Ends(CmdsTx(open, p), After(open, p), After(open, p))
  BY <1>5, CommandsEnd
<1>10. ASSUME NEW o \in CmdsTx(open, p)
       PROVE  /\ Out(o).ret = o.ret /\ Out(o).ret \in Int /\ Out(o) \in Outcomes
              /\ Initialized(s, Out(o).s) /\ (o.ret = 0 => Out(o).s.told)
  <2>1. o.s \in After(open, p) /\ o.s \in States /\ o.ret \in Int
    BY <1>9 DEF Ends, Outcomes
  <2>2. Noted(open, TRUE, o.s)
    BY <1>8, <2>1 DEF After
  <2> DEFINE x == o.s
             b == o.ret = 0
             t == [x EXCEPT !.host = s.host, !.told = b]
  <2>3. Out(o) = [s |-> t, ret |-> o.ret]
    OBVIOUS
  <2>4. b \in BOOLEAN
    OBVIOUS
  <2>5. x \in States /\ Noted(open, TRUE, x)
    BY <2>1, <2>2
  <2> HIDE DEF x, b
  <2>6. t \in States
    BY ZenonT(60), <1>3, <2>4, <2>5 DEF States
  <2>7. Core(x, t) /\ t.clocks = x.clocks /\ t.host = s.host /\ t.wrong = x.wrong /\ t.told = b
    BY <2>5 DEF States, Core
  <2> HIDE DEF t
  <2>8. Initialized(s, t)
    BY <1>6, <2>5, <2>6, <2>7 DEF Initialized, Noted, Core
  <2>9. Out(o) \in Outcomes
    BY <2>1, <2>3, <2>6 DEF Outcomes
  <2> QED
    BY <2>1, <2>3, <2>7, <2>8, <2>9 DEF b
<1> HIDE DEF Out
<1> QED
  BY <1>7, <1>10 DEF Ends, Outcomes

-----------------------------------------------------------------------------
(* How far a start came that failed with its clocks on: the panel can be   *)
(* heard, or made to hear, and nothing was touched too early.              *)
Lit(s, id, p) ==
  /\ s.panel = id /\ Running(s, p) /\ s.out /\ s.wrong = {} /\ s.phy = Controllers(p)
Open(s, p)  == \A c \in Controllers(p) : p.cmd => "cmd" \in s.host[c]
On(id, p)   == {s \in States : Lit(s, id, p) /\ Open(s, p)}

(* What mdss_dsi_host_init starts the links with.                          *)
FirstModes(p) == IF p.late THEN {"video"} ELSE {"cmd"}
Ready(id, p) ==
  {s \in States : /\ Lit(s, id, p) /\ Kept(s, id, p)
                  /\ \A c \in Controllers(p) : s.host[c] = FirstModes(p)}

(* The PHYs and controllers come up on clocks that run.                    *)
LEMMA DsiIsReady ==
  ASSUME NEW id, NEW p \in Headers, NEW s \in Up(id, p, FALSE)
  PROVE  HostInit(PhyInit(s, p), p) \in Ready(id, p)
<1> DEFINE u == PhyInit(s, p)
           t == HostInit(u, p)
<1>1. s \in States /\ Running(s, p) /\ Kept(s, id, p)
  BY DEF Up
<1>2. Dsi(s, Controllers(p)) = s
  BY <1>1, RunningIsOn DEF Dsi, Needs
<1>3. u = [s EXCEPT !.phy = Controllers(p)] /\ Controllers(p) \in SUBSET Both
  BY <1>2 DEF PhyInit, Controllers, Both
<1> HIDE DEF u
<1>4. u \in States /\ u.phy = Controllers(p)
  BY ZenonT(60), <1>1, <1>3 DEF States
<1>5. Running(u, p) /\ Kept(u, id, p)
  BY <1>1, <1>3 DEF States, Running, Kept
<1>6. HostSet(u, Controllers(p), FirstModes(p), t)
  <2>1. FirstModes(p) \in SUBSET Modes
    BY DEF FirstModes, Modes
  <2>2. t = SetHost(u, Controllers(p), FirstModes(p))
    BY DEF HostInit, FirstModes
  <2> HIDE DEF t
  <2> QED
    BY <1>4, <2>1, <2>2, HostIsSet
<1> HIDE DEF t
<1>7. t.wrong = u.wrong
  BY <1>4, <1>5, <1>6, RunningIsOn DEF HostSet
<1>8. Running(t, p) /\ Kept(t, id, p) /\ t.phy = u.phy /\ t \in States
  BY <1>5, <1>6, <1>7 DEF HostSet, Core, Running, Kept
<1>9. \A c \in Controllers(p) : t.host[c] = FirstModes(p)
  BY <1>3, <1>6 DEF HostSet
<1> QED
  BY <1>4, <1>8, <1>9 DEF Ready, Lit, Kept, t, u

(* mdss_dsi_config: a panel that is not told late was told, or it failed.  *)
LEMMA DsiConfigEnds ==
  ASSUME NEW id, NEW p \in Headers, NEW s \in Up(id, p, FALSE)
  PROVE  Ends(DsiConfig(s, p), {t \in Ready(id, p) : ~p.late => t.told}, On(id, p))
<1> DEFINE t == HostInit(PhyInit(s, p), p)
<1>1. t \in Ready(id, p) /\ t \in States
  BY DsiIsReady DEF Ready
<1>2. DsiConfig(s, p) = IF p.late THEN Done(t) ELSE PanelInitialize(t, p)
  BY DEF DsiConfig
<1> HIDE DEF t
<1>3. CASE p.late
  BY <1>1, <1>2, <1>3, DoneEnds
<1>4. CASE ~p.late
  <2>1. \A c \in Controllers(p) : "cmd" \in t.host[c]
    BY <1>1, <1>4 DEF Ready, FirstModes
  <2>2. Ends(PanelInitialize(t, p), {u \in States : Initialized(t, u) /\ u.told},
                                    {u \in States : Initialized(t, u)})
    BY <1>1, <2>1, PanelIsTold DEF Ready, Lit
  <2>3. \A u \in States : Initialized(t, u) => u \in Ready(id, p)
    BY <1>1 DEF Initialized, Core, Ready, Lit, Kept, Running
  <2>4. \A u \in Ready(id, p) : u \in On(id, p)
    BY <1>4 DEF Ready, On, Open, FirstModes
  <2> QED
    BY <1>2, <1>4, <2>2, <2>3, <2>4 DEF Ends
<1> QED
  BY <1>3, <1>4

(* The pipes' line buffers. One block for a client is a register of its    *)
(* own, behind those there are.                                            *)
LEMMA OneBlock ==
  ASSUME NEW words, NEW client
  PROVE  SmpAlloc(words, client, 1) = words \o <<<<client>>>>
<1> DEFINE Is(h) == h = [k \in 0..1 |-> IF k = 0 THEN <<>>
                                        ELSE IF k % 3 = 1 THEN Append(h[k - 1], <<client>>)
                                        ELSE [h[k - 1] EXCEPT ![Len(h[k - 1])] = Append(@, client)]]
           g == [k \in 0..1 |-> IF k = 0 THEN <<>> ELSE Append(<<>>, <<client>>)]
           left == CHOOSE h : Is(h)
<1>1. Is(g)
  <2>1. g[0] = <<>> /\ g[1] = Append(<<>>, <<client>>)
    OBVIOUS
  <2>2. \A k \in 0..1 : g[k] = IF k = 0 THEN <<>>
                               ELSE IF k % 3 = 1 THEN Append(g[k - 1], <<client>>)
                               ELSE [g[k - 1] EXCEPT ![Len(g[k - 1])] = Append(@, client)]
    <3> HIDE DEF g
    <3>1. 1 % 3 = 1 /\ \A k \in 0..1 : k = 0 \/ k = 1
      OBVIOUS
    <3>2. g[1] = Append(g[1 - 1], <<client>>)
      BY <2>1
    <3> QED
      BY <2>1, <3>1, <3>2
  <2> QED
    BY <2>2
<1>2. Is(left)
  <2> HIDE DEF Is, g
  <2> QED
    BY <1>1
<1>3. left[0] = <<>> /\ left[1] = Append(left[0], <<client>>)
  <2>1. \A k \in 0..1 : left[k] = IF k = 0 THEN <<>>
                                  ELSE IF k % 3 = 1 THEN Append(left[k - 1], <<client>>)
                                  ELSE [left[k - 1] EXCEPT ![Len(left[k - 1])] = Append(@, client)]
    BY ONLY <1>2, Zenon
  <2> HIDE DEF left, Is
  <2>2. 0 \in 0..1 /\ 1 \in 0..1 /\ 1 # 0 /\ 1 % 3 = 1 /\ 1 - 1 = 0
    OBVIOUS
  <2>3. left[0] = <<>>
    BY ONLY <2>1, <2>2, Zenon
  <2>4. left[1] = Append(left[1 - 1], <<client>>)
    BY ONLY <2>1, <2>2, Zenon
  <2> QED
    BY ONLY <2>2, <2>3, <2>4, Zenon
<1>4. left[1] = <<<<client>>>>
  <2> HIDE DEF left
  <2> QED
    BY <1>3
<1>5. SmpAlloc(words, client, 1) = words \o left[1]
  BY SMTT(40) DEF SmpAlloc
<1> QED
  BY <1>4, <1>5

(* Two blocks of one client share a register.                              *)
LEMMA TwoBlocks == SmpAlloc(<<>>, "left", 2) = <<<<"left", "left">>>>
<1> DEFINE Is(h) == h = [k \in 0..2 |-> IF k = 0 THEN <<>>
                                        ELSE IF k % 3 = 1 THEN Append(h[k - 1], <<"left">>)
                                        ELSE [h[k - 1] EXCEPT ![Len(h[k - 1])] = Append(@, "left")]]
           one == Append(<<>>, <<"left">>)
           two == [one EXCEPT ![Len(one)] = Append(@, "left")]
           g == [k \in 0..2 |-> IF k = 0 THEN <<>> ELSE IF k = 1 THEN one ELSE two]
           left == CHOOSE h : Is(h)
<1>1. Is(g)
  <2>1. g[0] = <<>> /\ g[1] = one /\ g[2] = two
    OBVIOUS
  <2>2. \A k \in 0..2 : g[k] = IF k = 0 THEN <<>>
                               ELSE IF k % 3 = 1 THEN Append(g[k - 1], <<"left">>)
                               ELSE [g[k - 1] EXCEPT ![Len(g[k - 1])] = Append(@, "left")]
    <3> HIDE DEF g
    <3>1. 1 % 3 = 1 /\ 2 % 3 = 2 /\ \A k \in 0..2 : k = 0 \/ k = 1 \/ k = 2
      OBVIOUS
    <3>2. g[1] = Append(g[1 - 1], <<"left">>)
      BY <2>1
    <3>3. g[2] = [g[2 - 1] EXCEPT ![Len(g[2 - 1])] = Append(@, "left")]
      BY SMTT(40), <2>1
    <3> HIDE DEF one, two
    <3> QED
      BY <2>1, <3>1, <3>2, <3>3
  <2> QED
    BY <2>2
<1>2. Is(left)
  <2> HIDE DEF Is, g
  <2> QED
    BY <1>1
<1>3. /\ left[0] = <<>> /\ left[1] = Append(left[0], <<"left">>)
      /\ left[2] = [left[1] EXCEPT ![Len(left[1])] = Append(@, "left")]
  <2>1. \A k \in 0..2 : left[k] = IF k = 0 THEN <<>>
                                  ELSE IF k % 3 = 1 THEN Append(left[k - 1], <<"left">>)
                                  ELSE [left[k - 1] EXCEPT ![Len(left[k - 1])] = Append(@, "left")]
    BY ONLY <1>2, Zenon
  <2> HIDE DEF left, Is
  <2> QED
    BY <2>1
<1>4. left[1] = <<<<"left">>>>
  <2> HIDE DEF left
  <2> QED
    BY <1>3
<1>5. left[2] = <<<<"left", "left">>>>
  <2> HIDE DEF left
  <2> QED
    BY <1>3, <1>4
<1>6. SmpAlloc(<<>>, "left", 2) = <<>> \o left[2]
  BY DEF SmpAlloc
<1>7. <<>> \o <<<<"left", "left">>>> = <<<<"left", "left">>>>
  BY ONLY TRUE
<1> QED
  BY <1>5, <1>6, <1>7

(* Two lists of one become a list of two.                                  *)
LEMMA ThePair ==
  ASSUME NEW S, NEW a \in S, NEW b \in S
  PROVE  <<a>> \o <<b>> = <<a, b>>
<1>1. <<a>> \in Seq(S) /\ <<b>> \in Seq(S) /\ <<a, b>> \in Seq(S)
  OBVIOUS
<1>2. /\ Len(<<a>>) = 1 /\ <<a>>[1] = a /\ Len(<<b>>) = 1 /\ <<b>>[1] = b
      /\ Len(<<a, b>>) = 2 /\ <<a, b>>[1] = a /\ <<a, b>>[2] = b
  OBVIOUS
<1>3. PICK x, y, xy \in Seq(S) :
        /\ x = <<a>> /\ y = <<b>> /\ xy = <<a, b>>
        /\ Len(x) = 1 /\ x[1] = a /\ Len(y) = 1 /\ y[1] = b
        /\ Len(xy) = 2 /\ xy[1] = a /\ xy[2] = b
  BY <1>1, <1>2
<1>4. xy = x \o y
  <2>1. SUFFICES
          ASSUME NEW u \in Seq(S), NEW v \in Seq(S), NEW uv \in Seq(S),
                 Len(u) = 1, u[1] = a, Len(v) = 1, v[1] = b,
                 Len(uv) = 2, uv[1] = a, uv[2] = b
          PROVE  uv = u \o v
    BY <1>3
  <2>2. /\ u \o v \in Seq(S) /\ Len(u \o v) = Len(u) + Len(v)
        /\ \A i \in 1..(Len(u) + Len(v)) :
             (u \o v)[i] = IF i <= Len(u) THEN u[i] ELSE v[i - Len(u)]
    BY <2>1, ConcatProperties
  <2>3. Len(u \o v) = 2 /\ (u \o v)[1] = a /\ (u \o v)[2] = b
    BY <2>1, <2>2
  <2>4. \A i \in 1..2 : i = 1 \/ i = 2
    OBVIOUS
  <2>5. \A i \in 1..Len(uv) : uv[i] = (u \o v)[i]
    BY <2>1, <2>3, <2>4
  <2> QED
    BY <2>1, <2>2, <2>3, <2>5, SeqEqual
<1> QED
  BY <1>3, <1>4

(* mdss_smp_setup: one block for each of two pipes, two for the only one.  *)
LEMMA SmpIs ==
  ASSUME NEW p \in Headers
  PROVE  /\ SmpSetup(p) = IF p.dualPipe THEN <<<<"left">>, <<"right">>>> ELSE <<<<"left", "left">>>>
         /\ SmpSetup(p) \in Seq(Seq({"left", "right"}))
<1>1. SmpCount(p) = IF p.dualPipe THEN 1 ELSE 2
  BY DEF SmpCount, Headers
<1>2. CASE p.dualPipe
  <2>1. SmpAlloc(<<>>, "left", 1) = <<>> \o <<<<"left">>>>
    BY OneBlock
  <2>2. SmpAlloc(<<<<"left">>>>, "right", 1) = <<<<"left">>>> \o <<<<"right">>>>
    BY OneBlock
  <2>3. SmpAlloc(<<>>, "left", 1) = <<<<"left">>>>
    BY <2>1
  <2>4. SmpSetup(p) = <<<<"left">>>> \o <<<<"right">>>>
    BY <1>1, <1>2, <2>2, <2>3 DEF SmpSetup
  <2>5. <<<<"left">>>> \o <<<<"right">>>> = <<<<"left">>, <<"right">>>>
    <3>1. <<"left">> \in Seq({"left", "right"}) /\ <<"right">> \in Seq({"left", "right"})
      OBVIOUS
    <3> QED
      BY <3>1, ThePair
  <2>6. <<<<"left">>, <<"right">>>> \in Seq(Seq({"left", "right"}))
    OBVIOUS
  <2> QED
    BY <1>2, <2>4, <2>5, <2>6
<1>3. CASE ~p.dualPipe
  <2>1. SmpSetup(p) = <<<<"left", "left">>>>
    BY <1>1, <1>3, TwoBlocks DEF SmpSetup
  <2> QED
    BY <1>3, <2>1
<1> QED
  BY <1>2, <1>3

(* Both ways of reckoning a line and a frame come to the same.             *)
LEMMA TimingsAgree ==
  ASSUME NEW p \in Headers
  PROVE  /\ TgTimings(p) \in Timings /\ LinkTimings(p) = TgTimings(p) /\ TgTimings(p) # Untimed
         /\ OnEach(p, TgTimings(p)) \in [Both -> Timings]
         /\ OnEach(p, LinkTimings(p)) = OnEach(p, TgTimings(p))
<1> DEFINE x == (IF p.split THEN p.w \div 2 ELSE p.w) \div Ratio(p)
<1>1. /\ p.split = p.dual /\ p.w \in Nat /\ p.h \in Nat /\ p.h > 0 /\ p.ratio \in Nat
      /\ p.hfp \in Nat /\ p.hbp \in Nat /\ p.hpw \in Nat
      /\ p.vfp \in Nat /\ p.vbp \in Nat /\ p.vpw \in Nat
  BY DEF Headers
<1>2. Ratio(p) \in Nat /\ Ratio(p) > 0
  BY <1>1 DEF Ratio
<1>3. (IF p.split THEN p.w \div 2 ELSE p.w) \in Int
  BY <1>1
<1>4. x \in Int
  <2> DEFINE y == IF p.split THEN p.w \div 2 ELSE p.w
  <2> HIDE DEF y
  <2> QED
    BY <1>2, <1>3 DEF y
<1>5. TgTimings(p) = [line |-> p.hpw + p.hbp + x + p.hfp, frame |-> p.vpw + p.vbp + p.h + p.vfp]
  BY DEF TgTimings
<1>6. LinkTimings(p) = [line |-> x + p.hfp + (p.hbp + p.hpw), frame |-> p.h + p.vfp + (p.vbp + p.vpw)]
  BY <1>1 DEF LinkTimings
<1> HIDE DEF x
<1>7. TgTimings(p) \in Timings /\ LinkTimings(p) = TgTimings(p)
  BY <1>1, <1>4, <1>5, <1>6 DEF Timings
<1>8. TgTimings(p).frame # 0
  BY <1>1, <1>5
<1>9. OnEach(p, TgTimings(p)) \in [Both -> Timings]
  BY <1>7 DEF OnEach, Both, Untimed, Timings
<1> QED
  BY <1>7, <1>8, <1>9 DEF Untimed

(* What msm_display_config leaves: the line buffers, the source, and what  *)
(* the MDP sends and the links expect.                                     *)
LinkModes(p)  == IF p.cmd THEN {"cmd"} ELSE {"video"}
Sends(p)   == IF p.cmd THEN Off.tg ELSE OnEach(p, TgTimings(p))
Configured(id, p) ==
  {s \in States : /\ Lit(s, id, p) /\ s.lcd = p.lcd
                  /\ \A c \in Controllers(p) : s.host[c] = LinkModes(p)
                  /\ s.smp = SmpSetup(p) /\ s.src = SourcePipe(p)
                  /\ s.tg = Sends(p) /\ s.link = Sends(p)}

(* mdp_dsi_video_config and mdp_dsi_cmd_config                             *)
LEMMA MdpIsConfigured ==
  ASSUME NEW id, NEW p \in Headers, NEW s \in Ready(id, p)
  PROVE  /\ MdpConfig(s, p) \in States /\ Lit(MdpConfig(s, p), id, p)
         /\ MdpConfig(s, p).lcd = p.lcd /\ MdpConfig(s, p).smp = SmpSetup(p)
         /\ MdpConfig(s, p).src = SourcePipe(p) /\ MdpConfig(s, p).tg = Sends(p)
         /\ MdpConfig(s, p).link = Off.link /\ MdpConfig(s, p).host = s.host
         /\ MdpConfig(s, p).told = s.told
<1>1. s \in States /\ Lit(s, id, p) /\ Kept(s, id, p)
  BY DEF Ready
<1>2. Mdp(s) = s
  BY <1>1, RunningIsOn DEF Mdp, Needs, Lit
<1> DEFINE tg == IF p.cmd THEN s.tg ELSE OnEach(p, TgTimings(p))
           m == SmpSetup(p)
           r == SourcePipe(p)
           t == [s EXCEPT !.tg = tg, !.smp = m, !.src = r]
<1>3. MdpConfig(s, p) = t
  BY <1>2 DEF MdpConfig
<1>4. tg = Sends(p)
  BY <1>1 DEF Kept, Sends
<1>5. tg \in [Both -> Timings]
  BY <1>1, TimingsAgree DEF States
<1>6. m \in Seq(Seq({"left", "right"}))
  BY SmpIs
<1>7. r \in [base : {Nothing, "fb"}, ystride : Int, size : Int \X Int]
  BY DEF SourcePipe, Headers, Nothing
<1> HIDE DEF tg, m, r
<1>8. t \in States
  BY ZenonT(60), <1>1, <1>5, <1>6, <1>7 DEF States
<1>9. /\ t.tg = tg /\ t.smp = m /\ t.src = r /\ t.lcd = s.lcd /\ t.link = s.link /\ t.host = s.host
      /\ t.told = s.told /\ t.panel = s.panel /\ t.gdsc = s.gdsc /\ t.pll = s.pll
      /\ t.clocks = s.clocks /\ t.out = s.out /\ t.wrong = s.wrong /\ t.phy = s.phy
  BY <1>1 DEF States
<1> HIDE DEF t
<1>10. Lit(t, id, p)
  BY <1>1, <1>9 DEF Lit, Running
<1> QED
  BY <1>1, <1>3, <1>4, <1>8, <1>9, <1>10 DEF m, r, Kept

(* dsi_panel_config                                                        *)
LEMMA LinksAreConfigured ==
  ASSUME NEW id, NEW p \in Headers, NEW s \in States,
         Lit(s, id, p), s.lcd = p.lcd, s.smp = SmpSetup(p), s.src = SourcePipe(p),
         s.tg = Sends(p), s.link = Off.link
  PROVE  PanelConfig(s, p) \in Configured(id, p) /\ PanelConfig(s, p).told = s.told
<1> DEFINE u == SetHost(s, Controllers(p), LinkModes(p))
           link == IF p.cmd THEN u.link ELSE OnEach(p, LinkTimings(p))
           t == [u EXCEPT !.link = link]
<1>1. HostSet(s, Controllers(p), LinkModes(p), u)
  <2>1. LinkModes(p) \in SUBSET Modes
    BY DEF LinkModes, Modes
  <2> QED
    BY <2>1, HostIsSet
<1>2. PanelConfig(s, p) = t
  BY DEF PanelConfig, LinkModes
<1> HIDE DEF u
<1>3. u \in States /\ Core(s, u) /\ u.clocks = s.clocks /\ u.told = s.told /\ u.wrong = s.wrong
  BY <1>1, RunningIsOn DEF HostSet, Lit
<1>4. link \in [Both -> Timings]
  BY <1>3, TimingsAgree DEF States
<1>5. link = Sends(p)
  BY <1>3, TimingsAgree DEF Sends, Core, Off
<1> HIDE DEF link
<1>6. t \in States
  BY ZenonT(60), <1>3, <1>4 DEF States
<1>7. /\ t.link = link /\ t.tg = u.tg /\ t.smp = u.smp /\ t.src = u.src /\ t.lcd = u.lcd
      /\ t.host = u.host /\ t.told = u.told /\ t.panel = u.panel /\ t.gdsc = u.gdsc
      /\ t.pll = u.pll /\ t.clocks = u.clocks /\ t.out = u.out /\ t.wrong = u.wrong /\ t.phy = u.phy
  BY <1>3 DEF States
<1> HIDE DEF t
<1>8. Lit(t, id, p)
  BY <1>3, <1>7 DEF Lit, Running, Core
<1>9. \A c \in Controllers(p) : t.host[c] = LinkModes(p)
  <2>1. \A c \in Controllers(p) : c \in Both
    BY DEF Controllers, Both
  <2> QED
    BY <1>1, <1>7, <2>1 DEF HostSet
<1> QED
  BY <1>2, <1>3, <1>5, <1>6, <1>7, <1>8, <1>9 DEF Configured, Core

(* msm_display_config                                                      *)
LEMMA ConfigEnds ==
  ASSUME NEW id, NEW p \in Headers, NEW s \in Up(id, p, FALSE)
  PROVE  Ends(MsmDisplayConfig(s, p), {t \in Configured(id, p) : ~p.late => t.told}, On(id, p))
<1> DEFINE Next(t) == Done(PanelConfig(MdpConfig(t, p), p))
           Good == {t \in Configured(id, p) : ~p.late => t.told}
           Told == {t \in Ready(id, p) : ~p.late => t.told}
<1>1. Ends(DsiConfig(s, p), Told, On(id, p))
  BY DsiConfigEnds
<1>2. ASSUME NEW t \in Told PROVE Ends(Next(t), Good, On(id, p))
  <2> DEFINE u == MdpConfig(t, p)
             v == PanelConfig(u, p)
  <2>1. u \in States /\ Lit(u, id, p) /\ u.lcd = p.lcd /\ u.smp = SmpSetup(p)
        /\ u.src = SourcePipe(p) /\ u.tg = Sends(p) /\ u.link = Off.link /\ u.told = t.told
    BY MdpIsConfigured
  <2> HIDE DEF u
  <2>2. v \in Configured(id, p) /\ v.told = u.told
    BY <2>1, LinksAreConfigured
  <2>3. v \in Good /\ v \in States
    BY <2>1, <2>2 DEF Configured
  <2>4. Next(t) = Done(v)
    BY DEF u
  <2> HIDE DEF v, Next, Good
  <2> QED
    BY <2>3, <2>4, DoneEnds
<1>3. MsmDisplayConfig(s, p) = Then(DsiConfig(s, p), Next)
  BY DEF MsmDisplayConfig
<1> HIDE DEF Next, Good, Told
<1>4. Ends(Then(DsiConfig(s, p), Next), Good, On(id, p))
  BY <1>1, <1>2 DEF Then, Ends
<1> QED
  BY <1>3, <1>4 DEF Good

(* The engine runs, and the panel was told to start if it was not before.  *)
Playing(id, p) == {s \in Configured(id, p) : s.engine /\ s.told}

(* A display that is set up is on.                                         *)
LEMMA ConfiguredIsOn ==
  ASSUME NEW id, NEW p, NEW s \in Configured(id, p)
  PROVE  s \in On(id, p)
BY DEF Configured, On, Open, LinkModes

(* It stays set up while no register of it changes.                        *)
LEMMA LikeConfigured ==
  ASSUME NEW id, NEW p, NEW s \in Configured(id, p), NEW t \in States, Core(s, t),
         t.clocks = s.clocks, t.host = s.host, t.wrong = s.wrong
  PROVE  t \in Configured(id, p)
BY DEF Configured, Core, Lit, Running

(* A panel that is told late is told now.                                  *)
LEMMA PostOnEnds ==
  ASSUME NEW id, NEW p \in Headers, NEW s \in Configured(id, p), s.engine, ~p.late => s.told
  PROVE  Ends(PostOn(s, p), Playing(id, p), On(id, p))
<1>1. s \in States /\ Running(s, p) /\ s.out /\ s.phy = Controllers(p)
  BY DEF Configured, Lit
<1>2. CASE p.late
  <2>1. \A c \in Controllers(p) : c \in Sent(p) \/ "cmd" \in s.host[c]
    <3>1. CASE p.cmd
      BY <3>1 DEF Configured, LinkModes
    <3>2. CASE ~p.cmd
      BY <1>2, <3>2 DEF Sent, Controllers, Headers
    <3> QED
      BY <3>1, <3>2
  <2>2. Ends(PanelInitialize(s, p), {t \in States : Initialized(s, t) /\ t.told},
                                    {t \in States : Initialized(s, t)})
    BY <1>1, <2>1, PanelIsTold
  <2>3. \A t \in States : Initialized(s, t) => t \in Configured(id, p) /\ t.engine
    BY LikeConfigured DEF Initialized, Core
  <2>4. \A t \in Configured(id, p) : t \in On(id, p)
    BY ConfiguredIsOn
  <2> QED
    BY <1>2, <2>2, <2>3, <2>4 DEF Ends, PostOn, Playing
<1>3. CASE ~p.late
  BY <1>1, <1>3, DoneEnds DEF PostOn, Playing
<1> QED
  BY <1>2, <1>3

(* msm_display_on                                                          *)
LEMMA DisplayOnEnds ==
  ASSUME NEW id, NEW p \in Headers, NEW s \in Configured(id, p), ~p.late => s.told
  PROVE  Ends(MsmDisplayOn(s, p), Playing(id, p), On(id, p))
<1> DEFINE run == [s EXCEPT !.engine = TRUE]
           Frame(t) == Fallible(Dsi(t, {0}), -1, Done)
<1>1. s \in States /\ Running(s, p)
  BY DEF Configured, Lit
<1>2. Mdp(s) = s
  BY <1>1, RunningIsOn DEF Mdp, Needs
<1>3. /\ run \in States /\ run.engine /\ run.told = s.told /\ run.clocks = s.clocks
      /\ run.host = s.host /\ run.wrong = s.wrong
  BY ZenonT(60), <1>1 DEF States
<1>4. run \in Configured(id, p)
  <2>1. /\ run.panel = s.panel /\ run.gdsc = s.gdsc /\ run.pll = s.pll /\ run.out = s.out
        /\ run.phy = s.phy /\ run.lcd = s.lcd /\ run.smp = s.smp /\ run.src = s.src
        /\ run.tg = s.tg /\ run.link = s.link
    BY <1>1 DEF States
  <2> HIDE DEF run
  <2> QED
    BY <1>3, <2>1 DEF Configured, Lit, Running
<1> HIDE DEF run
<1>5. Ends(PostOn(run, p), Playing(id, p), On(id, p))
  BY <1>3, <1>4, PostOnEnds
<1>6. ASSUME NEW t \in Playing(id, p) PROVE Ends(Frame(t), Playing(id, p), On(id, p))
  <2>1. t \in States /\ Running(t, p) /\ t \in Configured(id, p)
    BY DEF Playing, Configured, Lit
  <2>2. Dsi(t, {0}) = t
    BY <2>1, RunningIsOn DEF Dsi, Needs, Controllers
  <2>3. Ends(Done(t), Playing(id, p), On(id, p))
    BY <2>1, DoneEnds
  <2>4. Ends(Failing(t, -1), Playing(id, p), On(id, p))
    <3>1. ASSUME NEW u \in States, Same(t, u) PROVE u \in On(id, p)
      <4>1. Core(t, u) /\ u.clocks = t.clocks /\ u.host = t.host /\ u.wrong = t.wrong
        BY <3>1 DEF Same, OnlyClocks
      <4> QED
        BY <2>1, <4>1, LikeConfigured, ConfiguredIsOn
    <3> QED
      BY <2>1, <3>1, FailingEnds
  <2>5. Frame(t) = Done(t) \cup Failing(t, -1)
    BY <2>2 DEF Fallible, Failing
  <2> HIDE DEF Frame
  <2> QED
    BY <2>3, <2>4, <2>5, BothEnd
<1>7. MsmDisplayOn(s, p) = IF p.cmd THEN PostOn(run, p) ELSE Then(PostOn(run, p), Frame)
  BY <1>2 DEF MsmDisplayOn, run
<1> HIDE DEF Frame
<1>8. Ends(Then(PostOn(run, p), Frame), Playing(id, p), On(id, p))
  BY <1>5, <1>6 DEF Then, Ends
<1> QED
  BY <1>5, <1>7, <1>8

(* A picture: all that, and the light.                                     *)
Shown(id, p) == {s \in Playing(id, p) : s.light}
(* target_backlight_ctrl, on                                               *)
LEMMA LightComesOn ==
  ASSUME NEW id, NEW p \in Headers, NEW s \in Playing(id, p)
  PROVE  Ends(BacklightCtrl(s, p, TRUE), Shown(id, p), On(id, p))
<1> DEFINE ibb == IF p.wled THEN TRUE ELSE s.ibb
           t == [s EXCEPT !.light = TRUE, !.ibb = ibb]
<1>1. s \in States /\ s \in Configured(id, p) /\ s.engine /\ s.told
  BY DEF Playing, Configured
<1>2. ibb \in BOOLEAN
  BY <1>1 DEF States
<1>3. BacklightCtrl(s, p, TRUE) = Done(t)
  BY DEF BacklightCtrl
<1> HIDE DEF ibb
<1>4. t \in States /\ t.light
  BY ZenonT(60), <1>1, <1>2 DEF States
<1>5. /\ t.panel = s.panel /\ t.gdsc = s.gdsc /\ t.pll = s.pll /\ t.out = s.out
      /\ t.phy = s.phy /\ t.lcd = s.lcd /\ t.smp = s.smp /\ t.src = s.src
      /\ t.tg = s.tg /\ t.link = s.link /\ t.wrong = s.wrong /\ t.clocks = s.clocks
      /\ t.host = s.host /\ t.engine = s.engine /\ t.told = s.told
  BY <1>1 DEF States
<1> HIDE DEF t
<1>6. t \in Configured(id, p)
  BY <1>1, <1>4, <1>5 DEF Configured, Lit, Running
<1>7. t \in Shown(id, p)
  BY <1>1, <1>4, <1>5, <1>6 DEF Shown, Playing
<1> QED
  BY <1>3, <1>4, <1>7, DoneEnds

(* msm_display_init: a picture, or everything still or again without its   *)
(* clocks because they were refused, or on and as it should be.            *)
Tried(id, p) == On(id, p) \cup Idle(id, p, TRUE)
(* Flags take any value.                                                   *)
LEMMA BegunIsAState ==
  ASSUME NEW s \in States, NEW b \in BOOLEAN
  PROVE  /\ [s EXCEPT !.fbcon = b] \in States
         /\ [s EXCEPT !.refused = b] \in States
         /\ [s EXCEPT !.override = b] \in States
         /\ [s EXCEPT !.enabled = b] \in States
         /\ [s EXCEPT !.gop = b] \in States
         /\ [s EXCEPT !.engine = b] \in States
<1>1. [s EXCEPT !.fbcon = b] \in States
  BY ZenonT(60) DEF States
<1>2. [s EXCEPT !.refused = b] \in States
  BY ZenonT(60) DEF States
<1>3. [s EXCEPT !.override = b] \in States
  BY ZenonT(60) DEF States
<1>4. [s EXCEPT !.enabled = b] \in States
  BY ZenonT(60) DEF States
<1>5. [s EXCEPT !.gop = b] \in States
  BY ZenonT(60) DEF States
<1>6. [s EXCEPT !.engine = b] \in States
  BY ZenonT(60) DEF States
<1> QED
  BY <1>1, <1>2, <1>3, <1>4, <1>5, <1>6

LEMMA DisplayInitEnds ==
  ASSUME NEW id, NEW p \in Headers, NEW s \in States, s.panel = id, AtRest(s), s.wrong = {},
         s.tg = Off.tg, s.link = Off.link
  PROVE  Ends(MsmDisplayInit(s, p), Shown(id, p), Tried(id, p))
<1> DEFINE Light(v) == BacklightCtrl(v, p, TRUE)
           OnAndLight(u) == Then(MsmDisplayOn(u, p), Light)
           Begun(t) == [t EXCEPT !.fbcon = TRUE, !.refused = FALSE]
           LitUp(t) == Then(MsmDisplayConfig(Begun(t), p), OnAndLight)
           Clock(t) == Then(TargetPanelClock(t, p, TRUE), LitUp)
           Rates(t) == Then(DfpsConfig(t, p), Clock)
           Good == {t \in Configured(id, p) : ~p.late => t.told}
           lcd == TRUE /\ p.lcd
           ibb == s.ibb \/ TRUE
           ldo == [s EXCEPT !.lcd = lcd, !.ibb = ibb]
           told == ldo.told /\ TRUE
           powered == [ldo EXCEPT !.out = TRUE, !.told = told]
<1>1. ASSUME NEW u \in Good PROVE Ends(OnAndLight(u), Shown(id, p), On(id, p))
  <2>1. Ends(MsmDisplayOn(u, p), Playing(id, p), On(id, p))
    BY DisplayOnEnds
  <2>2. \A v \in Playing(id, p) : Ends(Light(v), Shown(id, p), On(id, p))
    BY LightComesOn
  <2> HIDE DEF Light
  <2> QED
    BY <2>1, <2>2 DEF Then, Ends
<1>2. ASSUME NEW t \in Up(id, p, FALSE) PROVE Ends(LitUp(t), Shown(id, p), On(id, p))
  <2> DEFINE u == Begun(t)
  <2>1. t \in States /\ Kept(t, id, p) /\ Running(t, p)
    BY DEF Up
  <2>2. u \in States
    <3> DEFINE a == [t EXCEPT !.fbcon = TRUE]
               b == [a EXCEPT !.refused = FALSE]
    <3>1. a \in States
      BY <2>1, BegunIsAState
    <3>2. u = b
      OBVIOUS
    <3> HIDE DEF a
    <3>3. b \in States
      BY <3>1, BegunIsAState
    <3> QED
      BY <3>2, <3>3
  <2>3. Kept(u, id, p) /\ Running(u, p)
    BY <2>1 DEF States, Kept, Running
  <2> HIDE DEF OnAndLight, Good, Begun
  <2>4. u \in Up(id, p, FALSE)
    BY <2>2, <2>3 DEF Up
  <2>5. Ends(MsmDisplayConfig(u, p), Good, On(id, p))
    BY <2>4, ConfigEnds DEF Good
  <2> QED
    BY <1>1, <2>5 DEF Then, Ends
<1> HIDE DEF LitUp
<1>3. ASSUME NEW t \in Idle(id, p, FALSE) PROVE Ends(Clock(t), Shown(id, p), Tried(id, p))
  <2>1. Ends(TargetPanelClock(t, p, TRUE), Up(id, p, FALSE), Idle(id, p, TRUE))
    BY PanelClockComesOn
  <2> QED
    BY <1>2, <2>1 DEF Then, Ends, Tried
<1> HIDE DEF Clock
<1>4. ASSUME NEW t \in Idle(id, p, FALSE) PROVE Ends(Rates(t), Shown(id, p), Tried(id, p))
  <2>1. Ends(DfpsConfig(t, p), Idle(id, p, FALSE), Idle(id, p, TRUE))
    BY EveryRateIsTried
  <2> QED
    BY <1>3, <2>1 DEF Then, Ends, Tried
<1> HIDE DEF Rates
<1>5. powered \in Idle(id, p, FALSE)
  <2>1. lcd = p.lcd /\ lcd \in BOOLEAN /\ ibb \in BOOLEAN
    BY DEF Headers
  <2> HIDE DEF lcd, ibb
  <2>2. ldo \in States /\ ldo.lcd = lcd
    BY ZenonT(60), <2>1 DEF States
  <2>3. /\ ldo.panel = s.panel /\ ldo.clocks = s.clocks /\ ldo.wrong = s.wrong
        /\ ldo.tg = s.tg /\ ldo.link = s.link
    BY DEF States
  <2> HIDE DEF ldo
  <2>6. told \in BOOLEAN
    OBVIOUS
  <2> HIDE DEF told
  <2>4. powered \in States /\ powered.out
    BY ZenonT(60), <2>2, <2>6 DEF States
  <2>5. /\ powered.panel = ldo.panel /\ powered.clocks = ldo.clocks /\ powered.wrong = ldo.wrong
        /\ powered.tg = ldo.tg /\ powered.link = ldo.link /\ powered.lcd = ldo.lcd
    BY <2>2 DEF States
  <2> HIDE DEF powered
  <2> QED
    BY <2>1, <2>2, <2>3, <2>4, <2>5 DEF Idle, Kept, AtRest
<1>6. PanelPower(s, p, TRUE) = Done(powered)
  BY DEF PanelPower, PanelReset, LdoCtrl
<1>7. MsmDisplayInit(s, p) = Then(PanelPower(s, p, TRUE), Rates)
  BY DEF MsmDisplayInit, Rates, Clock, LitUp
<1> HIDE DEF powered
<1>8. Then(Done(powered), Rates) = Rates(powered)
  BY DEF Then, Done, Return
<1> QED
  BY <1>4, <1>5, <1>6, <1>7, <1>8

(* A display that is being stopped: what can still be touched is on, or    *)
(* the clocks were refused.                                                *)
Bounded(s, p) ==
  /\ s.clocks["bus"] <= 1 /\ s.clocks["mdp"] <= 1 /\ s.clocks["esc0"] <= 1
  /\ s.clocks["esc1"] <= IF p.dual THEN 1 ELSE 0
Held(id, p, e) ==
  {s \in States : /\ s.panel = id /\ Bounded(s, p) /\ s.enabled = e
                  /\ s.refused \/ Lit(s, id, p)}
Dark(e) ==
  {s \in States : /\ ~s.gdsc /\ ~s.light /\ ~s.out /\ ~s.lcd /\ AtRest(s) /\ s.enabled = e
                  /\ s.wrong # {} => s.refused}

(* Whatever a start leaves can be stopped.                                 *)
LEMMA TriedIsHeld ==
  ASSUME NEW id, NEW p \in Headers, NEW s \in Tried(id, p) \cup Shown(id, p)
  PROVE  /\ s \in Held(id, p, s.enabled)
         /\ s.refused \/ (Lit(s, id, p) /\ Open(s, p))
<1>1. CASE s \in Idle(id, p, TRUE)
  <2>1. s \in States /\ AtRest(s) /\ s.panel = id /\ s.refused
    BY <1>1 DEF Idle, Kept
  <2>2. Bounded(s, p)
    BY <2>1 DEF Bounded, AtRest, ClockNames
  <2> QED
    BY <2>1, <2>2 DEF Held
<1>2. CASE s \in On(id, p)
  <2>1. s \in States /\ Lit(s, id, p) /\ Open(s, p)
    BY <1>2 DEF On
  <2>2. Bounded(s, p) /\ s.panel = id
    BY <2>1 DEF Bounded, Lit, Running
  <2> QED
    BY <2>1, <2>2 DEF Held
<1>3. Shown(id, p) \subseteq On(id, p)
  BY ConfiguredIsOn DEF Shown, Playing
<1> QED
  BY <1>1, <1>2, <1>3 DEF Tried

(* The links go back to commands on clocks that run, if they do.           *)
LEMMA HostOfTheHeld ==
  ASSUME NEW id, NEW p \in Headers, NEW e, NEW s \in Held(id, p, e), NEW C \in SUBSET Controllers(p),
         NEW modes \in SUBSET Modes
  PROVE  /\ SetHost(s, C, modes) \in Held(id, p, e)
         /\ HostSet(s, C, modes, SetHost(s, C, modes))
<1> DEFINE t == SetHost(s, C, modes)
<1>1. s \in States /\ Bounded(s, p) /\ s.panel = id /\ s.enabled = e
  BY DEF Held
<1>2. HostSet(s, C, modes, t)
  BY <1>1, HostIsSet
<1> HIDE DEF t
<1>3. t \in States /\ t.panel = id /\ t.enabled = e /\ Bounded(t, p) /\ t.refused = s.refused
  BY <1>1, <1>2 DEF HostSet, Core, Bounded
<1>4. Lit(s, id, p) => Lit(t, id, p)
  <2> SUFFICES ASSUME Lit(s, id, p) PROVE Lit(t, id, p)
    OBVIOUS
  <2>1. \A c \in C : DsiOn(s, c)
    BY <1>1, RunningIsOn DEF Lit
  <2> QED
    BY <1>2, <2>1 DEF HostSet, Core, Lit, Running
<1>5. t \in Held(id, p, e)
  BY <1>3, <1>4 DEF Held
<1> QED
  BY <1>2, <1>5 DEF t

(* mdss_dsi_panel_shutdown and mipi_dsi_off: the panel is told to sleep    *)
(* while it can hear it.                                                   *)
LEMMA ShutdownEnds ==
  ASSUME NEW id, NEW p \in Headers, NEW e, NEW s \in Held(id, p, e), s.refused \/ Open(s, p)
  PROVE  Ends(PanelShutdown(s, p), Held(id, p, e), {})
<1> DEFINE C == IF p.broadcast THEN Controllers(p) ELSE {0}
           x == IF p.cmd THEN s ELSE SetHost(s, C, {"cmd"})
<1>1. C \in SUBSET Controllers(p) /\ (~p.cmd => C = Controllers(p))
  BY DEF Controllers, Headers
<1> HIDE DEF C
<1>2. x \in Held(id, p, e) /\ (x.refused \/ \A c \in Controllers(p) : "cmd" \in x.host[c])
  <2>1. CASE p.cmd
    BY <2>1 DEF Open
  <2>2. CASE ~p.cmd
    <3>1. {"cmd"} \in SUBSET Modes /\ \A c \in Controllers(p) : c \in Both
      BY DEF Modes, Controllers, Both
    <3>2. /\ SetHost(s, C, {"cmd"}) \in Held(id, p, e)
          /\ HostSet(s, C, {"cmd"}, SetHost(s, C, {"cmd"}))
      BY <1>1, <3>1, HostOfTheHeld
    <3>3. x = SetHost(s, C, {"cmd"})
      BY <2>2
    <3> HIDE DEF x
    <3>4. \A c \in Controllers(p) : x.host[c] = {"cmd"}
      BY <1>1, <2>2, <3>1, <3>2, <3>3 DEF HostSet
    <3> QED
      BY <3>2, <3>3, <3>4
  <2> QED
    BY <2>1, <2>2
<1>3. PanelShutdown(s, p) = {[o EXCEPT !.ret = 0] : o \in CmdsTx(x, p)}
  BY DEF PanelShutdown, C
<1> HIDE DEF x
<1>4. x \in States /\ Bounded(x, p) /\ x.panel = id /\ x.enabled = e
  BY <1>2 DEF Held
<1>5. x.refused \/ Hears(x, p)
  BY <1>2, <1>4, RunningIsOn DEF Held, Lit, Hears
<1>6. Ends(CmdsTx(x, p), After(x, p), After(x, p))
  BY <1>4, CommandsEnd
<1>7. ASSUME NEW t \in After(x, p) PROVE t \in Held(id, p, e)
  <2>1. /\ t \in States /\ Core(x, t) /\ t.clocks = x.clocks
        /\ Hears(x, p) => t.wrong = x.wrong
    BY DEF After, Noted
  <2>2. t.panel = id /\ t.enabled = e /\ Bounded(t, p) /\ t.refused = x.refused
    BY <1>4, <2>1 DEF Core, Bounded
  <2>3. t.refused \/ Lit(t, id, p)
    BY <1>2, <1>5, <2>1, <2>2 DEF Held, Lit, Running, Core
  <2> QED
    BY <2>1, <2>2, <2>3 DEF Held
<1>8. ASSUME NEW o \in CmdsTx(x, p)
      PROVE  /\ [o EXCEPT !.ret = 0] \in Outcomes /\ [o EXCEPT !.ret = 0].ret = 0
             /\ [o EXCEPT !.ret = 0].s \in Held(id, p, e)
  <2>1. o \in Outcomes /\ o.s \in After(x, p)
    BY <1>6 DEF Ends
  <2> QED
    BY <1>7, <2>1 DEF Outcomes
<1> QED
  BY <1>3, <1>8 DEF Ends

(* mdss_dsi_panel_power, off, is the last of it.                           *)
LEMMA PowerGoesOff ==
  ASSUME NEW e, NEW p \in Headers, NEW s \in States,
         ~s.gdsc, ~s.light, AtRest(s), s.enabled = e, s.wrong # {} => s.refused
  PROVE  Ends(PanelPower(s, p, FALSE), Dark(e), Dark(e))
<1> DEFINE told == s.told /\ FALSE
           u == [s EXCEPT !.out = FALSE, !.told = told]
           lcd == FALSE /\ p.lcd
           ibb == u.ibb \/ FALSE
           v == [u EXCEPT !.lcd = lcd, !.ibb = ibb]
<1>1. PanelPower(s, p, FALSE) = Done(v)
  BY DEF PanelPower, PanelReset, LdoCtrl
<1>2. told \in BOOLEAN /\ lcd \in BOOLEAN /\ ibb \in BOOLEAN /\ ~lcd
  OBVIOUS
<1> HIDE DEF told, lcd
<1>3. u \in States /\ ~u.out
  BY ZenonT(60), <1>2 DEF States
<1>4. /\ u.gdsc = s.gdsc /\ u.light = s.light /\ u.clocks = s.clocks /\ u.enabled = s.enabled
      /\ u.wrong = s.wrong /\ u.refused = s.refused
  BY DEF States
<1> HIDE DEF u, ibb
<1>5. v \in States /\ ~v.lcd
  BY ZenonT(60), <1>2, <1>3 DEF States
<1>6. /\ v.gdsc = u.gdsc /\ v.light = u.light /\ v.clocks = u.clocks /\ v.enabled = u.enabled
      /\ v.wrong = u.wrong /\ v.refused = u.refused /\ v.out = u.out
  BY <1>3 DEF States
<1> HIDE DEF v
<1>7. v \in Dark(e)
  BY <1>3, <1>4, <1>5, <1>6 DEF Dark, AtRest
<1> QED
  BY <1>1, <1>5, <1>7, DoneEnds

(* msm_display_off, when the picture need not be kept.                     *)
LEMMA DisplayGoesOff ==
  ASSUME NEW id \in DOMAIN Panels, PanelData(id) \in Headers, NEW e,
         NEW s \in Held(id, PanelData(id), e),
         s.refused \/ Open(s, PanelData(id)), ~ContSplash(s)
  PROVE  Ends(MsmDisplayOff(s), Dark(e), Dark(e))
<1> DEFINE p == PanelData(id)
           m == Mdp(s)
           stopped == IF p.cmd THEN m ELSE [m EXCEPT !.engine = FALSE]
           Power(v) == PanelPower(v, p, FALSE)
           Clock(u) == Then(TargetPanelClock(u, p, FALSE), Power)
           Dim(t) == Then(BacklightCtrl(t, p, FALSE), Clock)
           Rest(t) == Dim(SetHost(t, {0}, {}))
<1>1. s \in States /\ s.panel = id /\ id # Nothing /\ p \in Headers
  BY DisplayAssumption DEF Held, Nothing
<1>2. MsmDisplayOff(s) = Then(PanelShutdown(stopped, p), Rest)
  BY <1>1 DEF MsmDisplayOff
<1>3. p \in Headers /\ s \in Held(id, p, e) /\ (s.refused \/ Open(s, p))
  BY <1>1
<1> HIDE DEF p
<1>4. m \in Held(id, p, e) /\ (m.refused \/ Open(m, p)) /\ m \in States
  <2>1. Noted(s, MdpOn(s), m)
    BY <1>1, NeedsAreNoted DEF Mdp
  <2> HIDE DEF m
  <2>2. m \in States /\ m.panel = id /\ m.enabled = e /\ Bounded(m, p) /\ m.refused = s.refused
        /\ m.host = s.host
    BY <1>3, <2>1 DEF Noted, Core, Held, Bounded
  <2>3. m.refused \/ Lit(m, id, p)
    BY <1>1, <1>3, <2>1, <2>2, RunningIsOn DEF Noted, Core, Held, Lit, Running
  <2> QED
    BY <1>3, <2>2, <2>3 DEF Held, Open
<1> HIDE DEF m
<1>5. stopped \in Held(id, p, e) /\ (stopped.refused \/ Open(stopped, p))
  <2> DEFINE t == [m EXCEPT !.engine = FALSE]
  <2>1. t \in States
    BY <1>4, BegunIsAState
  <2>2. /\ t.panel = m.panel /\ t.clocks = m.clocks /\ t.enabled = m.enabled
        /\ t.refused = m.refused /\ t.host = m.host /\ t.gdsc = m.gdsc /\ t.pll = m.pll
        /\ t.out = m.out /\ t.wrong = m.wrong /\ t.phy = m.phy
    BY <1>4 DEF States
  <2> HIDE DEF t
  <2>3. t \in Held(id, p, e)
    BY <1>4, <2>1, <2>2 DEF Held, Bounded, Lit, Running
  <2>4. t.refused \/ Open(t, p)
    BY <1>4, <2>2 DEF Open
  <2> QED
    BY <1>4, <2>3, <2>4 DEF t
<1> HIDE DEF stopped
<1>6. Ends(PanelShutdown(stopped, p), Held(id, p, e), {})
  BY <1>3, <1>5, ShutdownEnds
<1>7. ASSUME NEW u \in Held(id, p, e), ~u.light PROVE Ends(Clock(u), Dark(e), Dark(e))
  <2>1. u \in States /\ Bounded(u, p) /\ u.enabled = e /\ (u.wrong # {} => u.refused)
    BY DEF Held, Lit
  <2>2. PICK t \in States : TargetPanelClock(u, p, FALSE) = Done(t) /\ Lost(u, t)
    BY <1>3, <2>1, ClocksGoOff DEF Bounded
  <2>3. /\ ~t.gdsc /\ ~t.light /\ AtRest(t) /\ t.enabled = e /\ (t.wrong # {} => t.refused)
    BY <1>7, <2>1, <2>2 DEF Lost
  <2>4. Ends(Power(t), Dark(e), Dark(e))
    BY <1>3, <2>3, PowerGoesOff
  <2>5. Clock(u) = Power(t)
    <3>1. Clock(u) = Then(Done(t), Power)
      BY <2>2
    <3> HIDE DEF Power
    <3>2. Then(Done(t), Power) = Power(t)
      BY DEF Then, Done, Return
    <3> QED
      BY <3>1, <3>2
  <2> HIDE DEF Clock, Power
  <2> QED
    BY <2>4, <2>5
<1> HIDE DEF Clock
<1>8. ASSUME NEW t \in Held(id, p, e) PROVE Ends(Dim(t), Dark(e), Dark(e))
  <2> DEFINE ibb == IF p.wled THEN FALSE ELSE t.ibb
             u == [t EXCEPT !.light = FALSE, !.ibb = ibb]
  <2>1. t \in States
    BY DEF Held
  <2>2. ibb \in BOOLEAN
    BY <2>1 DEF States
  <2>3. BacklightCtrl(t, p, FALSE) = Done(u)
    BY DEF BacklightCtrl
  <2> HIDE DEF ibb
  <2>4. u \in States /\ ~u.light
    BY ZenonT(60), <2>1, <2>2 DEF States
  <2>5. /\ u.panel = t.panel /\ u.clocks = t.clocks /\ u.enabled = t.enabled
        /\ u.refused = t.refused /\ u.gdsc = t.gdsc /\ u.pll = t.pll
        /\ u.out = t.out /\ u.wrong = t.wrong /\ u.phy = t.phy
    BY <2>1 DEF States
  <2> HIDE DEF u
  <2>6. u \in Held(id, p, e)
    BY <2>4, <2>5 DEF Held, Bounded, Lit, Running
  <2>7. Dim(t) = Clock(u)
    <3>1. Dim(t) = Then(Done(u), Clock)
      BY <2>3
    <3>2. Then(Done(u), Clock) = Clock(u)
      BY DEF Then, Done, Return
    <3> QED
      BY <3>1, <3>2
  <2> HIDE DEF Dim
  <2> QED
    BY <1>7, <2>4, <2>6, <2>7
<1> HIDE DEF Dim
<1>9. ASSUME NEW t \in Held(id, p, e) PROVE Ends(Rest(t), Dark(e), Dark(e))
  <2>1. {0} \in SUBSET Controllers(p) /\ {} \in SUBSET Modes
    BY DEF Controllers
  <2>2. SetHost(t, {0}, {}) \in Held(id, p, e)
    BY <1>3, <2>1, HostOfTheHeld
  <2> QED
    BY <1>8, <2>2
<1> HIDE DEF Rest
<1>10. Ends(Then(PanelShutdown(stopped, p), Rest), Dark(e), Dark(e))
  BY <1>6, <1>9 DEF Then, Ends
<1> QED
  BY <1>2, <1>10

(* msm_display_off, when it is.                                            *)
LEMMA PictureIsKept ==
  ASSUME NEW id \in DOMAIN Panels, PanelData(id) \in Headers,
         NEW s \in Shown(id, PanelData(id)), ContSplash(s)
  PROVE  MsmDisplayOff(s) = Done(s)
<1>1. s \in States /\ s.panel = id /\ id # Nothing /\ Running(s, PanelData(id))
  BY DisplayAssumption DEF Shown, Playing, Configured, Lit, Nothing
<1>2. Mdp(s) = s
  BY <1>1, RunningIsOn DEF Mdp, Needs
<1>3. Dsi(s, Controllers(PanelData(id))) = s
  BY <1>1, RunningIsOn DEF Dsi, Needs
<1> QED
  BY <1>1, <1>2, <1>3 DEF MsmDisplayOff

(* Every panel of the list, and the one it runs on into, split or not.     *)
LEMMA PanelsAreSound ==
  ASSUME NEW id \in DOMAIN Panels
  PROVE  PanelData(id) \in Headers
<1>1. FallsTo(id) \in DOMAIN Panels
  BY DisplayAssumption DEF FallsTo
<1> DEFINE p == Panels[FallsTo(id)]
<1>2. p \in Headers
  BY <1>1, DisplayAssumption DEF Headers
<1>3. PanelData(id) = IF board.m8992 /\ p.dual THEN [p EXCEPT !.dstSplit = TRUE] ELSE p
  BY DEF PanelData
<1> HIDE DEF p
<1>4. [p EXCEPT !.dstSplit = TRUE] \in Headers
  BY <1>2 DEF Headers
<1> QED
  BY <1>2, <1>3, <1>4

(* oem_panel_select                                                        *)
LEMMA PanelIsListed ==
  ASSUME board \in Hardware, NEW name
  PROVE  PanelId(name) \in DOMAIN Panels \cup {Nothing}
BY DisplayAssumption DEF PanelId, DefaultPanel

(* The picture of the panel that was selected.                             *)
Pictured(s) == s.panel \in DOMAIN Panels /\ s \in Shown(s.panel, PanelData(s.panel)) /\ s.enabled
Undone(s) ==
  /\ ~s.enabled
  /\ \/ s.panel = Nothing /\ s \in Dark(FALSE)
     \/ s.panel \in DOMAIN Panels /\ s \in Tried(s.panel, PanelData(s.panel))

(* Before the start nothing is on.                                         *)
LEMMA OffIsDark == Off \in Dark(FALSE) /\ Off.panel = Nothing /\ Off.wrong = {}
<1>1. AtRest(Off) /\ ~Off.gdsc /\ ~Off.light /\ ~Off.out /\ ~Off.lcd /\ ~Off.enabled
      /\ Off.wrong = {} /\ Off.panel = Nothing
  BY DEF Off, AtRest, ClockNames
<1> QED
  BY <1>1, OffIsAState DEF Dark

(* A flag that is set changes nothing that was said of a display.          *)
LEMMA FlagsDoNotMatter ==
  ASSUME NEW id, NEW p, NEW e, NEW s \in States, NEW b \in BOOLEAN,
         NEW t \in {[s EXCEPT !.enabled = b], [s EXCEPT !.override = b], [s EXCEPT !.gop = b]}
  PROVE  /\ t \in States /\ t.panel = s.panel /\ t.refused = s.refused
         /\ s \in Shown(id, p) => t \in Shown(id, p)
         /\ s \in Tried(id, p) => t \in Tried(id, p)
         /\ s \in Dark(e) => t \in Dark(t.enabled)
<1>1. t \in States
  BY BegunIsAState
<1>2. /\ t.gdsc = s.gdsc /\ t.clocks = s.clocks /\ t.pll = s.pll /\ t.lcd = s.lcd
      /\ t.out = s.out /\ t.light = s.light /\ t.phy = s.phy /\ t.host = s.host
      /\ t.told = s.told /\ t.tg = s.tg /\ t.link = s.link /\ t.src = s.src /\ t.smp = s.smp
      /\ t.engine = s.engine /\ t.panel = s.panel /\ t.refused = s.refused /\ t.wrong = s.wrong
  <2>1. CASE t = [s EXCEPT !.enabled = b]
    BY <2>1 DEF States
  <2>2. CASE t = [s EXCEPT !.override = b]
    BY <2>2 DEF States
  <2>3. CASE t = [s EXCEPT !.gop = b]
    BY <2>3 DEF States
  <2> QED
    BY <2>1, <2>2, <2>3
<1>3. Lit(s, id, p) => Lit(t, id, p)
  BY <1>2 DEF Lit, Running
<1>4. s \in Shown(id, p) => t \in Shown(id, p)
  BY <1>1, <1>2, <1>3 DEF Shown, Playing, Configured
<1>5. s \in Tried(id, p) => t \in Tried(id, p)
  BY <1>1, <1>2, <1>3 DEF Tried, On, Open, Idle, Kept, AtRest
<1>6. s \in Dark(e) => t \in Dark(t.enabled)
  BY <1>1, <1>2 DEF Dark, AtRest
<1> QED
  BY <1>1, <1>2, <1>4, <1>5, <1>6

(* gcdb_display_init, of a display that is off.                            *)
LEMMA GcdbInitEnds ==
  ASSUME board \in Hardware, NEW name, NEW o \in GcdbDisplayInit(Off, name)
  PROVE  /\ o.ret = 0 => Pictured(o.s)
         /\ o.ret # 0 => Undone(o.s)
<1> DEFINE id == PanelId(name)
           begun == [Off EXCEPT !.panel = id]
           R == IF id = Nothing THEN Return(Off, -2) ELSE MsmDisplayInit(begun, PanelData(id))
<1>1. PICK q \in R : o = [q EXCEPT !.s.enabled = q.ret = 0]
  BY DEF GcdbDisplayInit
<1>2. id \in DOMAIN Panels \cup {Nothing}
  BY PanelIsListed
<1> HIDE DEF id
<1>3. CASE id = Nothing
  <2>1. q = [s |-> Off, ret |-> -2]
    BY <1>1, <1>3 DEF Return
  <2>2. o.ret = -2 /\ o.s = [Off EXCEPT !.enabled = FALSE]
    <3> DEFINE b == q.ret = 0
    <3>1. o = [q EXCEPT !.s.enabled = b]
      BY <1>1
    <3>2. b = FALSE
      BY <2>1
    <3> HIDE DEF b
    <3> QED
      BY <2>1, <3>1, <3>2
  <2> DEFINE s == [Off EXCEPT !.enabled = FALSE]
  <2>3. s \in Dark(s.enabled) /\ s.panel = Nothing
    BY OffIsAState, OffIsDark, FlagsDoNotMatter
  <2>4. ~s.enabled
    BY OffIsAState DEF States
  <2> HIDE DEF s
  <2>5. s \in Dark(FALSE)
    BY <2>3, <2>4 DEF Dark
  <2>6. o.s = s
    BY <2>2 DEF s
  <2>7. Undone(s)
    BY <2>3, <2>4, <2>5 DEF Undone
  <2> QED
    BY <2>2, <2>6, <2>7
<1>4. CASE id # Nothing
  <2>1. id \in DOMAIN Panels /\ PanelData(id) \in Headers
    BY <1>2, <1>4, PanelsAreSound
  <2>2. begun \in States /\ begun.panel = id
    BY ZenonT(60), <2>1, OffIsAState DEF States
  <2>3. AtRest(begun) /\ begun.wrong = {} /\ begun.tg = Off.tg /\ begun.link = Off.link
    BY DEF AtRest, Off, ClockNames
  <2> HIDE DEF begun
  <2> DEFINE p == PanelData(id)
  <2>4. Ends(MsmDisplayInit(begun, p), Shown(id, p), Tried(id, p))
    BY <2>1, <2>2, <2>3, DisplayInitEnds
  <2>5. q \in Outcomes /\ (q.ret = 0 => q.s \in Shown(id, p)) /\ (q.ret # 0 => q.s \in Tried(id, p))
    BY <1>1, <1>4, <2>4 DEF Ends
  <2> DEFINE s == q.s
             b == q.ret = 0
             t == [s EXCEPT !.enabled = b]
  <2>6. o.s = t /\ o.ret = q.ret
    BY <1>1, <2>5 DEF Outcomes
  <2>7. s \in States /\ b \in BOOLEAN
    BY <2>5 DEF Outcomes
  <2>8. (b => s \in Shown(id, p)) /\ (~b => s \in Tried(id, p))
    BY <2>5
  <2>12. b <=> o.ret = 0
    BY <2>6
  <2> HIDE DEF s, b, p
  <2>9. t.enabled = b
    BY <2>7 DEF States
  <2>10. /\ t.panel = s.panel
         /\ s \in Shown(id, p) => t \in Shown(id, p)
         /\ s \in Tried(id, p) => t \in Tried(id, p)
    BY <2>7, FlagsDoNotMatter
  <2>11. s.panel = id
    BY <2>8 DEF Shown, Playing, Configured, Tried, On, Lit, Idle, Kept
  <2> HIDE DEF t
  <2> QED
    BY <2>1, <2>6, <2>7, <2>8, <2>9, <2>10, <2>11, <2>12 DEF Pictured, Undone, p
<1> QED
  BY <1>3, <1>4

(* A start that failed is undone.                                          *)
LEMMA FailedStartIsUndone ==
  ASSUME NEW s, Undone(s), NEW r \in MsmDisplayOff([s EXCEPT !.override = TRUE])
  PROVE  r.s \in Dark(FALSE)
<1> DEFINE t == [s EXCEPT !.override = TRUE]
<1>1. s \in States
  BY DEF Undone, Dark, Tried, On, Idle
<1>2. t.enabled = s.enabled /\ t.override
  BY <1>1 DEF States
<1>3. CASE s.panel = Nothing /\ s \in Dark(FALSE)
  <2>1. t.panel = Nothing /\ t \in Dark(t.enabled)
    BY <1>1, <1>3, FlagsDoNotMatter
  <2>2. MsmDisplayOff(t) = Return(t, -1)
    <3> HIDE DEF t
    <3> QED
      BY <2>1 DEF MsmDisplayOff
  <2>3. t \in Dark(FALSE)
    <3>1. t \in States
      BY <2>1 DEF Dark
    <3>2. ~t.enabled
      BY <1>2 DEF Undone
    <3> HIDE DEF t
    <3>3. t.enabled = FALSE
      BY <3>1, <3>2 DEF States
    <3> QED
      BY <2>1, <3>3
  <2>5. r \in MsmDisplayOff(t)
    OBVIOUS
  <2> HIDE DEF t
  <2>4. r.s = t
    BY <2>2, <2>5 DEF Return
  <2> QED
    BY <2>3, <2>4
<1>4. CASE s.panel \in DOMAIN Panels /\ s \in Tried(s.panel, PanelData(s.panel))
  <2> DEFINE id == s.panel
             p == PanelData(id)
  <2>1. id \in DOMAIN Panels /\ p \in Headers /\ s \in Tried(id, p)
    BY <1>4, PanelsAreSound
  <2> HIDE DEF p, id
  <2>2. t \in Tried(id, p)
    BY <1>1, <2>1, FlagsDoNotMatter
  <2>3. ~ContSplash(t)
    <3> HIDE DEF t
    <3> QED
      BY <1>2 DEF ContSplash
  <2>4. ~t.enabled /\ t.enabled \in BOOLEAN /\ t.enabled = FALSE
    BY <1>1, <1>2 DEF Undone, States
  <2> HIDE DEF t
  <2>5. t \in Held(id, p, FALSE) /\ (t.refused \/ Open(t, p))
    BY <2>1, <2>2, <2>4, TriedIsHeld
  <2>6. Ends(MsmDisplayOff(t), Dark(FALSE), Dark(FALSE))
    BY <2>1, <2>3, <2>5, DisplayGoesOff DEF p
  <2>7. r \in MsmDisplayOff(t)
    BY DEF t
  <2> QED
    BY <2>6, <2>7 DEF Ends
<1> QED
  BY <1>3, <1>4 DEF Undone

(* target_display_init                                                     *)
LEMMA TargetInitEnds ==
  ASSUME board \in Hardware, NEW n, NEW t \in TargetDisplayInit(Off, n)
  PROVE  /\ t \in States
         /\ t.enabled => Pictured(t)
         /\ ~t.enabled => t \in Dark(FALSE)
<1> DEFINE Undo(o) == IF o.ret = 0 THEN {o.s}
                        ELSE {r.s : r \in MsmDisplayOff([o.s EXCEPT !.override = TRUE])}
           T == UNION {Undo(o) : o \in GcdbDisplayInit(Off, n.panel)}
<1>1. CASE Untouched(n)
  <2>1. t = Off
    BY <1>1 DEF TargetDisplayInit
  <2> QED
    BY <2>1, OffIsDark, OffIsAState DEF Dark
<1>2. CASE ~Untouched(n)
  <2>1. PICK x \in T : t = [x EXCEPT !.override = @ \/ ~Keeps(n)]
    BY <1>2 DEF TargetDisplayInit
  <2>2. PICK o \in GcdbDisplayInit(Off, n.panel) : x \in Undo(o)
    BY <2>1
  <2>3. Pictured(x) \/ x \in Dark(FALSE)
    <3>1. CASE o.ret = 0
      <4>1. Pictured(o.s) /\ x = o.s
        BY <2>2, <3>1, GcdbInitEnds
      <4> QED
        BY <4>1
    <3>2. CASE o.ret # 0
      <4>1. Undone(o.s)
        BY <3>2, GcdbInitEnds
      <4>2. PICK r \in MsmDisplayOff([o.s EXCEPT !.override = TRUE]) : x = r.s
        BY <2>2, <3>2
      <4> QED
        BY <4>1, <4>2, FailedStartIsUndone
    <3> QED
      BY <3>1, <3>2
  <2> DEFINE b == x.override \/ ~Keeps(n)
             y == [x EXCEPT !.override = b]
  <2>4. x \in States
    BY <2>3 DEF Pictured, Shown, Playing, Configured, Dark
  <2>5. t = y /\ b \in BOOLEAN
    BY <2>1
  <2> HIDE DEF b
  <2>6. y.enabled = x.enabled /\ y.panel = x.panel /\ y \in States
    BY ZenonT(60), <2>4, <2>5 DEF States
  <2>7. Pictured(x) => Pictured(y)
    <3> SUFFICES ASSUME Pictured(x) PROVE Pictured(y)
      OBVIOUS
    <3>1. y \in Shown(x.panel, PanelData(x.panel))
      BY <2>4, <2>5, FlagsDoNotMatter DEF Pictured
    <3> HIDE DEF y
    <3> QED
      BY <2>6, <3>1 DEF Pictured
  <2>8. x \in Dark(FALSE) => y \in Dark(y.enabled)
    BY <2>4, <2>5, FlagsDoNotMatter
  <2> HIDE DEF y
  <2>9. x \in Dark(FALSE) => ~x.enabled /\ y.enabled = FALSE
    BY <2>6 DEF Dark
  <2> QED
    BY <2>3, <2>5, <2>6, <2>7, <2>8, <2>9 DEF Pictured, Dark
<1> QED
  BY <1>1, <1>2

(* How often a client is in a list of lists.                               *)
Places(smp, who) == {b \in (1..Len(smp)) \X (1..3) : b[2] <= Len(smp[b[1]]) /\ smp[b[1]][b[2]] = who}

(* Counted, the blocks of two pipes and of one.                            *)
LEMMA OneAndOne ==
  ASSUME NEW S, NEW smp \in Seq(S), NEW x \in S, NEW y \in S,
         Len(smp) = 2, smp[1] = x, smp[2] = y,
         Len(x) = 1, x[1] = "left", Len(y) = 1, y[1] = "right"
  PROVE  Cardinality(Places(smp, "left")) = 1 /\ Cardinality(Places(smp, "right")) = 1
<1>1. \A i \in 1..2 : i = 1 \/ i = 2
  OBVIOUS
<1>2. \A b \in (1..2) \X (1..3) : b[1] \in 1..2 /\ b[2] \in 1..3 /\ b = <<b[1], b[2]>>
  OBVIOUS
<1>3. \A b \in (1..2) \X (1..3) : b[1] = 1 \/ b[1] = 2
  BY <1>1, <1>2
<1>4. <<1, 1>> \in (1..2) \X (1..3) /\ <<2, 1>> \in (1..2) \X (1..3)
  OBVIOUS
<1>5. Places(smp, "left") = {<<1, 1>>}
  <2>1. ASSUME NEW b \in Places(smp, "left") PROVE b = <<1, 1>>
    <3>1. b \in (1..2) \X (1..3) /\ b[2] <= Len(smp[b[1]]) /\ smp[b[1]][b[2]] = "left"
      BY DEF Places
    <3>2. CASE b[1] = 1
      BY <1>2, <3>1, <3>2
    <3>3. CASE b[1] = 2
      BY <1>2, <3>1, <3>3
    <3> QED
      BY <1>3, <3>1, <3>2, <3>3
  <2>2. <<1, 1>> \in Places(smp, "left")
    BY <1>4 DEF Places
  <2> QED
    BY <2>1, <2>2
<1>6. Places(smp, "right") = {<<2, 1>>}
  <2>1. ASSUME NEW b \in Places(smp, "right") PROVE b = <<2, 1>>
    <3>1. b \in (1..2) \X (1..3) /\ b[2] <= Len(smp[b[1]]) /\ smp[b[1]][b[2]] = "right"
      BY DEF Places
    <3>2. CASE b[1] = 1
      BY <1>2, <3>1, <3>2
    <3>3. CASE b[1] = 2
      BY <1>2, <3>1, <3>3
    <3> QED
      BY <1>3, <3>1, <3>2, <3>3
  <2>2. <<2, 1>> \in Places(smp, "right")
    BY <1>4 DEF Places
  <2> QED
    BY <2>1, <2>2
<1> QED
  BY <1>5, <1>6, FS_Singleton

LEMMA TwoOfOne ==
  ASSUME NEW S, NEW smp \in Seq(S), NEW x \in S, Len(smp) = 1, smp[1] = x,
         Len(x) = 2, x[1] = "left", x[2] = "left"
  PROVE  Cardinality(Places(smp, "left")) = 2
<1>1. \A i \in 1..2 : i = 1 \/ i = 2
  OBVIOUS
<1>2. \A b \in (1..1) \X (1..3) : b[1] = 1 /\ b[2] \in 1..3 /\ b = <<b[1], b[2]>>
  OBVIOUS
<1>3. <<1, 1>> \in (1..1) \X (1..3) /\ <<1, 2>> \in (1..1) \X (1..3)
  OBVIOUS
<1>4. Places(smp, "left") = {<<1, 1>>} \cup {<<1, 2>>}
  <2>1. ASSUME NEW b \in Places(smp, "left") PROVE b = <<1, 1>> \/ b = <<1, 2>>
    <3>1. b \in (1..1) \X (1..3) /\ b[2] <= 2
      BY <1>2 DEF Places
    <3> QED
      BY <1>2, <3>1
  <2>2. <<1, 1>> \in Places(smp, "left") /\ <<1, 2>> \in Places(smp, "left")
    BY <1>3 DEF Places
  <2> QED
    BY <2>1, <2>2
<1>5. IsFiniteSet({<<1, 1>>}) /\ Cardinality({<<1, 1>>}) = 1
  BY FS_Singleton
<1>6. <<1, 2>> \notin {<<1, 1>>}
  OBVIOUS
<1> DEFINE A == {<<1, 1>>}
           z == <<1, 2>>
<1>7. Places(smp, "left") = A \cup {z} /\ IsFiniteSet(A) /\ Cardinality(A) = 1 /\ z \notin A
  BY <1>4, <1>5, <1>6
<1> HIDE DEF A, z
<1>8. Cardinality(A \cup {z}) = 2
  <2>1. Cardinality(A \cup {z}) = IF z \in A THEN Cardinality(A) ELSE Cardinality(A) + 1
    BY <1>7, FS_AddElement
  <2> QED
    BY <1>7, <2>1
<1> QED
  BY <1>7, <1>8

(* Every pipe's line buffers hold two lines of its pixels.                 *)
LEMMA EnoughBlocks ==
  ASSUME NEW p \in Headers, NEW who \in {"left"} \cup (IF p.dualPipe THEN {"right"} ELSE {})
  PROVE  Cardinality(Places(SmpSetup(p), who)) * 8192 >= (IF p.dualPipe THEN 1024 ELSE 2048) * 6
<1> DEFINE S == Seq({"left", "right"})
<1>1. CASE p.dualPipe
  <2> DEFINE smp == <<<<"left">>, <<"right">>>>
             x == <<"left">>
             y == <<"right">>
  <2>1. /\ smp \in Seq(S) /\ x \in S /\ y \in S /\ Len(smp) = 2 /\ smp[1] = x /\ smp[2] = y
        /\ Len(x) = 1 /\ x[1] = "left" /\ Len(y) = 1 /\ y[1] = "right"
    OBVIOUS
  <2>2. SmpSetup(p) = smp
    BY <1>1, SmpIs
  <2> HIDE DEF smp, x, y, S
  <2>3. Cardinality(Places(smp, "left")) = 1 /\ Cardinality(Places(smp, "right")) = 1
    BY <2>1, OneAndOne
  <2> QED
    BY <1>1, <2>2, <2>3
<1>2. CASE ~p.dualPipe
  <2> DEFINE smp == <<<<"left", "left">>>>
             x == <<"left", "left">>
  <2>1. /\ smp \in Seq(S) /\ x \in S /\ Len(smp) = 1 /\ smp[1] = x
        /\ Len(x) = 2 /\ x[1] = "left" /\ x[2] = "left"
    OBVIOUS
  <2>2. SmpSetup(p) = smp
    BY <1>2, SmpIs
  <2> HIDE DEF smp, x, S
  <2>3. Cardinality(Places(smp, "left")) = 2
    BY <2>1, TwoOfOne
  <2> QED
    BY <1>2, <2>2, <2>3
<1> QED
  BY <1>1, <1>2

-----------------------------------------------------------------------------
(* The display off, showing the panel's picture, or dark.                  *)
DisplayInvariant ==
  /\ board \in Hardware /\ phase \in {"off", "shown", "failed", "kept", "stopped", "handed"}
  /\ phase = "off" => disp = Off
  /\ phase \in {"shown", "kept", "handed"} => Pictured(disp)
  /\ phase \in {"failed", "stopped"} => disp \in Dark(disp.enabled)
  /\ phase = "failed" => ~disp.enabled

(* No start, stop or second stage leads out of that.                       *)
LEMMA DisplayIsAlwaysSound == DisplaySpec => []DisplayInvariant
<1>1. DisplayInit => DisplayInvariant
  BY DEF DisplayInit, DisplayInvariant
<1>2. DisplayInvariant /\ [DisplayNext]_displayVars => DisplayInvariant'
  <2> SUFFICES ASSUME DisplayInvariant, [DisplayNext]_displayVars PROVE DisplayInvariant'
    OBVIOUS
  <2> USE DEF DisplayInvariant
  <2>1. board' = board
    BY DEF DisplayNext, Start, Shutdown, SecondStage, displayVars
  <2>2. \A id : PanelData(id)' = PanelData(id)
    BY <2>1 DEF PanelData
  <2>3. \A s : Pictured(s)' = Pictured(s)
    BY <2>2 DEF Pictured
  <2>4. CASE Start
    <3>10. PICK n \in Named : \E t \in TargetDisplayInit(disp, n) :
             /\ \E gop \in GopOutcomes(t) : disp' = [t EXCEPT !.gop = gop]
             /\ phase' = IF t.enabled THEN "shown" ELSE "failed"
      BY <2>4 DEF Start
    <3>11. PICK t \in TargetDisplayInit(disp, n) :
             /\ \E gop \in GopOutcomes(t) : disp' = [t EXCEPT !.gop = gop]
             /\ phase' = IF t.enabled THEN "shown" ELSE "failed"
      BY <3>10
    <3>1. PICK gop \in GopOutcomes(t) :
            disp' = [t EXCEPT !.gop = gop] /\ phase' = IF t.enabled THEN "shown" ELSE "failed"
      BY <3>11
    <3>2. disp = Off /\ gop \in BOOLEAN
      BY <2>4 DEF Start, GopOutcomes
    <3>3. /\ t \in States
          /\ t.enabled => Pictured(t)
          /\ ~t.enabled => t \in Dark(FALSE)
      BY <3>1, <3>2, TargetInitEnds
    <3> DEFINE u == [t EXCEPT !.gop = gop]
    <3>4. u.enabled = t.enabled /\ u.panel = t.panel
      BY <3>3 DEF States
    <3>5. Pictured(t) => Pictured(u)
      <4> SUFFICES ASSUME Pictured(t) PROVE Pictured(u)
        OBVIOUS
      <4>1. u \in Shown(t.panel, PanelData(t.panel))
        BY <3>2, <3>3, FlagsDoNotMatter DEF Pictured
      <4> HIDE DEF u
      <4> QED
        BY <3>4, <4>1 DEF Pictured
    <3>6. t \in Dark(FALSE) => u \in Dark(u.enabled)
      BY <3>2, <3>3, FlagsDoNotMatter
    <3>7. disp' = u
      BY <3>1
    <3> HIDE DEF u
    <3>8. CASE t.enabled
      <4>1. Pictured(disp')
        BY <3>3, <3>5, <3>7, <3>8
      <4>2. Pictured(disp)'
        BY <2>1, <4>1 DEF Pictured, PanelData
      <4> QED
        BY <2>1, <3>1, <3>8, <4>2
    <3>9. CASE ~t.enabled
      BY <2>1, <3>1, <3>3, <3>4, <3>6, <3>7, <3>9
    <3> QED
      BY <3>8, <3>9
  <2>5. CASE Shutdown
    <3>1. CASE ~disp.enabled
      <4>1. phase = "failed" /\ disp' = disp /\ phase' = "stopped"
        BY <2>5, <3>1 DEF Shutdown, Pictured
      <4> QED
        BY <2>1, <4>1
    <3>2. CASE disp.enabled
      <4>1. phase = "shown" /\ Pictured(disp)
        BY <2>5, <3>2 DEF Shutdown
      <4>2. PICK o \in MsmDisplayOff(disp) : disp' = o.s
        BY <2>5, <3>2 DEF Shutdown
      <4> DEFINE id == disp.panel
      <4>3. id \in DOMAIN Panels /\ PanelData(id) \in Headers /\ disp \in Shown(id, PanelData(id))
        BY <4>1, PanelsAreSound DEF Pictured
      <4>4. CASE ContSplash(disp)
        <5>1. MsmDisplayOff(disp) = Done(disp)
          BY <4>3, <4>4, PictureIsKept
        <5>2. disp' = disp
          BY <4>2, <5>1 DEF Done, Return
        <5>3. phase' = "kept"
          BY <2>5, <3>2, <4>4 DEF Shutdown
        <5>4. Pictured(disp)'
          BY <2>1, <4>1, <5>2 DEF Pictured, PanelData
        <5> QED
          BY <2>1, <5>3, <5>4
      <4>5. CASE ~ContSplash(disp)
        <5>1. disp \in Held(id, PanelData(id), disp.enabled) /\ (disp.refused \/ Open(disp, PanelData(id)))
          BY <4>3, TriedIsHeld
        <5>2. Ends(MsmDisplayOff(disp), Dark(disp.enabled), Dark(disp.enabled))
          BY <4>3, <4>5, <5>1, DisplayGoesOff
        <5>3. disp' \in Dark(disp.enabled)
          BY <4>2, <5>2 DEF Ends
        <5>4. disp' \in Dark(disp'.enabled)
          BY <5>3 DEF Dark
        <5>5. phase' = "stopped"
          BY <2>5, <3>2, <4>5 DEF Shutdown
        <5> QED
          BY <2>1, <5>4, <5>5
      <4> QED
        BY <4>4, <4>5
    <3> QED
      BY <3>1, <3>2
  <2>6. CASE SecondStage
    <3>1. disp' = disp /\ phase = "kept" /\ phase' = "handed"
      BY <2>6 DEF SecondStage
    <3>2. Pictured(disp)'
      BY <2>1, <3>1 DEF Pictured, PanelData
    <3> QED
      BY <2>1, <3>1, <3>2
  <2>7. CASE UNCHANGED displayVars
    <3>1. disp' = disp /\ phase' = phase
      BY <2>7 DEF displayVars
    <3>2. Pictured(disp)' = Pictured(disp)
      BY <2>1, <3>1 DEF Pictured, PanelData
    <3> QED
      BY <2>1, <3>1, <3>2
  <2> QED
    BY <2>4, <2>5, <2>6, <2>7 DEF DisplayNext
<1> QED
  BY <1>1, <1>2, PTL DEF DisplaySpec

(* What a picture is known to have.                                        *)
LEMMA PicturesAreSound ==
  ASSUME Pictured(disp)
  PROVE  /\ disp.panel \in DOMAIN Panels /\ PanelData(disp.panel) \in Headers
         /\ disp \in Configured(disp.panel, PanelData(disp.panel))
         /\ disp \in States /\ Lit(disp, disp.panel, PanelData(disp.panel))
         /\ disp.engine /\ disp.told /\ disp.light
BY PanelsAreSound DEF Pictured, Shown, Playing, Configured

(* Whatever fails on the way of msm_display_init and msm_display_off, no   *)
(* MDP or DSI register is touched without its power and clocks and no      *)
(* command is sent that the panel cannot hear, unless target_panel_clock   *)
(* itself failed and the start was undone.                                 *)
THEOREM DisplayIsTouchedWhenReady == DisplaySpec => []TouchedWhenReady
<1>1. DisplayInvariant => TouchedWhenReady
  <2>1. Pictured(disp) => disp.wrong = {}
    BY PicturesAreSound DEF Lit
  <2> QED
    BY <2>1, OffIsDark DEF DisplayInvariant, TouchedWhenReady, Dark
<1> QED
  BY <1>1, DisplayIsAlwaysSound, PTL

(* A target_display_init that succeeded leaves the panel told, the engine  *)
(* and the light on with clocks that run, enough line buffers for every    *)
(* pipe, and the MDP sending what the links expect.                        *)
THEOREM PicturesAreShown == DisplaySpec => []PictureIsShown
<1>1. DisplayInvariant => PictureIsShown
  <2> SUFFICES ASSUME Pictured(disp), phase \in {"shown", "kept"} PROVE PictureIsShown
    BY DEF DisplayInvariant, PictureIsShown
  <2> DEFINE p == PanelData(disp.panel)
             Uses(c) == c = 0 \/ p.dual
  <2>1. /\ p \in Headers /\ disp \in Configured(disp.panel, p) /\ disp \in States
        /\ Lit(disp, disp.panel, p) /\ disp.engine /\ disp.told /\ disp.light
    BY PicturesAreSound
  <2>2. disp.out /\ disp.lcd = p.lcd /\ disp.smp = SmpSetup(p)
        /\ disp.tg = Sends(p) /\ disp.link = Sends(p)
    BY <2>1 DEF Lit, Configured
  <2>3. PictureIsShown <=>
          /\ disp.out /\ disp.engine /\ disp.light /\ disp.told
          /\ disp.lcd = p.lcd
          /\ \A c \in {0, 1} : Uses(c) => DsiOn(disp, c)
          /\ \A who \in {"left"} \cup (IF p.dualPipe THEN {"right"} ELSE {}) :
               Blocks(who) * 8192 >= (IF p.dualPipe THEN 1024 ELSE 2048) * 6
          /\ \A c \in {0, 1} : disp.tg[c] = disp.link[c] /\ (disp.tg[c] # Untimed <=> ~p.cmd /\ Uses(c))
    BY DEF PictureIsShown
  <2> HIDE DEF p
  <2>4. \A c \in {0, 1} : Uses(c) => DsiOn(disp, c)
    BY <2>1, RunningIsOn DEF Lit, Controllers
  <2>5. ASSUME NEW who \in {"left"} \cup (IF p.dualPipe THEN {"right"} ELSE {})
        PROVE  Blocks(who) * 8192 >= (IF p.dualPipe THEN 1024 ELSE 2048) * 6
    <3>1. Blocks(who) = Cardinality(Places(disp.smp, who))
      BY DEF Blocks, Places
    <3> QED
      BY <2>1, <2>2, <3>1, EnoughBlocks
  <2>6. \A c \in {0, 1} : disp.tg[c] = disp.link[c] /\ (disp.tg[c] # Untimed <=> ~p.cmd /\ Uses(c))
    <3>1. TgTimings(p) # Untimed /\ p.dual \in BOOLEAN /\ p.cmd \in BOOLEAN
      BY <2>1, TimingsAgree DEF Headers
    <3>2. CASE p.cmd
      BY <2>2, <3>2 DEF Sends, Off
    <3>3. CASE ~p.cmd
      <4>1. disp.tg = OnEach(p, TgTimings(p)) /\ disp.link = disp.tg
        BY <2>2, <3>3 DEF Sends
      <4>2. \A c \in {0, 1} : disp.tg[c] = IF Uses(c) THEN TgTimings(p) ELSE Untimed
        BY <4>1 DEF OnEach, Controllers
      <4> QED
        BY <3>1, <3>3, <4>1, <4>2
    <3> QED
      BY <3>2, <3>3
  <2> QED
    BY <2>1, <2>2, <2>3, <2>4, <2>5, <2>6
<1> QED
  BY <1>1, DisplayIsAlwaysSound, PTL

(* A start that failed, undone by msm_display_off, and a stop that need    *)
(* not keep the picture leave nothing on; one that keeps it leaves the     *)
(* pipe's registers as a second stage needs them.                          *)
THEOREM DisplayIsOffOrKept == DisplaySpec => []OffOrKept
<1>1. DisplayInvariant => OffOrKept
  <2> SUFFICES ASSUME DisplayInvariant PROVE OffOrKept
    OBVIOUS
  <2>1. ASSUME phase \in {"failed", "stopped"}
        PROVE  /\ ~disp.gdsc /\ ~disp.light /\ ~disp.out /\ ~disp.lcd
               /\ \A c \in DOMAIN disp.clocks : disp.clocks[c] = 0
    BY <2>1 DEF DisplayInvariant, Dark, States, AtRest
  <2>2. ASSUME phase = "handed"
        PROVE  SecondConfig = [base |-> "fb", width |-> PanelData(disp.panel).w,
                               height |-> PanelData(disp.panel).h]
    <3> DEFINE p == PanelData(disp.panel)
    <3>1. p \in Headers /\ disp \in Configured(disp.panel, p)
      BY <2>2, PicturesAreSound DEF DisplayInvariant
    <3> HIDE DEF p
    <3>2. disp.src = [base |-> "fb", ystride |-> p.w * 3, size |-> <<p.h, p.w>>]
      BY <3>1 DEF Configured, SourcePipe
    <3>3. (p.w * 3) \div 3 = p.w
      <4>1. p.w \in Nat
        BY <3>1 DEF Headers
      <4> QED
        BY <4>1
    <3>4. disp.src.base = "fb" /\ disp.src.ystride = p.w * 3 /\ disp.src.size[1] = p.h
      BY <3>2
    <3> QED
      BY <3>3, <3>4 DEF SecondConfig, p
  <2> QED
    BY <2>1, <2>2 DEF OffOrKept
<1> QED
  BY <1>1, DisplayIsAlwaysSound, PTL
=============================================================================
