-------------------------------- MODULE Pwm ---------------------------------
(***************************************************************************)
(* The search for clock, divider and exponent of a pulse width, the older  *)
(* one (pm8921_pwm.c) and the newer (pm_pwm.c).  Periods are in units of   *)
(* the fastest clock's period; the sizes of the tables are PwmTable's.     *)
(***************************************************************************)
EXTENDS Integers, Sequences, FiniteSets

CONSTANTS
  PwmTable,    \* pt_t: a sequence for each clock of the periods divided
  PwmMaxExp,   \* PM_PWM_M_MAX
  PwmPeriods,  \* the periods the functions accept
  PwmDuty      \* the part of the period the output is high: PwmDuty of 4

ASSUME PwmAssumption ==
  /\ PwmTable \in Seq(Seq(Nat)) /\ PwmTable # <<>>
  /\ PwmTable[1] # <<>> /\ \A c \in DOMAIN PwmTable : Len(PwmTable[c]) = Len(PwmTable[1])
  /\ PwmMaxExp \in Nat /\ PwmPeriods \subseteq Nat

PwmMin(S) == CHOOSE x \in S : \A y \in S : x <= y
Settings == {<<c, d>> : c \in 1..Len(PwmTable), d \in 1..Len(PwmTable[1])}
Everything == Settings \X (0..PwmMaxExp)   \* with every exponent
Pt(s)    == PwmTable[s[1]][s[2]]
Abs(x)   == IF x < 0 THEN -x ELSE x
Earlier(s, t) == s[1] < t[1] \/ (s[1] = t[1] /\ s[2] < t[2])

(* What `tmp_p` is after m turns of `tmp_p >>= 1`, and of `tmp_p <<= 1`.    *)
Turns(p, step) ==
  LET tmp_p[m \in 0..PwmMaxExp] == IF m = 0 THEN p ELSE step[tmp_p[m - 1]] IN tmp_p
Halved(p)  == Turns(p, [x \in Nat |-> x \div 2])
Doubled(p) == Turns(p, [x \in Nat |-> 2 * x])

(* The period for one step of 6 bits, or of 9 when it is too long for that *)
MaxMpt == LET ps == {Pt(s) : s \in Settings}
          IN  Doubled(CHOOSE p \in ps : \A q \in ps : q <= p)[PwmMaxExp]
StepSize(period) == IF period \div 2^6 >= MaxMpt THEN 9 ELSE 6
PerStep(period)  == period \div 2^StepSize(period)

(* A candidate is [s, m, err]; of the best the first that is met wins.     *)
BestOf(cands) ==
  LET least == {c \in cands : c.err = PwmMin({k.err : k \in cands})}
  IN  CHOOSE c \in least : \A k \in least : c = k \/ Earlier(c.s, k.s)
                                            \/ (c.s = k.s /\ c.m <= k.m)

DutyValue(period, n) ==
  LET duty == (period * PwmDuty) \div 4
      v == IF period > 2^n THEN duty \div (period \div 2^n) ELSE (duty * 2^n) \div period
  IN  IF v > 2^n - 1 THEN 2^n - 1 ELSE v
Setting(best, period) ==
  [clk |-> best.s[1] - 1, div |-> best.s[2] - 1, m |-> best.m,
   n |-> StepSize(period), value |-> DutyValue(period, StepSize(period))]

(* pm8921_pwm_calc_period halves the period until the divided clock is not *)
(* shorter; that exponent or the one before, whichever errs less.          *)
CrossingBug(p, s, m) == [s |-> s, m |-> m, err |-> Pt(s) - Halved(p)[m]]

Crossing(p, s, m) ==
  LET cur  == Pt(s) - Halved(p)[m]
      last == Halved(p)[m - 1] - Pt(s)
  IN  IF m = 0 \/ cur < last THEN [s |-> s, m |-> m, err |-> cur]
      ELSE [s |-> s, m |-> m - 1, err |-> last]
Candidates8921(p) ==
  {Crossing(p, s, PwmMin({m \in 0..PwmMaxExp : Halved(p)[m] <= Pt(s)})) :
     s \in {s \in Settings : Halved(p)[PwmMaxExp] <= Pt(s)}}
CalcPeriod8921(period) ==
  LET c == Candidates8921(PerStep(period))
  IN  Setting(IF c = {} THEN [s |-> <<1, 1>>, m |-> 0] ELSE BestOf(c), period)

(* pm_pwm_calc_period doubles the divided clock until the error grows.     *)
Err8x41(p, s, m) == Abs(p - Doubled(Pt(s))[m])
Tried(p, s) ==
  {m \in 0..PwmMaxExp : \A k \in 1..(m - 1) : Err8x41(p, s, k) <= Err8x41(p, s, k - 1)}
CalcPeriod8x41(period) ==
  LET p == PerStep(period)
  IN  Setting(BestOf({[s |-> x[1], m |-> x[2], err |-> Err8x41(p, x[1], x[2])] :
                        x \in {y \in Everything : y[2] \in Tried(p, y[1])}}), period)

-----------------------------------------------------------------------------
Chosen(set) == <<<<set.clk + 1, set.div + 1>>, set.m>>

(* The search, which leaves its loop early, misses no setting that is      *)
(* closer by the measure it compares: the clock doubled m times against    *)
(* the period; or, of the clocks that the period can be halved down to,    *)
(* the clock against the period halved m times.                            *)
Best8x41(period) ==
  LET p == PerStep(period)
      Err(x) == Err8x41(p, x[1], x[2])
  IN  \A x \in Everything : Err(Chosen(CalcPeriod8x41(period))) <= Err(x)
Best8921(period) ==
  LET p == PerStep(period)
      Err(x) == Abs(Halved(p)[x[2]] - Pt(x[1]))
  IN  \A x \in Everything : Halved(p)[PwmMaxExp] <= Pt(x[1]) =>
                            Err(Chosen(CalcPeriod8921(period))) <= Err(x)
=============================================================================
