----------------------------- MODULE TimerDelay -----------------------------
(***************************************************************************)
(* MicroSecondDelay of QTimerLib and GPTTimerLib: polls of a counter that  *)
(* wraps at CounterSize (2^56 and 2^32) and that may have gone on by up to *)
(* MaxGap ticks between two polls.                                         *)
(***************************************************************************)
EXTENDS Integers

CONSTANTS CounterSize, MaxTicks, MaxGap

(* A delay is shorter than the counter's period.                           *)
ASSUME TimerDelayAssumption ==
  /\ CounterSize \in Nat /\ MaxTicks \in Nat /\ MaxGap \in Nat
  /\ MaxTicks < CounterSize

VARIABLE delay   \* pc, ticks to wait, count, InitCount, Timeout; elapsed
delayVars == <<delay>>

TimerDelayInit ==
  \E c \in 0..(CounterSize - 1) :
    delay = [pc |-> "idle", ticks |-> 0, count |-> c, init |-> c, timeout |-> c,
             elapsed |-> 0]

(* The counter is read again: both libraries read it whole.                *)
Poll(d, gap) == [d EXCEPT !.count = (@ + gap) % CounterSize, !.elapsed = @ + gap]

MicroSecondDelay ==
  /\ delay.pc \in {"idle", "done"}
  /\ \E ticks \in 0..MaxTicks :
       delay' = [delay EXCEPT !.pc = "wrap", !.ticks = ticks, !.init = delay.count,
                   !.timeout = (delay.count + ticks) % CounterSize, !.elapsed = 0]

StaysInFirstBug(d) == FALSE

(* While the timeout is behind: until the counter has wrapped.             *)
StaysInFirst(d) == d.timeout < d.count /\ d.init <= d.count

WaitForWrap ==
  /\ delay.pc = "wrap"
  /\ IF StaysInFirst(delay)
     THEN \E gap \in 0..MaxGap : delay' = Poll(delay, gap)
     ELSE delay' = [delay EXCEPT !.pc = "count"]

WaitForCount ==
  /\ delay.pc = "count"
  /\ IF delay.timeout > delay.count
     THEN \E gap \in 0..MaxGap : delay' = Poll(delay, gap)
     ELSE delay' = [delay EXCEPT !.pc = "done"]

TimerDelayNext ==
  /\ delay.elapsed <= 2 * CounterSize    \* bound: polls that miss the timeout
  /\ MicroSecondDelay \/ WaitForWrap \/ WaitForCount

TimerDelaySpec == TimerDelayInit /\ [][TimerDelayNext]_delayVars

(* A delay never ends early, wherever the counter stood and wrapped.       *)
DelayIsLongEnough == delay.pc = "done" => delay.elapsed >= delay.ticks
=============================================================================
