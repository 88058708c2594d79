------------------------------ MODULE Routine ------------------------------
(***************************************************************************)
(* How the polled drivers are written down.  They run to completion on the *)
(* one processor, so that a routine is a map from the state it is called   *)
(* in to the set of its outcomes: a record of the state it leaves, s, and  *)
(* the code it returns, ret, 0 for success.  The operators below are the   *)
(* ways in which C composes such calls.                                    *)
(***************************************************************************)
EXTENDS Integers, FiniteSets

Return(s, code) == {[s |-> s, ret |-> code]}
Done(s)         == Return(s, 0)

(* if (first) return code; next                                            *)
Then(first, Next(_)) ==
  UNION {IF o.ret = 0 THEN Next(o.s) ELSE {o} : o \in first}

(* first; next, whatever the first returned.                               *)
Ignoring(first, Next(_)) == UNION {Next(o.s) : o \in first}

(* if (first) other                                                        *)
OrElse(first, Other(_)) ==
  UNION {IF o.ret = 0 THEN {o} ELSE Other(o.s) : o \in first}

(* for (i = a; i <= b; i++) if (body) return code                          *)
ForEach(a, b, s, Body(_, _)) ==
  LET upTo[i \in (a - 1)..b] ==
        IF i < a THEN Done(s)
        ELSE Then(upTo[i - 1], LAMBDA r : Body(i, r))
  IN  IF b < a THEN Done(s) ELSE upTo[b]
============================================================================
