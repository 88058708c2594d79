----------------------------- MODULE Registers ------------------------------
(***************************************************************************)
(* Register sequences in the manner of Routine: s.reg maps the registers   *)
(* that were touched to their values, and a value is the set of its fields *)
(* that are not zero, each a tuple that begins with the field's name.      *)
(***************************************************************************)
EXTENDS Routine, Sequences

ValueOf(s, r)   == IF r \in DOMAIN s.reg THEN s.reg[r] ELSE {}
Put(s, r, v)    ==
  [s EXCEPT !.reg = [q \in DOMAIN s.reg \cup {r} |-> IF q = r THEN v ELSE s.reg[q]]]
Without(v, names) == {f \in v : f[1] \notin names}

(* A step of a sequence: a register is written, or read and written back   *)
(* with the fields of some names cleared and others set.                   *)
Store(r, v) == [modify |-> FALSE, reg |-> r, clear |-> {}, set |-> v]
Modify(r, clear, set) == [modify |-> TRUE, reg |-> r, clear |-> clear, set |-> set]
Written(s, st) ==
  IF st.modify THEN Without(ValueOf(s, st.reg), st.clear) \cup st.set ELSE st.set

Perform(s, steps, Step(_, _)) ==
  ForEach(1, Len(steps), s, LAMBDA i, t : Step(t, steps[i]))
============================================================================
