------------------------------ MODULE KeyFifo ------------------------------
(***************************************************************************)
(* What a queue of keys promises its readers: the newest Capacity keys, in *)
(* the order they were typed.  A key leaves from the front, because it was *)
(* read or because a newer one needed the room.                            *)
(***************************************************************************)
EXTENDS Naturals, Sequences

CONSTANTS
  Key,      \* the keys
  Capacity  \* how many the queue holds

VARIABLE keys

Newest(s) == IF Len(s) > Capacity THEN Tail(s) ELSE s

FifoInit == keys = <<>>

Typed(k) == keys' = Newest(Append(keys, k))
Taken(s) == s # <<>> /\ keys' = Tail(s)

(* A read looks at the device first: the key it finds there may be the one *)
(* it returns.                                                             *)
FifoNext ==
  \/ \E k \in Key : Typed(k)
  \/ Taken(keys)
  \/ \E k \in Key : Taken(Newest(Append(keys, k)))

=============================================================================
