--------------------------- MODULE MCUsbTransfer ---------------------------
(***************************************************************************)
(* Small instances of UsbTransfer: two IN transfers, one of them longer    *)
(* than a chunk, and an OUT transfer.                                      *)
(***************************************************************************)
EXTENDS UsbTransfer

CONSTANTS r1, r2, r3

MCLength == [r \in Requests |-> IF r = r1 THEN 3 ELSE IF r = r2 THEN 1 ELSE 2]
MCIsIn   == [r \in Requests |-> r # r3]

(* Symmetry is not used: the requests differ in length and direction.      *)
=============================================================================
