--------------------------- MODULE MCUsb30Gadget ---------------------------
(* Small instances of Usb30Gadget: an OUT transfer shorter than a packet   *)
(* with a transfer of two chunks, IN (r1) or OUT as well (r3).             *)
EXTENDS Usb30Gadget

CONSTANTS r1, r2, r3

MCLength == [r \in Requests |-> IF r = r2 THEN 1 ELSE 2]
MCIsIn   == [r \in Requests |-> r = r1]
=============================================================================
