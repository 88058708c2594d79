--------------------------- MODULE MCHsusbGadget ---------------------------
(* Small instances of HsusbGadget: an IN transfer of two chunks and an OUT *)
(* transfer, or a third transfer besides.                                  *)
EXTENDS HsusbGadget

CONSTANTS r1, r2, r3

MCLength == [r \in Requests |-> IF r = r1 THEN 2 ELSE 1]
MCIsIn   == [r \in Requests |-> r # r2]
=============================================================================
