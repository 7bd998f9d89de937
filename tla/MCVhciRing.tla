----------------------------- MODULE MCVhciRing ------------------------------
(***************************************************************************)
(* A ring of 11 bytes and packets of 3 and 4: two frames of 5, or a 5 and  *)
(* a 6, fill it to within a byte or exactly, at every offset; a third      *)
(* packet meets every amount of room from none to all.                     *)
(***************************************************************************)
EXTENDS VhciRing

MCBlank == [pkt |-> Nothing, at |-> 0]
=============================================================================
