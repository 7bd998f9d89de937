------------------------------ MODULE MCIdentity -----------------------------
(***************************************************************************)
(* Generations of three bits and all seven forgets before they wrap; a     *)
(* factory byte in which a bit of the generation is set already.           *)
(***************************************************************************)
EXTENDS Identity, Bitwise, TLC

MCXor(a, b) == a ^^ b

HostSymmetry == Permutations(Hosts)
=============================================================================
