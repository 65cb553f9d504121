------------------------------- MODULE MCIds -------------------------------
(***************************************************************************)
(* Ids for TLC.  Addresses, names and processes are model values; which    *)
(* address is which, and which name, makes no difference.                  *)
(***************************************************************************)
EXTENDS Ids, TLC

Symmetry == Permutations(Ips) \cup Permutations(Names)
=============================================================================
