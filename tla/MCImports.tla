----------------------------- MODULE MCImports -----------------------------
(***************************************************************************)
(* Imports for TLC: one date, two raw files, an old database and a hot     *)
(* file of it, and two runs of the tools.                                  *)
(***************************************************************************)
EXTENDS ImportsInv, TLC

MCDateOf == [f \in Sources |-> 1]

\* Neither runs nor raw files are told apart.
Symmetry == Permutations(Runs) \cup Permutations(RawFiles)
=============================================================================
