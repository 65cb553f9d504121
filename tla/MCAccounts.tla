----------------------------- MODULE MCAccounts -----------------------------
(***************************************************************************)
(* Accounts for TLC: at the start the table is empty, or holds one user    *)
(* who comes from the old version.                                         *)
(***************************************************************************)
EXTENDS Accounts, TLC

CONSTANTS admin, ana, p1, p2

MCMigrated == <<[name |-> ana, pw |-> p1, legacy |-> TRUE, role |-> "admin", active |-> TRUE]>>

Symmetry == Permutations(Requests)
=============================================================================
