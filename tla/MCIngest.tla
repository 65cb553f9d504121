------------------------------ MODULE MCIngest ------------------------------
(***************************************************************************)
(* Ingest for TLC.  The .cfg files give every constant its value; lines    *)
(* and receivers are model values.                                         *)
(***************************************************************************)
EXTENDS IngestInv, TLC

\* Receivers are interchangeable (used where only safety is checked).
ReceiverSymmetry == Permutations(Receivers)
=============================================================================
