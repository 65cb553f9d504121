---------------------------- MODULE MCPartitions ----------------------------
(***************************************************************************)
(* Partitions for TLC.  The .cfg files give every constant its value;      *)
(* readers are model values.                                               *)
(***************************************************************************)
EXTENDS PartitionsInv
=============================================================================
