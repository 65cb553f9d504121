----------------------------- MODULE MCDailyJobs -----------------------------
(***************************************************************************)
(* DailyJobs for TLC: at the start two days are stored, the second of them *)
(* today, large enough to stand out against the first.                     *)
(***************************************************************************)
EXTENDS DailyJobs

CONSTANT timer

MCStartRows == [d \in Days |-> 12]
=============================================================================
