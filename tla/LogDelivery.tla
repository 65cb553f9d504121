----------------------------- MODULE LogDelivery -----------------------------
(***************************************************************************)
(* What ingestion promises to whoever queries the logs tables, with no     *)
(* word of buffers, batches, offsets or files: records are published, a    *)
(* row stands for a published record, and one life of the processor (the   *)
(* time between two kills) inserts no record twice.  That a published      *)
(* record is ever inserted is not promised here: Ingest states how many    *)
(* records a kill may lose, and under which conditions none is lost.       *)
(***************************************************************************)
EXTENDS Integers, Bags

VARIABLES
    published,      \* records whose lines are on disk
    rows,           \* the logs tables, a bag of records
    kills           \* number of lives that ended abruptly

vars == <<published, rows, kills>>

Copies(p) == IF BagIn(p, rows) THEN rows[p] ELSE 0

Init ==
    /\ published = {}
    /\ rows = EmptyBag
    /\ kills = 0

Publish ==
    /\ published \subseteq published'
    /\ UNCHANGED <<rows, kills>>

\* A set of published records that this life has not inserted yet.
Fresh(S) ==
    /\ S \subseteq published
    /\ \A p \in S : Copies(p) <= kills

Insert ==
    /\ \E S \in SUBSET published : Fresh(S) /\ rows' = rows (+) SetToBag(S)
    /\ UNCHANGED <<published, kills>>

\* A kill may come when part of an insert is already committed.
KilledInInsert ==
    /\ \E S \in SUBSET published : Fresh(S) /\ rows' = rows (+) SetToBag(S)
    /\ kills' = kills + 1
    /\ UNCHANGED published

Next == Publish \/ Insert \/ KilledInInsert

Spec == Init /\ [][Next]_vars

\* A record is in the tables at most once more than there were kills: with none,
\* the tables hold no duplicate.
AtMostOncePerLife == \A p \in BagToSet(rows) : Copies(p) <= kills + 1

RowsArePublished == BagToSet(rows) \subseteq published
=============================================================================
