------------------------------- MODULE IdMap -------------------------------
(***************************************************************************)
(* What a registry of ids promises to those who store its ids in rows: an  *)
(* id stands for one value, a value has one id, and neither changes ever.  *)
(***************************************************************************)
EXTENDS Naturals

VARIABLES
    ids,        \* pairs <<value, id>>, of the values that have an id
    issued      \* pairs <<value, id>> that have been returned to somebody

OneToOne(m) == \A p, q \in m : p[1] = q[1] <=> p[2] = q[2]

Init ==
    /\ OneToOne(ids)
    /\ issued = {}

\* New values get ids of their own, and only what the map holds is issued.
Next ==
    /\ ids \subseteq ids'
    /\ OneToOne(ids')
    /\ issued \subseteq issued' /\ issued' \subseteq issued \cup ids'

Spec == Init /\ [][Next]_<<ids, issued>>
=============================================================================
