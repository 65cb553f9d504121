------------------------------ MODULE SearchInv ------------------------------
(***************************************************************************)
(* The inductive invariant behind the theorems about Search.               *)
(***************************************************************************)
EXTENDS Search, ImportsInv

\* A request for a hot day that has got beyond locating it holds its file.
OpenInv ==
    \A q \in Requests :
        step[q] \in {"open", "counted", "read", "answered"} /\ place[q] = "hot" => open[q] \in HotFiles

\* The count is that of the file that the next statement will read.
CountInv ==
    \A q \in Requests : step[q] = "counted" /\ (place[q] = "hot" \/ Undisturbed(q)) =>
        /\ CanRead(q)
        /\ total[q] = Cardinality(Matching(q, Source(q)))

\* The rows are those of one file that meet the conditions, and as many as were counted.
RowsInv ==
    \A q \in Requests : step[q] \in {"read", "answered"} =>
        /\ rows[q].from \in Sources
        /\ rows[q].ids = Matching(q, rows[q].from)
        /\ place[q] = "hot" => rows[q].from = open[q]
        /\ place[q] = "hot" \/ Undisturbed(q) => total[q] = Cardinality(rows[q].ids)
        /\ step[q] = "read" /\ place[q] = "cold" /\ Undisturbed(q) =>
              Readable(asked[q]) /\ holds[asked[q]] = rows[q].from

NamesInv ==
    \A q \in Requests : step[q] = "answered" /\ (place[q] = "hot" \/ Undisturbed(q)) =>
        names[q] \in {NoFile, rows[q].from}

SearchIInv ==
    ImportsIInv /\ SearchTypeOK /\ OpenInv /\ CountInv /\ RowsInv /\ NamesInv
=============================================================================
