--------------------------- MODULE PartitionsInv ---------------------------
(***************************************************************************)
(* The inductive invariant of Partitions.  RowsKept, for example, is not   *)
(* inductive: that a hot file may be removed rests on what the job copied  *)
(* from it, under a lock, several steps before.                            *)
(***************************************************************************)
EXTENDS Partitions

Working == jobAt \in {"copying", "copied", "replaced", "written"}

\* A request that has attached a hot file knows which.
OpenedInv ==
    \A r \in Readers : at[r] \in {"attached", "answered"} /\ place[r] = "hot" => opened[r] # None

\* Days of the job's listing keep their hot files until it comes to them, and the file
\* it copies from stays where it is, unwritten as long as it is locked.
JobInv ==
    /\ jobAt = "off" => todo = {}
    /\ \A d \in todo : hot[d] # None
    /\ Working => jobDay \notin todo
    /\ jobAt \in {"copying", "copied"} =>
          /\ snapFile # None
          /\ hot[jobDay] = snapFile
          /\ jobDay \notin cold
          /\ snap \subseteq table[jobDay][snapFile]
    /\ jobAt = "copying" => conn[jobDay] # hot[jobDay]
    /\ jobAt = "replaced" /\ jobDay \in cold => origin[jobDay] = snapFile

Excused(d) == late[d] \cup expired[d]

\* Where the rows of a day are: nowhere but in its files, in the Parquet file from the
\* moment it exists, and in the job's copy before.
RowsInv ==
    /\ RowsKept
    /\ \A d \in cold : stored[d] \subseteq parquet[d] \cup Excused(d)
    /\ jobAt \in {"copying", "copied"} => stored[jobDay] \subseteq snap \cup Excused(jobDay)
    /\ Working => snap \subseteq stored[jobDay]
    /\ jobAt \in {"replaced", "written"} =>
          stored[jobDay] \subseteq ColdRows(jobDay) \cup Excused(jobDay)
    /\ \A d \in Days : \A f \in Files : table[d][f] \subseteq stored[d]
    /\ \A d \in Days : parquet[d] \subseteq stored[d]

\* Ids in hand belong to the connection that is open: none is closed before the batch
\* is inserted.
NamesInv ==
    /\ NamesFromOwnFile
    /\ \A d \in Days : \A n \in batch[d] : coded[n] = conn[d]
    /\ \A d \in Days : batch[d] # {} => conn[d] # None
    /\ \A d \in Days : \A n \in batch[d] : n <= taken
    /\ \A d \in Days : \A f \in Files : \A n \in table[d][f] : n <= taken

\* A hot file beside a Parquet file of the same day holds all that the latter holds, unless
\* it was created after it.
TwinInv ==
    \A d \in cold : hot[d] # None /\ d \notin reopened => parquet[d] \subseteq table[d][hot[d]]

\* What r has to find, unless it is excused.
Owed(r) == due[r] \ late[asked[r]]
Bound(r) == asked[r] \notin reopened /\ due[r] \cap expired[asked[r]] = {}

\* Wherever a request stands, the file that it would turn to next has what it is owed.
Served(r) ==
    /\ at[r] # "idle" => due[r] \subseteq stored[asked[r]]
    /\ at[r] # "idle" /\ Bound(r) /\ hot[asked[r]] # None
          => Owed(r) \subseteq table[asked[r]][hot[asked[r]]]
    /\ at[r] = "attached" /\ place[r] = "hot" /\ Bound(r)
          => Owed(r) \subseteq table[asked[r]][opened[r]]
    /\ at[r] = "answered" /\ Bound(r) => Owed(r) \subseteq answer[r]
    /\ at[r] \in {"attached", "answered"} => place[r] # "none"

ReaderInv == \A r \in Readers : Served(r)

PartitionsIInv ==
    /\ TypeOK
    /\ OpenedInv
    /\ JobInv
    /\ RowsInv
    /\ NamesInv
    /\ SidecarMatches
    /\ TwinInv
    /\ ReaderInv
=============================================================================
