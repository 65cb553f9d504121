------------------------------- MODULE Search -------------------------------
(***************************************************************************)
(* search_partition against the files of module Imports: a request finds   *)
(* the file of its day, opens it, turns the protocol it asks for into an   *)
(* id, counts the rows, reads them, and then reads the names that the ids  *)
(* stand for.  A hot file that a request has open cannot be written, and   *)
(* stays when its name goes; a Parquet file is opened anew by every        *)
(* statement, and its names lie in a file of their own.                    *)
(*                                                                         *)
(* A source has one row of each of its protocols.  Protocols[f] lists them *)
(* in the order in which they came: the place of a name is its id.         *)
(***************************************************************************)
EXTENDS Imports

CONSTANTS
    Requests,       \* requests that may be in progress together
    MaxRequests,    \* bound: requests in a behaviour
    Protocols,      \* Protocols[f]: the protocols of f, in the order of their ids
    NoName

ASSUME SearchAssumption ==
    /\ MaxRequests \in Nat
    /\ \A f \in Sources : /\ Len(Protocols[f]) \in Nat
                          /\ DOMAIN Protocols[f] = 1 .. Len(Protocols[f])
    /\ NoName \notin {"TCP", "UDP"} /\ 1 \in Dates

VARIABLES
    step,       \* idle, located, open, counted, read, answered
    asked,      \* the date
    wanted,     \* TCP, UDP, or NoName for any
    place,      \* hot or cold
    open,       \* the hot file that is attached, or NoFile
    total,      \* the result of the COUNT
    rows,       \* the rows read: the file they come from, and their ids
    names,      \* the file whose names are used, or NoFile
    requests

requestVars == <<step, asked, wanted, place, open, total, rows, names>>
searchVars == <<requestVars, requests>>
vars == <<importVars, searchVars>>

Ids == Nat \ {0}

SearchTypeOK ==
    /\ step \in [Requests -> {"idle", "located", "open", "counted", "read", "answered"}]
    /\ asked \in [Requests -> Dates]
    /\ wanted \in [Requests -> {"TCP", "UDP", NoName}]
    /\ place \in [Requests -> {"hot", "cold"}]
    /\ open \in [Requests -> HotFiles \cup {NoFile}]
    /\ total \in [Requests -> Nat]
    /\ rows \in [Requests -> [from : Sources \cup {NoFile}, ids : SUBSET Ids]]
    /\ names \in [Requests -> Sources \cup {NoFile}]
    /\ requests \in Nat

NoRows == [from |-> NoFile, ids |-> {}]

SearchInit ==
    /\ Init
    /\ step = [q \in Requests |-> "idle"] /\ asked = [q \in Requests |-> 1]
    /\ wanted = [q \in Requests |-> NoName] /\ place = [q \in Requests |-> "cold"]
    /\ open = [q \in Requests |-> NoFile] /\ total = [q \in Requests |-> 0]
    /\ rows = [q \in Requests |-> NoRows] /\ names = [q \in Requests |-> NoFile]
    /\ requests = 0

-----------------------------------------------------------------------------
(* Protocols and their ids *)

\* _PROTO_NAME and its inverse: what an id means where no dictionary says it.
ByConvention == [p \in {"TCP", "UDP"} |-> IF p = "TCP" THEN 1 ELSE 2]

NameOf(f, i) ==
    IF f # NoFile /\ i \in DOMAIN Protocols[f] THEN Protocols[f][i]
    ELSE IF i = 1 THEN "TCP" ELSE IF i = 2 THEN "UDP" ELSE NoName

IdsOf(f, p) == {i \in DOMAIN Protocols[f] : Protocols[f][i] = p}

\* The dictionary of file f has no place for p that the convention would not give it.
Conventional(f, p) ==
    \A i \in DOMAIN Protocols[f] : Protocols[f][i] = p <=> i = ByConvention[p]

\* Mutant: the dictionary of the hot file is not asked.
FilterByConvention(q) == {ByConvention[wanted[q]]}

\* A hot file's dictionary is asked; a Parquet file has none, and a protocol that is not
\* there has no id: then the convention decides.
FilterIds(q) ==
    IF place[q] = "hot" /\ IdsOf(open[q], wanted[q]) # {} THEN IdsOf(open[q], wanted[q])
    ELSE {ByConvention[wanted[q]]}

\* The rows of file f that meet the conditions.
Matching(q, f) ==
    IF wanted[q] = NoName THEN DOMAIN Protocols[f] ELSE DOMAIN Protocols[f] \cap FilterIds(q)

-----------------------------------------------------------------------------
(* A request *)

Ends(q) ==
    /\ step' = [step EXCEPT ![q] = "idle"] /\ asked' = [asked EXCEPT ![q] = 1]
    /\ wanted' = [wanted EXCEPT ![q] = NoName] /\ place' = [place EXCEPT ![q] = "cold"]
    /\ open' = [open EXCEPT ![q] = NoFile] /\ total' = [total EXCEPT ![q] = 0]
    /\ rows' = [rows EXCEPT ![q] = NoRows] /\ names' = [names EXCEPT ![q] = NoFile]

\* _resolve_partition: a hot file hides the Parquet file of its day.
Locate(q, d, p) ==
    /\ step[q] = "idle" /\ requests < MaxRequests
    /\ hot[d] # NoFile \/ Exists(d)
    /\ requests' = requests + 1
    /\ step' = [step EXCEPT ![q] = "located"]
    /\ asked' = [asked EXCEPT ![q] = d] /\ wanted' = [wanted EXCEPT ![q] = p]
    /\ place' = [place EXCEPT ![q] = IF hot[d] # NoFile THEN "hot" ELSE "cold"]
    /\ UNCHANGED <<open, total, rows, names, importVars>>

\* The file that the next statement of q reads.
Source(q) == IF place[q] = "hot" THEN open[q] ELSE holds[asked[q]]

\* A Parquet file that is gone or torn makes every statement raise.
CanRead(q) == place[q] = "hot" \/ Readable(asked[q])

OpenHot(q) ==
    /\ step[q] = "located" /\ place[q] = "hot"
    /\ hot[asked[q]] # NoFile
    /\ step' = [step EXCEPT ![q] = "open"]
    /\ open' = [open EXCEPT ![q] = hot[asked[q]]]
    /\ UNCHANGED <<asked, wanted, place, total, rows, names, requests, importVars>>

OpenCold(q) ==
    /\ step[q] = "located" /\ place[q] = "cold"
    /\ CanRead(q)
    /\ step' = [step EXCEPT ![q] = "open"]
    /\ UNCHANGED <<asked, wanted, place, open, total, rows, names, requests, importVars>>

Fail(q) ==
    /\ \/ step[q] = "located" /\ place[q] = "hot" /\ hot[asked[q]] = NoFile
       \/ step[q] \in {"located", "open", "counted"} /\ ~CanRead(q)
    /\ Ends(q)
    /\ UNCHANGED <<requests, importVars>>

\* Mutant: the count is that of the day.
CountOfDay(q) == Cardinality(DOMAIN Protocols[Source(q)])

CountOf(q) == Cardinality(Matching(q, Source(q)))

\* SELECT COUNT(*)
Count(q) ==
    /\ step[q] = "open" /\ CanRead(q)
    /\ step' = [step EXCEPT ![q] = "counted"]
    /\ total' = [total EXCEPT ![q] = CountOf(q)]
    /\ UNCHANGED <<asked, wanted, place, open, rows, names, requests, importVars>>

\* SELECT ... ORDER BY ts LIMIT: one page holds them all here.
ReadRows(q) ==
    /\ step[q] = "counted" /\ CanRead(q)
    /\ step' = [step EXCEPT ![q] = "read"]
    /\ rows' = [rows EXCEPT ![q] = [from |-> Source(q), ids |-> Matching(q, Source(q))]]
    /\ UNCHANGED <<asked, wanted, place, open, total, names, requests, importVars>>

\* Mutant: the place is looked up once more.
NamesThere(q) == IF hot[asked[q]] # NoFile THEN hot[asked[q]] ELSE sidecar[asked[q]]

NamesFile(q) == IF place[q] = "hot" THEN open[q] ELSE sidecar[asked[q]]

\* The tables of the hot file, or the sidecar as it is by now.
ReadNames(q) ==
    /\ step[q] = "read"
    /\ step' = [step EXCEPT ![q] = "answered"]
    /\ names' = [names EXCEPT ![q] = NamesFile(q)]
    /\ UNCHANGED <<asked, wanted, place, open, total, rows, requests, importVars>>

Close(q) ==
    /\ step[q] = "answered"
    /\ Ends(q)
    /\ UNCHANGED <<requests, importVars>>

RequestStep(q) ==
    \/ \E d \in Dates, p \in {"TCP", "UDP", NoName} : Locate(q, d, p)
    \/ OpenHot(q) \/ OpenCold(q) \/ Fail(q) \/ Count(q) \/ ReadRows(q) \/ ReadNames(q) \/ Close(q)

Next ==
    \/ ImportNext /\ UNCHANGED searchVars
    \/ \E q \in Requests : RequestStep(q)

Spec == SearchInit /\ [][Next]_vars

-----------------------------------------------------------------------------
(* Properties *)

Undisturbed(q) == asked[q] \notin crossed \cup redone

\* search_partition reads the names after the rows, and from another file when the day is
\* cold: in a hot day, and in a cold one that one writer at a time has worked on and none has
\* redone, the names of an answer are those of the file that its rows come from, or missing.
AnswersNamed ==
    \A q \in Requests : step[q] = "answered" /\ (place[q] = "hot" \/ Undisturbed(q)) =>
        names[q] \in {NoFile, rows[q].from}

\* search_partition counts and reads in two statements: on such a day they see the same rows.
TotalFits ==
    \A q \in Requests : step[q] = "answered" /\ (place[q] = "hot" \/ Undisturbed(q)) =>
        total[q] = Cardinality(rows[q].ids)

\* search.py, "protocolo": a search for a protocol returns the rows of that protocol and no
\* others, where the hot file's dictionary has it, or the ids follow the convention.
FilterTrue ==
    \A q \in Requests :
        LET f == rows[q].from IN
        step[q] = "answered" /\ wanted[q] # NoName
           /\ ((place[q] = "hot" /\ IdsOf(f, wanted[q]) # {}) \/ Conventional(f, wanted[q]))
        => rows[q].ids = IdsOf(f, wanted[q])

\* search.py: hot and cold are transparent to a search, and docs/ARCHITECTURE.md: the
\* protocol works in both.  The rows returned for a protocol are shown with its name.
FilterMatchesNames ==
    \A q \in Requests : step[q] = "answered" /\ wanted[q] # NoName =>
        \A i \in rows[q].ids : NameOf(names[q], i) = wanted[q]
=============================================================================
