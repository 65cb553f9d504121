------------------------------ MODULE IngestInv ------------------------------
(***************************************************************************)
(* The inductive invariant behind the safety theorems about Ingest, in     *)
(* named parts.  IngestProofs proves that it is one.                       *)
(***************************************************************************)
EXTENDS Ingest

\* _process_file is working through the buffer of cur, a flush included.
Reading == pc = "parse" \/ (pc = "insert" /\ after = "parse")

\* cur is to be archived, and the flush that comes first may be under way.
Archiving == pc = "move" \/ (pc = "insert" /\ after = "move")

\* How far this life of the processor has got in the file of hour h.
Progress(h) == IF Reading /\ h = cur THEN pos ELSE offset[h]

\* Receivers: the buffer never outgrows the count of writes, which is below
\* flush_every between two datagrams; an open file exists and is not of the future.
ReceiverInv ==
    \A r \in Receivers :
        /\ Len(buf[r]) <= writes[r] /\ writes[r] < FlushEvery
        /\ openHour[r] <= hour
        /\ openHour[r] # NoHour => loc[openHour[r]] # "absent"

\* Main loop: the file being visited and those still listed are in the stream
\* directory, a file leaves it only when its hour is over, and a flush returns to one
\* of the three places that call it.
ControlInv ==
    /\ after \in {"idle", "parse", "move"}
    /\ pc # "insert" => flushed = {}
    /\ \A h \in todo : loc[h] = "stream"
    /\ Reading \/ Archiving \/ pc = "archive" => loc[cur] = "stream" /\ cur \notin todo
    /\ pc = "forget" => loc[cur] = "processed"
    /\ Archiving => cur < hour
    /\ \A h \in Hours : loc[h] \in {"processed", "deleted"} => h < hour

\* Offsets never pass what is on disk, and reading goes forward from them.
OffsetInv ==
    /\ \A h \in Hours : offset[h] <= Len(content[h])
    /\ Reading => offset[cur] <= pos /\ pos <= eof /\ eof <= Len(content[cur])

\* The batch is full only inside the flush that _process_file calls, and then
\* holds a record that the saved offset has not passed.
BatchInv ==
    /\ IsFiniteSet(batch)
    /\ Cardinality(batch) <= BatchSize
    /\ ~(pc = "insert" /\ after = "parse") => Cardinality(batch) < BatchSize
    /\ pc = "insert" /\ after = "parse" => \E p \in batch : p \notin AtRisk
    /\ pc \in {"move", "forget"} => batch = {}
    /\ \A p \in batch : /\ p \in OnDisk
                        /\ loc[p[1]] = "stream"
                        /\ p[2] <= Progress(p[1])

\* The tables: what this life has yet to insert is there at most once for each kill.
RowsInv ==
    /\ BagToSet(rows) \subseteq OnDisk
    /\ \A p \in OnDisk : Copies(p) <= kills + 1
    /\ \A p \in batch : DayOf(p) \notin flushed => Copies(p) <= kills
    /\ \A p \in OnDisk :
          loc[p[1]] \in {"absent", "stream"} /\ p[2] > Progress(p[1]) => Copies(p) <= kills

\* Nothing is skipped: a whole record between the saved offset and pos is in the batch
\* or stored, and so is what the current flush has dealt with.
ReadInv ==
    /\ \A p \in batch : DayOf(p) \in flushed => Stored(p)
    /\ Reading =>
          \A p \in WholeRecords :
              p[1] = cur /\ offset[cur] < p[2] /\ p[2] <= pos => p \in batch \/ Stored(p)

IInv ==
    /\ TypeOK
    /\ ReceiverInv
    /\ ControlInv
    /\ OffsetInv
    /\ BatchInv
    /\ RowsInv
    /\ ReadInv
=============================================================================
