------------------------------- MODULE Ingest -------------------------------
(***************************************************************************)
(* The ingestion pipeline: receivers and processor (HourlyStream and       *)
(* Processor), which share nothing but the stream directory and the clock. *)
(* Every step of one may come between any two steps of the other.          *)
(***************************************************************************)
EXTENDS Processor

Init == StreamInit /\ ProcessorInit

Next ==
    \/ StreamNext /\ UNCHANGED processorVars
    \/ ProcessorStep
    \/ Signal

Spec == Init /\ [][Next]_vars

\* The processor goes on as long as it can, and systemd restarts it; every so often
\* a tick ends with a batch that is batch_flush_seconds old.  Datagrams, signals
\* and the clock are the environment's: nothing obliges them.
Fairness == WF_vars(ProcessorStep) /\ SF_vars(FlushAtTickEnd)

FairSpec == Spec /\ Fairness

\* Every variable has its type.
TypeOK == StreamTypeOK /\ ProcessorTypeOK

-----------------------------------------------------------------------------
(* Where a record can be *)

\* The lines on disk, by their place, and those that are a record in one piece.
OnDisk == UNION {{h} \X (1 .. Len(content[h])) : h \in Hours}
WholeRecords == {p \in OnDisk : content[p[1]][p[2]] \in Days}

\* Every place that a line can have in an instance with MaxLines datagrams.
Records == Hours \X (1 .. MaxLines)

Unread(p) == loc[p[1]] = "stream" /\ p[2] > offset[p[1]]
Stored(p) == Copies(p) > 0
AccountedFor(p) == Unread(p) \/ p \in batch \/ Stored(p)

\* Records that live in the batch alone, although the saved offset is past them.
AtRisk == {p \in batch : p[2] <= offset[p[1]]}

-----------------------------------------------------------------------------
(* Safety *)

\* A kill of the processor (kill -9, an uncaught exception) can take fewer than
\* batch_size records with it: whatever the interleaving of reads, flushes and
\* saves, an offset is saved (_process_file) only when less than a batch is pending.
RiskBounded == Cardinality(AtRisk) < BatchSize

\* A kill of a receiver loses fewer than flush_every lines (HourlyStreamWriter).
ReceiverLossBounded == \A r \in Receivers : Len(buf[r]) < FlushEvery

\* No step loses track of a whole record that is on disk, with two exceptions:
\* a kill takes records that were at risk, and archive_processed moves a file
\* away from under records that reached it after its size was taken.
LossStep ==
    \A p \in WholeRecords :
        AccountedFor(p) /\ ~AccountedFor(p)' =>
            \/ kills' = kills + 1 /\ p \in AtRisk
            \/ /\ pc = "move" /\ loc'[p[1]] = "processed"
               /\ Unread(p)
LossesExplained == [][LossStep]_vars

\* _maybe_archive flushes before it moves a file: no record of a file in .processed is
\* still waiting in the batch, where a kill would take it for good.
BatchInStream == \A p \in batch : loc[p[1]] = "stream"

\* The file that a receiver appends to during its hour is never moved away
\* by the processor (is_finalized).
WriterNotDetached == \A r \in Receivers : openHour[r] = hour => loc[hour] = "stream"

\* A file in .processed keeps no saved offset, so that it is read from its start when
\* it is put back for a replay, unless a kill came between move and save.
ForgottenWhenArchived ==
    \A h \in Hours :
        loc[h] = "processed" /\ offset[h] > 0 => kills > 0 \/ (pc = "forget" /\ cur = h)

-----------------------------------------------------------------------------
(* The abstract specification it implements *)

Delivery == INSTANCE LogDelivery WITH published <- OnDisk

\* Rows stand for published records, and no life of the processor inserts a record
\* twice, stops and restarts included (test_offset_persists_between_processor_runs).
DeliverySpec == Delivery!Spec

-----------------------------------------------------------------------------
(* Liveness *)

\* As long as no kill comes, a whole record that reached its file within the
\* hour is stored, however the hour's end, the archiving of the file and
\* restarts fall.
PublishedIsStored ==
    \A p \in Records :
        (hour = p[1] /\ p \in WholeRecords) ~> (Stored(p) \/ kills > 0)

\* Also after kills, no whole record stays unread or in the batch for ever.
Settles == \A p \in Records : (p \in WholeRecords) ~> (Stored(p) \/ ~AccountedFor(p))

\* A file whose hour is over leaves the stream directory.
StreamDrains == \A h \in Hours : (hour > h /\ loc[h] = "stream") ~> (loc[h] # "stream")

-----------------------------------------------------------------------------
(* What the documentation says and the code does not do *)

\* _maybe_archive's comment: only a file that was read completely is archived.
ArchivedIsStored ==
    kills = 0 =>
        \A p \in WholeRecords : loc[p[1]] \in {"processed", "deleted"} => Stored(p)
=============================================================================
