------------------------------ MODULE Processor ------------------------------
(***************************************************************************)
(* The processor of megalog/ingest/processor.py: one process that tails    *)
(* the .raw files, parses, batches, inserts into the daily logs tables,    *)
(* saves its offsets, and archives the files it has consumed.              *)
(*                                                                         *)
(* A record is named by its place in the stream, <<h, i>>: it starts at    *)
(* line i of the file of hour h.  The logs tables are the bag `rows`: how  *)
(* many rows were inserted for each record.  The batch, a dictionary of    *)
(* lists keyed by day, is the set of records it holds.                     *)
(*                                                                         *)
(* What a kill forgets is kept apart from what it leaves: offset (the JSON *)
(* file; set or forget is always followed at once by save, so memory and   *)
(* file never differ where a kill could tell) and rows survive; the        *)
(* batch and everything under "loop state" do not.                         *)
(***************************************************************************)
EXTENDS HourlyStream, Bags

CONSTANTS
    BatchSize,      \* batch_size
    KeepHours,      \* stream_processed_keep_hours
    MaxKills,       \* bound: kills of the processor in a behaviour
    MaxStops        \* bound: SIGTERMs of the processor in a behaviour

ASSUME ProcessorAssumption ==
    /\ BatchSize \in Nat \ {0}
    /\ KeepHours \in Nat
    /\ MaxKills \in Nat /\ MaxStops \in Nat

VARIABLES
    offset,         \* stream_offsets.json, 0 for a file it does not name
    rows,           \* the logs tables: records and how often each is inserted
    kills, stops,   \* number of kills and of SIGTERMs so far
    \* loop state
    pc,             \* where the main loop is
    after,          \* where it goes on when the flush it is in returns
    running,        \* self.running
    todo,           \* files of this tick's listing that are still to visit
    cur,            \* the file being visited
    pos, eof,       \* lines of it consumed, and read into the buffer
    batch,          \* self._batch
    flushed         \* days of the batch that the current _flush has inserted

durableVars == <<offset, rows>>
faultVars == <<kills, stops>>
loopVars == <<pc, after, running, todo, cur, pos, eof, batch, flushed>>
processorVars == <<durableVars, faultVars, loopVars>>
vars == <<streamVars, processorVars>>

\* idle     between two ticks              insert   inside _flush, day by day
\* next     before the next listed file    move     before archive_processed
\* parse    working through the buffer     forget   between the move and the
\* archive  in _maybe_archive                       offset's removal
\* down     not running
Controls == {"idle", "next", "parse", "archive", "insert", "move", "forget", "down"}

\* The day a record belongs to, whichever way its line arrived.
DayOf(p) == IF content[p[1]][p[2]] = Cut THEN CutDay ELSE content[p[1]][p[2]]
DaysOf(S) == {DayOf(p) : p \in S}
Copies(p) == IF BagIn(p, rows) THEN rows[p] ELSE 0

ProcessorTypeOK ==
    /\ offset \in [Hours -> Nat]
    /\ IsABag(rows) /\ BagToSet(rows) \subseteq Hours \X (Nat \ {0})
    /\ kills \in 0 .. MaxKills /\ stops \in 0 .. MaxStops
    /\ pc \in Controls /\ after \in Controls
    /\ running \in BOOLEAN
    /\ todo \subseteq Hours
    /\ cur \in Hours
    /\ pos \in Nat /\ eof \in Nat
    /\ batch \subseteq Hours \X (Nat \ {0})
    /\ flushed \subseteq Days

ProcessorInit ==
    /\ offset = [h \in Hours |-> 0]
    /\ rows = EmptyBag
    /\ kills = 0 /\ stops = 0
    /\ pc = "down" /\ after = "idle" /\ running = FALSE
    /\ todo = {} /\ cur = 0 /\ pos = 0 /\ eof = 0
    /\ batch = {} /\ flushed = {}

-----------------------------------------------------------------------------
(* _process_file *)

\* Mutant: only the file of the current hour is listed.
ListedNow == {h \in Hours : loc[h] = "stream" /\ h = hour}

\* list_stream_files
Listed == {h \in Hours : loc[h] = "stream"}

\* tick() lists stream_dir once, before it visits the first file.
StartTick ==
    /\ pc = "idle" /\ running
    /\ todo' = Listed
    /\ pc' = "next"
    /\ UNCHANGED <<streamVars, durableVars, faultVars, after, running, cur, pos, eof,
                   batch, flushed>>

\* Open the earliest listed file at its saved offset and read `upTo` lines.
OpenFile(h, upTo) ==
    /\ pc = "next"
    /\ h \in todo /\ \A g \in todo : h <= g
    /\ cur' = h /\ todo' = todo \ {h}
    /\ pos' = offset[h] /\ eof' = upTo
    /\ pc' = "parse"
    /\ UNCHANGED <<streamVars, durableVars, kills, after, batch, flushed>>

\* readline until it returns nothing.  A processor that was told to stop
\* reads nothing.
ReadFile(h) ==
    /\ OpenFile(h, IF running THEN Len(content[h]) ELSE offset[h])
    /\ UNCHANGED <<running, stops>>

\* SIGTERM while the lines are being read: the reading stops where it is.
ReadInterrupted(h) ==
    /\ running /\ stops < MaxStops
    /\ \E upTo \in offset[h] .. Len(content[h]) : OpenFile(h, upTo)
    /\ running' = FALSE
    /\ stops' = stops + 1

\* join_continuations over the buffer: the record that starts at line i takes
\* every Rest that follows it, as far as the buffer goes.
Joined(i, j) ==
    /\ \A k \in i + 1 .. j : content[cur][k] = Rest
    /\ j < eof => content[cur][j + 1] # Rest

\* Mutant: a record that a stray rest was joined to is dropped.
ParsesAlone(i, j) ==
    \/ content[cur][i] \in Days /\ j = i
    \/ content[cur][i] = Cut /\ j > i

\* parse_line: a split record without its rest is no NAT record, nor is a rest alone.
Parses(i, j) ==
    \/ content[cur][i] \in Days
    \/ content[cur][i] = Cut /\ j > i

\* Mutant: the batch is flushed one record late.
BatchFullLate(S) == Cardinality(S) > BatchSize

BatchFull(S) == Cardinality(S) >= BatchSize

\* process_line on the next joined line, then the test of the batch's size.
ProcessLine(j) ==
    /\ pc = "parse" /\ pos < eof
    /\ Joined(pos + 1, j)
    /\ pos' = j
    /\ batch' = IF Parses(pos + 1, j) THEN batch \cup {<<cur, pos + 1>>} ELSE batch
    /\ IF BatchFull(batch')
       THEN pc' = "insert" /\ after' = "parse"
       ELSE UNCHANGED <<pc, after>>
    /\ UNCHANGED <<streamVars, durableVars, faultVars, running, todo, cur, eof, flushed>>

\* Mutant: the file's length is saved, not the place where reading ended.
SavedLength == Len(content[cur])

SavedOffset == eof

\* offsets.set(f.tell()) and offsets.save().
SaveOffset ==
    /\ pc = "parse" /\ pos = eof
    /\ offset' = [offset EXCEPT ![cur] = SavedOffset]
    /\ pos' = 0 /\ eof' = 0
    /\ pc' = "archive"
    /\ UNCHANGED <<streamVars, rows, faultVars, after, running, todo, cur, batch, flushed>>

-----------------------------------------------------------------------------
(* _maybe_archive *)

\* Mutants: the file's size is not compared; it has to be exceeded.
ConsumedUnchecked(h) == TRUE
ConsumedStrictly(h) == offset[h] > Len(content[h])

\* is_finalized: the hour of the file is over.
Finalized(h) == hour >= h + 1
Consumed(h) == offset[h] >= Len(content[h])

KeepFile ==
    /\ pc = "archive"
    /\ ~(Finalized(cur) /\ Consumed(cur))
    /\ pc' = "next"
    /\ UNCHANGED <<streamVars, durableVars, faultVars, after, running, todo, cur, pos, eof,
                   batch, flushed>>

NothingToForce == batch = {}

\* The file is to be archived: _flush(force=True) comes first.
ArchiveFile ==
    /\ pc = "archive"
    /\ Finalized(cur) /\ Consumed(cur)
    /\ IF NothingToForce
       THEN pc' = "move" /\ UNCHANGED after
       ELSE pc' = "insert" /\ after' = "move"
    /\ UNCHANGED <<streamVars, durableVars, faultVars, running, todo, cur, pos, eof,
                   batch, flushed>>

\* archive_processed: rename into .processed with a fresh mtime, and delete what has
\* been there for longer than keep_hours.
MoveFile ==
    /\ pc = "move"
    /\ loc' = [h \in Hours |->
                 IF h = cur THEN "processed"
                 ELSE IF loc[h] = "processed" /\ mtime[h] < hour - KeepHours
                      THEN "deleted" ELSE loc[h]]
    /\ mtime' = [mtime EXCEPT ![cur] = hour]
    /\ pc' = "forget"
    /\ UNCHANGED <<hour, content, receiverVars, durableVars, faultVars, after, running,
                   todo, cur, pos, eof, batch, flushed>>

ForgottenOffset == 0

\* offsets.forget(name) and offsets.save().
ForgetOffset ==
    /\ pc = "forget"
    /\ offset' = [offset EXCEPT ![cur] = ForgottenOffset]
    /\ pc' = "next"
    /\ UNCHANGED <<streamVars, rows, faultVars, after, running, todo, cur, pos, eof,
                   batch, flushed>>

-----------------------------------------------------------------------------
(* _flush *)

\* insert_batch of one day's list.  The days come in any order, which includes that
\* of the dictionary.  executemany commits row by row: KillDuringInsert is the
\* case that it does not come to its end.
InsertDay(d) ==
    /\ pc = "insert"
    /\ d \in DaysOf(batch) \ flushed
    /\ rows' = rows (+) SetToBag({p \in batch : DayOf(p) = d})
    /\ flushed' = flushed \cup {d}
    /\ UNCHANGED <<streamVars, offset, faultVars, pc, after, running, todo, cur, pos, eof,
                   batch>>

\* Mutant: the batch is not cleared.
BatchKept == batch

BatchCleared == {}

\* Every day is inserted: self._batch.clear().
FinishFlush ==
    /\ pc = "insert"
    /\ DaysOf(batch) \subseteq flushed
    /\ batch' = BatchCleared /\ flushed' = {}
    /\ pc' = after
    /\ UNCHANGED <<streamVars, durableVars, faultVars, after, running, todo, cur, pos, eof>>

-----------------------------------------------------------------------------
(* tick and run *)

\* The _flush that ends a tick inserts a batch that is full or batch_flush_seconds old.
FlushAtTickEnd ==
    /\ pc = "next" /\ todo = {}
    /\ batch # {}
    /\ pc' = "insert" /\ after' = "idle"
    /\ UNCHANGED <<streamVars, durableVars, faultVars, running, todo, cur, pos, eof,
                   batch, flushed>>

\* The batch is neither full nor due.
SkipFlushAtTickEnd ==
    /\ pc = "next" /\ todo = {}
    /\ ~BatchFull(batch)
    /\ pc' = "idle"
    /\ UNCHANGED <<streamVars, durableVars, faultVars, after, running, todo, cur, pos, eof,
                   batch, flushed>>

\* Told to stop: run() leaves its loop and flushes by force what is left ...
FinalFlush ==
    /\ pc = "idle" /\ ~running
    /\ batch # {}
    /\ pc' = "insert" /\ after' = "idle"
    /\ UNCHANGED <<streamVars, durableVars, faultVars, running, todo, cur, pos, eof,
                   batch, flushed>>

ProcessEnds ==
    /\ pc' = "down" /\ after' = "idle" /\ running' = FALSE
    /\ todo' = {} /\ cur' = 0 /\ pos' = 0 /\ eof' = 0
    /\ batch' = {} /\ flushed' = {}

\* ... and ends.
Exit ==
    /\ pc = "idle" /\ ~running
    /\ batch = {}
    /\ ProcessEnds
    /\ UNCHANGED <<streamVars, durableVars, faultVars>>

\* systemd starts the processor (Restart=always): the offsets are loaded.
StartProcessor ==
    /\ pc = "down"
    /\ pc' = "idle" /\ running' = TRUE
    /\ UNCHANGED <<streamVars, durableVars, faultVars, after, todo, cur, pos, eof,
                   batch, flushed>>

-----------------------------------------------------------------------------
(* Signals *)

\* SIGTERM anywhere else than inside the reading loop.
Sigterm ==
    /\ pc # "down" /\ running
    /\ stops < MaxStops
    /\ running' = FALSE
    /\ stops' = stops + 1
    /\ UNCHANGED <<streamVars, durableVars, kills, pc, after, todo, cur, pos, eof,
                   batch, flushed>>

\* kill -9, power loss or an uncaught exception: the loop state is gone.
Kill ==
    /\ pc # "down"
    /\ kills < MaxKills
    /\ kills' = kills + 1
    /\ ProcessEnds
    /\ UNCHANGED <<streamVars, offset, rows, stops>>

\* The same inside executemany, when some rows of a day are already committed.
KillDuringInsert(d, some) ==
    /\ pc = "insert"
    /\ d \in DaysOf(batch) \ flushed
    /\ some \subseteq {p \in batch : DayOf(p) = d}
    /\ kills < MaxKills
    /\ kills' = kills + 1
    /\ rows' = rows (+) SetToBag(some)
    /\ ProcessEnds
    /\ UNCHANGED <<streamVars, offset, stops>>

-----------------------------------------------------------------------------

\* What the process does by itself, without a signal.
ProcessorStep ==
    \/ StartProcessor
    \/ StartTick
    \/ \E h \in Hours : ReadFile(h)
    \/ \E j \in pos + 1 .. eof : ProcessLine(j)
    \/ SaveOffset
    \/ KeepFile
    \/ ArchiveFile
    \/ MoveFile
    \/ ForgetOffset
    \/ \E d \in Days : InsertDay(d)
    \/ FinishFlush
    \/ FlushAtTickEnd
    \/ SkipFlushAtTickEnd
    \/ FinalFlush
    \/ Exit

Signal ==
    \/ Sigterm
    \/ \E h \in Hours : ReadInterrupted(h)
    \/ Kill
    \/ \E d \in Days : \E some \in SUBSET batch : KillDuringInsert(d, some)
=============================================================================
