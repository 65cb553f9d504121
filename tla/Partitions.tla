----------------------------- MODULE Partitions -----------------------------
(***************************************************************************)
(* The files of a day and everybody who works on them:                     *)
(*   - the processor's DuckDBLogStore, which keeps a writing connection    *)
(*     for each day between two releases;                                  *)
(*   - the archive job, which turns the hot DuckDB file of an old day into *)
(*     a Parquet file with a sidecar, step by step;                        *)
(*   - the retention job, which deletes old Parquet files;                 *)
(*   - the readers (search, export, daily counts), which list both         *)
(*     directories and then open what they found.                          *)
(*                                                                         *)
(* DuckDB locks a file: one process may write it, or several may read it.  *)
(* The lock belongs to the inode, so each hot file ever created for a day  *)
(* has a number of its own, and a connection may outlive the name of its   *)
(* file.  Rows are numbered in the order in which the processor took them; *)
(* a row's dictionary ids belong to one file, coded[n].  The temporary     *)
(* Parquet file, which nobody lists, is part of the job's own state.       *)
(***************************************************************************)
EXTENDS Integers, FiniteSets

CONSTANTS
    Readers,        \* requests that may be in progress together
    MaxDay,         \* bound: rows are stamped with days 0 .. MaxDay
    MaxToday,       \* bound: the date runs over 0 .. MaxToday
    MaxRows,        \* bound: rows taken in a behaviour
    MaxFiles,       \* bound: hot files created for a day
    MaxKills,       \* bound: kills of the processor
    MaxCrashes,     \* bound: crashes of the archive job
    MaxRequests,    \* bound: requests in a behaviour
    Retries,        \* open_for_query's retries
    HotRetention,   \* hot_retention_days
    DeleteAfter     \* delete_after_days, 0 for never

ASSUME PartitionsAssumption ==
    /\ MaxDay \in Nat /\ MaxToday \in Nat /\ MaxRows \in Nat /\ MaxFiles \in Nat
    /\ MaxKills \in Nat /\ MaxCrashes \in Nat /\ MaxRequests \in Nat
    /\ Retries \in Nat \ {0}
    /\ HotRetention \in Nat /\ DeleteAfter \in Nat

Days == 0 .. MaxDay
Rows == 1 .. MaxRows
Files == 1 .. MaxFiles
None == 0                       \* no file, no connection, no sidecar
Torn == -1                      \* a sidecar whose writing was cut short

VARIABLES
    today,
    \* the files
    hot,        \* hot[d]: the file hot_dir/d.duckdb, or None
    made,       \* made[d]: hot files created for d so far
    table,      \* table[d][f]: the rows of logs in hot file f of d
    cold,       \* days with a file cold_dir/d.parquet
    parquet,    \* parquet[d]: its rows
    origin,     \* origin[d]: the hot file it was made from
    sidecar,    \* sidecar[d]: the hot file whose names d.dicts.json holds
    \* the processor
    up,         \* it runs
    conn,       \* _connections[d]: the hot file open for writing, or None
    batch,      \* _batch[d]
    coded,      \* coded[n]: the file whose dictionaries gave row n its ids
    flushing,   \* inside _flush
    taken,      \* number of rows taken so far
    kills,
    \* the archive job
    jobAt,      \* off, next, copying, copied, replaced, written
    todo,       \* old days of its listing that are still to visit
    jobDay,     \* the day it works on
    snap,       \* the rows it has copied to the temporary file ...
    snapFile,   \* ... and the hot file they come from
    crashes,
    \* the readers
    at,         \* idle, scan, listed, attached, answered
    asked,      \* the day that is asked for
    place,      \* none, hot, cold: where the listing has found it
    tries,      \* attempts that met a lock
    opened,     \* the hot file attached, or None
    answer,     \* the rows returned
    requests,   \* number of requests so far
    \* history, for the properties
    stored,     \* stored[d]: rows ever inserted for d
    late,       \* late[d]: those of them that came after d's archive was taken
    expired,    \* expired[d]: rows of Parquet files that retention deleted
    due,        \* due[r]: rows that could be found when r's request began
    reopened,   \* days that got a new hot file beside their Parquet file
    cut         \* days whose sidecar a crash of the job prevented

fileVars == <<hot, made, table, cold, parquet, origin, sidecar>>
processorVars == <<up, conn, batch, coded, flushing, taken, kills>>
jobVars == <<jobAt, todo, jobDay, snap, snapFile, crashes>>
readerVars == <<at, asked, place, tries, opened, answer, requests, due>>
historyVars == <<stored, late, expired, reopened, cut>>
vars == <<today, fileVars, processorVars, jobVars, readerVars, historyVars>>

JobControls == {"off", "next", "copying", "copied", "replaced", "written"}
ReaderControls == {"idle", "scan", "listed", "attached", "answered"}

TypeOK ==
    /\ today \in 0 .. MaxToday
    /\ hot \in [Days -> Files \cup {None}]
    /\ made \in [Days -> Nat]
    /\ table \in [Days -> [Files -> SUBSET Rows]]
    /\ cold \subseteq Days
    /\ parquet \in [Days -> SUBSET Rows]
    /\ origin \in [Days -> Files \cup {None}]
    /\ sidecar \in [Days -> Files \cup {None, Torn}]
    /\ up \in BOOLEAN
    /\ conn \in [Days -> Files \cup {None}]
    /\ batch \in [Days -> SUBSET Rows]
    /\ coded \in [Rows -> Files \cup {None}]
    /\ flushing \in BOOLEAN
    /\ taken \in 0 .. MaxRows /\ kills \in 0 .. MaxKills
    /\ jobAt \in JobControls
    /\ todo \subseteq Days /\ jobDay \in Days
    /\ snap \subseteq Rows /\ snapFile \in Files \cup {None}
    /\ crashes \in 0 .. MaxCrashes
    /\ at \in [Readers -> ReaderControls]
    /\ asked \in [Readers -> Days]
    /\ place \in [Readers -> {"none", "hot", "cold"}]
    /\ tries \in [Readers -> 0 .. Retries - 1]
    /\ opened \in [Readers -> Files \cup {None}]
    /\ answer \in [Readers -> SUBSET Rows]
    /\ requests \in 0 .. MaxRequests
    /\ stored \in [Days -> SUBSET Rows]
    /\ late \in [Days -> SUBSET Rows]
    /\ expired \in [Days -> SUBSET Rows]
    /\ due \in [Readers -> SUBSET Rows]
    /\ reopened \subseteq Days /\ cut \subseteq Days

Init ==
    /\ today = 0
    /\ hot = [d \in Days |-> None] /\ made = [d \in Days |-> 0]
    /\ table = [d \in Days |-> [f \in Files |-> {}]]
    /\ cold = {} /\ parquet = [d \in Days |-> {}]
    /\ origin = [d \in Days |-> None] /\ sidecar = [d \in Days |-> None]
    /\ up = TRUE /\ conn = [d \in Days |-> None]
    /\ batch = [d \in Days |-> {}] /\ coded = [n \in Rows |-> None]
    /\ flushing = FALSE /\ taken = 0 /\ kills = 0
    /\ jobAt = "off" /\ todo = {} /\ jobDay = 0 /\ snap = {} /\ snapFile = None
    /\ crashes = 0
    /\ at = [r \in Readers |-> "idle"] /\ asked = [r \in Readers |-> 0]
    /\ place = [r \in Readers |-> "none"] /\ tries = [r \in Readers |-> 0]
    /\ opened = [r \in Readers |-> None] /\ answer = [r \in Readers |-> {}]
    /\ requests = 0
    /\ stored = [d \in Days |-> {}] /\ late = [d \in Days |-> {}]
    /\ expired = [d \in Days |-> {}] /\ due = [r \in Readers |-> {}]
    /\ reopened = {} /\ cut = {}

HotRows(d) == IF hot[d] = None THEN {} ELSE table[d][hot[d]]
ColdRows(d) == IF d \in cold THEN parquet[d] ELSE {}
Found(d) == HotRows(d) \cup ColdRows(d)

-----------------------------------------------------------------------------
(* The locks of d's hot file *)

WriterHolds(d) == hot[d] # None /\ conn[d] = hot[d]

ReaderHolds(d) ==
    /\ hot[d] # None
    /\ \/ jobAt = "copying" /\ jobDay = d
       \/ \E r \in Readers : asked[r] = d /\ opened[r] = hot[d]

-----------------------------------------------------------------------------
(* The processor *)

\* _connect(d) gives a connection to file f, which it may have to create.
Connect(d, f) ==
    \/ /\ conn[d] # None /\ f = conn[d]
       /\ UNCHANGED <<hot, made, conn, reopened>>
    \/ /\ conn[d] = None /\ hot[d] # None /\ ~ReaderHolds(d) /\ f = hot[d]
       /\ conn' = [conn EXCEPT ![d] = f]
       /\ UNCHANGED <<hot, made, reopened>>
    \/ /\ conn[d] = None /\ hot[d] = None /\ f = made[d] + 1
       /\ hot' = [hot EXCEPT ![d] = f] /\ made' = [made EXCEPT ![d] = f]
       /\ conn' = [conn EXCEPT ![d] = f]
       /\ reopened' = IF d \in cold THEN reopened \cup {d} ELSE reopened

\* process_line of a record of day d: its names get ids in the dictionaries of the file
\* that the day's connection has open, and it joins the batch.
Enqueue(d) ==
    /\ up /\ ~flushing
    /\ taken < MaxRows
    /\ \E f \in Files :
          /\ Connect(d, f)
          /\ coded' = [coded EXCEPT ![taken + 1] = f]
    /\ batch' = [batch EXCEPT ![d] = @ \cup {taken + 1}]
    /\ taken' = taken + 1
    /\ UNCHANGED <<today, table, cold, parquet, origin, sidecar, up, flushing, kills, jobVars,
                   readerVars, stored, late, expired, cut>>

Batched == {d \in Days : batch[d] # {}}

StartFlush ==
    /\ up /\ ~flushing
    /\ Batched # {}
    /\ flushing' = TRUE
    /\ UNCHANGED <<today, fileVars, up, conn, batch, coded, taken, kills, jobVars, readerVars,
                   historyVars>>

\* The archive of d is taken: the job has copied it, or a Parquet file exists; or
\* the connection's file has lost its name.
Taken(d, f) ==
    \/ d \in cold
    \/ jobDay = d /\ jobAt \in {"copied", "replaced", "written"}
    \/ hot'[d] # f

\* insert_batch of one day.  A kill in the middle of it stores a part of the batch, as if
\* only that part had been taken when the flush began.
InsertDay(d) ==
    /\ up /\ flushing
    /\ batch[d] # {}
    /\ \E f \in Files :
          /\ Connect(d, f)
          /\ table' = [table EXCEPT ![d][f] = @ \cup batch[d]]
          /\ late' = IF Taken(d, f) THEN [late EXCEPT ![d] = @ \cup batch[d]] ELSE late
    /\ batch' = [batch EXCEPT ![d] = {}]
    /\ stored' = [stored EXCEPT ![d] = @ \cup batch[d]]
    /\ UNCHANGED <<today, cold, parquet, origin, sidecar, up, coded, flushing, taken, kills,
                   jobVars, readerVars, expired, cut>>

\* The batch is inserted.  duckdb_close_interval_seconds may not be over yet.
EndFlush ==
    /\ up /\ flushing
    /\ Batched = {}
    /\ flushing' = FALSE
    /\ UNCHANGED <<today, fileVars, up, conn, batch, coded, taken, kills, jobVars, readerVars,
                   historyVars>>

\* Mutants: connections are closed with rows in hand; they are never closed.
ReleaseWithBatch == TRUE
ReleaseNever == FALSE

MayRelease == Batched = {}

\* _maybe_release_duckdb_lock once the interval is over, at the end of a flush or in
\* one that finds nothing to insert: DuckDBLogStore.close.
Release ==
    /\ up
    /\ MayRelease
    /\ conn # [d \in Days |-> None]
    /\ conn' = [d \in Days |-> None]
    /\ flushing' = FALSE
    /\ UNCHANGED <<today, fileVars, up, batch, coded, taken, kills, jobVars, readerVars,
                   historyVars>>

ProcessorEnds ==
    /\ up' = FALSE
    /\ conn' = [d \in Days |-> None]
    /\ batch' = [d \in Days |-> {}]
    /\ flushing' = FALSE
    /\ UNCHANGED <<today, fileVars, coded, taken, jobVars, readerVars, historyVars>>

\* _connect while a reader or the archive job has the file attached: duckdb.connect
\* raises, nothing catches it, and the process ends with its batch.
ConnectRefused(d) ==
    /\ up
    /\ IF flushing THEN batch[d] # {} ELSE taken < MaxRows
    /\ conn[d] = None /\ ReaderHolds(d)
    /\ ProcessorEnds
    /\ UNCHANGED kills

Kill ==
    /\ up /\ kills < MaxKills
    /\ ProcessorEnds
    /\ kills' = kills + 1

\* systemd starts the processor again.
Restart ==
    /\ ~up
    /\ up' = TRUE
    /\ UNCHANGED <<today, fileVars, conn, batch, coded, flushing, taken, kills, jobVars,
                   readerVars, historyVars>>

-----------------------------------------------------------------------------
(* The archive job *)

Old(d) == today - d > HotRetention

JobEnds ==
    /\ jobAt' = "off" /\ todo' = {} /\ jobDay' = 0 /\ snap' = {} /\ snapFile' = None

\* The timer fires and move_old_to_cold lists hot_dir.
StartArchive ==
    /\ jobAt = "off"
    /\ todo' = {d \in Days : hot[d] # None /\ Old(d)}
    /\ jobAt' = "next"
    /\ UNCHANGED <<today, fileVars, processorVars, jobDay, snap, snapFile, crashes, readerVars,
                   historyVars>>

\* Mutant: archive_day does not look for a Parquet file.
ArchivedUnseen(d) == FALSE

Archived(d) == d \in cold

\* archive_day of a day whose Parquet file exists: the hot file is removed.
RemoveHot(d) ==
    /\ jobAt = "next" /\ d \in todo
    /\ Archived(d)
    /\ hot' = [hot EXCEPT ![d] = None]
    /\ todo' = todo \ {d}
    /\ UNCHANGED <<today, made, table, cold, parquet, origin, sidecar, processorVars, jobAt,
                   jobDay, snap, snapFile, crashes, readerVars, historyVars>>

\* Mutant: the copy is not refused while the processor writes the file.
CopyUnlocked(d) == TRUE

CopyAllowed(d) == ~WriterHolds(d)

\* ATTACH, COPY and the dictionaries, under a reader's lock.
Attach(d) ==
    /\ jobAt = "next" /\ d \in todo
    /\ ~Archived(d)
    /\ CopyAllowed(d)
    /\ jobAt' = "copying" /\ jobDay' = d /\ todo' = todo \ {d}
    /\ snap' = HotRows(d) /\ snapFile' = hot[d]
    /\ UNCHANGED <<today, fileVars, processorVars, crashes, readerVars, historyVars>>

\* The processor holds the file: ATTACH raises, and the run ends, whatever days it has
\* not come to yet.
AttachRefused(d) ==
    /\ jobAt = "next" /\ d \in todo
    /\ ~Archived(d)
    /\ ~CopyAllowed(d)
    /\ JobEnds
    /\ UNCHANGED <<today, fileVars, processorVars, crashes, readerVars, historyVars>>

\* DETACH and close: the lock is released.
Detach ==
    /\ jobAt = "copying"
    /\ jobAt' = "copied"
    /\ UNCHANGED <<today, fileVars, processorVars, todo, jobDay, snap, snapFile, crashes,
                   readerVars, historyVars>>

\* tmp.replace(dst)
Replace ==
    /\ jobAt = "copied"
    /\ cold' = cold \cup {jobDay}
    /\ parquet' = [parquet EXCEPT ![jobDay] = snap]
    /\ origin' = [origin EXCEPT ![jobDay] = snapFile]
    /\ jobAt' = "replaced"
    /\ cut' = cut \ {jobDay}
    /\ UNCHANGED <<today, hot, made, table, sidecar, processorVars, todo, jobDay, snap, snapFile,
                   crashes, readerVars, stored, late, expired, reopened>>

NewSidecar == snapFile

\* sidecar.write_text
WriteSidecar ==
    /\ jobAt = "replaced"
    /\ sidecar' = [sidecar EXCEPT ![jobDay] = NewSidecar]
    /\ jobAt' = "written"
    /\ UNCHANGED <<today, hot, made, table, cold, parquet, origin, processorVars, todo, jobDay,
                   snap, snapFile, crashes, readerVars, historyVars>>

\* src.unlink(), and on to the next day, unless retention has deleted the new Parquet
\* file: then its stat() for the log line raises, and the run ends.
Unlink ==
    /\ jobAt = "written"
    /\ hot' = [hot EXCEPT ![jobDay] = None]
    /\ IF jobDay \in cold
       THEN /\ jobAt' = "next" /\ jobDay' = 0 /\ snap' = {} /\ snapFile' = None
            /\ UNCHANGED todo
       ELSE JobEnds
    /\ UNCHANGED <<today, made, table, cold, parquet, origin, sidecar, processorVars, crashes,
                   readerVars, historyVars>>

EndArchive ==
    /\ jobAt = "next" /\ todo = {}
    /\ JobEnds
    /\ UNCHANGED <<today, fileVars, processorVars, crashes, readerVars, historyVars>>

\* The job is killed.  While it writes the sidecar, this may leave a torn one.
JobCrash ==
    /\ jobAt # "off" /\ crashes < MaxCrashes
    /\ crashes' = crashes + 1
    /\ \/ UNCHANGED sidecar
       \/ jobAt = "replaced" /\ sidecar' = [sidecar EXCEPT ![jobDay] = Torn]
    /\ cut' = IF jobAt = "replaced" THEN cut \cup {jobDay} ELSE cut
    /\ JobEnds
    /\ UNCHANGED <<today, hot, made, table, cold, parquet, origin, processorVars, readerVars,
                   stored, late, expired, reopened>>

-----------------------------------------------------------------------------
(* The retention job: delete_expired removes a Parquet file and leaves its sidecar *)

Expire(d) ==
    /\ DeleteAfter > 0
    /\ d \in cold /\ today - d > DeleteAfter
    /\ cold' = cold \ {d}
    /\ parquet' = [parquet EXCEPT ![d] = {}]
    /\ origin' = [origin EXCEPT ![d] = None]
    /\ expired' = [expired EXCEPT ![d] = @ \cup parquet[d]]
    /\ UNCHANGED <<today, hot, made, table, sidecar, processorVars, jobVars, readerVars, stored,
                   late, reopened, cut>>

-----------------------------------------------------------------------------
(* The readers *)

Finish(r) ==
    /\ at' = [at EXCEPT ![r] = "idle"]
    /\ asked' = [asked EXCEPT ![r] = 0]
    /\ place' = [place EXCEPT ![r] = "none"]
    /\ tries' = [tries EXCEPT ![r] = 0]
    /\ opened' = [opened EXCEPT ![r] = None]
    /\ answer' = [answer EXCEPT ![r] = {}]
    /\ due' = [due EXCEPT ![r] = {}]

\* A request for day d comes in, and list_all scans cold_dir.
ScanCold(r, d) ==
    /\ at[r] = "idle" /\ requests < MaxRequests
    /\ requests' = requests + 1
    /\ at' = [at EXCEPT ![r] = "scan"]
    /\ asked' = [asked EXCEPT ![r] = d]
    /\ place' = [place EXCEPT ![r] = IF d \in cold THEN "cold" ELSE "none"]
    /\ due' = [due EXCEPT ![r] = Found(d)]
    /\ UNCHANGED <<today, fileVars, processorVars, jobVars, tries, opened, answer, historyVars>>

\* list_all scans hot_dir; what it finds there overrides the cold file.
ScanHot(r) ==
    /\ at[r] = "scan"
    /\ at' = [at EXCEPT ![r] = "listed"]
    /\ place' = IF hot[asked[r]] # None THEN [place EXCEPT ![r] = "hot"] ELSE place
    /\ UNCHANGED <<today, fileVars, processorVars, jobVars, asked, tries, opened, answer,
                   requests, due, historyVars>>

\* The listing holds no such day: 404.
NotFound(r) ==
    /\ at[r] = "listed" /\ place[r] = "none"
    /\ Finish(r)
    /\ UNCHANGED <<today, fileVars, processorVars, jobVars, requests, historyVars>>

\* open_for_query of a hot file that nobody is writing.
AttachHot(r) ==
    LET d == asked[r] IN
    /\ at[r] = "listed" /\ place[r] = "hot"
    /\ hot[d] # None /\ ~WriterHolds(d)
    /\ at' = [at EXCEPT ![r] = "attached"]
    /\ opened' = [opened EXCEPT ![r] = hot[d]]
    /\ UNCHANGED <<today, fileVars, processorVars, jobVars, asked, place, tries, answer,
                   requests, due, historyVars>>

LastTry(r) == tries[r] = Retries - 1

\* The processor holds it: sleep and try again.
Retry(r) ==
    /\ at[r] = "listed" /\ place[r] = "hot"
    /\ WriterHolds(asked[r])
    /\ ~LastTry(r)
    /\ tries' = [tries EXCEPT ![r] = @ + 1]
    /\ UNCHANGED <<today, fileVars, processorVars, jobVars, at, asked, place, opened, answer,
                   requests, due, historyVars>>

\* open_for_query of a Parquet file: the view is created.
OpenParquet(r) ==
    /\ at[r] = "listed" /\ place[r] = "cold"
    /\ asked[r] \in cold
    /\ at' = [at EXCEPT ![r] = "attached"]
    /\ UNCHANGED <<today, fileVars, processorVars, jobVars, asked, place, tries, opened, answer,
                   requests, due, historyVars>>

\* The exception goes up to the caller: the file is gone, or the last attempt met the lock.
Fail(r) ==
    LET d == asked[r] IN
    /\ at[r] \in {"listed", "attached"}
    /\ \/ at[r] = "listed" /\ place[r] = "hot" /\ hot[d] = None
       \/ at[r] = "listed" /\ place[r] = "hot" /\ WriterHolds(d) /\ LastTry(r)
       \/ place[r] = "cold" /\ d \notin cold
    /\ Finish(r)
    /\ UNCHANGED <<today, fileVars, processorVars, jobVars, requests, historyVars>>

\* The SELECT over the view.
Answer(r) ==
    LET d == asked[r] IN
    /\ at[r] = "attached"
    /\ place[r] = "cold" => d \in cold
    /\ answer' = [answer EXCEPT ![r] = IF place[r] = "hot" THEN table[d][opened[r]]
                                       ELSE parquet[d]]
    /\ at' = [at EXCEPT ![r] = "answered"]
    /\ UNCHANGED <<today, fileVars, processorVars, jobVars, asked, place, tries, opened,
                   requests, due, historyVars>>

\* con.close()
Close(r) ==
    /\ at[r] = "answered"
    /\ Finish(r)
    /\ UNCHANGED <<today, fileVars, processorVars, jobVars, requests, historyVars>>

-----------------------------------------------------------------------------

NextDay ==
    /\ today < MaxToday
    /\ today' = today + 1
    /\ UNCHANGED <<fileVars, processorVars, jobVars, readerVars, historyVars>>

ProcessorStep ==
    \/ \E d \in Days : InsertDay(d) \/ ConnectRefused(d)
    \/ StartFlush \/ EndFlush \/ Restart

ArchiveStep ==
    \/ \E d \in Days : RemoveHot(d) \/ Attach(d) \/ AttachRefused(d)
    \/ Detach \/ Replace \/ WriteSidecar \/ Unlink \/ EndArchive

ReaderStep(r) ==
    \/ ScanHot(r) \/ NotFound(r) \/ AttachHot(r) \/ Retry(r) \/ OpenParquet(r)
    \/ Fail(r) \/ Answer(r) \/ Close(r)

Next ==
    \/ NextDay
    \/ \E d \in Days : Enqueue(d) \/ Expire(d)
    \/ ProcessorStep
    \/ Release
    \/ Kill
    \/ StartArchive
    \/ ArchiveStep
    \/ JobCrash
    \/ \E r \in Readers : ReaderStep(r) \/ (\E d \in Days : ScanCold(r, d))

\* The processor's loop reaches the end of its flush, and the release once the interval is
\* over, and systemd restarts it; the timer fires every night, and the job's code
\* runs on.  Nothing is assumed of records, readers, retention and the date.
Fairness ==
    /\ WF_vars(ProcessorStep)
    /\ WF_vars(Release)
    /\ WF_vars(StartArchive)
    /\ WF_vars(ArchiveStep)

Spec == Init /\ [][Next]_vars
LiveSpec == Spec /\ Fairness

-----------------------------------------------------------------------------
(* Properties *)

\* archive_day, delete_expired and the processor together: a row once stored is found in
\* the hot file or the Parquet file of its day, over crashes of the job at every step,
\* unless retention deleted it or it came after the archive of its day was taken.
RowsKept == \A d \in Days : stored[d] \subseteq Found(d) \cup late[d] \cup expired[d]

\* list_all and open_for_query: a request that is answered returns every row that could be
\* found when it began, although the day may move from hot to cold between the
\* two scans and the opening.  Rows that retention deleted and rows that came too late for
\* the archive are left apart, and so are days whose Parquet file is hidden by a hot
\* file that a late record has created anew.
AnswersComplete ==
    \A r \in Readers :
        LET d == asked[r] IN
        at[r] = "answered" /\ d \notin reopened /\ due[r] \cap expired[d] = {}
        => due[r] \ late[d] \subseteq answer[r]

\* _to_entry takes ids from the dictionaries of one hot file, and insert_batch may come much
\* later: every row is stored in the very file whose names its ids stand for, although
\* connections are closed and files replaced under the processor.
NamesFromOwnFile ==
    \A d \in Days : \A f \in Files : \A n \in table[d][f] : coded[n] = f

\* The sidecar of a Parquet file holds the names of the hot file it was made from, even when
\* an expired day is archived again, unless the job is about to write it or was
\* killed before it did.
SidecarMatches ==
    \A d \in cold : \/ sidecar[d] = origin[d]
                    \/ jobAt = "replaced" /\ jobDay = d
                    \/ d \in cut

\* Whatever the processor, the readers and crashes of the job do, a hot file older than
\* hot_retention_days is archived in the end: refused runs are repeated, and the
\* processor lets go of the lock.
DaysBecomeCold == \A d \in Days : hot[d] # None /\ Old(d) ~> hot[d] = None

\* docs/OPERATIONS.md: the archive job skips a day whose Parquet file exists, so nothing
\* that can be found is lost by it.
SkipIsHarmless == [][\A d \in Days : RemoveHot(d) => HotRows(d) \subseteq ColdRows(d)]_vars
=============================================================================
