------------------------------ MODULE DailyJobs ------------------------------
(***************************************************************************)
(* The figures and the alerts of a day in the operational database, and    *)
(* everybody who writes them:                                              *)
(*   - the archive job moves old days to cold and then counts every day;   *)
(*   - the analysis, started by its timer or by hand, compares the figures *)
(*     with one another and records an alert for each day that stands out; *)
(*   - the stream watchdog records an alert of its own for today;          *)
(*   - an administrator looks at the alerts and acknowledges them;         *)
(*   - the processor stores records, whose day is the one they are stamped *)
(*     with, and retention deletes old days.                               *)
(*                                                                         *)
(* Of a file only its number of rows is kept.  The steps of archive_day    *)
(* and the locks are those of module Partitions: here a day is archived in *)
(* one step, or its archive is cut short, and a hot file may be locked or  *)
(* not whenever it is opened.                                              *)
(***************************************************************************)
EXTENDS Integers, FiniteSetsExt

CONSTANTS
    Analysts,       \* analyses that may be in progress together,
    Timer,          \*   one of them the timer's
    MaxDay,         \* bound: the days that are looked at are 0 .. MaxDay
    StartDay,       \* the date at the start, and
    MaxToday,       \*   bound: the last date
    StartRows,      \* the rows of each day at the start, in hot files
    Amounts,        \* rows that a flush may add to a day
    MaxEvents,      \* bound: flushes, forced analyses, alarms of the watchdog and views of the
                    \*   alerts, all in all
    HotRetention,   \* hot_retention_days
    DeleteAfter,    \* delete_after_days, 0 for never
    BaselineDays,   \* compute_anomalies: baseline_days,
    MinBaseline,    \*   3, the days it wants to compare with,
    Threshold,      \*   threshold_ratio,
    MinCount        \*   and min_count

ASSUME DailyJobsAssumption ==
    /\ Timer \in Analysts /\ "watchdog" \notin Analysts
    /\ MaxDay \in Nat /\ MaxToday \in Nat /\ StartDay \in 0 .. MaxToday
    /\ StartRows \in [0 .. MaxDay -> Nat \cup {-1}]
    /\ Amounts \subseteq Nat /\ MaxEvents \in Nat
    /\ HotRetention \in Nat /\ DeleteAfter \in Nat
    /\ BaselineDays \in Nat /\ MinBaseline \in Nat /\ Threshold \in Nat /\ MinCount \in Nat

Days == 0 .. MaxDay
None == -1                          \* no file, no figure, no day
Watchdog == "watchdog"
Inserters == Analysts \cup {Watchdog}
Places == {"none", "hot", "cold"}

VARIABLES
    today,
    events,     \* flushes, forced analyses, alarms and views so far
    hot,        \* hot[d]: rows of hot_dir/d.duckdb, or None
    cold,       \* cold[d]: rows of cold_dir/d.parquet, or None
    stats,      \* daily_stats: log_count of d, or None
    \* the archive job
    archAt,     \* off, move, count, store
    archTodo,   \* days it has yet to move, and then days it has yet to count
    archFound,  \* archFound[d]: where its listing has found d
    figure,     \* the rows it has counted
    \* the analyses
    at,         \* off, scan, stats, look, open, insert
    only,       \* the day of --date, or None
    force,      \* whether existing alerts are replaced
    found,      \* found[a][d]: where a's listing has found d
    todo,       \* candidates that are still to be analysed
    \* the watchdog
    watched,    \* the day whose alert it is about to insert, or None
    \* anomaly_alerts: at most one row for a day
    kind,       \* kind[d]: none, anomaly, watchdog
    acked,      \* acked[d]: acknowledged
    page,       \* page[d]: what the administrator's page shows: no alert of d (none), the row
                \*   that is there (row), or one that has been replaced since (gone)
    \* history, for the properties
    late,       \* days with a record that came when they were old enough to be archived
    unforced    \* unforced[d]: who has inserted an alert of d without being told to replace one

fileVars == <<hot, cold, late>>
archiveVars == <<archAt, archTodo, archFound, figure>>
analysisVars == <<at, only, force, found, todo>>
alertVars == <<kind, acked, page, unforced>>
vars == <<today, events, fileVars, stats, archiveVars, analysisVars, watched, alertVars>>

Recorded(st) == {d \in Days : st[d] # None}

TypeOK ==
    /\ today \in 0 .. MaxToday /\ events \in 0 .. MaxEvents
    /\ hot \in [Days -> Nat \cup {None}] /\ cold \in [Days -> Nat \cup {None}]
    /\ stats \in [Days -> Nat \cup {None}]
    /\ archAt \in {"off", "move", "count", "store"}
    /\ archTodo \subseteq Days /\ archFound \in [Days -> Places]
    /\ figure \in IF archAt = "store" THEN Nat ELSE {None}
    /\ at \in [Analysts -> {"off", "scan", "stats", "look", "open", "insert"}]
    /\ only \in [Analysts -> Days \cup {None}]
    /\ force \in [Analysts -> BOOLEAN]
    /\ found \in [Analysts -> [Days -> Places]]
    /\ todo \in [Analysts -> SUBSET Recorded(stats)]
    /\ watched \in Days \cup {None}
    /\ kind \in [Days -> {"none", "anomaly", "watchdog"}]
    /\ acked \in [Days -> BOOLEAN] /\ page \in [Days -> {"none", "row", "gone"}]
    /\ late \subseteq Days
    /\ unforced \in [Days -> SUBSET Inserters]

Init ==
    /\ today = StartDay /\ events = 0
    /\ hot = StartRows /\ cold = [d \in Days |-> None]
    /\ stats = [d \in Days |-> None]
    /\ archAt = "off" /\ archTodo = {} /\ archFound = [d \in Days |-> "none"] /\ figure = None
    /\ at = [a \in Analysts |-> "off"] /\ only = [a \in Analysts |-> None]
    /\ force = [a \in Analysts |-> FALSE]
    /\ found = [a \in Analysts |-> [d \in Days |-> "none"]]
    /\ todo = [a \in Analysts |-> {}]
    /\ watched = None /\ kind = [d \in Days |-> "none"] /\ acked = [d \in Days |-> FALSE]
    /\ page = [d \in Days |-> "none"]
    /\ late = {} /\ unforced = [d \in Days |-> {}]

-----------------------------------------------------------------------------
(* Days and their files *)

Event ==
    /\ events < MaxEvents
    /\ events' = events + 1

NextDay ==
    /\ today < MaxToday
    /\ today' = today + 1
    /\ UNCHANGED <<events, fileVars, stats, archiveVars, analysisVars, watched, alertVars>>

\* Mutant: days of exactly hot_retention_days are moved too.
OldTooSoon(d) == today - d >= HotRetention

Old(d) == today - d > HotRetention

\* insert_batch of day d, which creates the hot file if there is none.
StoreRows(d, n) ==
    /\ Event
    /\ hot' = [hot EXCEPT ![d] = IF @ = None THEN n ELSE @ + n]
    /\ late' = IF today - d > HotRetention THEN late \cup {d} ELSE late
    /\ UNCHANGED <<today, cold, stats, archiveVars, analysisVars, watched, alertVars>>

\* delete_expired: the figures and the alert of the day stay.
Expire(d) ==
    /\ DeleteAfter > 0
    /\ cold[d] # None /\ today - d > DeleteAfter
    /\ cold' = [cold EXCEPT ![d] = None]
    /\ UNCHANGED <<today, events, hot, late, stats, archiveVars, analysisVars, watched,
                   alertVars>>

\* list_all: hot overrides cold.
Place(d) == CASE hot[d] # None -> "hot" [] hot[d] = None /\ cold[d] # None -> "cold"
              [] OTHER -> "none"

\* The rows that open_for_query shows of a day that a listing has found at place p.
RowsAt(p, d) == CASE p = "hot" -> hot[d] [] p = "cold" -> cold[d] [] OTHER -> None

\* The days of a set are visited in the order of their dates.
IsFirst(d, S) == d \in S /\ \A e \in S : d <= e

-----------------------------------------------------------------------------
(* The archive job *)

ArchiveEnds ==
    /\ archAt' = "off" /\ archTodo' = {}
    /\ archFound' = [d \in Days |-> "none"] /\ figure' = None

\* The timer fires and move_old_to_cold lists hot_dir.
StartArchive ==
    /\ archAt = "off"
    /\ archAt' = "move"
    /\ archTodo' = {d \in Days : hot[d] # None /\ Old(d)}
    /\ UNCHANGED <<today, events, fileVars, stats, archFound, figure, analysisVars, watched,
                   alertVars>>

\* archive_day: a Parquet file that exists is kept and the hot file removed.
ArchiveDay(d) ==
    /\ archAt = "move" /\ d \in archTodo
    /\ cold' = IF cold[d] = None THEN [cold EXCEPT ![d] = hot[d]] ELSE cold
    /\ hot' = [hot EXCEPT ![d] = None]
    /\ archTodo' = archTodo \ {d}
    /\ UNCHANGED <<today, events, late, stats, archAt, archFound, figure, analysisVars,
                   watched, alertVars>>

\* The hot file is locked, or the job is killed, with the Parquet file in place or
\* without: there are no figures from this run.
ArchiveCutShort(d) ==
    /\ archAt = "move" /\ d \in archTodo
    /\ \/ UNCHANGED cold
       \/ cold[d] = None /\ cold' = [cold EXCEPT ![d] = hot[d]]
    /\ ArchiveEnds
    /\ UNCHANGED <<today, events, hot, late, stats, analysisVars, watched, alertVars>>

\* list_all, once everything is moved.
ListDays ==
    /\ archAt = "move" /\ archTodo = {}
    /\ archAt' = "count"
    /\ archTodo' = {d \in Days : Place(d) # "none"}
    /\ archFound' = [d \in Days |-> Place(d)]
    /\ UNCHANGED <<today, events, fileVars, stats, figure, analysisVars, watched, alertVars>>

\* count_logs
CountRows(d) ==
    /\ archAt = "count" /\ IsFirst(d, archTodo)
    /\ RowsAt(archFound[d], d) # None
    /\ figure' = RowsAt(archFound[d], d)
    /\ archAt' = "store"
    /\ UNCHANGED <<today, events, fileVars, stats, archTodo, archFound, analysisVars, watched,
                   alertVars>>

\* count_logs raises: the file is locked or gone, and later days keep their old figures.
CountFails(d) ==
    /\ archAt = "count" /\ IsFirst(d, archTodo)
    /\ archFound[d] = "hot" \/ cold[d] = None
    /\ ArchiveEnds
    /\ UNCHANGED <<today, events, fileVars, stats, analysisVars, watched, alertVars>>

\* upsert_daily_stats
StoreFigure(d) ==
    /\ archAt = "store" /\ IsFirst(d, archTodo)
    /\ stats' = [stats EXCEPT ![d] = figure]
    /\ archAt' = "count" /\ archTodo' = archTodo \ {d} /\ figure' = None
    /\ archFound' = [archFound EXCEPT ![d] = "none"]
    /\ UNCHANGED <<today, events, fileVars, analysisVars, watched, alertVars>>

EndArchive ==
    /\ archAt = "count" /\ archTodo = {}
    /\ ArchiveEnds
    /\ UNCHANGED <<today, events, fileVars, stats, analysisVars, watched, alertVars>>

-----------------------------------------------------------------------------
(* compute_anomalies *)

Earlier(st, d) == {e \in Recorded(st) : e < d}

\* The last baseline_days recorded before d.
Baseline(st, d) ==
    {e \in Earlier(st, d) : Cardinality({f \in Earlier(st, d) : e < f}) < BaselineDays}

\* A day stands out if it is large and threshold_ratio times the mean of those days of its
\* baseline that have any rows.
Anomalous(st, d) ==
    LET counted == {e \in Baseline(st, d) : st[e] > 0}
        total == MapThenSumSet(LAMBDA e : st[e], counted)
        n == Cardinality(counted)
    IN  /\ st[d] # None /\ st[d] >= MinCount
        /\ Cardinality(Baseline(st, d)) >= MinBaseline
        /\ n > 0
        /\ 10 * total >= MinCount * n
        /\ st[d] * n >= Threshold * total

Anomalies(st) == {d \in Days : Anomalous(st, d)}

-----------------------------------------------------------------------------
(* The analysis *)

\* Mutant: alert_exists finds the alert of any day.
AnyExists(d) == \E e \in Days : kind[e] # "none"

\* alert_exists
Exists(d) == kind[d] # "none"

\* Mutant: the new row keeps the acknowledgement, as with ON CONFLICT DO UPDATE.
AckedStays(d) == acked[d]

AckedAfresh(d) == FALSE

\* insert_alert by p: INSERT OR REPLACE, so the row is a new one with an id of its own.
InsertAlert(p, d, k, unasked) ==
    /\ kind' = [kind EXCEPT ![d] = k]
    /\ acked' = [acked EXCEPT ![d] = AckedAfresh(d)]
    /\ page' = [page EXCEPT ![d] = IF @ = "none" THEN @ ELSE "gone"]
    /\ unforced' = IF unasked THEN [unforced EXCEPT ![d] = @ \cup {p}] ELSE unforced

AnalysisEnds(a) ==
    /\ at' = [at EXCEPT ![a] = "off"]
    /\ only' = [only EXCEPT ![a] = None]
    /\ force' = [force EXCEPT ![a] = FALSE]
    /\ found' = [found EXCEPT ![a] = [d \in Days |-> "none"]]
    /\ todo' = [todo EXCEPT ![a] = {}]

\* run: list_all scans cold_dir.  An administrator may give --force, or --date, which forces.
StartAnalysis(a, d, f) ==
    /\ at[a] = "off"
    /\ d # None => f
    /\ IF f THEN Event ELSE UNCHANGED events
    /\ at' = [at EXCEPT ![a] = "scan"]
    /\ only' = [only EXCEPT ![a] = d] /\ force' = [force EXCEPT ![a] = f]
    /\ found' = [found EXCEPT ![a] = [e \in Days |-> IF cold[e] # None THEN "cold" ELSE "none"]]
    /\ UNCHANGED <<today, fileVars, stats, archiveVars, todo, watched, alertVars>>

\* ... and then hot_dir.
ScanHot(a) ==
    /\ at[a] = "scan"
    /\ at' = [at EXCEPT ![a] = "stats"]
    /\ found' = [found EXCEPT ![a] = [e \in Days |-> IF hot[e] # None THEN "hot" ELSE @[e]]]
    /\ UNCHANGED <<today, events, fileVars, stats, archiveVars, only, force, todo, watched,
                   alertVars>>

Known(a) == {only[a]} \cap Recorded(stats)

\* all_daily_stats, and the candidates.
ReadStats(a) ==
    /\ at[a] = "stats"
    /\ at' = [at EXCEPT ![a] = "look"]
    /\ todo' = [todo EXCEPT ![a] = IF only[a] = None THEN Anomalies(stats) ELSE Known(a)]
    /\ only' = [only EXCEPT ![a] = None]
    /\ found' = [found EXCEPT ![a] = [d \in Days |-> IF d \in todo'[a] THEN @[d] ELSE "none"]]
    /\ UNCHANGED <<today, events, fileVars, stats, archiveVars, force, watched, alertVars>>

\* Mutant: nobody looks for an alert of the day.
PassedUnseen(a, d) == found[a][d] # "none"

\* _analyze_one goes on to open the day.
Passed(a, d) == (force[a] \/ ~Exists(d)) /\ found[a][d] # "none"

\* alert_exists, and the day is passed over.
Skip(a, d) ==
    /\ at[a] = "look" /\ IsFirst(d, todo[a])
    /\ ~Passed(a, d)
    /\ todo' = [todo EXCEPT ![a] = @ \ {d}]
    /\ found' = [found EXCEPT ![a][d] = "none"]
    /\ UNCHANGED <<today, events, fileVars, stats, archiveVars, at, only, force, watched,
                   alertVars>>

\* alert_exists, and the day is to be analysed.
Look(a, d) ==
    /\ at[a] = "look" /\ IsFirst(d, todo[a])
    /\ Passed(a, d)
    /\ at' = [at EXCEPT ![a] = "open"]
    /\ UNCHANGED <<today, events, fileVars, stats, archiveVars, only, force, found, todo,
                   watched, alertVars>>

\* open_for_query, analyze_day and close.
Open(a, d) ==
    /\ at[a] = "open" /\ IsFirst(d, todo[a])
    /\ RowsAt(found[a][d], d) # None
    /\ at' = [at EXCEPT ![a] = "insert"]
    /\ UNCHANGED <<today, events, fileVars, stats, archiveVars, only, force, found, todo,
                   watched, alertVars>>

\* open_for_query raises: the file is locked or gone, and the run ends.
OpenFails(a, d) ==
    /\ at[a] = "open" /\ IsFirst(d, todo[a])
    /\ found[a][d] = "hot" \/ cold[d] = None
    /\ AnalysisEnds(a)
    /\ UNCHANGED <<today, events, fileVars, stats, archiveVars, watched, alertVars>>

Insert(a, d) ==
    /\ at[a] = "insert" /\ IsFirst(d, todo[a])
    /\ InsertAlert(a, d, "anomaly", ~force[a])
    /\ at' = [at EXCEPT ![a] = "look"]
    /\ todo' = [todo EXCEPT ![a] = @ \ {d}]
    /\ found' = [found EXCEPT ![a][d] = "none"]
    /\ UNCHANGED <<today, events, fileVars, stats, archiveVars, only, force, watched>>

EndAnalysis(a) ==
    /\ at[a] = "look" /\ todo[a] = {}
    /\ AnalysisEnds(a)
    /\ UNCHANGED <<today, events, fileVars, stats, archiveVars, watched, alertVars>>

-----------------------------------------------------------------------------
(* The watchdog and the administrator *)

\* stream_watchdog.run finds the offsets stale or the buffer full, and no alert of today.
WatchLook ==
    /\ watched = None
    /\ today \in Days /\ ~Exists(today)
    /\ watched' = today
    /\ Event
    /\ UNCHANGED <<today, fileVars, stats, archiveVars, analysisVars, alertVars>>

WatchInsert ==
    /\ watched # None
    /\ InsertAlert(Watchdog, watched, "watchdog", TRUE)
    /\ watched' = None
    /\ UNCHANGED <<today, events, fileVars, stats, archiveVars, analysisVars>>

\* The page of alerts is loaded.
OpenPage ==
    /\ page' = [d \in Days |-> IF Exists(d) THEN "row" ELSE "none"]
    /\ Event
    /\ UNCHANGED <<today, fileVars, stats, archiveVars, analysisVars, watched, kind, acked,
                   unforced>>

\* acknowledge_alert with the id that the page shows; an id that is gone gives 404.
Acknowledge(d) ==
    /\ page[d] = "row"
    /\ ~acked[d]
    /\ acked' = [acked EXCEPT ![d] = TRUE]
    /\ UNCHANGED <<today, events, fileVars, stats, archiveVars, analysisVars, watched, kind,
                   page, unforced>>

-----------------------------------------------------------------------------

ArchiveStep ==
    \/ \E d \in Days : \/ ArchiveDay(d) \/ ArchiveCutShort(d)
                       \/ CountRows(d) \/ CountFails(d) \/ StoreFigure(d)
    \/ ListDays \/ EndArchive

AnalysisStep(a) ==
    \/ ScanHot(a) \/ ReadStats(a) \/ EndAnalysis(a)
    \/ \E d \in Days : Skip(a, d) \/ Look(a, d) \/ Open(a, d) \/ OpenFails(a, d) \/ Insert(a, d)

Next ==
    \/ NextDay
    \/ \E d \in Days, n \in Amounts : StoreRows(d, n)
    \/ \E d \in Days : Expire(d) \/ Acknowledge(d)
    \/ StartArchive \/ ArchiveStep
    \/ \E a \in Analysts :
          \/ \E d \in Days \cup {None}, f \in BOOLEAN : StartAnalysis(a, d, f)
          \/ AnalysisStep(a)
    \/ WatchLook \/ WatchInsert \/ OpenPage

\* The timer starts the analysis every night and its code runs on.  The processor lets go of
\* a file every duckdb_close_interval_seconds, and open_for_query tries for four
\* seconds, so a run does not meet the lock every night.  Nothing is assumed of the rest.
Fairness ==
    /\ WF_vars(StartAnalysis(Timer, None, FALSE))
    /\ WF_vars(AnalysisStep(Timer))
    /\ SF_vars(\E d \in Days : Open(Timer, d))

Spec == Init /\ [][Next]_vars
LiveSpec == Spec /\ Fairness

-----------------------------------------------------------------------------
(* Properties *)

\* insert_alert replaces rows, and between a look and an insertion there are others at work;
\* still, who has once inserted an alert of a day does not come to insert another one
\* without --force or --date ("Idempotente por dia", jobs/stream_watchdog.py).
OncePerDay ==
    /\ \A a \in Analysts : \A d \in Days :
          at[a] \in {"open", "insert"} /\ IsFirst(d, todo[a]) /\ ~force[a]
          => a \notin unforced[d]
    /\ watched # None => Watchdog \notin unforced[watched]

\* acknowledge_alert goes by the id of a row: whatever analyses and the watchdog put in its
\* place after the page was loaded, an alert counts as acknowledged only if the
\* administrator has had this very row before his eyes.
AckedWasSeen == \A d \in Days : acked[d] => page[d] = "row"

\* The archive job counts days while rows are stored and files move: the figure of a day falls
\* from one run to the next only if records came when the day was old enough to be
\* archived.  (They then make a new hot file, which hides the Parquet file.)
FiguresFallOnlyLate == [][\A d \in Days : stats'[d] < stats[d] => d \in late]_vars

\* The inductive invariant behind the three: an alert on the page or inserted unasked is
\* there; only old days are moved; and whatever archive run is in progress, the figure of
\* a day without late records is at most what its file holds, and the job is about to
\* store one that is not below it.
Rows(d) == IF hot[d] # None THEN hot[d] ELSE cold[d]

Storing(d) == archAt = "store" /\ IsFirst(d, archTodo)

AlertsThere == \A d \in Days : page[d] = "row" \/ unforced[d] # {} => Exists(d)

OldMoved ==
    \A d \in Days :
        /\ cold[d] # None => Old(d)
        /\ archAt = "move" /\ d \in archTodo => hot[d] # None /\ Old(d)

FiguresBelow ==
    \A d \in Days \ late :
        /\ hot[d] # None /\ cold[d] # None => hot[d] = cold[d]
        /\ Place(d) # "none" => stats[d] <= Rows(d)
        /\ Place(d) = "none" /\ stats[d] # None => Old(d)
        /\ Storing(d) => /\ stats[d] <= figure
                         /\ Place(d) # "none" => figure <= Rows(d)
                         /\ Place(d) = "none" => Old(d)

DailyIInv == TypeOK /\ AlertsThere /\ OldMoved /\ FiguresBelow

\* A day that stands out for good gets its alert, although runs fail, days are in hand at
\* another place than listed and the watchdog writes to the same table, which
\* alone may keep the day from being analysed.
AnomaliesAlerted ==
    \A d \in Days :
        <>[](Anomalous(stats, d) /\ Place(d) # "none")
        => <>(kind[d] = "anomaly") \/ <>[](kind[d] = "watchdog")
=============================================================================
