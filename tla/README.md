# A TLA+ verification of Megalog

Megalog receives syslog lines about NAT sessions from MikroTik routers, stores
them in one DuckDB file per day, archives old days as Parquet, and lets an
operator search them and look at anomalies.  This directory holds TLA+ models of
the program, the TLC runs that check them, and the theorems that TLAPS proves
about them.  All definitions are translations of the Python code under
`src/megalog`; `PROJECT.json` names the lines of each.

## 1. The system

| Component | Code | State it keeps | Operations |
|---|---|---|---|
| UDP receivers | `ingest/receiver.py` | a writer with a 64 KB buffer, one per process | datagram, SIGTERM |
| Hourly stream files | `ingest/stream.py` | `.raw` files, `.processed/`, the offsets file | append, rollover, list, archive, get/set/forget/save |
| Processor | `ingest/processor.py` | offsets, batch by day, `running` | tick, process file, maybe archive, flush, run |
| Parser | `ingest/parser.py` | none | join continuations, parse a line |
| Day store | `storage/duckdb_store.py` | connection and dictionaries per day | insert batch, close |
| Dictionaries, IP registry | `storage/dict_cache.py`, `ip_registry.py` | cache in front of a table, hit counts | get or create, evict, flush hits |
| Partitions, archive, retention | `storage/partitions.py`, `jobs/archive.py`, `jobs/retention.py` | hot, archived and cold files per day, sidecars | open for query, archive a day, move, expire |
| Operational database | `storage/operational.py` | users, revoked tokens, alerts, statistics, audit | one function per statement |
| Accounts | `api/auth.py`, `deps.py`, `routes/auth.py`, `routes/admin.py` | tokens in clients' hands | login, logout, change password, create, deactivate, change role |
| Daily jobs | `jobs/analyze.py`, `stream_watchdog.py` | none of their own | analyse a day, watch the stream |
| Analytics | `analytics/*.py` | none | detect anomalies, collect figures, classify, narrate |
| Search | `api/search.py` | none that outlives a request: open file, total, rows, names | locate, open, count, read rows, read names |
| Import tools | `tools/*.py` | Parquet files and sidecars in `cold_dir`, results of a run, a pool | import raw files, import databases of four old schemas |
| Web frontend, HTTP glue, backup | `frontend/`, `api/app.py`, `deploy/` | a token in the browser | presentation, pure I/O |

How they interact.  Receivers and processor are processes that share nothing but
the stream directory and the clock.  The processor writes the hot DuckDB files;
the web API reads them (DuckDB admits either one writer or readers per file, so
the processor closes its connections from time to time); the archive job turns a
hot file into Parquet; retention moves and deletes Parquet files.  API, jobs and
tools share the operational SQLite file.

What is hard.  Nobody orders the processes: a receiver's buffer can be written
out after the processor archived the file; a kill can come between any two
writes of the processor, and the order in which it inserts rows, saves offsets,
moves files and forgets offsets decides what a kill loses or repeats; archive
and retention run by timers beside the processor; the import tools write Parquet files
straight to the names that the archive job and the readers use, and a search reads a day
in several statements while all of them replace its files.  `PROJECT.json` lists these
hazards by line.

What makes each component correct, in a sentence:

* ingestion: a line that reached its file ends in the tables, once; what is
  not so is bounded and has a known cause;
* IP registry and dictionaries: an id means one value for ever, in all caches;
* partitions: at every moment each stored record is found by a query once, and
  a job that stops half way leaves a state from which the next run repairs;
* accounts: somebody can always administer, and a revoked session stays so;
* daily jobs: figures follow the files, a day that stands out gets its alert, and nobody's
  alert or acknowledgement is lost unseen;
* import tools: what can be read stays readable, and the rows, names and figure of a
  day are of one source;
* search: rows, total and names of an answer belong together;
* analytics, parser: the result agrees with what it is drawn from.

## 2. Modules

```
HourlyStream   receivers, their buffers, the .raw files, the clock
Processor      EXTENDS HourlyStream: the processor's main loop and its crashes
Ingest         EXTENDS Processor: the composition, its properties
LogDelivery    abstract specification of what ingestion promises; Ingest implements it
MCIngest       Ingest for TLC (ingest_*.cfg)
IngestInv      the inductive invariant
IngestProofs   the proofs

Partitions     the files of a day: processor's connections, archive job, retention, readers
MCPartitions   Partitions for TLC (partitions*.cfg)
PartitionsInv  the inductive invariant
PartitionsProofs the proofs

IpRegistry     the registry of addresses and the processes that have it open
DictCache      a dictionary of names in the file of a day
Ids            EXTENDS IpRegistry, DictCache: the composition, its properties, the invariant
IdMap          abstract specification of a store of ids; both stores implement it
MCIds          Ids for TLC (ids*.cfg)
IdsProofs      the proofs
Sums           lemmas about induction and finite sums, for IdsProofs and AlgorithmsProofs

Accounts       users, tokens, revocations, and the requests that work on them
MCAccounts     Accounts for TLC (accounts.cfg)
AccountsProofs the proofs

DailyJobs      the figures and alerts of days, and the jobs and people that write them
MCDailyJobs    DailyJobs for TLC (daily.cfg)
DailyJobsProofs the proofs

Imports        the import tools beside archive job, retention and count, on cold_dir
ImportsInv     the inductive invariant
MCImports      Imports for TLC (imports.cfg)
Search         EXTENDS Imports: requests that read a day while its files change
SearchInv      the inductive invariant
MCSearch       Search for TLC (search*.cfg)
SearchProofs   the proofs about Imports and Search

Classifier     classify_traffic, without state
Analyzer       EXTENDS Classifier: collect_stats and the narrative
Timestamps     the moment of a line in its five formats
LegacyRows     the four old schemas and the map of their addresses
Algorithms     EXTENDS these three: each call as a task with one answer
MCAlgorithms   Algorithms for TLC (algorithms.cfg): the arguments
AlgorithmsProofs the proofs
```

### HourlyStream

`up`, `openHour`, `buf` and `writes` are one `HourlyStreamWriter` per receiver:
whether the process runs, `_current_hour`, the content of the Python buffer, and
`_writes_since_flush`.  `content`, `loc` and `mtime` are the files.  A file stands
for an inode: `MoveFile` of the processor changes its directory, and a writer
that still has it open goes on appending to it, as on a POSIX file system.

`datagram_received` is one atomic step of the asyncio loop, and so one action
here, in two forms: `ReceiveAndFlush` when the counter reaches
`flush_every`, `ReceiveAndHold` otherwise, the latter with or without the buffer
being written out because it is full (`spill`).  Both contain the rollover.
`StopReceiver` is the SIGTERM path, `KillReceiver` a kill or crash,
`StartReceiver` systemd's restart.

Lines are kept as what the parser will make of them: a whole record with its
day, the first or the second part of a split record, noise.

### Processor

One action per point at which a receiver, a signal or a crash can come
between: listing (`StartTick`), opening and reading a file (`ReadFile`), each
joined line (`ProcessLine`), `SaveOffset`, the decision of `_maybe_archive`
(`KeepFile`, `ArchiveFile`), `MoveFile`, `ForgetOffset`, each day of `_flush`
(`InsertDay`), its end (`FinishFlush`), the end of a tick, the final flush and
the exit.  `pc` is the place in the loop and `after` the place to which a flush
returns, because three places call it.  A SIGTERM sets `running`
(`Sigterm`), and inside the reading loop it also cuts the reading short
(`ReadInterrupted`).  `Kill` and `KillDuringInsert` take all of the loop state;
DuckDB's `executemany` without a transaction commits row by row, so the second
leaves any part of a day's list inserted.  An exception that nothing catches,
such as a lock held by another process, is a `Kill` too.

`rows` is a bag: a record that is inserted twice counts twice.

### Ingest and LogDelivery

`Ingest` lets every step of one process come between any two steps of the
other.  `LogDelivery` knows only `published` (refined by the lines on disk),
`rows` and `kills`, and allows a step to insert only records that the
current life of the processor has not inserted.

### Partitions

This module takes the processor from the other side: not what it reads but which
files it has open.  A day has at most one hot file by name (`hot`), but over
time several inodes (`table[d][f]`), because the archive job unlinks the name
while the processor may still have the file open; `conn` is `_connections`.
`coded[n]` is the file whose dictionaries gave row `n` its ids when it joined the
batch (`_to_entry`).  DuckDB's lock is derived: a writer holds it where `conn[d]`
is the file of that name, a reader where it is attached.  `Connect` is `_connect`: an
open connection, an existing file that no reader holds, or a new file.
`ConnectRefused` is the same call while a reader holds the file: the
exception is caught nowhere and the process ends.

The archive job has one action per step of `archive_day` at which the others
or a crash can come between: attach and copy, detach, `replace`, sidecar, unlink
(`jobAt`, `snap`).  `RemoveHot` is its early return for a day that has a Parquet
file, `AttachRefused` the uncaught exception that ends the whole run.
`JobCrash` may leave a torn sidecar.  `Expire` is retention, one file at a time.

A reader is `list_all` (two scans, `ScanCold` and `ScanHot`), `open_for_query`
with its retries, the SELECT and the close.  Search, export and daily counts do
the same, so the model knows one kind of reader.

History variables say what the properties excuse: `late` (rows inserted after the
archive of their day was taken), `expired`, `reopened` (days with a hot file made
beside their Parquet file) and `cut` (days whose sidecar a crash prevented).

One behaviour that the model showed: `list_all` lets a hot file
override the Parquet file of its day.  A late record of an archived day makes
`_connect` create a new, nearly empty hot file, and until the next archive run
queries of that day return only what is in it.  `AnswersComplete` leaves such
days out; the Parquet file itself is safe, which `RowsKept` says.

### IpRegistry, DictCache, Ids and IdMap

An `ip_id` is the AUTOINCREMENT number of a row and nothing deletes rows, so `table` is a
sequence and an id its index.  `cache`, `pending` and `open` are one `IpRegistry` object
per process; `missed` is an address between the SELECT and the INSERT of
`get_or_create`, the place at which other processes come between.  There are
four kinds of processes: the processor, which an uncaught exception just ends;
workers of `import_raw`, which close the registry in a `finally` clause and so store
their counters; `import_legacy`, which catches the exception of a file
(`import_legacy.py:465-468`, `520-525`) and goes on with the same registry object, its cache and the
counters that are left; the web application, which only reads.  The class assumes one
writer (`ip_registry.py:67-68`); the code has three.

One call of `get_or_create` is `UseCached`, `UseStored`, or `Miss` followed by
`Insert` or `Refused`.  `UseCached`, `UseStored` and `Insert` contain the rest of
the call, eviction (`Remember`) and counting (`Return`), but for the flush at `max_pending_hits`,
which is a transaction of its own: until it is over the process begins nothing else (`Idle`).
`FlushHits` and `FlushFails` are this flush and the explicit ones.  `flush_hits` takes the counters
away before its transaction, so a flush that SQLite refuses loses them; `FlushFails` then ends the
processor or the worker, whose `close` finds nothing left to store, while `import_legacy` lives on with
empty counters.  `Refused` is an INSERT that raises, and `close` may fail too (`Closes`).  All of these
failures may happen at any time; the bound on calls bounds them too, since each needs a call before it.
`Open` contains the preload.  An eviction keeps any set of the right size,
since no property depends on the order of the entries.  (The documentation speaks of LRU; the
code keeps what was inserted last, and drops the preloaded addresses first.)

`DictCache` has one action per path of `get_or_create`, the load at a new connection, and
the end of a connection (`DropDict`), at which a killed processor may have inserted a name
that its cache has not learned.

`Ids` puts both side by side, as `_to_entry` uses them: the dictionary lives in the
processor and ends with it.  `IdMap` says what they promise: ids are one to one and never change, and only
ids that the table holds are returned.  The history variables `issued` and `told` are what
calls came to, `issued` also where the flush at the end of the call then fails; `uses` and `lost` count the
calls that counted an address, and those whose count went with a process or with a failed flush.

### Accounts

`users` is the table: rows are never deleted and numbered by AUTOINCREMENT, so it is a sequence.  A
hash is the password it matches and whether it has the old version's format.  `tokens` are
all JWTs issued, `revoked` is `revoked_jti`, `now` the clock.  `req[r]` is what a thread of the
server is doing: handlers are plain functions that run in a pool, each SQL statement is a
transaction of its own, and so an action ends where the next statement begins.  A login is
`Login` (SELECT and the check of the hash), `Rehash` if the hash is old, and `Issue`; a request with a
token is `Authenticate` (`get_current_user`) and then its handler, which for
`change_password` and `create_user` takes two actions.  Refused requests change nothing and
are not modelled.  The role of a request is its token's, and nothing looks at the user's row again;
that is what the code does, and the properties are stated around it.

At the start `EnsureDefaultAdmin` and `PurgeExpiredJti` run before any request.  `user_count`
counts active users while the name is UNIQUE among all: when everybody is inactive and a user
`admin` exists, the INSERT raises and the start fails for ever (`StartRefused`), where
`docs/ARCHITECTURE.md` line 341 speaks of an empty table.

History variables: `loggedOut`; `lastSet`, the password last given to a user; `overtaken`, users
whose password was set while a login was about to store its own hash; `leaving`, logins that were
under way when their user was deactivated.

### DailyJobs

`stats` is `daily_stats` (its `log_count`), and `kind`, `acked` are `anomaly_alerts`, which has at
most one row for a date.  Ids are AUTOINCREMENT, so a row that REPLACE puts in the place of another is
another row to an administrator who goes by the id on his page: `page[d]` says whether it shows the
row that is there (`row`) or one that has been replaced (`gone`).  Of a file only the number of rows
is kept.  `archive_day` is one step here, possibly cut short between the rename and the unlink; its
own steps, the locks and the two scans of readers are in `Partitions`.  A hot file may be locked
whenever somebody opens it, which ends the archive job (`ArchiveCutShort`, `CountFails`) or the
analysis (`OpenFails`).

The archive job is `StartArchive`, a step for each old day, `ListDays`, and `CountRows` and
`StoreFigure` for each day in the order of dates.  An analysis is `StartAnalysis` (with `--date`,
`--force` or neither), `ScanHot`, `ReadStats` with the whole of `compute_anomalies`, and for each
candidate `Skip`, or `Look`, `Open` and `Insert`: the look and the insertion are two statements, and others
insert between them.  The watchdog is `WatchLook` and `WatchInsert`; whether it sees a problem is
left open.  History variables: `late`, and `unforced`, who has inserted an alert of a day unasked.

What the model showed of this code, and what the properties therefore leave open:

* An alert of the watchdog keeps the nightly analysis from ever looking at that day, as
  `alert_exists` does not ask for the kind; `AnomaliesAlerted` names it.  An alert of the
  analysis silences the watchdog for the day in the same way.
* A look that was overtaken replaces an alert, with its acknowledgement, although nobody asked
  for it; `OncePerDay` says that each of them does so at most once for a day.
* After a late record the figure of an archived day falls to the number of late rows, until the next
  run removes the new hot file and counts the Parquet file again.
* Figures of expired days stay, and count in the baseline of later days.
* `move_old_to_cold` says that today and yesterday stay hot even at the edge; with `hot_retention_days` 0
  yesterday is moved.  `compute_anomalies` says that it wants three days with a volume; it wants three
  days, with a volume or not.

### Imports

`holds[d]` is the source whose rows `d.parquet` has, a source being a raw file, an old database or
a hot file, each with the rows and the names of its own; `sidecar[d]` and `figure[d]` are the sources
of `d.dicts.json` and of the row of `daily_stats`.  `writer[d]` is the run whose unfinished copy
stands under the name of the day.  DuckDB's `COPY` writes straight to a name that is free, and
to a file beside it, renamed at the end, when the name is taken: `BeginCopy` decides between `inplace` and
`aside`.  Where somebody takes the name away meanwhile, `FinishCopy` writes to an inode without a name.

A run is `StartRun`, which draws the tool, `--overwrite`, `--workers` and the files it finds; for
each file `Skip` (its Parquet file exists, or it has no record) or `Begin`, then `ReadFails`, `BeginCopy`, `FinishCopy`, `FailCopy`, and
`FinishRaw` or `FinishLegacy`; in the end `StoreFigure` for each result, and `EndRun` or `BreakOff`.  The
workers of a pool are the files in progress, `Busy(r)`.  The two tools differ as the code does: `import_raw`
writes a sidecar, collects results and lets a worker's exception pass (`raised`, `BreakOff`: no
figure of the run is stored); `import_legacy` has no sidecar, stores each figure at once, goes on after an
exception, and removes the Parquet file also when it failed before the copy.  `KillRun` can come
anywhere.  `results` has the order of `as_completed`, so that of two files of one date the last one
counts.

The archive job, retention and the nightly count are here in the steps that meet the tools' files; `Partitions` has
them in full.  `CountDays` stops at the first day that cannot be read, as the exception does.

History variables: `crossed`, dates on which a second writer began before the first was done;
`cut`, dates of a run that an exception or a kill has ended; `redone`, dates whose Parquet
file was overwritten or removed.

What the model showed, and what the properties leave open:

* The name of a Parquet file is the date alone, but `stream.py` names its files by the hour:
  of the 24 files of a day, `import_raw` imports one and skips the others, whatever
  its comment on one file for one day says, and with `--overwrite` the last one stays.
* A failed copy with `--overwrite` removes the older file, and with it the day.
* A kill during the copy leaves a torn file that the next run skips; the archive job takes it for
  the day's archive, deletes the hot file, and the count of later days fails.
* `import_legacy` writes no sidecar: rows of such days are shown with ids by convention.
* The workers of `import_raw` insert addresses at once, and one that loses the race raises
  (`ip_registry.py:141`), contrary to what `import_raw.py:17-18` says of separate processes; this
  is `Refused` in `IpRegistry`, and one of the causes of `ReadFails`.

### Search

One request is `Locate` (`_resolve_partition`), `OpenHot` or `OpenCold`, `Count`, `ReadRows`, `ReadNames` and
`Close`; `Fail` stands for the error that a missing or torn file raises at any of them.  A hot
file is attached once and, as an inode, survives its name; a Parquet file is opened anew by every
statement, and the sidecar after it, so what a request reads next is `Source(q)`.  A protocol is known by
the place of its name in a day's dictionary; `FilterIds` is the code's way to an id: the dictionary of
the hot file, or `_PROTO_NAME` where there is none.  `Protocols[f]` gives each source its own order.
`Next` interleaves requests with all steps of `Imports`.  The retries at a lock are in `Partitions`, whose
reader stops where this one begins.

### Classifier, Analyzer, Timestamps, LegacyRows, Algorithms

Pure parts, as operators.  `Classifier` has one operator for each of the signs that the code adds up and one
for each score.  Scores are hundredths; the code adds floats, so where a sum equals a limit or another sum the
choice is left open (`below`, and `Verdicts` as a set).  A reason is a word for a sentence, and there
where the code writes one.  `Analyzer` computes the figures from a day, a function from flows to numbers of rows,
with `Detail` for the queries that are made only above a number of rows.  `Timestamps` has the rules of
`parse_ts` for a line with its date, without its year, and with the time alone.  `LegacyRows` is `detect_schema`,
the registration of addresses and the join of each importer.  `Algorithms` makes one
behaviour of each call: a task, one step (`Classify`, `Analyze`, `Parse`, `Import`), an answer.  Its constants
are the sets of arguments, of which it assumes what the program can hand over: figures are numbers, a day has
finitely many kinds of rows, moments are in the calendar from 1970 on, a registry repeats no address, and old
databases hold the values of their schema.  `MCAlgorithms` gives small sets around the limits.

What they showed:

* A day without rows has the defaults of `stats.get`, which give it the verdict "Ataque/DoS" with
  0.40: few clients, few targets, few ports.
* A verdict "P2P" of 0.33 can come without a reason: the weaker signs of the mesh, of the ports and of the swarm
  have a score and no sentence.  The docstring's limit is `score>=0.30`; the code asks for
  more than 0.30, and rounding decides at the limit.
* `docs/ARCHITECTURE.md:294-304` lists the main sign of each category.  The code has others and lower
  limits, such as 1000 rows for malware and few DNS servers for many clients; the model follows the code.
* UDP is id 2 in `collect_stats`, but ids come in the order of arrival: where a day's first record was
  UDP, the figure counts TCP rows.  `MalwareFound` speaks of days where 2 is UDP.
* Formats B and D, without a year, are right from eleven months back to a day ahead, not over New Year
  with a clock that is behind, and not for 29 February read in another year.  Format C gets
  today's date, also on a backlog or an import.
* Schemas B and C lose negative addresses: the map has them without sign, the rows are joined
  with it.  Schema A has address 0 for a missing one, and drops a NAT address of 0.

## 3. Runs

| Run | Expectation | What it shows |
|---|---|---|
| `ingest_safety` | pass | safety properties and the refinement, with crashes of both processes, over three hours |
| `ingest_live` | pass | liveness, with two receivers |
| `ingest_archive` | violation of `ArchivedIsStored` | a file is archived before it was read completely, contrary to the comment in `_maybe_archive` |
| `partitions` | pass | safety of a day's files and answers, and that every old day becomes cold |
| `partitions_skip` | violation of `SkipIsHarmless` | the archive job does not skip an archived day but deletes its new hot file, contrary to `docs/OPERATIONS.md` |
| `ids` | pass | ids, caches and hit counts with three processes, evictions, races, kills and restarts |
| `accounts` | pass | revocation, passwords, deactivation and the lock-out protection, with two requests at a time, expiry, stops and restarts |
| `daily` | pass | figures, alerts and acknowledgements of two days, and that a day that stands out gets its alert |
| `imports` | pass | two runs of the import tools on one date, with pools, `--overwrite`, failures and a kill, beside archive job, retention and count |
| `search` | pass | a search while an import, the archive job, retention and the processor replace the files of its day |
| `search_proto` | violation of `FilterMatchesNames` | a search for a protocol in a cold day returns rows that are shown with another, contrary to `docs/ARCHITECTURE.md` |
| `algorithms` | pass | classifier, day analysis, timestamps and old schemas on bounded arguments around their limits |

Four divergences have no run of their own; the models contain the behaviour and the properties name it as the exception they make:
a kill loses up to a batch of records that the saved offset has passed (`RiskBounded`; `processor.py:152` against
`docs/ARCHITECTURE.md:489-490`); a record split over two datagrams is dropped when a read falls between them
(`docs/ARCHITECTURE.md:235-237`); a query that holds a hot file ends the processor that connects (`ConnectRefused`;
`docs/ARCHITECTURE.md:466-468`); and workers of `import_raw` that insert the same address end the import (`Refused`;
`ip_registry.py:141` against `import_raw.py:17-18`; `import_legacy` fails the file and goes on).

Properties of the passing runs, and the code that each is about:

* `RiskBounded`: fewer than `batch_size` records are in the batch alone with the
  saved offset past them; a kill can take no more.
* `LossesExplained`: an action property.  A record on disk is lost track of only
  by a kill that finds it at risk, or by the move of a file that it reached after
  `_maybe_archive` had taken the size.  All other orders of read, flush, save and
  archive are safe.
* `DeliverySpec`: rows are lines on disk, and a record is inserted
  at most once in each life of the processor, over SIGTERM and restart too.
* `IInv`: the inductive invariant of the proofs, checked before it was proved.  What has to be
  true of a file that leaves the stream directory (`BatchInStream`, `ForgottenWhenArchived`,
  `WriterNotDetached`) and what a kill of a receiver can take (`ReceiverLossBounded`) follow
  from it and are proved, not run.
* `PublishedIsStored`, `Settles`, `StreamDrains`: a record that reached its file
  within the hour is stored if no kill comes; after kills too, no record waits for ever;
  files of past hours leave the directory.

* `RowsKept`: a row once stored is in the hot or the Parquet file of its day, over
  crashes of the archive job at every step and inserts between any two of them.
* `AnswersComplete`: a request that is answered misses no row that could be found
  when it began, while the day moves between the two scans and the opening.
* `NamesFromOwnFile`: a row is inserted in the file whose dictionaries its ids come
  from, because connections are closed only with an empty batch.
* `PartitionsIInv`: the inductive invariant.  `SidecarMatches` follows from it: a Parquet file and its
  sidecar come from one hot file, also when a day whose Parquet file has expired is archived anew.
* `DaysBecomeCold`: a hot file that is old enough is archived in the end.

* `IpIdsSpec`, `NameIdsSpec`: the two refinements of `IdMap`.
* `HitsAccounted`: every count of an address is in `total_hits`, in some process's counters, or was lost,
  with a process that ended without storing it or with a flush that failed.  The last needs no process
  to end: `import_legacy` goes on, and what it counts afterwards is accounted like the rest.  Nothing is
  counted twice, whoever calls `flush_hits`.
* `IdsIInv`: the inductive invariant.  From it follow `CacheAgrees` (no cache entry is ever stale, although the
  web application loads its cache once) and `NamesInsertable` (ids counted in memory never collide with the
  table's); `PendingBounded` and `CacheBounded` are proved beside it.  The latter needs
  `ip_cache_max` above 1: at 1, `int(0.8 * 1)` is 0 and `[-0:]` keeps everything.

* `LoggedOutRefused`: a token that was logged out is never accepted again.  Logout stores nothing
  for a token that has expired since it was accepted, and the purge drops revocations; both are
  right only because their comparisons meet the decoder's at the second of expiry.
* `PasswordIsLastSet`: a login replaces a password by its own only in the one case that the
  code leaves open, an old hash read before the change.
* `DeactivatedLogsInNoMore`: only logins that had read the row complete.
* `LockoutExplained`: an action property.  The check in `deactivate_user` does not protect from
  lock-out, contrary to what `docs/MANUAL.md` line 427 suggests: two
  administrators can deactivate each other, the second with a token that outlived his account, and
  a change of role has no check at all.  The property says that these are the only two ways.
* `AccountsIInv`: the inductive invariant.

* `OncePerDay`: without `--force` or `--date`, nobody comes to insert a second alert of a day.
* `AckedWasSeen`: an acknowledgement belongs to the row that the administrator's page showed; it is
  never carried over to one that took its place.
* `FiguresFallOnlyLate`: an action property.  Whatever is moved, expired or cut short between
  listing, counting and storing, a figure falls only if records came when the day was old.
* `AnomaliesAlerted`: a day that stands out for good is alerted, although runs fail at locks and at
  files that moved since they were listed, unless an alert of the watchdog stands in its place.
* `DailyIInv`: the inductive invariant behind the safety properties.

* `ReadableKept`: an action property.  A Parquet file that can be read stays so, over any order of copies,
  failures and kills of four writers, unless retention removes it, or a failed copy of `--overwrite`
  or of a rival does.
* `NamesOwn`: where one writer at a time works on a date and none overwrites, the sidecar beside a Parquet file
  has its names or is missing, in the end only for a kill or an old database.
* `FigureAgrees`: when no run is at work on a date, its figure is of the file that lies there, unless writers met,
  a run was cut short, or the processor stored records of its own.
* `ImportsIInv`: the inductive invariant; `TornExplained` (a torn file is being written or was left by a kill) is in it.

* `AnswersNamed`, `TotalFits`: the names and the total of an answer are those of the file that its rows come from,
  though they are read by other statements, from files that may be replaced in between.  In a cold
  day that is being rewritten they are not; that is what `Undisturbed` leaves out.
* `FilterTrue`: a search for a protocol returns the rows of that protocol and no others, in a hot day by its
  dictionary, elsewhere if the ids follow the convention.
* `SearchIInv`: the inductive invariant.

* `LoopsNamed`: among nine scores that are sums of signs less deductions, a flow repeated half a million
  times is never reported as something else than a flood, an attack or a botnet.
* `VerdictsExplained`: a verdict gives a reason, but for the one P2P verdict described above.
* `AbusesCounted`: the figures of NTP and DNS clients are 0 where the query was not made, and the classifier takes few for
  an abuse: its limits lie above those of the queries, so that no abuse is reported that nobody counted.
* `MalwareFound`: malware is reported only for days with UDP on TCP's ports.
* `StampsRight`: which formats are stamped with the moment they were written, and how far off the reader may be.
* `ImportsKeep`: rows of the four schemas come through with their addresses, whatever ids they had, and the ids given before
  keep theirs.

Bounds of ingestion.  Three datagrams, `flush_every` 2 and `batch_size` 2 are enough for a
flush by count and a rest in the buffer, a full batch and a rest in the batch,
a rollover with a full and an empty buffer.  Three hours give a file that is
archived, one that is current, and one that is deleted after
`keep_hours` (0 here: the next hour).  One kill, one SIGTERM and one outage of
the receiver come at every place.  `ingest_safety` has one receiver, because
receivers meet only in the file they append to; `ingest_live` has two, and no outages.
Lines sent are one whole record of day `d1` and the two parts of one of day `d2`, so that
a batch spans two days and joins happen.  Deadlock is checked in all of them: the
processor can always go on.

Bounds of the partitions.  Two days, so that a refused attach leaves another day
unvisited; dates 0 to 2 with `hot_retention_days` 0 and `delete_after_days` 1, so that
day 0 becomes old, is archived and expires; two rows and two hot files of a day, so that
a row can be late and a day archived twice; one crash of the job, one kill, one
request at every place; two attempts, a first and a last.  More readers
differ only in the lock they share; the theorems cover any number.  Deadlock is
checked: the timer can always fire.

Bounds of the ids.  Three addresses against a cache of two and a preload of one, so that
addresses are evicted and preloaded (an evicted one that is asked for again by the same process is
left to the proofs, which have no bound); counters for two, so that the limit is reached
inside a call; one processor, one worker of `import_raw`, one `import_legacy` and one reader, three lives of
writers and three calls, so that all three writers race for one address, and a refused INSERT, a failed
flush with a use after it, an eviction and a restart occur, two or three of them in one behaviour.
Two names and any number of connections.  Addresses and names are symmetric: no definition tells
them apart.  A closed registry can be opened by the reader at any time, so deadlock is checked.

Bounds of the accounts.  Two requests at a time, so that any two statements interleave (requests are
symmetric); two names, and a table that is empty or holds one user with an old hash; two
passwords; two tokens, so that two administrators act, each through his own; a token lives one tick and the
clock makes two, so that tokens are valid, expire, and are purged a tick later.  Deadlock is
checked.  Safety only: nothing in this component waits for anything.

Bounds of the daily jobs.  Two days of 12 rows each, the second of them today and large enough
(`min_count` 12) to stand out against the first; one tick of the date, after which both are old
(`hot_retention_days` 0) and the first expires (`delete_after_days` 1).  Two events among late rows,
forced analyses, alarms of the watchdog and views of the alerts, all in all: a view, an
acknowledgement and a forced analysis that replaces the row; an alarm that meets an analysis between its
look and its insertion; a late row of an archived day.  Runs of the jobs are not bounded, and one analysis is
in progress at a time; the theorems cover any number.  Baseline, ratio and minimum are
smaller than the code's (one day, one time, 12 rows), and every test of `compute_anomalies` is kept.
Deadlock is checked: the timer can always fire.

Bounds of the imports.  One date, since files of different dates share nothing but the order of figures and
`CountDays`; two raw files, an old database and a hot file of that date, so that two of a pool, two runs, and a run and the archive
job meet; two runs with at most three files on their lists, a pool of two; one kill.  Runs and raw files are symmetric.
The count can always run between two archives, so deadlock is checked.
Safety only: a run of a tool is started by hand and may be cut short at any place.

Bounds of the search.  The same files, one of which has no record, with one run and one request, of any protocol or none; the four sources
have their protocols in four orders, by the convention and against it.  Composed with two runs it has over four million
states, so two runs are left to `imports`; the theorems cover any number of both.  No fairness: a request that
fails is answered with an error.

Bounds of the algorithms.  The figures lie on both sides of the limits that go together, in three families
(a mesh of P2P, a burst of few or many clients, abuses of a protocol); days are unions of up to three of twelve kinds of traffic;
moments lie around New Year, the end of February and midnight, of three years with a leap year among them; addresses have two bits, so that signed and unsigned
values overlap.  Each task has one answer, after which nothing happens: deadlock is not checked in this run
alone.

Fairness of ingestion.  `WF_vars(ProcessorStep)`: the loop is sequential code that the operating
system runs, and systemd restarts it (`Restart=always`).
`SF_vars(FlushAtTickEnd)`: every tick ends in `_flush`, and time makes
`time_due` true at some of those ends, because `_last_flush_at` is set
only by a flush; weak fairness would not do, since between the ends of
ticks the flush is not enabled.  Nothing is assumed of receivers, clock and signals.

Fairness of the partitions.  `WF_vars(ProcessorStep)` and `WF_vars(ArchiveStep)`: sequential
code that runs on, and `Restart=always`.  `WF_vars(StartArchive)`: the nightly timer.
`WF_vars(Release)`: with an empty batch, every flush that time makes due reaches
`_maybe_release_duckdb_lock`, and the interval is over at some of them.  Weak fairness is
enough, as an idle processor keeps nothing in its batch.  Under a stream of records
without end the release might meet the archive job at no time that suits it, so
with bounded records `DaysBecomeCold` speaks of a stream that pauses.  Nothing is assumed of
records, readers, retention and the date.

Fairness of the daily jobs.  `WF_vars(StartAnalysis(Timer, None, FALSE))` and
`WF_vars(AnalysisStep(Timer))`: the timer fires every night and its code runs on.  `SF_vars` of
opening a day: the processor releases its files every `duckdb_close_interval_seconds` and
`open_for_query` tries for four seconds, so a run that meets the lock every night is not
considered; weak fairness would not do, since a run that fails has to come back to the same place.
Nothing is assumed of the archive job, records, the watchdog and administrators.

Each property has a mutant in `PROJECT.json`: a plausible slip in the code,
defined beside the correct operator, for which TLC finds the property violated.

## 4. Theorems

All safety properties of `ingest_safety` are proved for every value of the
constants: any number of receivers, hours, lines, days, kills, stops, any
batch size and flush count.  The assumptions are `StreamAssumption` and
`ProcessorAssumption`: the counts are natural numbers, `FlushEvery` and
`BatchSize` are not zero, and the kinds of lines differ.

* `IngestProofs`: `TypeCorrect`, as types alone are inductive here, and
  `InvariantHolds`, the inductive invariant `IInv`.  None of
  the properties is inductive by itself.  `RiskBounded`, for example, fails one
  step after a state in which the batch is full outside the flush that
  `_process_file` calls, so `BatchInv` says where the batch may be full, and that it
  then holds a record that the saved offset has not passed; that rests on
  `OffsetInv` (reading goes forward from the offset) and on `ControlInv` (which file
  is being visited).  `RowsInv` says of every place in the loop how often a record
  can be in the tables; `ReadInv` says that nothing between the saved offset and
  the place of reading is skipped; `ReceiverInv` ties the buffer to the counter.
  Steps of the stream are treated once, through `FilesGrow`: files only grow,
  and only the current hour's file appears.
* From it: `RiskIsBounded`, `ReceiverLossIsBounded`,
  `BatchStaysInStream`, `WriterIsNotDetached`, `ArchivedIsForgotten`,
  `LossesAreExplained`, the refinement `DeliveryIsImplemented`, and
  `NoDuplicates`, which carries what `LogDelivery` says of the tables over to the code.

The partitions have `PartitionsAssumption`: all bounds are natural numbers, and there is
at least one attempt.

* `PartitionsProofs`: `PartitionsTypeCorrect`.  The types need `OpenedInv`: a reader's
  rows come from a file that it has opened.  Then `PartitionsInvariantHolds`, and from it `RowsAreKept`,
  `NamesStayTrue`, `SidecarsMatch` and `AnswersAreComplete`.  `RowsKept` fails one step after a
  state in which the job is about to unlink a file that its copy does not cover; so `JobInv`
  says which file the job works on and that nobody writes it while it copies, and `RowsInv`
  where the rows are at each step of the job.  `NamesInv` says that ids in the batch belong
  to the connection that is open.  `TwinInv` compares two files of one day after a crash, and
  `ReaderInv` says, for each place in a request, that the file it would turn to next has
  what it is owed.  `ServedWhileOthersStep` treats all steps of the others at
  once, through `OnlyGrows`.

The id stores have `RegistryAssumption`: processes are finitely many, their kinds are disjoint, limits are natural
numbers, and `max_pending_hits` is not zero.

* `IdsProofs`: `IdsInvariantHolds`, and from it `IdsTypeCorrect`, `CachesAgree` and
  `NamesAreInsertable`.  `IdsIInv` has three parts.  `RegistryInv`: the
  table repeats no address, every cache entry and every id that was returned names its row;
  all steps go through `Grows`, by which the table only gets rows at its end.  `DictInv`: the
  ids of a dictionary are 1 to n, which makes the largest one plus one a new one, and the
  open connection's cache is the table.  `RegistryStep` and `DictStep` say
  of each store what the other need not know.
* `IpIdsImplemented` and `NameIdsImplemented`: both stores implement `IdMap`.
* `PendingIsBounded` and `CacheIsBounded`, by counting: a call begins below the limit and adds one counter, and what
  an eviction leaves has room for one more entry.
* `HitsAreAccounted`: uses = stored + waiting in all processes + lost.  It needs, beside itself, that an address without a
  row has never been used (`HitsInv`), since its first use and its row come together.  A step changes the counters of one process, and
  `WaitingSum` turns this into a change of the sum; what is left is to see, for each exit of
  `get_or_create`, each flush, stored or failed, and each end of a process, that rows and losses gain what that
  one process loses.
* `Sums` carries this.  The library's induction theorems take an operator and cannot be used, so the module
  derives induction over the numbers and over a finite set from the existence of minimal elements (`WFMin`), stated of a set:
  a set with 0 that is closed under successors contains `Nat`, a family that has each subset of `S` whose
  smaller ones it has contains `S`.  With them: the fold of a sum exists and does not depend on the order (`SumsExist`, `SumFacts`),
  and what a sum does when one term changes, is removed, or all terms grow.

The accounts have `AccountsAssumption`: the users table of the old version has unique names, and
tokens live at least one tick.

* `AccountsProofs`: `AccountsInvariantHolds`, and from it `AccountsTypeCorrect`,
  `LoggedOutIsRefused`, `PasswordsAreLastSet`, `DeactivationEndsLogins` and `LockoutIsExplained`,
  for any number of requests, users and tokens.  `LoggedOutRefused` and
  `DeactivatedLogsInNoMore` carry themselves on; `PasswordIsLastSet` does not, so `RehashInv`
  says of a login about to store a hash that it read an old one, and that its password is the last one set
  unless it was overtaken; `RefersInv`, that requests speak of rows that exist.

The daily jobs have `DailyJobsAssumption`: settings and bounds are natural numbers, and the watchdog is
not an analysis.

* `DailyJobsProofs`: `TypeCorrect`; `DailyInvariant`, and beside it `OncePerDayHolds`,
  `AckedWasSeenHolds` and `FiguresFallOnlyLateHolds`, for any number of days, analyses in progress
  and events.  The alerts need `AlertsThere`: who finds no alert of a day has not inserted one,
  since alerts are replaced and never deleted.  The figures need `OldMoved` (only old days
  are moved, so that a row stored beside a Parquet file is a late one) and `FiguresBelow`,
  which also speaks of the figure that the job holds in hand between count and upsert.
  `QuietAlerts` and `QuietFigures` treat at once all steps that leave the one or the other alone.

The import tools and the search have `ImportsAssumption` (kinds of files are disjoint, dates are 1 to `MaxDate`, a pool has a
worker) and `SearchAssumption` (the protocols of a source are a list).

* `SearchProofs`: `ImportsInvariant`, and from it `TornIsExplained`, `NamesAreOwn` and `ReadableIsKept`, for any number of
  dates, files, runs, workers and kills.  `NamesOwn` fails one step after a state in which a sidecar is written beside a
  file of another source, so the invariant says where each writer is.  `SoloInv`: on a date that is not `crossed` at most one
  file is in progress and the archive job is elsewhere; it rests on `BeginAlone`, by which a file that finds others at
  work marks the date.  `SparingInv`: a run without `--overwrite` there has found nothing, and what lies there while it
  copies is its own.  `WriterInv` and `JobInv` say, for dates that nobody has redone either (`Clean`), what the files hold
  at each place of the run and of the job, and `SidecarInv` draws the conclusion.  `TornInv` ties a torn file to the
  copy that writes it.  `WriterCases` reduces a step of a file to four effects on the files, so
  that `SidecarFileStep` does not go through nine actions.
* `FiguresAgree`.  A figure is stored long after the file was written, when a run goes through its results, and the last
  result of a date counts.  `FigureInv` follows the debt: the file of an undisturbed date is one that a run has just written, or the last of its date
  in the results of a run, or has its figure, and then nobody's results name the date.  `OneRunInv` says that all of
  a date's results are of one run, for as long as it is up; `CopyInv`, that what an undisturbed run has copied still
  lies there; `ResultInv` and `UsedInv` tie results and hot files to what was done.  `crossed` is set by a run that finds
  the date on another's list, finished or not, and this is what `OneRunInv` rests on.
* `SearchInvariant`, and from it `AnswersAreNamed`, `TotalsFit` and `FilterIsTrue`, for any number of requests.  `CountInv` says of a
  count that the next statement will see the same file: an open hot file is one inode, and by `CleanStays` a readable
  Parquet file of a day that stays undisturbed is not exchanged, and its sidecar only gets from nothing to its names.
  `RowsInv` and `NamesInv` carry this on to the answer.  `SearchWhileImports` treats all steps of `Imports` at
  once.

The algorithms have `AlgorithmsAssumption`, described above, and `LegacyRowsAssumption` (an address has at least one bit).  Their
steps are trivial, and `AlgInv` says no more than that an answer is a result of its call; the work is in theorems
about operators, for all arguments.

* `AlgorithmsProofs`, on `classify_traffic`: `ScoreBounded`, `LoopNamedTheorem` and `VerdictExplainedTheorem`, from which
  `LoopsAreNamed` and `VerdictsAreExplained`.  Each score gets its bounds from the case
  distinctions of its signs; a flow of half a million gives the flood 90, which of the
  others only attack and botnet can reach, since P2P loses 20 and abuses are limited to 85.
* On `collect_stats`: `StatsRight` (its figures are numbers: the long division of `Share` by induction over its places, rows by
  sums, clients and servers by finite images), and from it `AbusesAreCounted` and `MalwareIsFound`.  For the first, a count of clients that the
  classifier accepts must come from a query that was made, so the limits of the two are compared; for the second,
  the UDP rows of id 2 are among those that the dictionary calls UDP (`RowsGrow`).
* On `parse_ts`: `StampsAreRight`, for every two moments of the calendar.  `DaysBefore` solves the recursion over the months;
  `NextYear` and `LaterYear` count the days of years with the rule of 4, 100 and 400; by `YearBefore` a line at most 330
  days old is of this year or the last, by `LastYear` one of last year lies ahead when it is given this year, by at least 34 days, and
  `NotAhead` bounds whatever the code returns.
* On `import_legacy`: `ImportsKeepAddresses`, for any number of rows and any width of addresses.  `AddressesFinite` says that what is registered
  is a finite set of addresses, `EnrolledRight` that the registry then has each of them once and keeps its ids; the theorem goes
  through the four schemas.

Only model-checked: the liveness properties (`PublishedIsStored`, `StreamDrains`, `Settles`, `DaysBecomeCold`,
`AnomaliesAlerted`), since TLAPS does not treat fairness and ENABLED; and the three violated statements, which are not
theorems.  All other properties of the runs are proved.

## 5. What is not modelled

* Torn lines: Python's buffered writer hands whole lines to the system, and a
  write is taken to be atomic for whoever reads the file.
* Lines that make `ip_to_int` raise in the processor, which ends it like a kill; in the import tools they are `ReadFails`.
* Loss of power, which can undo a rename or an unsynced write.
* Time zones and a clock set back: `datetime.now()` is local time.
* Statistics and logging.
* The write-ahead file that a killed processor leaves beside a hot file, which DuckDB replays
  at the next connection; two archive runs at once.
* A kill of an analysis, which leaves nothing behind; sizes in bytes.
* Of the imports: a sidecar that a kill tears in the middle of `write_text` (`JobCrash` of `Partitions` has the same case);
  the progress output; the compressed copies of old databases; the columns of old rows other than the addresses.
* Of the search: its other conditions, each of which is one SQL comparison, and the early return for an address that the registry does not
  know; pages after the first, whose `ORDER BY ts` leaves the order of equal times to the engine; the CSV
  form; retries at a lock, which are in `Partitions`.
* Of the analysis: the wording of the narrative, names of ports, DNS, how floats round (ties of scores are left open;
  the shares of `P2PPorts` that add up to exactly 0.70 are taken to reach it); rows without
  `dst_port`, which only old databases can bring.
* Of the parser: the regular expressions that take addresses, ports and names out of a line.
* `mark_hot`, which nothing calls, so that `is_hot` stays 0; the columns of times; a SELECT of the registry that
  SQLite refuses.
* The 256th name of a dictionary, whose id does not fit the UTINYINT column of protocols.
* The audit log, the time of the last login, the CSRF check of the origin, and password hashing as
  such.  The two reads of `get_current_user`, decoding and revocation, are one step.
* The components listed as `not_modelled` in `PROJECT.json`.

## 6. Plan

In this order; each module with its MC module, a passing run, and proofs of its
invariants where they are inductive.

1. *Done*: ingestion (above).
2. *Done*: `Partitions` (above).
3. *Done*: `IpRegistry`, `DictCache` and their composition `Ids` (above).
4. *Done*: `Accounts` (above).
5. *Done*: `DailyJobs` (above).
6. *Done*: `Imports` and `Search` (above).
7. *Done*: `Classifier`, `Analyzer`, `Timestamps` and `LegacyRows` (above).
8. *Done*: proofs of every safety property that a run checks.
9. The fields of a line (`parser.py`) against a plain grammar; pages of a search across partitions;
   liveness of an import that is repeated until it succeeds.
