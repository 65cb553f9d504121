------------------------------ MODULE Imports ------------------------------
(***************************************************************************)
(* The two import tools beside the archive job, the nightly count and      *)
(* retention, on the files of cold_dir:                                    *)
(*   - import_raw turns raw files into Parquet files, in one process or in *)
(*     a pool of them, writes the sidecar with the names, and stores the   *)
(*     figures of all files when the last one is done;                     *)
(*   - import_legacy turns old SQLite files into Parquet files, one by     *)
(*     one, writes no sidecar, and stores each figure at once.             *)
(* Both name the Parquet file after the date in the source's name, copy    *)
(* straight to that name, and remove it when the copy fails.  The archive  *)
(* job is told in four steps here; module Partitions has it in full.       *)
(*                                                                         *)
(* A source stands for its rows and its names: a raw file, an old database *)
(* or a hot file.  DuckDB's COPY writes straight to a name that is free,   *)
(* and beside one that is taken, to be renamed at the end.                 *)
(***************************************************************************)
EXTENDS Naturals, FiniteSets, Sequences

CONSTANTS
    MaxDate,        \* bound: dates 1 .. MaxDate
    RawFiles,       \* *.raw files
    LegacyFiles,    \* *.db and *.db.gz files
    HotFiles,       \* hot files that the processor may create
    DateOf,         \* DateOf[f]: the date in the name of f
    Unparsable,     \* raw files without a NAT record
    Runs,           \* bound: runs of the tools, each started once at most
    Pool,           \* --workers of a parallel run
    MaxListed,      \* bound: files on the lists of all runs in progress
    MaxKills,       \* bound: kills of runs and of the archive job
    NoFile,
    NoRun

Dates == 1 .. MaxDate
Sources == RawFiles \cup LegacyFiles \cup HotFiles
Imported == RawFiles \cup LegacyFiles

ASSUME ImportsAssumption ==
    /\ MaxDate \in Nat
    /\ DateOf \in [Sources -> Dates]
    /\ RawFiles \cap LegacyFiles = {} /\ Imported \cap HotFiles = {}
    /\ NoFile \notin Sources /\ NoRun \notin Runs
    /\ Pool \in Nat \ {0} /\ MaxListed \in Nat /\ MaxKills \in Nat

VARIABLES
    \* the files
    hot,        \* hot[d]: the hot file of d, or NoFile
    used,       \* hot files created so far
    holds,      \* holds[d]: the source whose rows d.parquet holds, or NoFile
    writer,     \* writer[d]: the run whose unfinished copy d.parquet is, or NoRun
    sidecar,    \* sidecar[d]: the source whose names d.dicts.json holds, or NoFile
    figure,     \* figure[d]: the source whose rows daily_stats counts for d, or NoFile
    \* the runs of the tools
    phase,      \* new, up, ended, killed
    legacy,     \* the run is one of import_legacy
    over,       \* --overwrite
    workers,    \* --workers
    at,         \* at[r][f]: where r is with file f
    results,    \* results[r]: files to be counted, in the order of as_completed
    raised,     \* a worker's exception is on its way up
    \* the archive job
    jobAt,      \* off, copied, replaced, written
    jobFile,    \* the hot file it works on
    kills,
    \* history, for the properties
    crossed,    \* dates on which two writers met
    cut,        \* dates of a run that an exception or a kill has ended
    redone      \* dates whose Parquet file was overwritten or deleted

fileVars == <<hot, used, holds, writer, sidecar, figure>>
runVars == <<phase, legacy, over, workers, at, results, raised>>
jobVars == <<jobAt, jobFile>>
historyVars == <<crossed, cut, redone>>
importVars == <<fileVars, runVars, jobVars, kills, historyVars>>

Active == {"reading", "inplace", "aside", "written"}
Over == {"imported", "left"}

TypeOK ==
    /\ hot \in [Dates -> HotFiles \cup {NoFile}] /\ used \subseteq HotFiles
    /\ holds \in [Dates -> Sources \cup {NoFile}]
    /\ writer \in [Dates -> Runs \cup {NoRun}]
    /\ sidecar \in [Dates -> Sources \cup {NoFile}]
    /\ figure \in [Dates -> Sources \cup {NoFile}]
    /\ phase \in [Runs -> {"new", "up", "ended", "killed"}]
    /\ legacy \in [Runs -> BOOLEAN] /\ over \in [Runs -> BOOLEAN]
    /\ workers \in [Runs -> {1, Pool}]
    /\ at \in [Runs -> [Imported -> {"none", "waiting"} \cup Active \cup Over]]
    /\ results \in [Runs -> Seq(Imported)] /\ raised \in [Runs -> BOOLEAN]
    /\ jobAt \in {"off", "copied", "replaced", "written"}
    /\ jobFile \in HotFiles \cup {NoFile}
    /\ kills \in Nat
    /\ crossed \subseteq Dates /\ cut \subseteq Dates /\ redone \subseteq Dates

Init ==
    /\ hot = [d \in Dates |-> NoFile] /\ used = {}
    /\ holds = [d \in Dates |-> NoFile] /\ writer = [d \in Dates |-> NoRun]
    /\ sidecar = [d \in Dates |-> NoFile] /\ figure = [d \in Dates |-> NoFile]
    /\ phase = [r \in Runs |-> "new"] /\ legacy = [r \in Runs |-> FALSE]
    /\ over = [r \in Runs |-> FALSE] /\ workers = [r \in Runs |-> 1]
    /\ at = [r \in Runs |-> [f \in Imported |-> "none"]]
    /\ results = [r \in Runs |-> <<>>] /\ raised = [r \in Runs |-> FALSE]
    /\ jobAt = "off" /\ jobFile = NoFile /\ kills = 0
    /\ crossed = {} /\ cut = {} /\ redone = {}

Exists(d) == holds[d] # NoFile
Readable(d) == Exists(d) /\ writer[d] = NoRun
Listed(r) == {f \in Imported : at[r][f] # "none"}
Busy(r) == {f \in Imported : at[r][f] \in Active}
JobOn(d) == jobAt # "off" /\ DateOf[jobFile] = d

\* Some other run has a file of date d on its list.
Rivals(r, d) == \E q \in Runs \ {r} : phase[q] = "up" /\ \E g \in Listed(q) : DateOf[g] = d

-----------------------------------------------------------------------------
(* The files of a date *)

\* d.parquet now holds all rows of f.
Put(d, f) ==
    /\ holds' = [holds EXCEPT ![d] = f]
    /\ writer' = [writer EXCEPT ![d] = NoRun]

Remove(d) ==
    /\ holds' = [holds EXCEPT ![d] = NoFile]
    /\ writer' = [writer EXCEPT ![d] = NoRun]

\* The processor creates the hot file of a date.
StoreRows(h) ==
    /\ h \in HotFiles \ used
    /\ hot[DateOf[h]] = NoFile
    /\ hot' = [hot EXCEPT ![DateOf[h]] = h] /\ used' = used \cup {h}
    /\ UNCHANGED <<holds, writer, sidecar, figure, runVars, jobVars, kills, historyVars>>

\* delete_expired: the sidecar stays.
Expire(d) ==
    /\ Exists(d)
    /\ Remove(d)
    /\ redone' = redone \cup {d}
    /\ UNCHANGED <<hot, used, sidecar, figure, runVars, jobVars, kills, crossed, cut>>

-----------------------------------------------------------------------------
(* The archive job *)

\* archive_day: a Parquet file that exists, whoever wrote it, makes the hot file
\* superfluous.
ArchiveSkip(d) ==
    /\ jobAt = "off" /\ hot[d] # NoFile
    /\ Exists(d)
    /\ hot' = [hot EXCEPT ![d] = NoFile]
    /\ UNCHANGED <<used, holds, writer, sidecar, figure, runVars, jobVars, kills, historyVars>>

ArchiveCopy(d) ==
    /\ jobAt = "off" /\ hot[d] # NoFile
    /\ ~Exists(d)
    /\ jobAt' = "copied" /\ jobFile' = hot[d]
    /\ crossed' = IF Rivals(NoRun, d) THEN crossed \cup {d} ELSE crossed
    /\ UNCHANGED <<fileVars, runVars, kills, cut, redone>>

ArchiveReplace ==
    /\ jobAt = "copied"
    /\ Put(DateOf[jobFile], jobFile)
    /\ jobAt' = "replaced"
    /\ UNCHANGED <<hot, used, sidecar, figure, runVars, jobFile, kills, historyVars>>

ArchiveSidecar ==
    /\ jobAt = "replaced"
    /\ sidecar' = [sidecar EXCEPT ![DateOf[jobFile]] = jobFile]
    /\ jobAt' = "written"
    /\ UNCHANGED <<hot, used, holds, writer, figure, runVars, jobFile, kills, historyVars>>

ArchiveUnlink ==
    /\ jobAt = "written"
    /\ hot' = [hot EXCEPT ![DateOf[jobFile]] = NoFile]
    /\ jobAt' = "off" /\ jobFile' = NoFile
    /\ UNCHANGED <<used, holds, writer, sidecar, figure, runVars, kills, historyVars>>

ArchiveKilled ==
    /\ jobAt # "off" /\ kills < MaxKills
    /\ kills' = kills + 1
    /\ jobAt' = "off" /\ jobFile' = NoFile
    /\ UNCHANGED <<fileVars, runVars, historyVars>>

\* The days that the count reaches: it ends at the first file that cannot be read.
Reached(d) == \A e \in 1 .. d : hot[e] = NoFile /\ Exists(e) => Readable(e)

\* The end of the archive run: every day is counted, in the order of the dates.
CountDays ==
    /\ jobAt = "off"
    /\ figure' = [d \in Dates |-> IF ~Reached(d) THEN figure[d]
                                  ELSE IF hot[d] # NoFile THEN hot[d]
                                  ELSE IF Exists(d) THEN holds[d]
                                  ELSE figure[d]]
    /\ UNCHANGED <<hot, used, holds, writer, sidecar, runVars, jobVars, kills, historyVars>>

-----------------------------------------------------------------------------
(* The import tools *)

\* run: the tool, its options, and the files it has found.
StartRun(r) ==
    /\ phase[r] = "new"
    /\ \E isLegacy \in BOOLEAN, isOver \in BOOLEAN, n \in {1, Pool} :
          /\ isLegacy => n = 1
          /\ \E files \in SUBSET (IF isLegacy THEN LegacyFiles ELSE RawFiles) \ {{}} :
                /\ n <= Cardinality(files)
                /\ Cardinality(files) + Cardinality({q \in Runs \X Imported : q[2] \in Listed(q[1])})
                     <= MaxListed
                /\ at' = [at EXCEPT ![r] = [f \in Imported |->
                                               IF f \in files THEN "waiting" ELSE "none"]]
          /\ legacy' = [legacy EXCEPT ![r] = isLegacy]
          /\ over' = [over EXCEPT ![r] = isOver]
          /\ workers' = [workers EXCEPT ![r] = n]
    /\ phase' = [phase EXCEPT ![r] = "up"]
    /\ UNCHANGED <<fileVars, results, raised, jobVars, kills, historyVars>>

Goes(r, f, control) == at' = [at EXCEPT ![r][f] = control]

\* A worker of r is free to take up file f.
TakesUp(r, f) ==
    /\ phase[r] = "up" /\ at[r][f] = "waiting"
    /\ Cardinality(Busy(r)) < workers[r]
    /\ raised[r] => workers[r] > 1

\* Mutant: the Parquet file is not looked for.
SparesNothing(r, d) == FALSE

Spares(r, d) == Exists(d) /\ ~over[r]

\* The Parquet file exists, or no line of the raw file is a record, which is found out
\* before anything is touched.
Skip(r, f) ==
    /\ TakesUp(r, f)
    /\ Spares(r, DateOf[f]) \/ f \in Unparsable
    /\ Goes(r, f, "left")
    /\ UNCHANGED <<fileVars, phase, legacy, over, workers, results, raised, jobVars, kills,
                   historyVars>>

\* import_raw_file, import_file: the source is read, and its addresses get their ids.
Begin(r, f) ==
    LET d == DateOf[f] IN
    /\ TakesUp(r, f)
    /\ ~Spares(r, d) /\ f \notin Unparsable
    /\ Goes(r, f, "reading")
    /\ crossed' = IF Rivals(r, d) \/ JobOn(d) \/ \E g \in Busy(r) : DateOf[g] = d
                  THEN crossed \cup {d} ELSE crossed
    /\ redone' = IF Exists(d) THEN redone \cup {d} ELSE redone
    /\ UNCHANGED <<fileVars, phase, legacy, over, workers, results, raised, jobVars, kills, cut>>

\* An address with an octet above 255, a registry that is locked, or a Parquet file that
\* is gone: the exception leaves the worker.  run of import_raw does not catch it, and
\* import_legacy goes on with the next file.
Raises(r, f) ==
    /\ Goes(r, f, "left")
    /\ raised' = [raised EXCEPT ![r] = @ \/ ~legacy[r]]

ReadFails(r, f) ==
    /\ phase[r] = "up" /\ at[r][f] = "reading"
    /\ Raises(r, f)
    /\ UNCHANGED <<fileVars, phase, legacy, over, workers, results, jobVars, kills, historyVars>>

BeginCopy(r, f) ==
    LET d == DateOf[f] IN
    /\ phase[r] = "up" /\ at[r][f] = "reading"
    /\ IF Exists(d)
       THEN Goes(r, f, "aside") /\ UNCHANGED <<holds, writer>>
       ELSE /\ Goes(r, f, "inplace")
            /\ holds' = [holds EXCEPT ![d] = f] /\ writer' = [writer EXCEPT ![d] = r]
    /\ UNCHANGED <<hot, used, sidecar, figure, phase, legacy, over, workers, results, raised,
                   jobVars, kills, historyVars>>

\* The file that r copies straight to the name of date d, unless the name has been taken away.
OwnCopy(r, f) == holds[DateOf[f]] = f /\ writer[DateOf[f]] = r

FinishCopy(r, f) ==
    LET d == DateOf[f] IN
    /\ phase[r] = "up" /\ at[r][f] \in {"inplace", "aside"}
    /\ IF at[r][f] = "aside" \/ OwnCopy(r, f) THEN Put(d, f) ELSE UNCHANGED <<holds, writer>>
    /\ Goes(r, f, "written")
    /\ UNCHANGED <<hot, used, sidecar, figure, phase, legacy, over, workers, results, raised,
                   jobVars, kills, historyVars>>

\* Mutant: no roll-back.
KeepAll(d) == UNCHANGED <<holds, writer>>

RollBack(d) == Remove(d)

\* An exception during the copy, in import_legacy also before it: the Parquet file of the
\* date is removed, whoever wrote it.
FailCopy(r, f) ==
    /\ phase[r] = "up"
    /\ at[r][f] \in {"inplace", "aside"} \cup (IF legacy[r] THEN {"reading"} ELSE {})
    /\ RollBack(DateOf[f])
    /\ Goes(r, f, "left")
    /\ UNCHANGED <<hot, used, sidecar, figure, phase, legacy, over, workers, results, raised,
                   jobVars, kills, historyVars>>

\* Mutant: the names are not written.
NoNames(d, f) == sidecar

NamesAfter(d, f) == [sidecar EXCEPT ![d] = f]

\* import_raw_file after its COPY: the sidecar, the size of the Parquet file, the result.
FinishRaw(r, f) ==
    LET d == DateOf[f] IN
    /\ phase[r] = "up" /\ ~legacy[r] /\ at[r][f] = "written"
    /\ sidecar' = NamesAfter(d, f)
    /\ IF Exists(d)
       THEN /\ Goes(r, f, "imported") /\ UNCHANGED raised
            /\ results' = [results EXCEPT ![r] = Append(@, f)]
       ELSE Raises(r, f) /\ UNCHANGED results
    /\ UNCHANGED <<hot, used, holds, writer, figure, phase, legacy, over, workers, jobVars,
                   kills, historyVars>>

\* import_file after its COPY: the size, and the figure of the date.
FinishLegacy(r, f) ==
    LET d == DateOf[f] IN
    /\ phase[r] = "up" /\ legacy[r] /\ at[r][f] = "written"
    /\ IF Exists(d)
       THEN /\ Goes(r, f, "imported") /\ UNCHANGED raised
            /\ figure' = [figure EXCEPT ![d] = f]
       ELSE Raises(r, f) /\ UNCHANGED figure
    /\ UNCHANGED <<hot, used, holds, writer, sidecar, phase, legacy, over, workers, results,
                   jobVars, kills, historyVars>>

\* Nothing is left to be taken up or in progress.
Done(r) ==
    /\ phase[r] = "up" /\ Busy(r) = {}
    /\ (raised[r] /\ workers[r] = 1) \/ \A f \in Imported : at[r][f] # "waiting"

\* Mutant: a figure that is there stays.
OlderFigure(f) == IF figure[DateOf[f]] # NoFile THEN figure
                  ELSE [figure EXCEPT ![DateOf[f]] = f]

FigureAfter(f) == [figure EXCEPT ![DateOf[f]] = f]

\* upsert_daily_stats of the next result, once all files are done.
StoreFigure(r) ==
    /\ Done(r) /\ ~raised[r] /\ results[r] # <<>>
    /\ figure' = FigureAfter(Head(results[r]))
    /\ results' = [results EXCEPT ![r] = Tail(@)]
    /\ UNCHANGED <<hot, used, holds, writer, sidecar, phase, legacy, over, workers, at, raised,
                   jobVars, kills, historyVars>>

\* The process of a run ends, and its variables with it.
RunEnds(r, how) ==
    /\ phase' = [phase EXCEPT ![r] = how]
    /\ legacy' = [legacy EXCEPT ![r] = FALSE] /\ over' = [over EXCEPT ![r] = FALSE]
    /\ workers' = [workers EXCEPT ![r] = 1]
    /\ at' = [at EXCEPT ![r] = [f \in Imported |-> "none"]]
    /\ results' = [results EXCEPT ![r] = <<>>] /\ raised' = [raised EXCEPT ![r] = FALSE]
    /\ UNCHANGED <<fileVars, jobVars, crossed, redone>>

CutShort(r) == cut' = cut \cup {DateOf[f] : f \in Listed(r)}

\* run returns.
EndRun(r) ==
    /\ Done(r) /\ ~raised[r] /\ results[r] = <<>>
    /\ RunEnds(r, "ended")
    /\ UNCHANGED <<kills, cut>>

\* run of import_raw lets a worker's exception pass, and the results are never counted.
BreakOff(r) ==
    /\ Done(r) /\ raised[r]
    /\ RunEnds(r, "ended")
    /\ CutShort(r)
    /\ UNCHANGED kills

KillRun(r) ==
    /\ phase[r] = "up" /\ kills < MaxKills
    /\ kills' = kills + 1
    /\ RunEnds(r, "killed")
    /\ CutShort(r)

-----------------------------------------------------------------------------

FileStep(r, f) ==
    \/ Skip(r, f) \/ Begin(r, f) \/ ReadFails(r, f)
    \/ BeginCopy(r, f) \/ FinishCopy(r, f) \/ FailCopy(r, f)
    \/ FinishRaw(r, f) \/ FinishLegacy(r, f)

ImportNext ==
    \/ \E h \in HotFiles : StoreRows(h)
    \/ \E d \in Dates : Expire(d) \/ ArchiveSkip(d) \/ ArchiveCopy(d)
    \/ ArchiveReplace \/ ArchiveSidecar \/ ArchiveUnlink \/ ArchiveKilled \/ CountDays
    \/ \E r \in Runs : \/ StartRun(r) \/ StoreFigure(r) \/ EndRun(r) \/ BreakOff(r) \/ KillRun(r)
                       \/ \E f \in Imported : FileStep(r, f)

ImportSpec == Init /\ [][ImportNext]_importVars

-----------------------------------------------------------------------------
(* Properties *)

Quiet(d) == ~JobOn(d) /\ \A r \in Runs : phase[r] = "up" => \A f \in Busy(r) : DateOf[f] # d

\* archive_day, import_raw_file and import_file put files under the same name: a Parquet
\* file that can be read stays so through overwriting, crashes and rivals, unless
\* retention removes it, or a failed copy of --overwrite or of a rival does.
ReadableKept ==
    [][\A d \in Dates : Readable(d) /\ ~Readable(d)'
          => \/ Expire(d)
             \/ \E r \in Runs, f \in Imported :
                   FailCopy(r, f) /\ DateOf[f] = d /\ (over[r] \/ d \in crossed)]_importVars

\* The roll-back of import_raw_file and import_file: a torn Parquet file is one that is being
\* written, or that a kill has left.
TornExplained ==
    \A d \in Dates : writer[d] # NoRun =>
        \/ phase[writer[d]] = "up" /\ at[writer[d]][holds[d]] = "inplace"
        \/ phase[writer[d]] = "killed"

\* import_raw_file and archive_day write the names after the rows, for readers who look at
\* the files in between: where one writer at a time works and none overwrites, the
\* names beside a Parquet file are its own or missing, and missing in the end
\* only for a kill or an old database.
NamesOwn ==
    \A d \in Dates : Exists(d) /\ d \notin crossed \cup redone =>
        /\ sidecar[d] \in {NoFile, holds[d]}
        /\ Readable(d) /\ Quiet(d) /\ kills = 0 /\ holds[d] \notin LegacyFiles
              => sidecar[d] = holds[d]

\* run of import_raw stores the figures in the order of the results, import_file at once:
\* when no run is at work on a date, its figure is that of the file that lies there, unless
\* two writers met, a run was cut short, or the processor stored records of its own.
FigureAgrees ==
    \A d \in Dates :
        /\ Readable(d) /\ ~Rivals(NoRun, d)
        /\ d \notin crossed \cup cut /\ \A h \in used : DateOf[h] # d
        => figure[d] = holds[d]
=============================================================================
