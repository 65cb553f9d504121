----------------------------- MODULE ImportsInv -----------------------------
(***************************************************************************)
(* The inductive invariant behind the theorems about Imports, in named     *)
(* parts.  SearchProofs proves that it is one.                             *)
(***************************************************************************)
EXTENDS Imports

\* Only a run that is up has files on its list, of the kind its tool imports.
ListInv ==
    \A r \in Runs, f \in Imported : at[r][f] # "none" =>
        phase[r] = "up" /\ (legacy[r] => f \in LegacyFiles)

\* A hot file is that of its date, and the archive job works on one.
HotInv ==
    /\ \A d \in Dates : hot[d] # NoFile => DateOf[hot[d]] = d
    /\ jobAt # "off" => jobFile \in HotFiles

\* A torn Parquet file holds part of an imported file of its date.
TornInv ==
    \A d \in Dates : writer[d] # NoRun =>
        /\ holds[d] \in Imported /\ DateOf[holds[d]] = d
        /\ \/ phase[writer[d]] = "up" /\ at[writer[d]][holds[d]] = "inplace"
           \/ phase[writer[d]] = "killed"

\* Where no two writers have met, one at most is at work.
SoloInv ==
    \A r \in Runs, f \in Imported : at[r][f] \in Active /\ DateOf[f] \notin crossed =>
        /\ ~JobOn(DateOf[f])
        /\ \A q \in Runs, g \in Imported :
              at[q][g] \in Active /\ DateOf[g] = DateOf[f] => q = r /\ g = f

\* There, a run that spares what exists has found nothing, and what it has in place is its own.
SparingInv ==
    \A r \in Runs, f \in Imported :
        at[r][f] \in Active /\ DateOf[f] \notin crossed /\ ~over[r] =>
            /\ at[r][f] = "reading" => ~Exists(DateOf[f])
            /\ at[r][f] = "inplace" => OwnCopy(r, f) \/ ~Exists(DateOf[f])
            /\ at[r][f] # "aside"

\* Where nothing has been overwritten or deleted either, the files of a date tell how far its
\* writer is.
Clean(d) == d \notin crossed \cup redone

WriterInv ==
    \A r \in Runs, f \in Imported : at[r][f] \in Active /\ Clean(DateOf[f]) =>
        LET d == DateOf[f] IN
        /\ at[r][f] = "reading" => ~Exists(d)
        /\ at[r][f] = "inplace" => OwnCopy(r, f) /\ sidecar[d] = NoFile
        /\ at[r][f] # "aside"
        /\ at[r][f] = "written" => holds[d] = f /\ writer[d] = NoRun /\ sidecar[d] = NoFile

JobInv ==
    jobAt # "off" /\ Clean(DateOf[jobFile]) =>
        LET d == DateOf[jobFile] IN
        /\ jobAt = "copied" => ~Exists(d)
        /\ jobAt # "copied" => holds[d] = jobFile /\ writer[d] = NoRun
        /\ jobAt = "replaced" => sidecar[d] = NoFile
        /\ jobAt = "written" => sidecar[d] = jobFile

\* The sidecar has the names of the Parquet file, or is missing: at the end only for a
\* kill or an old database.
SidecarInv ==
    \A d \in Dates : Clean(d) =>
        /\ sidecar[d] \in {NoFile, holds[d]}
        /\ Readable(d) /\ Quiet(d) /\ kills = 0 /\ holds[d] \notin LegacyFiles
              => sidecar[d] = holds[d]

\* A hot file that lies there, or that the archive job works on, has been created.
UsedInv ==
    /\ \A d \in Dates : hot[d] # NoFile => hot[d] \in used
    /\ jobAt # "off" => jobFile \in used

\* The results of a run are files that it has imported from raw files.
ResultInv ==
    \A r \in Runs : \A i \in DOMAIN results[r] : at[r][results[r][i]] = "imported" /\ ~legacy[r]

\* A file that was taken up and not given up again.
Taken == Active \cup {"imported"}

\* What has been imported counts as a meeting, too, as long as its run is up.
OneRunInv ==
    \A r \in Runs, f \in Imported : at[r][f] \in Taken /\ DateOf[f] \notin crossed =>
        \A q \in Runs \ {r}, g \in Imported : at[q][g] \in Taken => DateOf[g] # DateOf[f]

\* Where only runs of the tools write, and one at a time, a copy lies there when it is made,
\* unless its name has been taken away.
OnlyRuns(d) == d \notin crossed /\ \A h \in used : DateOf[h] # d

CopyInv ==
    \A r \in Runs, f \in Imported : at[r][f] \in Active /\ OnlyRuns(DateOf[f]) /\ Exists(DateOf[f]) =>
        /\ at[r][f] = "inplace" => OwnCopy(r, f)
        /\ at[r][f] = "written" => holds[DateOf[f]] = f /\ writer[DateOf[f]] = NoRun

\* f is the last of the results of r for date d.
LastResult(r, f, d) ==
    \E i \in DOMAIN results[r] :
        /\ results[r][i] = f
        /\ \A j \in DOMAIN results[r] : j > i => DateOf[results[r][j]] # d

NoResults(d) == \A r \in Runs : \A i \in DOMAIN results[r] : DateOf[results[r][i]] # d

\* There, the file of a date has its figure, or a run is still to store it.
FigureInv ==
    \A d \in Dates : OnlyRuns(d) /\ d \notin cut /\ Readable(d) =>
        \/ \E r \in Runs : holds[d] \in Imported /\ DateOf[holds[d]] = d /\ at[r][holds[d]] = "written"
        \/ \E r \in Runs : LastResult(r, holds[d], d) /\ DateOf[holds[d]] = d
        \/ figure[d] = holds[d] /\ NoResults(d)

ImportsIInv ==
    /\ TypeOK /\ ListInv /\ HotInv /\ TornInv /\ SoloInv /\ SparingInv
    /\ WriterInv /\ JobInv /\ SidecarInv
    /\ UsedInv /\ ResultInv /\ OneRunInv /\ CopyInv /\ FigureInv
=============================================================================
