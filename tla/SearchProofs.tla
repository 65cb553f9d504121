----------------------------- MODULE SearchProofs -----------------------------
(***************************************************************************)
(* What the import tools and the archive job keep of the files of a date,  *)
(* and what a search may rely on, for every number of dates, files, runs,  *)
(* workers, kills and requests.                                            *)
(***************************************************************************)
EXTENDS SearchInv, FiniteSetTheorems, SequenceTheorems, TLAPS

LEMMA Names ==
    /\ NoFile \notin Sources /\ NoRun \notin Runs
    /\ \A f \in Sources : DateOf[f] \in Dates
    /\ Imported \subseteq Sources /\ HotFiles \subseteq Sources
    /\ \A f \in Imported : f \notin HotFiles
BY ImportsAssumption DEF Sources, Imported

\* The steps of the processor, of retention, of the archive job and of the count.
OthersStep ==
    \/ \E h \in HotFiles : StoreRows(h)
    \/ \E d \in Dates : Expire(d) \/ ArchiveSkip(d) \/ ArchiveCopy(d)
    \/ ArchiveReplace \/ ArchiveSidecar \/ ArchiveUnlink \/ ArchiveKilled \/ CountDays

RunStep(r) == StartRun(r) \/ StoreFigure(r) \/ EndRun(r) \/ BreakOff(r) \/ KillRun(r)

LEMMA StepCases ==
    ASSUME [ImportNext]_importVars
    PROVE  \/ UNCHANGED importVars \/ OthersStep
           \/ \E r \in Runs : RunStep(r) \/ \E f \in Imported : FileStep(r, f)
BY DEF ImportNext, OthersStep, RunStep

-----------------------------------------------------------------------------
(* Types *)

LEMMA TypeInit == Init => TypeOK
<1> SUFFICES ASSUME Init PROVE TypeOK
  OBVIOUS
<1>1. \A r \in Runs : results[r] \in Seq(Imported)
  BY DEF Init
<1>2. results \in [Runs -> Seq(Imported)]
  BY <1>1 DEF Init
<1> QED
  BY <1>2 DEF Init, TypeOK

\* The steps that leave the runs alone.
LEMMA TypeFiles ==
    ASSUME TypeOK, OthersStep
    PROVE  TypeOK'
<1>1. ASSUME NEW h \in HotFiles, StoreRows(h) PROVE TypeOK'
  BY <1>1, Names DEF StoreRows, TypeOK, runVars, jobVars, historyVars
<1>2. ASSUME NEW d \in Dates, Expire(d) PROVE TypeOK'
  BY <1>2, Names DEF Expire, Remove, TypeOK, runVars, jobVars, historyVars
<1>3. ASSUME NEW d \in Dates, ArchiveSkip(d) PROVE TypeOK'
  BY <1>3, Names DEF ArchiveSkip, TypeOK, runVars, jobVars, historyVars
<1>4. ASSUME NEW d \in Dates, ArchiveCopy(d) PROVE TypeOK'
  BY <1>4, Names DEF ArchiveCopy, TypeOK, fileVars, runVars, jobVars, historyVars
<1>5. CASE ArchiveReplace
  BY <1>5, Names DEF ArchiveReplace, Put, TypeOK, runVars, jobVars, historyVars
<1>6. CASE ArchiveSidecar
  BY <1>6, Names DEF ArchiveSidecar, TypeOK, runVars, jobVars, historyVars
<1>7. CASE ArchiveUnlink
  BY <1>7, Names DEF ArchiveUnlink, TypeOK, runVars, jobVars, historyVars
<1>8. CASE ArchiveKilled
  BY <1>8, Names DEF ArchiveKilled, TypeOK, fileVars, runVars, jobVars, historyVars
<1>9. CASE CountDays
  BY <1>9, Names DEF CountDays, Exists, TypeOK, runVars, jobVars, historyVars
<1> QED
  BY <1>1, <1>2, <1>3, <1>4, <1>5, <1>6, <1>7, <1>8, <1>9 DEF OthersStep

LEMMA TypeAt ==
    ASSUME TypeOK, NEW r \in Runs, NEW f \in Imported,
           NEW c \in {"none", "waiting"} \cup Active \cup Over, Goes(r, f, c)
    PROVE  at' \in [Runs -> [Imported -> {"none", "waiting"} \cup Active \cup Over]]
BY DEF Goes, TypeOK

\* The steps of a run with one file.
LEMMA TypeFileStep ==
    ASSUME TypeOK, NEW r \in Runs, NEW f \in Imported, FileStep(r, f)
    PROVE  TypeOK'
<1> USE Names
<1>1. CASE Skip(r, f)
  BY <1>1 DEF Skip, Goes, TypeOK, fileVars, jobVars, historyVars, Active, Over
<1>2. CASE Begin(r, f)
  BY <1>2 DEF Begin, Goes, TypeOK, fileVars, jobVars, Active, Over
<1>3. CASE ReadFails(r, f)
  BY <1>3 DEF ReadFails, Raises, Goes, TypeOK, fileVars, jobVars, historyVars, Active, Over
<1>4. CASE BeginCopy(r, f)
  <2>1. holds' \in [Dates -> Sources \cup {NoFile}]
    BY <1>4 DEF BeginCopy, TypeOK
  <2>2. writer' \in [Dates -> Runs \cup {NoRun}]
    BY <1>4 DEF BeginCopy, TypeOK
  <2>3. at' \in [Runs -> [Imported -> {"none", "waiting"} \cup Active \cup Over]]
    BY <1>4, TypeAt DEF BeginCopy, Active
  <2> QED
    BY <1>4, <2>1, <2>2, <2>3 DEF BeginCopy, TypeOK, jobVars, historyVars
<1>5. CASE FinishCopy(r, f)
  <2>1. holds' \in [Dates -> Sources \cup {NoFile}]
    BY <1>5 DEF FinishCopy, Put, TypeOK
  <2>2. writer' \in [Dates -> Runs \cup {NoRun}]
    BY <1>5 DEF FinishCopy, Put, TypeOK
  <2>3. at' \in [Runs -> [Imported -> {"none", "waiting"} \cup Active \cup Over]]
    BY <1>5, TypeAt DEF FinishCopy, Active
  <2> QED
    BY <1>5, <2>1, <2>2, <2>3 DEF FinishCopy, TypeOK, jobVars, historyVars
<1>6. CASE FailCopy(r, f)
  <2>1. holds' \in [Dates -> Sources \cup {NoFile}] /\ writer' \in [Dates -> Runs \cup {NoRun}]
    BY <1>6 DEF FailCopy, RollBack, Remove, TypeOK
  <2>2. at' \in [Runs -> [Imported -> {"none", "waiting"} \cup Active \cup Over]]
    BY <1>6, TypeAt DEF FailCopy, Over
  <2> QED
    BY <1>6, <2>1, <2>2 DEF FailCopy, TypeOK, jobVars, historyVars
<1>7. CASE FinishRaw(r, f)
  <2>1. results' \in [Runs -> Seq(Imported)]
    <3>1. results[r] \in Seq(Imported)
      BY DEF TypeOK
    <3>2. Append(results[r], f) \in Seq(Imported)
      BY <3>1
    <3> QED
      BY <1>7, <3>2 DEF FinishRaw, TypeOK
  <2>2. at' \in [Runs -> [Imported -> {"none", "waiting"} \cup Active \cup Over]]
    BY <1>7, TypeAt DEF FinishRaw, Raises, Over
  <2>3. raised' \in [Runs -> BOOLEAN]
    BY <1>7 DEF FinishRaw, Raises, TypeOK
  <2> QED
    BY <1>7, <2>1, <2>2, <2>3 DEF FinishRaw, NamesAfter, TypeOK, jobVars, historyVars
<1>8. CASE FinishLegacy(r, f)
  <2>1. at' \in [Runs -> [Imported -> {"none", "waiting"} \cup Active \cup Over]]
    BY <1>8, TypeAt DEF FinishLegacy, Raises, Over
  <2>2. raised' \in [Runs -> BOOLEAN]
    BY <1>8 DEF FinishLegacy, Raises, TypeOK
  <2> QED
    BY <1>8, <2>1, <2>2 DEF FinishLegacy, TypeOK, jobVars, historyVars
<1> QED
  BY <1>1, <1>2, <1>3, <1>4, <1>5, <1>6, <1>7, <1>8 DEF FileStep

\* The steps of a run as a whole.
LEMMA TypeRun ==
    ASSUME TypeOK, NEW r \in Runs, RunStep(r)
    PROVE  TypeOK'
<1> USE Names
<1>1. CASE StartRun(r)
  <2>1. PICK isLegacy \in BOOLEAN, isOver \in BOOLEAN, n \in {1, Pool} :
          /\ \E files \in SUBSET Imported :
                at' = [at EXCEPT ![r] = [f \in Imported |->
                                            IF f \in files THEN "waiting" ELSE "none"]]
          /\ legacy' = [legacy EXCEPT ![r] = isLegacy]
          /\ over' = [over EXCEPT ![r] = isOver]
          /\ workers' = [workers EXCEPT ![r] = n]
    BY <1>1 DEF StartRun, Imported
  <2>2. at' \in [Runs -> [Imported -> {"none", "waiting"} \cup Active \cup Over]]
    BY <2>1 DEF TypeOK
  <2> QED
    BY <1>1, <2>1, <2>2 DEF StartRun, TypeOK, fileVars, jobVars, historyVars
<1>2. CASE StoreFigure(r)
  <2>1. results[r] \in Seq(Imported) /\ results[r] # <<>>
    BY <1>2 DEF StoreFigure, TypeOK
  <2>2. Head(results[r]) \in Imported /\ Tail(results[r]) \in Seq(Imported)
    BY <2>1
  <2> QED
    BY <1>2, <2>2 DEF StoreFigure, FigureAfter, TypeOK, jobVars, historyVars
<1>3. ASSUME NEW how \in {"ended", "killed"}, RunEnds(r, how),
             kills' \in Nat, cut' = cut \/ CutShort(r)
      PROVE  TypeOK'
  <2>1. cut' \subseteq Dates
    <3>1. cut \subseteq Dates
      BY DEF TypeOK
    <3>2. {DateOf[f] : f \in Listed(r)} \subseteq Dates
      BY DEF Listed
    <3> QED
      BY <1>3, <3>1, <3>2 DEF CutShort
  <2>2. results' \in [Runs -> Seq(Imported)]
    BY <1>3 DEF RunEnds, TypeOK
  <2>3. at' \in [Runs -> [Imported -> {"none", "waiting"} \cup Active \cup Over]]
    BY <1>3 DEF RunEnds, TypeOK
  <2> QED
    BY <1>3, <2>1, <2>2, <2>3 DEF RunEnds, TypeOK, fileVars, jobVars
<1>4. CASE EndRun(r)
  BY <1>3, <1>4 DEF EndRun, TypeOK
<1>5. CASE BreakOff(r)
  BY <1>3, <1>5 DEF BreakOff, TypeOK
<1>6. CASE KillRun(r)
  BY <1>3, <1>6 DEF KillRun, TypeOK
<1> QED
  BY <1>1, <1>2, <1>4, <1>5, <1>6 DEF RunStep

LEMMA TypeStep == TypeOK /\ [ImportNext]_importVars => TypeOK'
<1> SUFFICES ASSUME TypeOK, [ImportNext]_importVars PROVE TypeOK'
  OBVIOUS
<1>1. CASE UNCHANGED importVars
  BY <1>1 DEF importVars, fileVars, runVars, jobVars, historyVars, TypeOK
<1> QED
  BY <1>1, TypeFiles, TypeFileStep, TypeRun, StepCases
-----------------------------------------------------------------------------
(* What kinds of steps leave alone *)

\* A file leaves the work of a run, and the files of its date stay as they are.
Leaves(r, f) == Skip(r, f) \/ ReadFails(r, f) \/ FinishLegacy(r, f)

Stops(r) == EndRun(r) \/ BreakOff(r) \/ KillRun(r)

LEMMA FileStepCases ==
    ASSUME NEW r \in Runs, NEW f \in Imported, FileStep(r, f)
    PROVE  \/ Leaves(r, f) \/ Begin(r, f) \/ BeginCopy(r, f) \/ FinishCopy(r, f)
           \/ FailCopy(r, f) \/ FinishRaw(r, f)
BY DEF FileStep, Leaves

\* A step with one file moves that file alone.
LEMMA FileFrame ==
    ASSUME TypeOK, NEW r \in Runs, NEW f \in Imported, FileStep(r, f)
    PROVE  /\ \A q \in Runs, g \in Imported : q # r \/ g # f => at'[q][g] = at[q][g]
           /\ phase' = phase /\ legacy' = legacy /\ over' = over
           /\ hot' = hot /\ jobAt' = jobAt /\ jobFile' = jobFile /\ kills' = kills
           /\ phase[r] = "up" /\ at[r][f] # "none"
<1>1. PICK c \in {"left", "reading", "inplace", "aside", "written", "imported"} :
        at' = [at EXCEPT ![r][f] = c]
  BY DEF FileStep, Skip, Begin, ReadFails, BeginCopy, FinishCopy, FailCopy,
         FinishRaw, FinishLegacy, Raises, Goes
<1>2. \A q \in Runs, g \in Imported : q # r \/ g # f => at'[q][g] = at[q][g]
  BY <1>1 DEF TypeOK
<1>3. /\ phase' = phase /\ legacy' = legacy /\ over' = over
      /\ hot' = hot /\ jobAt' = jobAt /\ jobFile' = jobFile /\ kills' = kills
  BY DEF FileStep, Skip, Begin, ReadFails, BeginCopy, FinishCopy, FailCopy,
         FinishRaw, FinishLegacy, Raises, fileVars, jobVars
<1>4. phase[r] = "up" /\ at[r][f] # "none"
  BY DEF FileStep, Skip, Begin, ReadFails, BeginCopy, FinishCopy, FailCopy,
         FinishRaw, FinishLegacy, TakesUp
<1> QED
  BY <1>2, <1>3, <1>4

\* Where a step leads that file.
LEMMA GoesTo ==
    ASSUME TypeOK, NEW r \in Runs, NEW f \in Imported, NEW c, Goes(r, f, c)
    PROVE  at'[r][f] = c
BY DEF Goes, TypeOK

LEMMA LeavesFrame ==
    ASSUME TypeOK, NEW r \in Runs, NEW f \in Imported, Leaves(r, f)
    PROVE  /\ at[r][f] \in {"waiting", "reading", "written"} /\ at'[r][f] \in Over
           /\ at[r][f] = "written" => legacy[r]
           /\ holds' = holds /\ writer' = writer /\ sidecar' = sidecar
           /\ crossed' = crossed /\ redone' = redone
<1>1. ASSUME NEW c \in Over, Goes(r, f, c) PROVE at'[r][f] \in Over
  BY <1>1 DEF Goes, TypeOK
<1>2. "left" \in Over /\ "imported" \in Over
  BY DEF Over
<1>3. at'[r][f] \in Over
  BY <1>1, <1>2 DEF Leaves, Skip, ReadFails, FinishLegacy, Raises
<1> QED
  BY <1>3 DEF Leaves, Skip, TakesUp, ReadFails, FinishLegacy, fileVars, historyVars

LEMMA StartFrame ==
    ASSUME TypeOK, NEW r \in Runs, StartRun(r)
    PROVE  /\ UNCHANGED <<fileVars, jobVars, kills, historyVars>>
           /\ \A q \in Runs \ {r} : /\ phase'[q] = phase[q] /\ legacy'[q] = legacy[q]
                                    /\ over'[q] = over[q] /\ at'[q] = at[q]
           /\ phase[r] = "new" /\ phase'[r] = "up"
           /\ \A f \in Imported : /\ at'[r][f] \in {"none", "waiting"}
                                  /\ at'[r][f] # "none" /\ legacy'[r] => f \in LegacyFiles
<1>1. PICK isLegacy \in BOOLEAN : \E isOver \in BOOLEAN, files \in SUBSET Imported :
        /\ isLegacy => files \subseteq LegacyFiles
        /\ at' = [at EXCEPT ![r] = [f \in Imported |-> IF f \in files THEN "waiting" ELSE "none"]]
        /\ legacy' = [legacy EXCEPT ![r] = isLegacy]
        /\ over' = [over EXCEPT ![r] = isOver]
  BY DEF StartRun, Imported
<1>2. phase[r] = "new" /\ phase' = [phase EXCEPT ![r] = "up"]
  BY DEF StartRun
<1>3. UNCHANGED <<fileVars, jobVars, kills, historyVars>>
  BY DEF StartRun
<1> QED
  BY <1>1, <1>2, <1>3 DEF TypeOK

LEMMA EndFrame ==
    ASSUME TypeOK, NEW r \in Runs, Stops(r)
    PROVE  /\ UNCHANGED <<fileVars, jobVars, crossed, redone>>
           /\ \A q \in Runs \ {r} : /\ phase'[q] = phase[q] /\ legacy'[q] = legacy[q]
                                    /\ over'[q] = over[q] /\ at'[q] = at[q]
           /\ phase[r] = "up" /\ \A f \in Imported : at'[r][f] = "none"
           /\ \/ phase'[r] = "killed" /\ kills' # 0
              \/ phase'[r] = "ended" /\ kills' = kills /\ Busy(r) = {}
<1>1. phase[r] = "up" /\ \E how \in {"ended", "killed"} :
        /\ RunEnds(r, how)
        /\ how = "killed" => kills' = kills + 1
        /\ how = "ended" => kills' = kills /\ Busy(r) = {}
  BY DEF Stops, EndRun, BreakOff, KillRun, Done
<1>2. kills \in Nat
  BY DEF TypeOK
<1> QED
  BY <1>1, <1>2 DEF RunEnds, TypeOK

LEMMA OthersFrame ==
    ASSUME OthersStep
    PROVE  UNCHANGED runVars /\ crossed \subseteq crossed' /\ redone \subseteq redone'
BY DEF OthersStep, StoreRows, Expire, ArchiveSkip, ArchiveCopy, ArchiveReplace, ArchiveSidecar,
       ArchiveUnlink, ArchiveKilled, CountDays, historyVars

LEMMA FigureFrame ==
    ASSUME NEW r \in Runs, StoreFigure(r)
    PROVE  /\ UNCHANGED <<hot, holds, writer, sidecar, phase, legacy, over, at, jobVars, kills, historyVars>>
BY DEF StoreFigure

LEMMA RunStepCases ==
    ASSUME NEW r \in Runs, RunStep(r)
    PROVE  StartRun(r) \/ StoreFigure(r) \/ Stops(r)
BY DEF RunStep, Stops

-----------------------------------------------------------------------------
(* The lists of runs, and hot files *)

LEMMA ListStep ==
    ASSUME TypeOK, ListInv, [ImportNext]_importVars
    PROVE  ListInv'
<1>1. CASE UNCHANGED importVars \/ OthersStep
  BY <1>1, OthersFrame DEF ListInv, importVars, runVars
<1>2. ASSUME NEW r \in Runs, StartRun(r) PROVE ListInv'
  BY <1>2, StartFrame DEF ListInv
<1>3. ASSUME NEW r \in Runs, StoreFigure(r) PROVE ListInv'
  BY <1>3, FigureFrame DEF ListInv
<1>4. ASSUME NEW r \in Runs, Stops(r) PROVE ListInv'
  BY <1>4, EndFrame DEF ListInv
<1>5. ASSUME NEW r \in Runs, NEW f \in Imported, FileStep(r, f) PROVE ListInv'
  BY <1>5, FileFrame DEF ListInv
<1> QED
  BY <1>1, <1>2, <1>3, <1>4, <1>5, StepCases, RunStepCases

LEMMA HotStep ==
    ASSUME TypeOK, HotInv, [ImportNext]_importVars
    PROVE  HotInv'
<1> USE DEF HotInv
<1>1. CASE UNCHANGED importVars
  BY <1>1 DEF importVars, fileVars, jobVars
<1>2. ASSUME NEW r \in Runs, RunStep(r) PROVE HotInv'
  BY <1>2, RunStepCases, StartFrame, FigureFrame, EndFrame DEF fileVars, jobVars
<1>3. ASSUME NEW r \in Runs, NEW f \in Imported, FileStep(r, f) PROVE HotInv'
  BY <1>3, FileFrame
<1>4. ASSUME NEW h \in HotFiles, StoreRows(h) PROVE HotInv'
  BY <1>4 DEF StoreRows, jobVars, TypeOK
<1>5. ASSUME NEW d \in Dates, Expire(d) PROVE HotInv'
  BY <1>5 DEF Expire, jobVars
<1>6. ASSUME NEW d \in Dates, ArchiveSkip(d) PROVE HotInv'
  BY <1>6 DEF ArchiveSkip, jobVars, TypeOK
<1>7. ASSUME NEW d \in Dates, ArchiveCopy(d) PROVE HotInv'
  BY <1>7 DEF ArchiveCopy, fileVars, TypeOK
<1>8. CASE ArchiveReplace \/ ArchiveSidecar \/ CountDays
  BY <1>8 DEF ArchiveReplace, ArchiveSidecar, CountDays, jobVars
<1>9. CASE ArchiveUnlink \/ ArchiveKilled
  BY <1>9 DEF ArchiveUnlink, ArchiveKilled, fileVars, TypeOK
<1> QED
  BY <1>1, <1>2, <1>3, <1>4, <1>5, <1>6, <1>7, <1>8, <1>9, StepCases DEF OthersStep

-----------------------------------------------------------------------------
(* Torn files *)

LEMMA TornStep ==
    ASSUME TypeOK, TornInv, ListInv, HotInv, [ImportNext]_importVars
    PROVE  TornInv'
<1> USE Names DEF TornInv
<1>1. CASE UNCHANGED importVars
  BY <1>1 DEF importVars, fileVars, runVars
<1>2. ASSUME NEW d \in Dates, Expire(d) PROVE TornInv'
  BY <1>2, OthersFrame DEF Expire, Remove, TypeOK, runVars
<1>3. CASE ArchiveReplace
  BY <1>3 DEF ArchiveReplace, Put, TypeOK, runVars
<1>4. CASE OthersStep /\ holds' = holds /\ writer' = writer
  BY <1>4, OthersFrame DEF runVars
<1>5. CASE OthersStep
  BY <1>2, <1>3, <1>4, <1>5 DEF OthersStep, StoreRows, ArchiveSkip, ArchiveCopy,
        ArchiveSidecar, ArchiveUnlink, ArchiveKilled, CountDays, fileVars
<1>6. ASSUME NEW r \in Runs, StartRun(r) PROVE TornInv'
  <2> SUFFICES ASSUME NEW d \in Dates, writer[d] # NoRun
               PROVE  \/ phase'[writer[d]] = "up" /\ at'[writer[d]][holds[d]] = "inplace"
                      \/ phase'[writer[d]] = "killed"
    BY <1>6, StartFrame DEF fileVars
  <2>1. writer[d] \in Runs
    BY DEF TypeOK
  <2>2. writer[d] # r
    BY <1>6, StartFrame
  <2> QED
    BY <1>6, <2>1, <2>2, StartFrame
<1>7. ASSUME NEW r \in Runs, StoreFigure(r) PROVE TornInv'
  BY <1>7, FigureFrame
<1>8. ASSUME NEW r \in Runs, Stops(r) PROVE TornInv'
  <2> SUFFICES ASSUME NEW d \in Dates, writer[d] # NoRun
               PROVE  \/ phase'[writer[d]] = "up" /\ at'[writer[d]][holds[d]] = "inplace"
                      \/ phase'[writer[d]] = "killed"
    BY <1>8, EndFrame DEF fileVars
  <2>1. writer[d] \in Runs /\ holds[d] \in Imported
    BY DEF TypeOK
  <2>2. CASE writer[d] # r
    BY <1>8, <2>1, <2>2, EndFrame
  <2>3. CASE writer[d] = r
    BY <1>8, <2>1, <2>3, EndFrame DEF Busy, Active
  <2> QED
    BY <2>2, <2>3
<1>9. ASSUME NEW r \in Runs, NEW f \in Imported, FileStep(r, f) PROVE TornInv'
  \* A torn file that the step leaves alone, and whose copy is not the one that ends.
  <2>1. ASSUME NEW d \in Dates, writer'[d] = writer[d], holds'[d] = holds[d], writer[d] # NoRun,
               at[r][f] # "inplace" \/ writer[d] # r \/ holds[d] # f
        PROVE  /\ holds'[d] \in Imported /\ DateOf[holds'[d]] = d
               /\ \/ phase'[writer'[d]] = "up" /\ at'[writer'[d]][holds'[d]] = "inplace"
                  \/ phase'[writer'[d]] = "killed"
    <3>1. writer[d] \in Runs /\ holds[d] \in Imported
      BY <2>1 DEF TypeOK
    <3>2. at[writer[d]][holds[d]] = "inplace" => at'[writer[d]][holds[d]] = "inplace"
      BY <1>9, <2>1, <3>1, FileFrame
    <3> QED
      BY <1>9, <2>1, <3>1, <3>2, FileFrame
  <2>2. CASE at[r][f] # "inplace" /\ holds' = holds /\ writer' = writer
    BY <2>1, <2>2
  <2>3. CASE Leaves(r, f)
    BY <2>2, <2>3, LeavesFrame
  <2>4. CASE Begin(r, f) \/ FinishRaw(r, f)
    BY <2>2, <2>4 DEF Begin, TakesUp, FinishRaw, fileVars
  <2>5. CASE BeginCopy(r, f)
    <3>1. CASE Exists(DateOf[f])
      BY <2>2, <2>5, <3>1 DEF BeginCopy
    <3>2. CASE ~Exists(DateOf[f])
      <4>1. /\ holds' = [holds EXCEPT ![DateOf[f]] = f] /\ writer' = [writer EXCEPT ![DateOf[f]] = r]
            /\ at[r][f] = "reading" /\ Goes(r, f, "inplace")
        BY <2>5, <3>2 DEF BeginCopy
      <4>2. at'[r][f] = "inplace" /\ phase'[r] = "up"
        BY <1>9, <4>1, GoesTo, FileFrame
      <4>3. \A d \in Dates \ {DateOf[f]} : writer'[d] = writer[d] /\ holds'[d] = holds[d]
        BY <4>1 DEF TypeOK
      <4>4. writer'[DateOf[f]] = r /\ holds'[DateOf[f]] = f
        BY <4>1 DEF TypeOK
      <4> QED
        BY <2>1, <4>1, <4>2, <4>3, <4>4
    <3> QED BY <3>1, <3>2
  <2>6. CASE FinishCopy(r, f)
    <3>1. CASE at[r][f] = "aside" \/ OwnCopy(r, f)
      <4>1. \A d \in Dates \ {DateOf[f]} : writer'[d] = writer[d] /\ holds'[d] = holds[d]
        BY <2>6, <3>1 DEF FinishCopy, Put, TypeOK
      <4>2. writer'[DateOf[f]] = NoRun
        BY <2>6, <3>1 DEF FinishCopy, Put, TypeOK
      <4> QED
        BY <2>1, <4>1, <4>2
    <3>2. CASE at[r][f] # "aside" /\ ~OwnCopy(r, f)
      <4>1. holds' = holds /\ writer' = writer
        BY <2>6, <3>2 DEF FinishCopy
      <4> QED
        BY <2>1, <3>2, <4>1 DEF OwnCopy
    <3> QED BY <3>1, <3>2
  <2>7. CASE FailCopy(r, f)
    <3>1. \A d \in Dates \ {DateOf[f]} : writer'[d] = writer[d] /\ holds'[d] = holds[d]
      BY <2>7 DEF FailCopy, RollBack, Remove, TypeOK
    <3>2. writer'[DateOf[f]] = NoRun
      BY <2>7 DEF FailCopy, RollBack, Remove, TypeOK
    <3> QED
      BY <2>1, <3>1, <3>2
  <2> QED
    BY <1>9, <2>3, <2>4, <2>5, <2>6, <2>7, FileStepCases
<1> QED
  BY <1>1, <1>5, <1>6, <1>7, <1>8, <1>9, StepCases, RunStepCases

-----------------------------------------------------------------------------
(* Writers of a date that no other writer has met *)

\* Who begins where the date stays uncrossed is alone.
LEMMA BeginAlone ==
    ASSUME TypeOK, ListInv, NEW r \in Runs, NEW f \in Imported, Begin(r, f),
           DateOf[f] \notin crossed'
    PROVE  /\ ~JobOn(DateOf[f])
           /\ \A q \in Runs, g \in Imported : at[q][g] \in Active => DateOf[g] # DateOf[f]
<1>1. ~Rivals(r, DateOf[f]) /\ ~JobOn(DateOf[f]) /\ \A g \in Busy(r) : DateOf[g] # DateOf[f]
  BY Names DEF Begin
<1>2. ASSUME NEW q \in Runs, NEW g \in Imported, at[q][g] \in Active
      PROVE  DateOf[g] # DateOf[f]
  <2>1. CASE q = r
    BY <1>1, <1>2, <2>1 DEF Busy
  <2>2. CASE q # r
    <3>1. at[q][g] # "none"
      BY <1>2 DEF Active
    <3> QED
      BY <1>1, <2>2, <3>1 DEF Rivals, Listed, ListInv
  <2> QED
    BY <2>1, <2>2
<1> QED
  BY <1>1, <1>2

LEMMA SoloStep ==
    ASSUME TypeOK, ListInv, HotInv, SoloInv, [ImportNext]_importVars
    PROVE  SoloInv'
<1> USE Names
<1>1. CASE UNCHANGED importVars
  BY <1>1 DEF importVars, runVars, jobVars, historyVars, SoloInv, JobOn
<1>2. ASSUME NEW d \in Dates, ArchiveCopy(d) PROVE SoloInv'
  <2>1. UNCHANGED at /\ jobFile' = hot[d] /\ DateOf[hot[d]] = d /\ crossed \subseteq crossed'
    BY <1>2 DEF ArchiveCopy, runVars, HotInv
  <2>2. ASSUME NEW r \in Runs, NEW f \in Imported, at[r][f] \in Active, DateOf[f] \notin crossed'
        PROVE  DateOf[f] # d
    <3>1. at[r][f] # "none" /\ NoRun \notin Runs
      BY <2>2 DEF Active
    <3> QED
      BY <1>2, <2>2, <3>1 DEF ArchiveCopy, Rivals, Listed, ListInv
  <2> QED
    BY <2>1, <2>2 DEF SoloInv, JobOn
<1>3. ASSUME OthersStep, \/ jobFile' = jobFile /\ (jobAt' # "off" => jobAt # "off")
                        \/ jobAt' = "off"
      PROVE  SoloInv'
  BY <1>3, OthersFrame DEF runVars, SoloInv, JobOn
<1>4. CASE OthersStep
  BY <1>2, <1>3, <1>4 DEF OthersStep, StoreRows, Expire, ArchiveSkip, ArchiveReplace,
        ArchiveSidecar, ArchiveUnlink, ArchiveKilled, CountDays, jobVars
<1>5. ASSUME jobVars' = jobVars, crossed \subseteq crossed',
             \A r \in Runs, f \in Imported : at'[r][f] \in Active => at[r][f] \in Active
      PROVE  SoloInv'
  BY <1>5 DEF jobVars, SoloInv, JobOn
<1>6. ASSUME NEW r \in Runs, StartRun(r) PROVE SoloInv'
  BY <1>5, <1>6, StartFrame DEF historyVars, Active
<1>7. ASSUME NEW r \in Runs, StoreFigure(r) PROVE SoloInv'
  BY <1>5, <1>7, FigureFrame DEF historyVars
<1>8. ASSUME NEW r \in Runs, Stops(r) PROVE SoloInv'
  BY <1>5, <1>8, EndFrame DEF Active
<1>9. ASSUME NEW r \in Runs, NEW f \in Imported, FileStep(r, f) PROVE SoloInv'
  <2>1. CASE Begin(r, f)
    <3>1. ASSUME NEW q \in Runs, NEW g \in Imported, at'[q][g] \in Active, q # r \/ g # f
          PROVE  at[q][g] \in Active
      BY <1>9, <3>1, FileFrame
    <3>2. crossed \subseteq crossed' /\ jobVars' = jobVars
      BY <2>1 DEF Begin
    <3> SUFFICES ASSUME NEW q \in Runs, NEW g \in Imported,
                        at'[q][g] \in Active, DateOf[g] \notin crossed'
                 PROVE  /\ ~JobOn(DateOf[g])
                        /\ \A p \in Runs, h \in Imported :
                              at'[p][h] \in Active /\ DateOf[h] = DateOf[g] => p = q /\ h = g
      BY <3>2 DEF SoloInv, jobVars, JobOn
    <3>3. CASE DateOf[g] = DateOf[f]
      BY <2>1, <3>1, <3>3, BeginAlone
    <3>4. CASE DateOf[g] # DateOf[f]
      BY <3>1, <3>2, <3>4 DEF SoloInv
    <3> QED
      BY <3>3, <3>4
  <2>2. CASE ~Begin(r, f)
    <3>1. crossed' = crossed /\ jobVars' = jobVars
      BY <1>9, <2>2, FileFrame DEF FileStep, Skip, ReadFails, BeginCopy, FinishCopy,
            FailCopy, FinishRaw, FinishLegacy, historyVars, jobVars
    <3>2. at'[r][f] \in Active => at[r][f] \in Active
      <4>1. CASE Leaves(r, f)
        BY <4>1, LeavesFrame DEF Over, Active
      <4>2. CASE BeginCopy(r, f) \/ FinishCopy(r, f) \/ FailCopy(r, f) \/ FinishRaw(r, f)
        BY <4>2 DEF BeginCopy, FinishCopy, FailCopy, FinishRaw, Active
      <4> QED
        BY <1>9, <2>2, <4>1, <4>2, FileStepCases
    <3> QED
      BY <1>5, <1>9, <3>1, <3>2, FileFrame
  <2> QED
    BY <2>1, <2>2
<1> QED
  BY <1>1, <1>4, <1>6, <1>7, <1>8, <1>9, StepCases, RunStepCases

\* What a step with a file does to the files of other dates: nothing.
LEMMA OtherDates ==
    ASSUME TypeOK, NEW r \in Runs, NEW f \in Imported, FileStep(r, f)
    PROVE  /\ \A d \in Dates \ {DateOf[f]} :
                 /\ holds'[d] = holds[d] /\ writer'[d] = writer[d] /\ sidecar'[d] = sidecar[d]
                 /\ d \in crossed' <=> d \in crossed
                 /\ d \in redone' <=> d \in redone
           /\ crossed \subseteq crossed' /\ redone \subseteq redone'
<1> USE Names
<1>1. CASE Leaves(r, f)
  BY <1>1, LeavesFrame
<1>2. CASE Begin(r, f)
  BY <1>2 DEF Begin, fileVars
<1>3. CASE BeginCopy(r, f)
  BY <1>3 DEF BeginCopy, TypeOK, historyVars
<1>4. CASE FinishCopy(r, f)
  BY <1>4 DEF FinishCopy, Put, TypeOK, historyVars
<1>5. CASE FailCopy(r, f)
  BY <1>5 DEF FailCopy, RollBack, Remove, TypeOK, historyVars
<1>6. CASE FinishRaw(r, f)
  BY <1>6 DEF FinishRaw, NamesAfter, TypeOK, historyVars
<1> QED
  BY <1>1, <1>2, <1>3, <1>4, <1>5, <1>6, FileStepCases


\* What happens to a writer that no other has met: a step of its own, or one that leaves
\* its files alone, unless it is retention's.
LEMMA WriterCases ==
    ASSUME TypeOK, ListInv, HotInv, SoloInv, [ImportNext]_importVars,
           NEW r \in Runs, NEW f \in Imported, at'[r][f] \in Active, DateOf[f] \notin crossed'
    PROVE  /\ over'[r] = over[r] /\ legacy'[r] = legacy[r] /\ crossed \subseteq crossed'
           /\ \/ FileStep(r, f)
              \/ Expire(DateOf[f]) /\ at'[r][f] = at[r][f]
              \/ /\ at'[r][f] = at[r][f]
                 /\ holds'[DateOf[f]] = holds[DateOf[f]] /\ writer'[DateOf[f]] = writer[DateOf[f]]
                 /\ sidecar'[DateOf[f]] = sidecar[DateOf[f]]
                 /\ DateOf[f] \in redone => DateOf[f] \in redone'
<1> USE Names
<1> DEFINE d == DateOf[f]
<1>1. CASE UNCHANGED importVars
  BY <1>1 DEF importVars, fileVars, runVars, historyVars
<1>2. CASE OthersStep
  <2>1. at' = at /\ over' = over /\ legacy' = legacy /\ crossed \subseteq crossed' /\ redone \subseteq redone'
    BY <1>2, OthersFrame DEF runVars
  <2>2. ~JobOn(d)
    BY <2>1 DEF SoloInv
  <2>3. ASSUME NEW e \in Dates, Expire(e), e # d
        PROVE  holds'[d] = holds[d] /\ writer'[d] = writer[d] /\ sidecar'[d] = sidecar[d]
    BY <2>3 DEF Expire, Remove, TypeOK
  <2>4. ASSUME ArchiveReplace \/ ArchiveSidecar
        PROVE  holds'[d] = holds[d] /\ writer'[d] = writer[d] /\ sidecar'[d] = sidecar[d]
    <3>1. jobFile \in HotFiles /\ DateOf[jobFile] # d
      BY <2>2, <2>4 DEF ArchiveReplace, ArchiveSidecar, JobOn, HotInv
    <3> QED
      BY <2>4, <3>1 DEF ArchiveReplace, ArchiveSidecar, Put, TypeOK
  <2>5. ASSUME \/ \E h \in HotFiles : StoreRows(h)
               \/ \E e \in Dates : ArchiveSkip(e) \/ ArchiveCopy(e)
               \/ ArchiveUnlink \/ ArchiveKilled \/ CountDays
        PROVE  holds' = holds /\ writer' = writer /\ sidecar' = sidecar
    BY <2>5 DEF StoreRows, ArchiveSkip, ArchiveCopy, ArchiveUnlink, ArchiveKilled, CountDays, fileVars
  <2> QED
    BY <1>2, <2>1, <2>3, <2>4, <2>5 DEF OthersStep
<1>3. ASSUME NEW q \in Runs, RunStep(q)
      PROVE  /\ at'[r][f] = at[r][f] /\ over'[r] = over[r] /\ legacy'[r] = legacy[r]
             /\ holds' = holds /\ writer' = writer /\ sidecar' = sidecar
             /\ crossed' = crossed /\ redone' = redone
  <2>1. CASE StartRun(q)
    BY <2>1, StartFrame DEF fileVars, historyVars, Active
  <2>2. CASE StoreFigure(q)
    BY <2>2, FigureFrame DEF historyVars
  <2>3. CASE Stops(q)
    BY <2>3, EndFrame DEF fileVars, Active
  <2> QED
    BY <1>3, <2>1, <2>2, <2>3, RunStepCases
<1>4. ASSUME NEW q \in Runs, NEW g \in Imported, FileStep(q, g), q # r \/ g # f
      PROVE  /\ at'[r][f] = at[r][f] /\ over'[r] = over[r] /\ legacy'[r] = legacy[r]
             /\ holds'[d] = holds[d] /\ writer'[d] = writer[d] /\ sidecar'[d] = sidecar[d]
             /\ crossed \subseteq crossed' /\ redone \subseteq redone'
  <2>1. /\ at'[r][f] = at[r][f] /\ over'[r] = over[r] /\ legacy'[r] = legacy[r]
        /\ crossed \subseteq crossed' /\ redone \subseteq redone'
    BY <1>4, FileFrame, OtherDates
  <2>2. holds'[d] = holds[d] /\ writer'[d] = writer[d] /\ sidecar'[d] = sidecar[d]
    <3>1. CASE DateOf[g] # d
      BY <1>4, <3>1, OtherDates
    <3>2. CASE Leaves(q, g)
      BY <3>2, LeavesFrame
    <3>3. CASE Begin(q, g)
      BY <3>3 DEF Begin, fileVars
    <3>4. CASE DateOf[g] = d /\ ~Leaves(q, g) /\ ~Begin(q, g)
      <4>1. at[q][g] \in Active
        BY <1>4, <3>4, FileStepCases DEF BeginCopy, FinishCopy, FailCopy, FinishRaw, Active
      <4> QED
        BY <1>4, <2>1, <3>4, <4>1 DEF SoloInv
    <3> QED
      BY <3>1, <3>2, <3>3, <3>4
  <2> QED
    BY <2>1, <2>2
<1>5. CASE FileStep(r, f)
  BY <1>5, FileFrame, OtherDates
<1>6. CASE \E q \in Runs : RunStep(q)
  BY <1>3, <1>6
<1>7. CASE \E q \in Runs, g \in Imported : FileStep(q, g)
  BY <1>4, <1>5, <1>7
<1> QED
  BY <1>1, <1>2, <1>6, <1>7, StepCases

LEMMA SparingStep ==
    ASSUME TypeOK, ListInv, HotInv, SoloInv, SparingInv, [ImportNext]_importVars
    PROVE  SparingInv'
<1> USE Names
<1> SUFFICES ASSUME NEW r \in Runs, NEW f \in Imported,
                    at'[r][f] \in Active, DateOf[f] \notin crossed', ~over'[r]
             PROVE  /\ at'[r][f] = "reading" => ~Exists(DateOf[f])'
                    /\ at'[r][f] = "inplace" => OwnCopy(r, f)' \/ ~Exists(DateOf[f])'
                    /\ at'[r][f] # "aside"
  BY DEF SparingInv
<1> DEFINE d == DateOf[f]
<1>1. ~over[r] /\ crossed \subseteq crossed'
  BY WriterCases
<1>2. CASE Expire(d) /\ at'[r][f] = at[r][f]
  <2>1. ~Exists(d)'
    BY <1>2 DEF Expire, Remove, Exists, TypeOK
  <2> QED
    BY <1>1, <1>2, <2>1 DEF SparingInv
<1>3. CASE at'[r][f] = at[r][f] /\ holds'[d] = holds[d] /\ writer'[d] = writer[d]
  BY <1>1, <1>3 DEF SparingInv, Exists, OwnCopy
<1>4. CASE FileStep(r, f)
  <2>1. CASE Leaves(r, f) \/ FailCopy(r, f) \/ FinishRaw(r, f)
    <3>1. at'[r][f] \in Over
      BY <2>1, LeavesFrame, GoesTo DEF FailCopy, FinishRaw, Raises, Over
    <3> QED
      BY <3>1 DEF Over, Active
  <2>2. CASE Begin(r, f)
    <3>1. at'[r][f] = "reading" /\ ~Exists(d) /\ holds' = holds
      BY <1>1, <2>2, GoesTo DEF Begin, Spares, fileVars
    <3> QED
      BY <3>1 DEF Exists
  <2>3. CASE BeginCopy(r, f)
    <3>1. ~Exists(d)
      BY <1>1, <2>3 DEF BeginCopy, SparingInv, Active
    <3>2. /\ Goes(r, f, "inplace")
          /\ holds' = [holds EXCEPT ![d] = f] /\ writer' = [writer EXCEPT ![d] = r]
      BY <2>3, <3>1 DEF BeginCopy
    <3>3. at'[r][f] = "inplace" /\ OwnCopy(r, f)'
      BY <3>2, GoesTo DEF OwnCopy, TypeOK
    <3> QED
      BY <3>3
  <2>4. CASE FinishCopy(r, f)
    <3>1. at'[r][f] = "written"
      BY <2>4, GoesTo DEF FinishCopy
    <3> QED
      BY <3>1
  <2> QED
    BY <1>4, <2>1, <2>2, <2>3, <2>4, FileStepCases
<1> QED
  BY <1>2, <1>3, <1>4, WriterCases

LEMMA WriterStep ==
    ASSUME TypeOK, ListInv, HotInv, SoloInv, WriterInv, SidecarInv, [ImportNext]_importVars
    PROVE  WriterInv'
<1> USE Names
<1> SUFFICES ASSUME NEW r \in Runs, NEW f \in Imported,
                    at'[r][f] \in Active, Clean(DateOf[f])'
             PROVE  /\ at'[r][f] = "reading" => ~Exists(DateOf[f])'
                    /\ at'[r][f] = "inplace" => OwnCopy(r, f)' /\ sidecar'[DateOf[f]] = NoFile
                    /\ at'[r][f] # "aside"
                    /\ at'[r][f] = "written" =>
                          holds'[DateOf[f]] = f /\ writer'[DateOf[f]] = NoRun /\ sidecar'[DateOf[f]] = NoFile
  BY DEF WriterInv, Active
<1> DEFINE d == DateOf[f]
<1>1. d \notin crossed' /\ d \notin redone'
  BY DEF Clean
<1>2. crossed \subseteq crossed'
  BY <1>1, WriterCases
<1>3. ~Expire(d)
  BY <1>1 DEF Expire
<1>4. CASE at'[r][f] = at[r][f] /\ holds'[d] = holds[d] /\ writer'[d] = writer[d]
           /\ sidecar'[d] = sidecar[d] /\ (d \in redone => d \in redone')
  BY <1>1, <1>2, <1>4 DEF WriterInv, Clean, Exists, OwnCopy, Active
<1>5. CASE FileStep(r, f)
  <2>1. Clean(d)
    BY <1>1, <1>5, OtherDates DEF Clean
  <2>2. ~Exists(d) => sidecar[d] = NoFile
    BY <2>1 DEF SidecarInv, Exists
  <2>3. CASE Leaves(r, f) \/ FailCopy(r, f) \/ FinishRaw(r, f)
    <3>1. at'[r][f] \in Over
      BY <2>3, LeavesFrame, GoesTo DEF FailCopy, FinishRaw, Raises, Over
    <3> QED
      BY <3>1 DEF Over, Active
  <2>4. CASE Begin(r, f)
    <3>1. at'[r][f] = "reading" /\ ~Exists(d) /\ holds' = holds
      BY <1>1, <2>4, GoesTo DEF Begin, fileVars
    <3> QED
      BY <3>1 DEF Exists
  <2>5. CASE BeginCopy(r, f)
    <3>1. ~Exists(d)
      BY <2>1, <2>5 DEF BeginCopy, WriterInv, Active
    <3>2. /\ Goes(r, f, "inplace") /\ sidecar' = sidecar
          /\ holds' = [holds EXCEPT ![d] = f] /\ writer' = [writer EXCEPT ![d] = r]
      BY <2>5, <3>1 DEF BeginCopy
    <3>3. at'[r][f] = "inplace" /\ OwnCopy(r, f)' /\ sidecar'[d] = NoFile
      BY <2>2, <3>1, <3>2, GoesTo DEF OwnCopy, TypeOK
    <3> QED
      BY <3>3
  <2>6. CASE FinishCopy(r, f)
    <3>1. at'[r][f] = "written" /\ OwnCopy(r, f) /\ sidecar[d] = NoFile /\ sidecar' = sidecar
      BY <2>1, <2>6, GoesTo DEF FinishCopy, WriterInv, Active
    <3>2. holds'[d] = f /\ writer'[d] = NoRun
      BY <2>6, <3>1 DEF FinishCopy, Put, TypeOK
    <3> QED
      BY <3>1, <3>2
  <2> QED
    BY <1>5, <2>3, <2>4, <2>5, <2>6, FileStepCases
<1> QED
  BY <1>1, <1>3, <1>4, <1>5, WriterCases


-----------------------------------------------------------------------------
(* The archive job and the names *)

LEMMA JobStep ==
    ASSUME TypeOK, HotInv, SoloInv, JobInv, SidecarInv, [ImportNext]_importVars
    PROVE  JobInv'
<1> USE Names
<1> DEFINE d == DateOf[jobFile]
<1>1. ASSUME jobVars' = jobVars, crossed \subseteq crossed', redone \subseteq redone',
             jobAt # "off" /\ Clean(d)' =>
                holds'[d] = holds[d] /\ writer'[d] = writer[d] /\ sidecar'[d] = sidecar[d]
      PROVE  JobInv'
  BY <1>1 DEF JobInv, jobVars, Clean, Exists
<1>2. CASE UNCHANGED importVars
  BY <1>1, <1>2 DEF importVars, fileVars, historyVars
<1>3. ASSUME NEW r \in Runs, RunStep(r) PROVE JobInv'
  BY <1>1, <1>3, RunStepCases, StartFrame, FigureFrame, EndFrame DEF fileVars, historyVars
<1>4. ASSUME NEW r \in Runs, NEW f \in Imported, FileStep(r, f) PROVE JobInv'
  <2>1. jobVars' = jobVars /\ crossed \subseteq crossed' /\ redone \subseteq redone'
    BY <1>4, FileFrame, OtherDates DEF jobVars
  <2>2. ASSUME jobAt # "off", Clean(d)'
        PROVE  holds'[d] = holds[d] /\ writer'[d] = writer[d] /\ sidecar'[d] = sidecar[d]
    <3>0. JobOn(d) /\ d \in Dates /\ d \notin crossed
      BY <2>1, <2>2 DEF JobOn, HotInv, Clean, jobVars
    <3>1. CASE DateOf[f] # d
      BY <1>4, <3>0, <3>1, OtherDates
    <3>2. CASE Leaves(r, f)
      BY <3>2, LeavesFrame
    <3>3. CASE Begin(r, f)
      BY <3>3 DEF Begin, fileVars
    <3>4. CASE DateOf[f] = d /\ ~Leaves(r, f) /\ ~Begin(r, f)
      <4>1. at[r][f] \in Active
        BY <1>4, <3>4, FileStepCases DEF BeginCopy, FinishCopy, FailCopy, FinishRaw, Active
      <4> QED
        BY <3>0, <3>4, <4>1 DEF SoloInv
    <3> QED
      BY <3>1, <3>2, <3>3, <3>4
  <2> QED
    BY <1>1, <2>1, <2>2
<1>5. ASSUME NEW h \in HotFiles, StoreRows(h) PROVE JobInv'
  BY <1>1, <1>5 DEF StoreRows, historyVars
<1>6. ASSUME NEW e \in Dates, Expire(e) PROVE JobInv'
  <2>1. jobVars' = jobVars /\ redone' = redone \cup {e} /\ crossed' = crossed /\ sidecar' = sidecar
    BY <1>6 DEF Expire
  <2>2. e # d => holds'[d] = holds[d] /\ writer'[d] = writer[d]
    BY <1>6 DEF Expire, Remove, TypeOK
  <2> QED
    BY <1>1, <2>1, <2>2 DEF Clean, jobVars
<1>7. ASSUME NEW e \in Dates, ArchiveSkip(e) PROVE JobInv'
  BY <1>1, <1>7 DEF ArchiveSkip, historyVars
<1>8. ASSUME NEW e \in Dates, ArchiveCopy(e) PROVE JobInv'
  BY <1>8 DEF ArchiveCopy, JobInv, HotInv, Exists, fileVars
<1>9. CASE ArchiveReplace
  <2>1. /\ jobAt = "copied" /\ jobAt' = "replaced" /\ jobFile' = jobFile /\ jobFile \in HotFiles
        /\ sidecar' = sidecar /\ crossed' = crossed /\ redone' = redone
    BY <1>9 DEF ArchiveReplace, HotInv, historyVars
  <2>2. d \in Dates /\ holds'[d] = jobFile /\ writer'[d] = NoRun
    BY <1>9, <2>1 DEF ArchiveReplace, Put, TypeOK
  <2>3. Clean(d) => sidecar[d] = NoFile
    BY <2>1, <2>2 DEF JobInv, SidecarInv, Exists
  <2> QED
    BY <2>1, <2>2, <2>3 DEF JobInv, Clean
<1>10. CASE ArchiveSidecar
  <2>1. /\ jobAt = "replaced" /\ jobAt' = "written" /\ jobFile' = jobFile /\ jobFile \in HotFiles
        /\ holds' = holds /\ writer' = writer /\ crossed' = crossed /\ redone' = redone
    BY <1>10 DEF ArchiveSidecar, HotInv, historyVars
  <2>2. sidecar'[d] = jobFile
    BY <1>10, <2>1 DEF ArchiveSidecar, TypeOK
  <2> QED
    BY <2>1, <2>2 DEF JobInv, Clean
<1>11. CASE ArchiveUnlink \/ ArchiveKilled
  BY <1>11 DEF ArchiveUnlink, ArchiveKilled, JobInv
<1>12. CASE CountDays
  BY <1>1, <1>12 DEF CountDays, historyVars
<1> QED
  BY <1>2, <1>3, <1>4, <1>5, <1>6, <1>7, <1>8, <1>9, <1>10, <1>11, <1>12, StepCases DEF OthersStep

\* A step of the processor, retention, the archive job or the count, on a clean date.
LEMMA SidecarOthers ==
    ASSUME TypeOK, HotInv, JobInv, SidecarInv, OthersStep
    PROVE  SidecarInv'
<1> USE Names
<1> SUFFICES ASSUME NEW d \in Dates, Clean(d)'
             PROVE  /\ sidecar'[d] \in {NoFile, holds'[d]}
                    /\ Readable(d)' /\ Quiet(d)' /\ kills' = 0 /\ holds'[d] \notin LegacyFiles
                          => sidecar'[d] = holds'[d]
  BY DEF SidecarInv
<1>1. /\ Clean(d) /\ at' = at /\ phase' = phase
  BY OthersFrame DEF Clean, runVars
<1>2. ~Expire(d)
  BY DEF Expire, Clean
<1>3. ASSUME holds'[d] = holds[d], writer'[d] = writer[d], sidecar'[d] = sidecar[d],
             kills' = kills, JobOn(d) => JobOn(d)'
      PROVE  /\ sidecar'[d] \in {NoFile, holds'[d]}
             /\ Readable(d)' /\ Quiet(d)' /\ kills' = 0 /\ holds'[d] \notin LegacyFiles
                   => sidecar'[d] = holds'[d]
  BY <1>1, <1>3 DEF SidecarInv, Readable, Exists, Quiet, Busy
<1>4. ASSUME NEW h \in HotFiles, StoreRows(h) PROVE holds' = holds /\ writer' = writer
             /\ sidecar' = sidecar /\ kills' = kills /\ (JobOn(d) => JobOn(d)')
  BY <1>4 DEF StoreRows, jobVars, JobOn
<1>5. ASSUME NEW e \in Dates, Expire(e) PROVE holds'[d] = holds[d] /\ writer'[d] = writer[d]
             /\ sidecar' = sidecar /\ kills' = kills /\ (JobOn(d) => JobOn(d)')
  BY <1>2, <1>5 DEF Expire, Remove, jobVars, JobOn, TypeOK
<1>6. ASSUME NEW e \in Dates, ArchiveSkip(e) \/ ArchiveCopy(e)
      PROVE  holds' = holds /\ writer' = writer
             /\ sidecar' = sidecar /\ kills' = kills /\ (JobOn(d) => JobOn(d)')
  BY <1>6 DEF ArchiveSkip, ArchiveCopy, jobVars, fileVars, JobOn
<1>7. ASSUME CountDays PROVE holds' = holds /\ writer' = writer
             /\ sidecar' = sidecar /\ kills' = kills /\ (JobOn(d) => JobOn(d)')
  BY <1>7 DEF CountDays, jobVars, JobOn
<1>8. CASE ArchiveReplace
  <2>1. /\ jobAt = "copied" /\ jobAt' # "off" /\ jobFile' = jobFile /\ jobFile \in HotFiles
        /\ sidecar' = sidecar /\ kills' = kills
    BY <1>8 DEF ArchiveReplace, HotInv
  <2>2. CASE DateOf[jobFile] # d
    <3>1. holds'[d] = holds[d] /\ writer'[d] = writer[d]
      BY <1>8, <2>1, <2>2 DEF ArchiveReplace, Put, TypeOK
    <3> QED
      BY <1>3, <2>1, <2>2, <3>1 DEF JobOn
  <2>3. CASE DateOf[jobFile] = d
    <3>1. sidecar'[d] = NoFile
      BY <1>1, <2>1, <2>3 DEF JobInv, SidecarInv, Exists
    <3>2. ~Quiet(d)'
      BY <2>1, <2>3 DEF Quiet, JobOn
    <3> QED
      BY <3>1, <3>2
  <2> QED
    BY <2>2, <2>3
<1>9. CASE ArchiveSidecar
  <2>1. /\ jobAt = "replaced" /\ jobAt' # "off" /\ jobFile' = jobFile /\ jobFile \in HotFiles
        /\ holds' = holds /\ writer' = writer /\ kills' = kills
    BY <1>9 DEF ArchiveSidecar, HotInv
  <2>2. CASE DateOf[jobFile] # d
    <3>1. sidecar'[d] = sidecar[d]
      BY <1>9, <2>1, <2>2 DEF ArchiveSidecar, TypeOK
    <3> QED
      BY <1>3, <2>1, <2>2, <3>1 DEF JobOn
  <2>3. CASE DateOf[jobFile] = d
    <3>1. sidecar'[d] = jobFile /\ holds'[d] = jobFile
      BY <1>1, <1>9, <2>1, <2>3 DEF ArchiveSidecar, JobInv, TypeOK
    <3> QED
      BY <3>1
  <2> QED
    BY <2>2, <2>3
<1>10. CASE ArchiveUnlink
  <2>1. /\ jobAt = "written" /\ holds' = holds /\ writer' = writer /\ sidecar' = sidecar /\ kills' = kills
    BY <1>10 DEF ArchiveUnlink
  <2>2. CASE DateOf[jobFile] # d
    BY <1>3, <2>1, <2>2 DEF JobOn
  <2>3. CASE DateOf[jobFile] = d
    BY <1>1, <2>1, <2>3 DEF JobInv
  <2> QED
    BY <2>2, <2>3
<1>11. CASE ArchiveKilled
  <2>1. holds' = holds /\ writer' = writer /\ sidecar' = sidecar /\ kills' # 0
    BY <1>11 DEF ArchiveKilled, fileVars, TypeOK
  <2> QED
    BY <1>1, <2>1 DEF SidecarInv
<1> QED
  BY <1>3, <1>4, <1>5, <1>6, <1>7, <1>8, <1>9, <1>10, <1>11 DEF OthersStep

\* A step of a run with a file, on a clean date.
LEMMA SidecarFileStep ==
    ASSUME TypeOK, ListInv, WriterInv, SidecarInv,
           NEW r \in Runs, NEW f \in Imported, FileStep(r, f)
    PROVE  SidecarInv'
<1> USE Names
<1> SUFFICES ASSUME NEW d \in Dates, Clean(d)'
             PROVE  /\ sidecar'[d] \in {NoFile, holds'[d]}
                    /\ Readable(d)' /\ Quiet(d)' /\ kills' = 0 /\ holds'[d] \notin LegacyFiles
                          => sidecar'[d] = holds'[d]
  BY DEF SidecarInv
<1>1. /\ Clean(d) /\ phase' = phase /\ kills' = kills /\ phase[r] = "up"
      /\ \A q \in Runs, g \in Imported : q # r \/ g # f => at'[q][g] = at[q][g]
      /\ JobOn(d)' <=> JobOn(d)
  BY FileFrame, OtherDates DEF Clean, JobOn
<1>2. ASSUME Quiet(d)', DateOf[f] # d \/ at[r][f] \notin Active PROVE Quiet(d)
  BY <1>1, <1>2 DEF Quiet, Busy
<1>3. CASE DateOf[f] # d
  BY <1>1, <1>2, <1>3, OtherDates DEF SidecarInv, Readable, Exists
<1>4. CASE DateOf[f] = d /\ Leaves(r, f)
  <2>1. /\ holds' = holds /\ writer' = writer /\ sidecar' = sidecar
        /\ at[r][f] \in {"waiting", "reading", "written"} /\ (at[r][f] = "written" => legacy[r])
    BY <1>4, LeavesFrame
  <2>2. CASE at[r][f] = "waiting"
    BY <1>1, <1>2, <2>1, <2>2 DEF SidecarInv, Readable, Exists, Active
  <2>3. CASE at[r][f] = "reading"
    BY <1>1, <1>4, <2>1, <2>3 DEF SidecarInv, WriterInv, Readable, Exists, Active
  <2>4. CASE at[r][f] = "written"
    BY <1>1, <1>4, <2>1, <2>4 DEF SidecarInv, WriterInv, ListInv, Active
  <2> QED
    BY <2>1, <2>2, <2>3, <2>4
<1>5. ASSUME DateOf[f] = d, at'[r][f] \in Active PROVE ~Quiet(d)'
  BY <1>1, <1>5 DEF Quiet, Busy
<1>6. CASE DateOf[f] = d /\ Begin(r, f)
  <2>1. at'[r][f] \in Active /\ holds' = holds /\ sidecar' = sidecar
    BY <1>6, GoesTo DEF Begin, Active, fileVars
  <2> QED
    BY <1>1, <1>5, <1>6, <2>1 DEF SidecarInv
<1>7. CASE DateOf[f] = d /\ BeginCopy(r, f)
  <2>1. ~Exists(d) /\ sidecar[d] = NoFile
    BY <1>1, <1>7 DEF BeginCopy, WriterInv, SidecarInv, Exists, Active
  <2>2. at'[r][f] \in Active /\ sidecar' = sidecar
    BY <1>7, <2>1, GoesTo DEF BeginCopy, Active
  <2> QED
    BY <1>5, <1>7, <2>1, <2>2
<1>8. CASE DateOf[f] = d /\ FinishCopy(r, f)
  <2>1. sidecar[d] = NoFile /\ sidecar' = sidecar /\ at'[r][f] \in Active
    BY <1>1, <1>8, GoesTo DEF FinishCopy, WriterInv, Active
  <2> QED
    BY <1>5, <1>8, <2>1
<1>9. CASE DateOf[f] = d /\ FailCopy(r, f)
  <2>1. at[r][f] \in {"inplace", "aside", "reading"} /\ sidecar' = sidecar
    BY <1>9 DEF FailCopy
  <2>2. sidecar[d] = NoFile
    BY <1>1, <1>9, <2>1 DEF WriterInv, SidecarInv, Exists, Active
  <2>3. ~Exists(d)'
    BY <1>9 DEF FailCopy, RollBack, Remove, Exists, TypeOK
  <2> QED
    BY <2>1, <2>2, <2>3 DEF Readable
<1>10. CASE DateOf[f] = d /\ FinishRaw(r, f)
  <2>1. holds[d] = f /\ holds' = holds
    BY <1>1, <1>10 DEF FinishRaw, WriterInv, Active
  <2>2. sidecar'[d] = f
    BY <1>10 DEF FinishRaw, NamesAfter, TypeOK
  <2> QED
    BY <2>1, <2>2
<1> QED
  BY <1>3, <1>4, <1>6, <1>7, <1>8, <1>9, <1>10, FileStepCases

LEMMA SidecarRunStep ==
    ASSUME TypeOK, ListInv, SidecarInv, NEW r \in Runs, RunStep(r)
    PROVE  SidecarInv'
<1>1. CASE StartRun(r)
  <2>1. ASSUME NEW d \in Dates, Quiet(d)' PROVE Quiet(d)
    BY <1>1, <2>1, StartFrame DEF Quiet, Busy, JobOn, jobVars
  <2> QED
    BY <1>1, <2>1, StartFrame DEF SidecarInv, fileVars, historyVars, Clean, Readable, Exists
<1>2. CASE StoreFigure(r)
  BY <1>2, FigureFrame DEF SidecarInv, Quiet, Busy, JobOn, jobVars, historyVars, Clean, Readable, Exists
<1>3. CASE Stops(r)
  <2>1. ASSUME NEW d \in Dates, Quiet(d)', kills' = 0 PROVE Quiet(d) /\ kills = 0
    BY <1>3, <2>1, EndFrame DEF Quiet, Busy, JobOn, jobVars
  <2> QED
    BY <1>3, <2>1, EndFrame DEF SidecarInv, fileVars, Clean, Readable, Exists
<1> QED
  BY <1>1, <1>2, <1>3, RunStepCases


-----------------------------------------------------------------------------
(* The figures *)

LEMMA HistoryGrows ==
    ASSUME TypeOK, [ImportNext]_importVars
    PROVE  used \subseteq used' /\ crossed \subseteq crossed' /\ cut \subseteq cut'
<1>1. CASE UNCHANGED importVars
  BY <1>1 DEF importVars, fileVars, historyVars
<1>2. CASE OthersStep
  BY <1>2 DEF OthersStep, StoreRows, Expire, ArchiveSkip, ArchiveCopy, ArchiveReplace, ArchiveSidecar,
              ArchiveUnlink, ArchiveKilled, CountDays, historyVars, fileVars
<1>3. ASSUME NEW r \in Runs, RunStep(r)
      PROVE  used \subseteq used' /\ crossed \subseteq crossed' /\ cut \subseteq cut'
  BY <1>3 DEF RunStep, StartRun, StoreFigure, EndRun, BreakOff, KillRun, RunEnds, CutShort,
              fileVars, historyVars
<1>4. ASSUME NEW r \in Runs, NEW f \in Imported, FileStep(r, f)
      PROVE  used \subseteq used' /\ crossed \subseteq crossed' /\ cut \subseteq cut'
  BY <1>4 DEF FileStep, Skip, Begin, ReadFails, BeginCopy, FinishCopy, FailCopy, FinishRaw,
              FinishLegacy, fileVars, historyVars
<1> QED
  BY <1>1, <1>2, <1>3, <1>4, StepCases

LEMMA OnlyRunsBefore ==
    ASSUME TypeOK, [ImportNext]_importVars, NEW d, OnlyRuns(d)'
    PROVE  OnlyRuns(d)
BY HistoryGrows DEF OnlyRuns

LEMMA UsedStep ==
    ASSUME TypeOK, HotInv, UsedInv, [ImportNext]_importVars
    PROVE  UsedInv'
<1> USE DEF UsedInv
<1>1. CASE UNCHANGED importVars
  BY <1>1 DEF importVars, fileVars, jobVars
<1>2. ASSUME NEW r \in Runs, RunStep(r) PROVE UsedInv'
  BY <1>2 DEF RunStep, StartRun, StoreFigure, EndRun, BreakOff, KillRun, RunEnds, fileVars, jobVars
<1>3. ASSUME NEW r \in Runs, NEW f \in Imported, FileStep(r, f) PROVE UsedInv'
  BY <1>3 DEF FileStep, Skip, Begin, ReadFails, BeginCopy, FinishCopy, FailCopy, FinishRaw,
              FinishLegacy, fileVars, jobVars
<1>4. ASSUME NEW h \in HotFiles, StoreRows(h) PROVE UsedInv'
  BY <1>4 DEF StoreRows, jobVars, TypeOK
<1>5. ASSUME NEW d \in Dates, Expire(d) PROVE UsedInv'
  BY <1>5 DEF Expire, jobVars
<1>6. ASSUME NEW d \in Dates, ArchiveSkip(d) PROVE UsedInv'
  BY <1>6 DEF ArchiveSkip, jobVars, TypeOK
<1>7. ASSUME NEW d \in Dates, ArchiveCopy(d) PROVE UsedInv'
  BY <1>7 DEF ArchiveCopy, fileVars, TypeOK
<1>8. CASE ArchiveReplace \/ ArchiveSidecar \/ CountDays
  BY <1>8 DEF ArchiveReplace, ArchiveSidecar, CountDays, jobVars
<1>9. CASE ArchiveUnlink \/ ArchiveKilled
  BY <1>9 DEF ArchiveUnlink, ArchiveKilled, fileVars, TypeOK
<1>10. CASE OthersStep
  BY <1>4, <1>5, <1>6, <1>7, <1>8, <1>9, <1>10 DEF OthersStep
<1> QED
  BY <1>1, <1>2, <1>3, <1>10, StepCases

\* What happens to the results of a run.
LEMMA ResultCases ==
    ASSUME TypeOK, [ImportNext]_importVars, NEW r \in Runs
    PROVE  \/ results'[r] = results[r] /\ ~Stops(r)
           \/ \E f \in Imported : FinishRaw(r, f) /\ Exists(DateOf[f]) /\ results'[r] = Append(results[r], f)
           \/ StoreFigure(r) /\ results'[r] = Tail(results[r])
           \/ Stops(r) /\ results'[r] = <<>>
<1>1. CASE UNCHANGED importVars \/ OthersStep
  <2>1. results' = results /\ phase' = phase
    BY <1>1, OthersFrame DEF importVars, runVars
  <2>2. ~Stops(r)
    BY <2>1, EndFrame
  <2> QED
    BY <2>1, <2>2
<1>2. ASSUME NEW q \in Runs, StartRun(q)
      PROVE  results' = results /\ ~Stops(r)
  <2>1. results' = results
    BY <1>2 DEF StartRun
  <2>2. phase'[q] = "up" /\ phase[q] = "new"
    BY <1>2, StartFrame
  <2>3. q # r => phase'[r] = phase[r]
    <3>1. q # r => r \in Runs \ {q}
      OBVIOUS
    <3> QED
      BY <1>2, <3>1, StartFrame
  <2>4. ~Stops(r)
    <3> SUFFICES ASSUME Stops(r) PROVE FALSE
      OBVIOUS
    <3>1. phase[r] = "up" /\ phase'[r] # "up"
      BY EndFrame
    <3> QED
      BY <2>2, <2>3, <3>1
  <2> QED
    BY <2>1, <2>4
<1>3. ASSUME NEW q \in Runs, StoreFigure(q)
      PROVE  ~Stops(r) /\ (IF q = r THEN results'[r] = Tail(results[r]) ELSE results'[r] = results[r])
  <2>1. phase' = phase
    BY <1>3 DEF StoreFigure
  <2> QED
    BY <1>3, <2>1, EndFrame DEF StoreFigure, TypeOK
<1>4. ASSUME NEW q \in Runs, Stops(q)
      PROVE  IF q = r THEN results'[r] = <<>> ELSE results'[r] = results[r] /\ ~Stops(r)
  <2>1. results' = [results EXCEPT ![q] = <<>>]
    BY <1>4 DEF Stops, EndRun, BreakOff, KillRun, RunEnds
  <2>2. q # r => ~Stops(r)
    BY <1>4, EndFrame
  <2> QED
    BY <2>1, <2>2 DEF TypeOK
<1>5. ASSUME NEW q \in Runs, NEW f \in Imported, FileStep(q, f)
      PROVE  ~Stops(r) /\ \/ results'[r] = results[r]
                          \/ q = r /\ FinishRaw(r, f) /\ Exists(DateOf[f]) /\ results'[r] = Append(results[r], f)
  <2>1. ~Stops(r)
    BY <1>5, FileFrame, EndFrame
  <2>2. \/ results' = results
        \/ FinishRaw(q, f) /\ Exists(DateOf[f]) /\ results' = [results EXCEPT ![q] = Append(@, f)]
    BY <1>5 DEF FileStep, Skip, Begin, ReadFails, BeginCopy, FinishCopy, FailCopy, FinishRaw,
                FinishLegacy
  <2> QED
    BY <2>1, <2>2 DEF TypeOK
<1>6. CASE \E q \in Runs : RunStep(q)
  BY <1>2, <1>3, <1>4, <1>6, RunStepCases
<1>7. CASE \E q \in Runs, f \in Imported : FileStep(q, f)
  BY <1>5, <1>7
<1> QED
  BY <1>1, <1>6, <1>7, StepCases

\* What is imported stays so until its run ends.
LEMMA ImportedStays ==
    ASSUME TypeOK, ListInv, [ImportNext]_importVars, NEW r \in Runs, NEW f \in Imported,
           at[r][f] = "imported"
    PROVE  Stops(r) \/ (at'[r][f] = "imported" /\ legacy'[r] = legacy[r])
<1>1. phase[r] = "up"
  BY DEF ListInv
<1>2. CASE UNCHANGED importVars \/ OthersStep
  BY <1>2, OthersFrame DEF importVars, runVars
<1>3. ASSUME NEW q \in Runs, StartRun(q)
      PROVE  at'[r] = at[r] /\ legacy'[r] = legacy[r]
  BY <1>1, <1>3, StartFrame
<1>4. ASSUME NEW q \in Runs, StoreFigure(q)
      PROVE  at' = at /\ legacy' = legacy
  BY <1>4, FigureFrame
<1>5. ASSUME NEW q \in Runs, Stops(q)
      PROVE  Stops(r) \/ (at'[r] = at[r] /\ legacy'[r] = legacy[r])
  <2>1. CASE q = r
    BY <1>5, <2>1
  <2>2. CASE q # r
    <3>1. \A p \in Runs \ {q} : at'[p] = at[p] /\ legacy'[p] = legacy[p]
      BY <1>5, EndFrame
    <3> QED
      BY <2>2, <3>1
  <2> QED
    BY <2>1, <2>2
<1>6. ASSUME NEW q \in Runs, NEW g \in Imported, FileStep(q, g)
      PROVE  at'[r][f] = at[r][f] /\ legacy'[r] = legacy[r]
  <2>1. at[q][g] # "imported"
    BY <1>6 DEF FileStep, Skip, Begin, TakesUp, ReadFails, BeginCopy, FinishCopy, FailCopy,
                FinishRaw, FinishLegacy
  <2>2. q # r \/ g # f
    BY <2>1
  <2> QED
    BY <1>6, <2>2, FileFrame
<1>7. CASE \E q \in Runs : RunStep(q)
  BY <1>3, <1>4, <1>5, <1>7, RunStepCases
<1>8. CASE \E q \in Runs, g \in Imported : FileStep(q, g)
  BY <1>6, <1>8
<1> QED
  BY <1>2, <1>7, <1>8, StepCases

LEMMA ResultStep ==
    ASSUME TypeOK, ListInv, ResultInv, [ImportNext]_importVars
    PROVE  ResultInv'
<1> SUFFICES ASSUME NEW r \in Runs, NEW i \in DOMAIN results'[r]
             PROVE  at'[r][results'[r][i]] = "imported" /\ ~legacy'[r]
  BY DEF ResultInv
<1>0. results[r] \in Seq(Imported)
  BY DEF TypeOK
<1>1. ASSUME NEW j \in DOMAIN results[r], ~Stops(r)
      PROVE  at'[r][results[r][j]] = "imported" /\ ~legacy'[r]
  <2>1. results[r][j] \in Imported
    BY <1>0, ElementOfSeq, LenProperties
  <2> QED
    BY <1>1, <2>1, ImportedStays DEF ResultInv
<1>2. CASE results'[r] = results[r] /\ ~Stops(r)
  BY <1>1, <1>2
<1>3. ASSUME NEW f \in Imported, FinishRaw(r, f), Exists(DateOf[f]), results'[r] = Append(results[r], f)
      PROVE  at'[r][results'[r][i]] = "imported" /\ ~legacy'[r]
  <2>1. ~Stops(r)
    <3>1. phase' = phase /\ phase[r] = "up"
      BY <1>3 DEF FinishRaw
    <3> QED
      BY <3>1, EndFrame
  <2>2. at'[r][f] = "imported" /\ ~legacy'[r]
    BY <1>3, GoesTo DEF FinishRaw
  <2>3. (i \in DOMAIN results[r] /\ results'[r][i] = results[r][i]) \/ results'[r][i] = f
    BY <1>0, <1>3, AppendProperties, LenProperties
  <2> QED
    BY <1>1, <2>1, <2>2, <2>3
<1>4. CASE StoreFigure(r) /\ results'[r] = Tail(results[r])
  <2>1. ~Stops(r) /\ results[r] # <<>>
    <3>1. phase' = phase /\ phase[r] = "up" /\ results[r] # <<>>
      BY <1>4 DEF StoreFigure, Done
    <3> QED
      BY <3>1, EndFrame
  <2>2. i + 1 \in DOMAIN results[r] /\ results'[r][i] = results[r][i + 1]
    BY <1>0, <1>4, <2>1, HeadTailProperties, LenProperties
  <2> QED
    BY <1>1, <2>1, <2>2
<1>5. CASE Stops(r) /\ results'[r] = <<>>
  BY <1>5
<1> QED
  BY <1>2, <1>3, <1>4, <1>5, ResultCases

\* Who works on a file, or has imported it, did so before, or begins.
LEMMA WorkBefore ==
    ASSUME TypeOK, [ImportNext]_importVars, NEW r \in Runs, NEW f \in Imported,
           at'[r][f] \in Active \cup {"imported"}
    PROVE  at[r][f] \in Active \cup {"imported"} \/ Begin(r, f)
<1>1. CASE UNCHANGED importVars \/ OthersStep
  BY <1>1, OthersFrame DEF importVars, runVars
<1>2. ASSUME NEW q \in Runs, RunStep(q)
      PROVE  at'[r][f] = at[r][f]
  BY <1>2, RunStepCases, StartFrame, FigureFrame, EndFrame DEF Active
<1>3. ASSUME NEW q \in Runs, NEW g \in Imported, FileStep(q, g), q # r \/ g # f
      PROVE  at'[r][f] = at[r][f]
  BY <1>3, FileFrame
<1>4. CASE FileStep(r, f)
  <2>1. CASE Skip(r, f)
    <3>1. at'[r][f] = "left"
      BY <2>1, GoesTo DEF Skip
    <3> QED
      BY <3>1 DEF Active
  <2> QED
    BY <1>4, <2>1 DEF FileStep, ReadFails, BeginCopy, FinishCopy, FailCopy, FinishRaw, FinishLegacy, Active
<1>5. CASE \E q \in Runs : RunStep(q)
  BY <1>2, <1>5
<1>6. CASE \E q \in Runs, g \in Imported : FileStep(q, g)
  BY <1>3, <1>4, <1>6
<1> QED
  BY <1>1, <1>5, <1>6, StepCases

LEMMA OneRunStep ==
    ASSUME TypeOK, ListInv, OneRunInv, [ImportNext]_importVars
    PROVE  OneRunInv'
<1> DEFINE A == Active \cup {"imported"}
<1> SUFFICES ASSUME NEW r \in Runs, NEW q \in Runs, NEW f \in Imported, NEW g \in Imported,
                    at'[r][f] \in A, at'[q][g] \in A,
                    DateOf[f] = DateOf[g], DateOf[f] \notin crossed', q # r
             PROVE  FALSE
  BY DEF OneRunInv, Active, Taken
<1>1. DateOf[f] \notin crossed
  BY HistoryGrows
<1>2. ASSUME NEW p \in Runs, NEW h \in Imported, NEW s \in Runs, NEW k \in Imported,
             Begin(p, h), DateOf[h] = DateOf[f], s # p, at'[s][k] \in A, DateOf[k] = DateOf[f]
      PROVE  FALSE
  <2>1. FileStep(p, h)
    BY <1>2 DEF FileStep
  <2>2. at[s][k] \in A
    BY <1>2, <2>1, FileFrame
  <2>3. phase[s] = "up" /\ at[s][k] # "none"
    BY <2>2 DEF ListInv, Active
  <2>4. Rivals(p, DateOf[h])
    BY <1>2, <2>3 DEF Rivals, Listed
  <2>5. DateOf[h] \in crossed'
    BY <1>2, <2>4 DEF Begin
  <2> QED
    BY <1>2, <2>5
<1>3. ~Begin(r, f) /\ ~Begin(q, g)
  BY <1>2
<1>4. at[r][f] \in A /\ at[q][g] \in A
  BY <1>3, WorkBefore
<1> QED
  BY <1>1, <1>4 DEF OneRunInv, Active, Taken

LEMMA CopyStep ==
    ASSUME TypeOK, ListInv, HotInv, SoloInv, CopyInv, [ImportNext]_importVars
    PROVE  CopyInv'
<1> USE Names
<1> SUFFICES ASSUME NEW r \in Runs, NEW f \in Imported, at'[r][f] \in Active,
                    OnlyRuns(DateOf[f])', Exists(DateOf[f])'
             PROVE  /\ at'[r][f] = "inplace" => OwnCopy(r, f)'
                    /\ at'[r][f] = "written" => holds'[DateOf[f]] = f /\ writer'[DateOf[f]] = NoRun
  BY DEF CopyInv, Active
<1> DEFINE d == DateOf[f]
<1>1. OnlyRuns(d) /\ d \notin crossed'
  BY OnlyRunsBefore DEF OnlyRuns
<1>2. ~Expire(d)
  BY DEF Expire, Remove, Exists, TypeOK
<1>3. CASE at'[r][f] = at[r][f] /\ holds'[d] = holds[d] /\ writer'[d] = writer[d]
  BY <1>1, <1>3 DEF CopyInv, Exists, OwnCopy, Active
<1>4. CASE FileStep(r, f)
  <2>1. CASE Leaves(r, f) \/ FailCopy(r, f) \/ FinishRaw(r, f)
    <3>1. at'[r][f] \in Over
      BY <2>1, LeavesFrame, GoesTo DEF FailCopy, FinishRaw, Raises, Over
    <3> QED
      BY <3>1 DEF Over, Active
  <2>2. CASE Begin(r, f)
    <3>1. at'[r][f] = "reading"
      BY <2>2, GoesTo DEF Begin
    <3> QED
      BY <3>1
  <2>3. CASE BeginCopy(r, f)
    <3>1. CASE Goes(r, f, "aside")
      BY <3>1, GoesTo
    <3>2. CASE /\ Goes(r, f, "inplace")
               /\ holds' = [holds EXCEPT ![d] = f] /\ writer' = [writer EXCEPT ![d] = r]
      <4>1. at'[r][f] = "inplace" /\ OwnCopy(r, f)'
        BY <3>2, GoesTo DEF OwnCopy, TypeOK
      <4> QED
        BY <4>1
    <3> QED
      BY <2>3, <3>1, <3>2 DEF BeginCopy
  <2>4. CASE FinishCopy(r, f)
    <3>1. at'[r][f] = "written"
      BY <2>4, GoesTo DEF FinishCopy
    <3>2. CASE at[r][f] = "aside" \/ OwnCopy(r, f)
      <4>1. holds'[d] = f /\ writer'[d] = NoRun
        BY <2>4, <3>2 DEF FinishCopy, Put, TypeOK
      <4> QED
        BY <3>1, <4>1
    <3>3. CASE ~(at[r][f] = "aside" \/ OwnCopy(r, f))
      <4>1. at[r][f] = "inplace" /\ holds' = holds
        BY <2>4, <3>3 DEF FinishCopy
      <4>2. Exists(d)
        BY <4>1 DEF Exists
      <4> QED
        BY <1>1, <3>3, <4>1, <4>2 DEF CopyInv, Active
    <3> QED
      BY <3>2, <3>3
  <2> QED
    BY <1>4, <2>1, <2>2, <2>3, <2>4, FileStepCases
<1> QED
  BY <1>1, <1>2, <1>3, <1>4, WriterCases

-----------------------------------------------------------------------------

\* What FigureInv says of a date, with its cases named.
Written(d) ==
    \E r \in Runs : holds[d] \in Imported /\ DateOf[holds[d]] = d /\ at[r][holds[d]] = "written"
Resulting(d) == \E r \in Runs : LastResult(r, holds[d], d) /\ DateOf[holds[d]] = d
Stored(d) == figure[d] = holds[d] /\ NoResults(d)

LEMMA FigureOthers ==
    ASSUME TypeOK, HotInv, UsedInv, FigureInv, OthersStep, [ImportNext]_importVars,
           NEW d \in Dates, OnlyRuns(d)', d \notin cut', Readable(d)'
    PROVE  Written(d)' \/ Resulting(d)' \/ Stored(d)'
<1>1. OnlyRuns(d) /\ d \notin cut
  BY OnlyRunsBefore, HistoryGrows
<1>2. UNCHANGED runVars
  BY OthersFrame
<1>3. hot[d] = NoFile /\ (jobAt # "off" => DateOf[jobFile] # d)
  BY <1>1 DEF HotInv, UsedInv, OnlyRuns
<1>4. holds'[d] = holds[d] /\ writer'[d] = writer[d]
  <2>1. CASE \E e \in Dates : Expire(e)
    <3>1. PICK e \in Dates : Expire(e)
      BY <2>1
    <3>2. e # d
      BY <3>1 DEF Expire, Remove, Readable, Exists, TypeOK
    <3> QED
      BY <3>1, <3>2 DEF Expire, Remove, TypeOK
  <2>2. CASE ArchiveReplace
    BY <1>3, <2>2 DEF ArchiveReplace, Put, TypeOK
  <2>3. CASE holds' = holds /\ writer' = writer
    BY <2>3
  <2> QED
    BY <2>1, <2>2, <2>3 DEF OthersStep, StoreRows, ArchiveSkip, ArchiveCopy, ArchiveSidecar,
          ArchiveUnlink, ArchiveKilled, CountDays, fileVars
<1>5. Readable(d) /\ Exists(d)
  BY <1>4 DEF Readable, Exists
<1>6. figure'[d] \in {figure[d], holds[d]}
  <2>1. CASE CountDays
    BY <1>3, <1>5, <2>1 DEF CountDays, TypeOK
  <2>2. CASE ~CountDays
    BY <2>2 DEF OthersStep, StoreRows, Expire, ArchiveSkip, ArchiveCopy, ArchiveReplace, ArchiveSidecar,
          ArchiveUnlink, ArchiveKilled, fileVars
  <2> QED
    BY <2>1, <2>2
<1>7. Written(d) \/ Resulting(d) \/ Stored(d)
  BY <1>1, <1>5 DEF FigureInv, Written, Resulting, Stored
<1>8. CASE Written(d)
  BY <1>2, <1>4, <1>8 DEF Written, runVars
<1>9. CASE Resulting(d)
  BY <1>2, <1>4, <1>9 DEF Resulting, LastResult, runVars
<1>10. CASE Stored(d)
  BY <1>2, <1>4, <1>6, <1>10 DEF Stored, NoResults, runVars
<1> QED
  BY <1>7, <1>8, <1>9, <1>10

LEMMA FigureStored ==
    ASSUME TypeOK, ResultInv, OneRunInv, FigureInv, NEW r \in Runs, StoreFigure(r),
           NEW d \in Dates, OnlyRuns(d)', d \notin cut', Readable(d)'
    PROVE  Written(d)' \/ Resulting(d)' \/ Stored(d)'
<1>1. UNCHANGED <<used, holds, writer, at, cut, crossed>>
  BY DEF StoreFigure, historyVars
<1>2. OnlyRuns(d) /\ d \notin cut /\ Readable(d)
  BY <1>1 DEF OnlyRuns, Readable, Exists
<1> DEFINE s == results[r]
           h == Head(s)
<1>3. s \in Seq(Imported) /\ s # <<>>
  BY DEF StoreFigure, TypeOK
<1>4. /\ Len(s) \in Nat \ {0} /\ DOMAIN s = 1 .. Len(s) /\ h = s[1]
      /\ DOMAIN Tail(s) = 1 .. Len(s) - 1
      /\ \A i \in 1 .. Len(s) - 1 : Tail(s)[i] = s[i + 1]
      /\ \A i \in DOMAIN s : s[i] \in Imported
  BY <1>3, HeadTailProperties, LenProperties, ElementOfSeq, EmptySeq
<1>5. /\ results'[r] = Tail(s) /\ \A q \in Runs : q # r => results'[q] = results[q]
      /\ figure' = [figure EXCEPT ![DateOf[h]] = h]
  BY DEF StoreFigure, FigureAfter, TypeOK
<1> HIDE DEF s, h
<1>6. Written(d) \/ Resulting(d) \/ Stored(d)
  BY <1>2 DEF FigureInv, Written, Resulting, Stored
<1>7. CASE Written(d)
  BY <1>1, <1>7 DEF Written
<1>8. CASE Resulting(d)
  <2>1. PICK q \in Runs : LastResult(q, holds[d], d) /\ DateOf[holds[d]] = d
    BY <1>8 DEF Resulting
  <2>2. CASE q # r
    <3>1. LastResult(q, holds[d], d)'
      BY <1>1, <1>5, <2>1, <2>2 DEF LastResult
    <3> QED
      BY <1>1, <2>1, <3>1 DEF Resulting
  <2>3. CASE q = r
    <3>1. PICK i \in DOMAIN s : s[i] = holds[d] /\ \A j \in DOMAIN s : j > i => DateOf[s[j]] # d
      BY <2>1, <2>3 DEF LastResult, s
    <3>2. CASE i = 1
      <4>1. figure'[d] = holds'[d]
        BY <1>1, <1>4, <1>5, <2>1, <3>1, <3>2 DEF TypeOK
      <4>2. ASSUME NEW p \in Runs, NEW j \in DOMAIN results'[p]
            PROVE  DateOf[results'[p][j]] # d
        <5>1. CASE p = r
          <6>1. j \in 1 .. Len(s) - 1 /\ results'[p][j] = s[j + 1] /\ j + 1 \in DOMAIN s /\ j + 1 > 1
            BY <1>4, <1>5, <4>2, <5>1
          <6> QED
            BY <3>1, <3>2, <6>1
        <5>2. CASE p # r
          <6>1. results'[p] = results[p]
            BY <1>5, <5>2
          <6>2. results[p] \in Seq(Imported) /\ j \in DOMAIN results[p]
            BY <4>2, <6>1 DEF TypeOK
          <6>3. results[p][j] \in Imported /\ s[1] \in Imported
            BY <1>4, <6>2, ElementOfSeq, LenProperties
          <6>4. at[p][results[p][j]] = "imported" /\ at[r][s[1]] = "imported"
            BY <1>4, <6>2 DEF ResultInv, s
          <6> QED
            BY <1>2, <2>1, <3>1, <3>2, <5>2, <6>1, <6>3, <6>4 DEF OneRunInv, OnlyRuns, Active, Taken
        <5> QED
          BY <5>1, <5>2
      <4> QED
        BY <4>1, <4>2 DEF Stored, NoResults
    <3>3. CASE i # 1
      <4> DEFINE k == i - 1
      <4>1. k \in DOMAIN results'[r] /\ results'[r][k] = holds'[d]
        BY <1>1, <1>4, <1>5, <3>1, <3>3
      <4>2. ASSUME NEW j \in DOMAIN results'[r], j > k
            PROVE  DateOf[results'[r][j]] # d
        <5>1. j \in 1 .. Len(s) - 1 /\ results'[r][j] = s[j + 1] /\ j + 1 \in DOMAIN s /\ j + 1 > i
          BY <1>4, <1>5, <3>1, <4>2
        <5> QED
          BY <3>1, <5>1
      <4> HIDE DEF k
      <4>3. LastResult(r, holds[d], d)'
        BY <4>1, <4>2 DEF LastResult
      <4> QED
        BY <1>1, <2>1, <4>3 DEF Resulting
    <3> QED
      BY <3>2, <3>3
  <2> QED
    BY <2>2, <2>3
<1>9. CASE Stored(d)
  <2>1. DateOf[h] # d
    BY <1>4, <1>9 DEF Stored, NoResults, s
  <2>2. figure'[d] = holds'[d]
    BY <1>1, <1>5, <1>9, <2>1 DEF Stored, TypeOK
  <2>3. ASSUME NEW p \in Runs, NEW j \in DOMAIN results'[p]
        PROVE  DateOf[results'[p][j]] # d
    <3>1. CASE p = r
      <4>1. results'[p][j] = s[j + 1] /\ j + 1 \in DOMAIN s
        BY <1>4, <1>5, <2>3, <3>1
      <4> QED
        BY <1>9, <3>1, <4>1 DEF Stored, NoResults, s
    <3>2. CASE p # r
      BY <1>5, <1>9, <2>3, <3>2 DEF Stored, NoResults
    <3> QED
      BY <3>1, <3>2
  <2> QED
    BY <2>2, <2>3 DEF Stored, NoResults
<1> QED
  BY <1>6, <1>7, <1>8, <1>9

LEMMA FigureStops ==
    ASSUME TypeOK, ResultInv, FigureInv, NEW r \in Runs, Stops(r),
           NEW d \in Dates, OnlyRuns(d)', d \notin cut', Readable(d)'
    PROVE  Written(d)' \/ Resulting(d)' \/ Stored(d)'
<1>1. UNCHANGED fileVars /\ crossed' = crossed
  BY EndFrame
<1>2. /\ \A q \in Runs : q # r => at'[q] = at[q] /\ results'[q] = results[q]
      /\ results'[r] = <<>> /\ cut \subseteq cut'
      /\ \/ \A f \in Imported : at[r][f] # "none" => DateOf[f] \in cut'
         \/ Busy(r) = {} /\ results[r] = <<>>
  BY DEF Stops, EndRun, BreakOff, KillRun, RunEnds, CutShort, Listed, Done, TypeOK
<1>3. OnlyRuns(d) /\ d \notin cut /\ Readable(d)
  BY <1>1, <1>2 DEF OnlyRuns, Readable, Exists, fileVars
<1>4. Written(d) \/ Resulting(d) \/ Stored(d)
  BY <1>3 DEF FigureInv, Written, Resulting, Stored
<1>5. CASE Written(d)
  <2>1. PICK q \in Runs : holds[d] \in Imported /\ DateOf[holds[d]] = d /\ at[q][holds[d]] = "written"
    BY <1>5 DEF Written
  <2>2. q # r
    BY <1>2, <2>1 DEF Busy, Active
  <2> QED
    BY <1>1, <1>2, <2>1, <2>2 DEF Written, fileVars
<1>6. CASE Resulting(d)
  <2>1. PICK q \in Runs : LastResult(q, holds[d], d) /\ DateOf[holds[d]] = d
    BY <1>6 DEF Resulting
  <2>2. q # r
    <3>1. PICK i \in DOMAIN results[q] : results[q][i] = holds[d]
      BY <2>1 DEF LastResult
    <3>2. results[q] \in Seq(Imported) /\ results[q] # <<>>
      BY <3>1 DEF TypeOK
    <3>3. results[q][i] \in Imported
      BY <3>1, <3>2, ElementOfSeq, LenProperties
    <3>4. at[q][results[q][i]] = "imported"
      BY <3>1 DEF ResultInv
    <3> QED
      BY <1>2, <2>1, <3>1, <3>2, <3>3, <3>4
  <2>3. LastResult(q, holds[d], d)'
    BY <1>1, <1>2, <2>1, <2>2 DEF LastResult, fileVars
  <2> QED
    BY <1>1, <2>1, <2>3 DEF Resulting, fileVars
<1>7. CASE Stored(d)
  <2>1. ASSUME NEW p \in Runs, NEW j \in DOMAIN results'[p]
        PROVE  DateOf[results'[p][j]] # d
    BY <1>2, <1>7, <2>1 DEF Stored, NoResults
  <2> QED
    BY <1>1, <1>7, <2>1 DEF Stored, NoResults, fileVars
<1> QED
  BY <1>4, <1>5, <1>6, <1>7

\* A step with a file of another date.
LEMMA FigureOtherDate ==
    ASSUME TypeOK, FigureInv, NEW r \in Runs, NEW g \in Imported, FileStep(r, g),
           NEW d \in Dates, DateOf[g] # d, OnlyRuns(d), d \notin cut, Readable(d)'
    PROVE  Written(d)' \/ Resulting(d)' \/ Stored(d)'
<1>1. holds'[d] = holds[d] /\ writer'[d] = writer[d]
  BY OtherDates
<1>2. Written(d) \/ Resulting(d) \/ Stored(d)
  BY <1>1 DEF FigureInv, Readable, Exists, Written, Resulting, Stored
<1>3. figure'[d] = figure[d]
  BY DEF FileStep, Skip, Begin, ReadFails, BeginCopy, FinishCopy, FailCopy, FinishRaw,
         FinishLegacy, fileVars, TypeOK
<1>4. ASSUME NEW q \in Runs
      PROVE  /\ DOMAIN results[q] \subseteq DOMAIN results'[q]
             /\ \A i \in DOMAIN results[q] : results'[q][i] = results[q][i]
             /\ \A i \in DOMAIN results'[q] : i \in DOMAIN results[q] \/ results'[q][i] = g
  <2>1. results'[q] = results[q] \/ results'[q] = Append(results[q], g)
    BY DEF FileStep, Skip, Begin, ReadFails, BeginCopy, FinishCopy, FailCopy, FinishRaw,
           FinishLegacy, TypeOK
  <2>2. results[q] \in Seq(Imported)
    BY DEF TypeOK
  <2> QED
    BY <2>1, <2>2, AppendProperties, LenProperties
<1>5. CASE Written(d)
  <2>1. PICK q \in Runs : holds[d] \in Imported /\ DateOf[holds[d]] = d /\ at[q][holds[d]] = "written"
    BY <1>5 DEF Written
  <2>2. at'[q][holds[d]] = at[q][holds[d]]
    BY <2>1, FileFrame
  <2> QED
    BY <1>1, <2>1, <2>2 DEF Written
<1>6. CASE Resulting(d)
  <2>1. PICK q \in Runs : LastResult(q, holds[d], d) /\ DateOf[holds[d]] = d
    BY <1>6 DEF Resulting
  <2>2. LastResult(q, holds[d], d)'
    BY <1>1, <1>4, <2>1 DEF LastResult
  <2> QED
    BY <1>1, <2>1, <2>2 DEF Resulting
<1>7. CASE Stored(d)
  BY <1>1, <1>3, <1>4, <1>7 DEF Stored, NoResults
<1> QED
  BY <1>2, <1>5, <1>6, <1>7

LEMMA FigureSameDate ==
    ASSUME TypeOK, ResultInv, OneRunInv, CopyInv, FigureInv,
           NEW r \in Runs, NEW g \in Imported, FileStep(r, g),
           NEW d \in Dates, DateOf[g] = d, OnlyRuns(d), d \notin cut, Readable(d)'
    PROVE  Written(d)' \/ Resulting(d)' \/ Stored(d)'
<1> USE Names
<1>1. ASSUME at[r][g] # "written", holds'[d] = holds[d], writer'[d] = writer[d], figure' = figure,
             results' = results
      PROVE  Written(d)' \/ Resulting(d)' \/ Stored(d)'
  <2>1. Written(d) \/ Resulting(d) \/ Stored(d)
    BY <1>1 DEF FigureInv, Readable, Exists, Written, Resulting, Stored
  <2>2. CASE Written(d)
    <3>1. PICK q \in Runs : holds[d] \in Imported /\ DateOf[holds[d]] = d /\ at[q][holds[d]] = "written"
      BY <2>2 DEF Written
    <3>2. q # r \/ holds[d] # g
      BY <1>1, <3>1
    <3>3. at'[q][holds[d]] = at[q][holds[d]]
      BY <3>1, <3>2, FileFrame
    <3> QED
      BY <1>1, <3>1, <3>3 DEF Written
  <2>3. CASE Resulting(d)
    BY <1>1, <2>3 DEF Resulting, LastResult
  <2>4. CASE Stored(d)
    BY <1>1, <2>4 DEF Stored, NoResults
  <2> QED
    BY <2>1, <2>2, <2>3, <2>4
<1>2. CASE Skip(r, g) \/ Begin(r, g) \/ ReadFails(r, g)
  BY <1>1, <1>2 DEF Skip, Begin, TakesUp, ReadFails, fileVars
<1>3. CASE BeginCopy(r, g)
  <2>1. CASE Exists(d)
    BY <1>1, <1>3, <2>1 DEF BeginCopy
  <2>2. CASE ~Exists(d)
    <3>1. writer'[d] = r
      BY <1>3, <2>2 DEF BeginCopy, TypeOK
    <3> QED
      BY <3>1 DEF Readable
  <2> QED
    BY <2>1, <2>2
<1>4. CASE FinishCopy(r, g)
  <2>1. at'[r][g] = "written"
    BY <1>4, GoesTo DEF FinishCopy
  <2>2. CASE at[r][g] = "aside" \/ OwnCopy(r, g)
    <3>1. holds'[d] = g
      BY <1>4, <2>2 DEF FinishCopy, Put, TypeOK
    <3> QED
      BY <2>1, <3>1 DEF Written
  <2>3. CASE ~(at[r][g] = "aside" \/ OwnCopy(r, g))
    <3>1. at[r][g] = "inplace" /\ holds' = holds
      BY <1>4, <2>3 DEF FinishCopy
    <3>2. Exists(d)
      BY <3>1 DEF Readable, Exists
    <3> QED
      BY <2>3, <3>1, <3>2 DEF CopyInv, Active
  <2> QED
    BY <2>2, <2>3
<1>5. CASE FailCopy(r, g)
  <2>1. holds'[d] = NoFile
    BY <1>5 DEF FailCopy, RollBack, Remove, TypeOK
  <2> QED
    BY <2>1 DEF Readable, Exists
<1>6. CASE FinishRaw(r, g)
  <2>1. holds' = holds /\ at[r][g] = "written"
    BY <1>6 DEF FinishRaw
  <2>2. Exists(d) /\ holds[d] = g
    BY <2>1 DEF Readable, Exists, CopyInv, Active
  <2>3. results'[r] = Append(results[r], g)
    BY <1>6, <2>2 DEF FinishRaw, TypeOK
  <2>4. results[r] \in Seq(Imported)
    BY DEF TypeOK
  <2> DEFINE n == Len(results[r]) + 1
  <2>5. n \in DOMAIN results'[r] /\ results'[r][n] = g /\ \A j \in DOMAIN results'[r] : ~(j > n)
    BY <2>3, <2>4, AppendProperties, LenProperties
  <2> HIDE DEF n
  <2>6. LastResult(r, holds[d], d)'
    BY <2>1, <2>2, <2>5 DEF LastResult
  <2> QED
    BY <2>1, <2>2, <2>6 DEF Resulting
<1>7. CASE FinishLegacy(r, g)
  <2>1. holds' = holds /\ at[r][g] = "written" /\ results' = results /\ legacy[r]
    BY <1>7 DEF FinishLegacy
  <2>2. Exists(d) /\ holds[d] = g
    BY <2>1 DEF Readable, Exists, CopyInv, Active
  <2>3. figure'[d] = g
    BY <1>7, <2>2 DEF FinishLegacy, TypeOK
  <2>4. ASSUME NEW q \in Runs, NEW j \in DOMAIN results[q], DateOf[results[q][j]] = d
        PROVE  FALSE
    <3>1. results[q][j] \in Imported
      BY ElementOfSeq, LenProperties DEF TypeOK
    <3>2. at[q][results[q][j]] = "imported" /\ ~legacy[q]
      BY DEF ResultInv
    <3>3. q = r
      BY <2>1, <2>4, <3>1, <3>2 DEF OneRunInv, OnlyRuns, Active, Taken
    <3> QED
      BY <2>1, <3>2, <3>3
  <2>5. NoResults(d)'
    BY <2>1, <2>4 DEF NoResults
  <2> QED
    BY <2>1, <2>2, <2>3, <2>5 DEF Stored
<1> QED
  BY <1>2, <1>3, <1>4, <1>5, <1>6, <1>7 DEF FileStep

LEMMA FigureStep ==
    ASSUME TypeOK, ListInv, HotInv, UsedInv, ResultInv, OneRunInv, CopyInv, FigureInv,
           [ImportNext]_importVars
    PROVE  FigureInv'
<1> SUFFICES ASSUME NEW d \in Dates, OnlyRuns(d)', d \notin cut', Readable(d)'
             PROVE  Written(d)' \/ Resulting(d)' \/ Stored(d)'
  BY DEF FigureInv, Written, Resulting, Stored
<1>1. OnlyRuns(d) /\ d \notin cut
  BY OnlyRunsBefore, HistoryGrows
<1>2. CASE UNCHANGED importVars
  <2>1. Written(d) \/ Resulting(d) \/ Stored(d)
    BY <1>1, <1>2 DEF FigureInv, Readable, Exists, Written, Resulting, Stored, importVars, fileVars
  <2> QED
    BY <1>2, <2>1 DEF importVars, fileVars, runVars, Written, Resulting, LastResult, Stored, NoResults
<1>3. CASE OthersStep
  BY <1>3, FigureOthers
<1>4. ASSUME NEW r \in Runs, StartRun(r)
      PROVE  Written(d)' \/ Resulting(d)' \/ Stored(d)'
  <2>1. UNCHANGED <<fileVars, results>> /\ phase[r] = "new" /\ \A q \in Runs : q # r => at'[q] = at[q]
    BY <1>4, StartFrame DEF StartRun
  <2>2. Written(d) \/ Resulting(d) \/ Stored(d)
    BY <1>1, <2>1 DEF FigureInv, Readable, Exists, Written, Resulting, Stored, fileVars
  <2>3. CASE Written(d)
    <3>1. PICK q \in Runs : holds[d] \in Imported /\ DateOf[holds[d]] = d /\ at[q][holds[d]] = "written"
      BY <2>3 DEF Written
    <3>2. q # r
      BY <2>1, <3>1 DEF ListInv
    <3> QED
      BY <2>1, <3>1, <3>2 DEF Written, fileVars
  <2>4. CASE Resulting(d)
    BY <2>1, <2>4 DEF Resulting, LastResult, fileVars
  <2>5. CASE Stored(d)
    BY <2>1, <2>5 DEF Stored, NoResults, fileVars
  <2> QED
    BY <2>2, <2>3, <2>4, <2>5
<1>5. ASSUME NEW r \in Runs, StoreFigure(r)
      PROVE  Written(d)' \/ Resulting(d)' \/ Stored(d)'
  BY <1>5, FigureStored
<1>6. ASSUME NEW r \in Runs, Stops(r)
      PROVE  Written(d)' \/ Resulting(d)' \/ Stored(d)'
  BY <1>6, FigureStops
<1>7. ASSUME NEW r \in Runs, NEW g \in Imported, FileStep(r, g)
      PROVE  Written(d)' \/ Resulting(d)' \/ Stored(d)'
  BY <1>1, <1>7, FigureOtherDate, FigureSameDate
<1>8. CASE \E r \in Runs : RunStep(r)
  BY <1>4, <1>5, <1>6, <1>8, RunStepCases
<1>9. CASE \E r \in Runs, g \in Imported : FileStep(r, g)
  BY <1>7, <1>9
<1> QED
  BY <1>2, <1>3, <1>8, <1>9, StepCases

-----------------------------------------------------------------------------
(* The theorems about Imports *)

LEMMA ImportsInit == Init => ImportsIInv
<1> SUFFICES ASSUME Init PROVE ImportsIInv
  OBVIOUS
<1>1. /\ \A r \in Runs, f \in Imported : at[r][f] = "none"
      /\ \A d \in Dates : hot[d] = NoFile /\ holds[d] = NoFile /\ writer[d] = NoRun /\ sidecar[d] = NoFile
      /\ jobAt = "off"
  BY DEF Init
<1>2. ListInv /\ HotInv /\ TornInv /\ JobInv
  BY <1>1 DEF ListInv, HotInv, TornInv, JobInv
<1>3. SoloInv /\ SparingInv /\ WriterInv
  BY <1>1, Names DEF SoloInv, SparingInv, WriterInv, Active
<1>4. SidecarInv
  BY <1>1 DEF SidecarInv
<1>5. UsedInv /\ ResultInv /\ OneRunInv /\ CopyInv /\ FigureInv
  <2>1. \A r \in Runs : results[r] = <<>>
    BY DEF Init
  <2> QED
    BY <1>1, <2>1, Names
       DEF UsedInv, ResultInv, OneRunInv, CopyInv, FigureInv, Active, Readable, Exists, Taken
<1> QED
  BY <1>2, <1>3, <1>4, <1>5, TypeInit DEF ImportsIInv

LEMMA ImportsStep == ImportsIInv /\ [ImportNext]_importVars => ImportsIInv'
<1> SUFFICES ASSUME ImportsIInv, [ImportNext]_importVars PROVE ImportsIInv'
  OBVIOUS
<1> USE DEF ImportsIInv
<1>0. UsedInv' /\ ResultInv' /\ OneRunInv' /\ CopyInv' /\ FigureInv'
  BY UsedStep, ResultStep, OneRunStep, CopyStep, FigureStep
<1>1. CASE UNCHANGED importVars
  <2>1. SidecarInv'
    BY <1>1 DEF importVars, fileVars, runVars, jobVars, historyVars, SidecarInv, Clean, Readable,
                Exists, Quiet, JobOn, Busy
  <2> QED
    BY <1>0, <2>1, TypeStep, ListStep, HotStep, TornStep, SoloStep, SparingStep, WriterStep, JobStep
<1>2. CASE OthersStep \/ \E r \in Runs : RunStep(r) \/ \E f \in Imported : FileStep(r, f)
  <2>1. SidecarInv'
    BY <1>2, SidecarOthers, SidecarRunStep, SidecarFileStep
  <2> QED
    BY <1>0, <2>1, TypeStep, ListStep, HotStep, TornStep, SoloStep, SparingStep, WriterStep, JobStep
<1> QED
  BY <1>1, <1>2, StepCases

\* The inductive invariant of the import tools, for every number of dates, files, runs, workers
\* and kills.
THEOREM ImportsInvariant == ImportSpec => []ImportsIInv
<1> QED
  BY ImportsInit, ImportsStep, PTL DEF ImportSpec

\* When no run is at work on a date, its figure is that of the Parquet file that lies there,
\* unless two writers met, a run was cut short, or the processor stored records of its own.
THEOREM FiguresAgree == ImportSpec => []FigureAgrees
<1>1. ASSUME ImportsIInv PROVE FigureAgrees
  <2> SUFFICES ASSUME NEW d \in Dates, Readable(d), ~Rivals(NoRun, d), OnlyRuns(d), d \notin cut
               PROVE  figure[d] = holds[d]
    BY DEF FigureAgrees, OnlyRuns
  <2>1. \A r \in Runs, f \in Imported : at[r][f] # "none" => DateOf[f] # d
    BY <1>1, Names DEF ImportsIInv, ListInv, Rivals, Listed
  <2>2. ~Written(d)
    BY <2>1 DEF Written
  <2>3. ~Resulting(d)
    <3> SUFFICES ASSUME NEW r \in Runs, NEW i \in DOMAIN results[r], DateOf[results[r][i]] = d
                 PROVE  FALSE
      BY DEF Resulting, LastResult
    <3>1. results[r][i] \in Imported
      BY <1>1, ElementOfSeq, LenProperties DEF ImportsIInv, TypeOK
    <3>2. at[r][results[r][i]] = "imported"
      BY <1>1 DEF ImportsIInv, ResultInv
    <3> QED
      BY <2>1, <3>1, <3>2
  <2> QED
    BY <1>1, <2>2, <2>3 DEF ImportsIInv, FigureInv, Written, Resulting, Stored
<1> QED
  BY <1>1, ImportsInvariant, PTL

\* A torn Parquet file is one that is being written, or that a kill has left.
THEOREM TornIsExplained == ImportSpec => []TornExplained
<1>1. ImportsIInv => TornExplained
  BY DEF ImportsIInv, TornInv, TornExplained
<1> QED
  BY <1>1, ImportsInvariant, PTL

\* Names beside a Parquet file are its own or missing, where one writer at a time works
\* and none overwrites.
THEOREM NamesAreOwn == ImportSpec => []NamesOwn
<1>1. ImportsIInv => NamesOwn
  BY DEF ImportsIInv, SidecarInv, NamesOwn, Clean
<1> QED
  BY <1>1, ImportsInvariant, PTL

\* A Parquet file that can be read stays so, unless retention removes it, or a failed copy
\* of --overwrite or of a rival does.
THEOREM ReadableIsKept == ImportSpec => ReadableKept
<1> DEFINE Kept ==
      \A d \in Dates : Readable(d) /\ ~Readable(d)'
        => \/ Expire(d)
           \/ \E r \in Runs, f \in Imported :
                 FailCopy(r, f) /\ DateOf[f] = d /\ (over[r] \/ d \in crossed)
<1>1. ASSUME ImportsIInv, [ImportNext]_importVars PROVE [Kept]_importVars
  <2> SUFFICES ASSUME NEW d \in Dates, Readable(d), ~Readable(d)', ~Expire(d)
               PROVE  \E r \in Runs, f \in Imported :
                         FailCopy(r, f) /\ DateOf[f] = d /\ (over[r] \/ d \in crossed)
    OBVIOUS
  <2> USE Names
  <2>0. TypeOK /\ Exists(d) /\ writer[d] = NoRun
    BY <1>1 DEF ImportsIInv, Readable
  <2>1. ~(holds'[d] = holds[d] /\ writer'[d] = writer[d])
    BY DEF Readable, Exists
  <2>2. ~(holds' = holds /\ writer' = writer)
    BY <2>1
  <2>3. ASSUME NEW e \in Dates, NEW g \in Sources, Put(e, g) PROVE Readable(d)'
    BY <2>0, <2>3 DEF Put, Readable, Exists, TypeOK
  <2>4. ~OthersStep
    <3>1. ASSUME NEW e \in Dates, Expire(e) PROVE FALSE
      BY <2>0, <2>1, <3>1 DEF Expire, Remove, TypeOK
    <3>2. ~ArchiveReplace
      BY <1>1, <2>3 DEF ArchiveReplace, ImportsIInv, HotInv
    <3> QED
      BY <2>2, <3>1, <3>2 DEF OthersStep, StoreRows, ArchiveSkip, ArchiveCopy, ArchiveSidecar,
            ArchiveUnlink, ArchiveKilled, CountDays, fileVars
  <2>5. ~UNCHANGED importVars /\ \A r \in Runs : ~RunStep(r)
    BY <2>0, <2>2, RunStepCases, StartFrame, FigureFrame, EndFrame DEF importVars, fileVars
  <2>6. PICK r \in Runs, f \in Imported : FileStep(r, f)
    BY <1>1, <2>4, <2>5, StepCases
  <2>7. DateOf[f] = d
    BY <2>0, <2>1, <2>6, OtherDates
  <2>8. ~Leaves(r, f) /\ ~Begin(r, f) /\ ~FinishRaw(r, f)
    BY <2>0, <2>2, LeavesFrame DEF Begin, FinishRaw, fileVars
  <2>9. ~BeginCopy(r, f)
    BY <2>0, <2>2, <2>7 DEF BeginCopy
  <2>10. ~FinishCopy(r, f)
    BY <2>2, <2>3 DEF FinishCopy
  <2>11. FailCopy(r, f)
    BY <2>6, <2>8, <2>9, <2>10, FileStepCases
  <2>12. over[r] \/ d \in crossed
    <3>1. at[r][f] \in {"reading", "inplace", "aside"}
      BY <2>11 DEF FailCopy
    <3> QED
      BY <1>1, <2>0, <2>7, <3>1 DEF ImportsIInv, SparingInv, Active, OwnCopy
  <2> QED
    BY <2>7, <2>11, <2>12
<1>2. ImportsIInv /\ [ImportNext]_importVars => [Kept]_importVars
  BY <1>1
<1> QED
  BY <1>2, ImportsInvariant, PTL DEF ImportSpec, ReadableKept


-----------------------------------------------------------------------------
(* Search *)

\* The rows of a file that meet a request's conditions are finitely many.
LEMMA MatchingFinite ==
    ASSUME NEW q \in Requests, NEW f \in Sources
    PROVE  Matching(q, f) \subseteq Ids /\ Cardinality(Matching(q, f)) \in Nat
<1>1. Len(Protocols[f]) \in Nat /\ DOMAIN Protocols[f] = 1 .. Len(Protocols[f])
  BY SearchAssumption
<1>2. IsFiniteSet(DOMAIN Protocols[f]) /\ DOMAIN Protocols[f] \subseteq Ids
  <2>1. IsFiniteSet(1 .. Len(Protocols[f]))
    BY <1>1, 1 \in Int, FS_Interval
  <2> QED
    BY <1>1, <2>1 DEF Ids
<1>3. Matching(q, f) \subseteq DOMAIN Protocols[f]
  BY DEF Matching
<1>4. IsFiniteSet(Matching(q, f))
  BY <1>2, <1>3, FS_Subset
<1> QED
  BY <1>2, <1>3, <1>4, FS_CardinalityType

\* On a clean date no step takes a Parquet file away, or changes what it holds.
LEMMA CleanStays ==
    ASSUME ImportsIInv, [ImportNext]_importVars, NEW d \in Dates, Clean(d)', Readable(d)
    PROVE  Clean(d) /\ Readable(d)' /\ holds'[d] = holds[d]
<1> USE Names
<1>0. TypeOK /\ Exists(d) /\ writer[d] = NoRun
  BY DEF ImportsIInv, Readable
<1>1. ASSUME holds'[d] = holds[d], writer'[d] = writer[d]
      PROVE  Readable(d)' /\ holds'[d] = holds[d]
  BY <1>0, <1>1 DEF Readable, Exists
<1>2. CASE UNCHANGED importVars
  BY <1>1, <1>2 DEF importVars, fileVars, historyVars, Clean
<1>3. CASE OthersStep
  <2>1. Clean(d)
    BY <1>3, OthersFrame DEF Clean
  <2>2. ASSUME NEW e \in Dates, Expire(e) PROVE holds'[d] = holds[d] /\ writer'[d] = writer[d]
    <3>1. e # d
      BY <2>2 DEF Expire, Clean
    <3> QED
      BY <1>0, <2>2, <3>1 DEF Expire, Remove, TypeOK
  <2>3. ASSUME ArchiveReplace PROVE holds'[d] = holds[d] /\ writer'[d] = writer[d]
    <3>1. jobFile \in HotFiles /\ jobAt = "copied"
      BY <2>3 DEF ImportsIInv, HotInv, ArchiveReplace
    <3>2. DateOf[jobFile] # d
      BY <1>0, <2>1, <3>1 DEF ImportsIInv, JobInv
    <3> QED
      BY <1>0, <2>3, <3>1, <3>2 DEF ArchiveReplace, Put, TypeOK
  <2>4. ~(\E e \in Dates : Expire(e)) /\ ~ArchiveReplace => holds' = holds /\ writer' = writer
    BY <1>3 DEF OthersStep, StoreRows, ArchiveSkip, ArchiveCopy, ArchiveSidecar,
          ArchiveUnlink, ArchiveKilled, CountDays, fileVars
  <2> QED
    BY <1>1, <2>1, <2>2, <2>3, <2>4
<1>4. ASSUME NEW r \in Runs, RunStep(r)
      PROVE  Clean(d) /\ Readable(d)' /\ holds'[d] = holds[d]
  BY <1>0, <1>1, <1>4, RunStepCases, StartFrame, FigureFrame, EndFrame DEF fileVars, historyVars, Clean
<1>5. ASSUME NEW r \in Runs, NEW f \in Imported, FileStep(r, f)
      PROVE  Clean(d) /\ Readable(d)' /\ holds'[d] = holds[d]
  <2>1. Clean(d)
    BY <1>0, <1>5, OtherDates DEF Clean
  <2>2. CASE DateOf[f] # d
    BY <1>0, <1>1, <1>5, <2>1, <2>2, OtherDates
  <2>3. CASE Leaves(r, f) \/ Begin(r, f) \/ FinishRaw(r, f)
    BY <1>0, <1>1, <2>1, <2>3, LeavesFrame DEF Begin, FinishRaw, fileVars
  <2>4. CASE DateOf[f] = d /\ (BeginCopy(r, f) \/ FinishCopy(r, f) \/ FailCopy(r, f))
    <3>1. at[r][f] \in {"reading", "inplace", "aside"}
      BY <2>4 DEF BeginCopy, FinishCopy, FailCopy
    <3> QED
      BY <1>0, <2>1, <2>4, <3>1 DEF ImportsIInv, WriterInv, OwnCopy, Active
  <2> QED
    BY <1>5, <2>2, <2>3, <2>4, FileStepCases
<1> QED
  BY <1>2, <1>3, <1>4, <1>5, StepCases

LEMMA SearchInitial == SearchInit => SearchIInv
<1> SUFFICES ASSUME SearchInit PROVE SearchIInv
  OBVIOUS
<1>1. \A q \in Requests : step[q] = "idle"
  BY DEF SearchInit
<1>2. SearchTypeOK
  BY SearchAssumption DEF SearchInit, SearchTypeOK, NoRows
<1>3. OpenInv /\ CountInv /\ RowsInv /\ NamesInv
  BY <1>1 DEF OpenInv, CountInv, RowsInv, NamesInv
<1> QED
  BY <1>2, <1>3, ImportsInit DEF SearchIInv, SearchInit

\* What a request knows of its day stays true while others work on the files.
LEMMA SearchWhileImports ==
    ASSUME SearchIInv, [ImportNext]_importVars, UNCHANGED searchVars
    PROVE  SearchIInv'
<1> USE DEF SearchIInv, searchVars, requestVars
<1>1. ImportsIInv'
  BY ImportsStep
<1>2. SearchTypeOK' /\ OpenInv'
  BY DEF SearchTypeOK, OpenInv
<1>3. ASSUME NEW q \in Requests, NEW f PROVE Matching(q, f)' = Matching(q, f)
  BY DEF Matching, FilterIds
<1>4. \A q \in Requests : asked[q] \in Dates
  BY DEF SearchTypeOK
<1>5. ASSUME NEW q \in Requests, Undisturbed(q)', Readable(asked[q])
      PROVE  Undisturbed(q) /\ Readable(asked[q])' /\ holds'[asked[q]] = holds[asked[q]]
  BY <1>4, <1>5, CleanStays DEF Undisturbed, Clean
<1>6. \A q \in Requests : Undisturbed(q)' => Undisturbed(q)
  <2>1. crossed \subseteq crossed' /\ redone \subseteq redone'
    <3>1. CASE UNCHANGED importVars
      BY <3>1 DEF importVars, historyVars
    <3>2. CASE OthersStep
      BY <3>2, OthersFrame
    <3>3. ASSUME NEW r \in Runs, RunStep(r) PROVE historyVars' = historyVars \/ UNCHANGED <<crossed, redone>>
      BY <3>3, RunStepCases, StartFrame, FigureFrame, EndFrame DEF ImportsIInv
    <3>4. ASSUME NEW r \in Runs, NEW f \in Imported, FileStep(r, f)
          PROVE  crossed \subseteq crossed' /\ redone \subseteq redone'
      BY <3>4, OtherDates DEF ImportsIInv
    <3> QED
      BY <3>1, <3>2, <3>3, <3>4, StepCases DEF historyVars
  <2> QED
    BY <2>1 DEF Undisturbed
<1>7. CountInv'
  <2> SUFFICES ASSUME NEW q \in Requests, step[q] = "counted", place[q] = "hot" \/ Undisturbed(q)'
               PROVE  CanRead(q)' /\ total[q] = Cardinality(Matching(q, Source(q)'))
    BY <1>3 DEF CountInv
  <2>1. CanRead(q) /\ total[q] = Cardinality(Matching(q, Source(q)))
    BY <1>6 DEF CountInv
  <2>2. CASE place[q] = "hot"
    BY <2>1, <2>2 DEF CanRead, Source
  <2>3. CASE place[q] # "hot"
    BY <1>5, <2>1, <2>3 DEF CanRead, Source
  <2> QED
    BY <2>2, <2>3
<1>8. RowsInv'
  <2> SUFFICES ASSUME NEW q \in Requests, step[q] \in {"read", "answered"}
               PROVE  /\ rows[q].from \in Sources
                      /\ rows[q].ids = Matching(q, rows[q].from)
                      /\ place[q] = "hot" => rows[q].from = open[q]
                      /\ place[q] = "hot" \/ Undisturbed(q)' => total[q] = Cardinality(rows[q].ids)
                      /\ step[q] = "read" /\ place[q] = "cold" /\ Undisturbed(q)' =>
                            Readable(asked[q])' /\ holds'[asked[q]] = rows[q].from
    BY <1>3 DEF RowsInv
  <2> QED
    BY <1>5, <1>6 DEF RowsInv
<1>9. NamesInv'
  BY <1>6 DEF NamesInv
<1> QED
  BY <1>1, <1>2, <1>7, <1>8, <1>9


\* Requests do not see each other: a step of one changes its own record alone.
LEMMA RequestFrame ==
    ASSUME SearchTypeOK, NEW p \in Requests, RequestStep(p)
    PROVE  \A q \in Requests \ {p} :
              /\ step'[q] = step[q] /\ asked'[q] = asked[q] /\ wanted'[q] = wanted[q]
              /\ place'[q] = place[q] /\ open'[q] = open[q] /\ total'[q] = total[q]
              /\ rows'[q] = rows[q] /\ names'[q] = names[q]
<1> USE DEF SearchTypeOK
<1> SUFFICES ASSUME NEW q \in Requests, q # p
             PROVE  /\ step'[q] = step[q] /\ asked'[q] = asked[q] /\ wanted'[q] = wanted[q]
                    /\ place'[q] = place[q] /\ open'[q] = open[q] /\ total'[q] = total[q]
                    /\ rows'[q] = rows[q] /\ names'[q] = names[q]
  OBVIOUS
<1>1. CASE \E d \in Dates, w \in {"TCP", "UDP", NoName} : Locate(p, d, w)
  BY <1>1 DEF Locate
<1>2. CASE OpenHot(p) \/ OpenCold(p)
  BY <1>2 DEF OpenHot, OpenCold
<1>3. CASE Fail(p) \/ Close(p)
  BY <1>3 DEF Fail, Close, Ends
<1>4. CASE Count(p)
  BY <1>4 DEF Count
<1>5. CASE ReadRows(p)
  BY <1>5 DEF ReadRows
<1>6. CASE ReadNames(p)
  BY <1>6 DEF ReadNames
<1> QED
  BY <1>1, <1>2, <1>3, <1>4, <1>5, <1>6 DEF RequestStep

LEMMA RequestLeavesFiles ==
    ASSUME NEW p \in Requests, RequestStep(p)
    PROVE  UNCHANGED importVars
BY DEF RequestStep, Locate, OpenHot, OpenCold, Fail, Count, ReadRows, ReadNames, Close

LEMMA RequestType ==
    ASSUME TypeOK, SearchTypeOK, OpenInv, NEW p \in Requests, RequestStep(p)
    PROVE  SearchTypeOK'
<1> USE Names DEF SearchTypeOK
<1>1. ASSUME NEW d \in Dates, NEW w \in {"TCP", "UDP", NoName}, Locate(p, d, w)
      PROVE  SearchTypeOK'
  BY <1>1 DEF Locate
<1>2. CASE OpenHot(p)
  <2>1. hot[asked[p]] \in HotFiles \cup {NoFile}
    BY DEF TypeOK
  <2> QED
    BY <1>2, <2>1 DEF OpenHot
<1>3. CASE OpenCold(p)
  BY <1>3 DEF OpenCold
<1>5. CASE Fail(p) \/ Close(p)
  <2>1. Ends(p) /\ requests' = requests
    BY <1>5 DEF Fail, Close
  <2>2. NoRows \in [from : Sources \cup {NoFile}, ids : SUBSET Ids] /\ 1 \in Dates
    BY SearchAssumption DEF NoRows
  <2> QED
    BY <2>1, <2>2 DEF Ends
<1>6. ASSUME step[p] \in {"open", "counted"}, CanRead(p) PROVE Source(p) \in Sources
  <2>1. CASE place[p] = "hot"
    BY <1>6, <2>1 DEF Source, OpenInv
  <2>2. CASE place[p] # "hot"
    BY <1>6, <2>2 DEF Source, CanRead, Readable, Exists, TypeOK
  <2> QED
    BY <2>1, <2>2
<1>7. CASE Count(p)
  <2>1. CountOf(p) \in Nat
    BY <1>6, <1>7, MatchingFinite DEF Count, CountOf
  <2> QED
    BY <1>7, <2>1 DEF Count
<1>8. CASE ReadRows(p)
  <2>1. Source(p) \in Sources /\ Matching(p, Source(p)) \subseteq Ids
    BY <1>6, <1>8, MatchingFinite DEF ReadRows
  <2>2. [from |-> Source(p), ids |-> Matching(p, Source(p))]
          \in [from : Sources \cup {NoFile}, ids : SUBSET Ids]
    BY <2>1
  <2> QED
    BY <1>8, <2>2 DEF ReadRows
<1>9. CASE ReadNames(p)
  <2>1. NamesFile(p) \in Sources \cup {NoFile}
    BY DEF NamesFile, TypeOK
  <2> QED
    BY <1>9, <2>1 DEF ReadNames
<1> QED
  BY <1>1, <1>2, <1>3, <1>5, <1>7, <1>8, <1>9 DEF RequestStep

\* The parts of the invariant for one request.
RequestInv(q) ==
    /\ step[q] \in {"open", "counted", "read", "answered"} /\ place[q] = "hot" => open[q] \in HotFiles
    /\ step[q] = "counted" /\ (place[q] = "hot" \/ Undisturbed(q)) =>
          CanRead(q) /\ total[q] = Cardinality(Matching(q, Source(q)))
    /\ step[q] \in {"read", "answered"} =>
          /\ rows[q].from \in Sources
          /\ rows[q].ids = Matching(q, rows[q].from)
          /\ place[q] = "hot" => rows[q].from = open[q]
          /\ place[q] = "hot" \/ Undisturbed(q) => total[q] = Cardinality(rows[q].ids)
          /\ step[q] = "read" /\ place[q] = "cold" /\ Undisturbed(q) =>
                Readable(asked[q]) /\ holds[asked[q]] = rows[q].from
    /\ step[q] = "answered" /\ (place[q] = "hot" \/ Undisturbed(q)) =>
          names[q] \in {NoFile, rows[q].from}

LEMMA RequestParts ==
    (OpenInv /\ CountInv /\ RowsInv /\ NamesInv) <=> \A q \in Requests : RequestInv(q)
BY DEF OpenInv, CountInv, RowsInv, NamesInv, RequestInv

\* A request's own step.
LEMMA OwnStep ==
    ASSUME ImportsIInv, SearchTypeOK, NEW q \in Requests, RequestInv(q), RequestStep(q)
    PROVE  RequestInv(q)'
<1> USE Names
<1>0. /\ TypeOK /\ asked[q] \in Dates /\ place[q] \in {"hot", "cold"}
      /\ hot' = hot /\ holds' = holds /\ writer' = writer /\ sidecar' = sidecar
      /\ crossed' = crossed /\ redone' = redone
  BY RequestLeavesFiles DEF ImportsIInv, SearchTypeOK, importVars, fileVars, historyVars
<1>1. CASE \E d \in Dates, w \in {"TCP", "UDP", NoName} : Locate(q, d, w)
  <2>1. step'[q] = "located"
    BY <1>1 DEF Locate, SearchTypeOK
  <2> QED
    BY <2>1 DEF RequestInv
<1>2. CASE OpenHot(q)
  <2>1. step'[q] = "open" /\ open'[q] = hot[asked[q]] /\ hot[asked[q]] # NoFile
    BY <1>2 DEF OpenHot, SearchTypeOK
  <2>2. open'[q] \in HotFiles
    BY <1>0, <2>1 DEF TypeOK
  <2> QED
    BY <2>1, <2>2 DEF RequestInv
<1>3. CASE OpenCold(q)
  <2>1. step'[q] = "open" /\ place'[q] = "cold"
    BY <1>3 DEF OpenCold, SearchTypeOK
  <2> QED
    BY <2>1 DEF RequestInv
<1>4. CASE Fail(q) \/ Close(q)
  <2>1. Ends(q)
    BY <1>4 DEF Fail, Close
  <2>2. step'[q] = "idle"
    BY <2>1 DEF Ends, SearchTypeOK
  <2> QED
    BY <2>2 DEF RequestInv
<1>5. CASE Count(q)
  <2>1. /\ step[q] = "open" /\ step'[q] = "counted" /\ CanRead(q)
        /\ total'[q] = Cardinality(Matching(q, Source(q)))
    BY <1>5 DEF Count, CountOf, SearchTypeOK
  <2>2. wanted' = wanted /\ place' = place /\ open' = open /\ asked' = asked
    BY <1>5 DEF Count
  <2>3. Source(q)' = Source(q)
    BY <1>0, <2>2 DEF Source
  <2>4. CanRead(q)'
    BY <1>0, <2>1, <2>2 DEF CanRead, Readable, Exists
  <2>5. Matching(q, Source(q))' = Matching(q, Source(q))
    BY <2>2, <2>3 DEF Matching, FilterIds
  <2> QED
    BY <2>1, <2>2, <2>4, <2>5 DEF RequestInv
<1>6. CASE ReadRows(q)
  <2>1. /\ step[q] = "counted" /\ step'[q] = "read" /\ CanRead(q)
        /\ rows'[q] = [from |-> Source(q), ids |-> Matching(q, Source(q))]
    BY <1>6 DEF ReadRows, SearchTypeOK
  <2>0. wanted' = wanted /\ place' = place /\ open' = open /\ asked' = asked /\ total' = total
    BY <1>6 DEF ReadRows
  <2>2. rows'[q].from = Source(q) /\ rows'[q].ids = Matching(q, Source(q))
    BY <2>1
  <2>3. Matching(q, rows[q].from)' = Matching(q, Source(q))
    BY <2>0, <2>2 DEF Matching, FilterIds
  <2>4. Source(q) \in Sources
    <3>1. CASE place[q] = "hot"
      BY <2>1, <3>1 DEF Source, RequestInv
    <3>2. CASE place[q] # "hot"
      BY <1>0, <2>1, <3>2 DEF Source, CanRead, Readable, Exists, TypeOK
    <3> QED
      BY <3>1, <3>2
  <2>5. place[q] = "hot" \/ Undisturbed(q) => total[q] = Cardinality(Matching(q, Source(q)))
    BY <2>1 DEF RequestInv
  <2>6. place[q] = "hot" => Source(q) = open[q]
    BY DEF Source
  <2>7. place[q] = "cold" => Readable(asked[q]) /\ holds[asked[q]] = Source(q)
    BY <2>1 DEF CanRead, Source
  <2>8. Undisturbed(q)' <=> Undisturbed(q)
    BY <1>0, <2>0 DEF Undisturbed
  <2>9. Readable(asked[q])' <=> Readable(asked[q])
    BY <1>0, <2>0 DEF Readable, Exists
  <2>10. /\ rows'[q].from \in Sources /\ rows'[q].ids = Matching(q, rows[q].from)'
         /\ place'[q] = "hot" => rows'[q].from = open'[q]
    BY <2>0, <2>2, <2>3, <2>4, <2>6
  <2>11. place'[q] = "hot" \/ Undisturbed(q)' => total'[q] = Cardinality(rows'[q].ids)
    BY <2>0, <2>2, <2>5, <2>8
  <2>12. place'[q] = "cold" => Readable(asked[q])' /\ holds'[asked'[q]] = rows'[q].from
    BY <1>0, <2>0, <2>2, <2>7, <2>9
  <2>13. place'[q] = "hot" => open'[q] \in HotFiles
    BY <2>0, <2>1 DEF RequestInv
  <2> QED
    BY <2>1, <2>10, <2>11, <2>12, <2>13 DEF RequestInv
<1>7. CASE ReadNames(q)
  <2>1. /\ step[q] = "read" /\ step'[q] = "answered" /\ names'[q] = NamesFile(q)
        /\ wanted' = wanted /\ place' = place /\ open' = open /\ asked' = asked /\ total' = total
        /\ rows' = rows
    BY <1>7 DEF ReadNames, SearchTypeOK
  <2>2. Matching(q, rows[q].from)' = Matching(q, rows[q].from)
    BY <2>1 DEF Matching, FilterIds
  <2>3. Undisturbed(q)' <=> Undisturbed(q)
    BY <1>0, <2>1 DEF Undisturbed
  <2>4. place[q] = "hot" \/ Undisturbed(q) => NamesFile(q) \in {NoFile, rows[q].from}
    <3>1. CASE place[q] = "hot"
      BY <2>1, <3>1 DEF NamesFile, RequestInv
    <3>2. CASE place[q] # "hot"
      BY <1>0, <2>1, <3>2 DEF NamesFile, RequestInv, ImportsIInv, SidecarInv, Undisturbed, Clean
    <3> QED
      BY <3>1, <3>2
  <2> QED
    BY <2>1, <2>2, <2>3, <2>4 DEF RequestInv
<1> QED
  BY <1>1, <1>2, <1>3, <1>4, <1>5, <1>6, <1>7 DEF RequestStep

LEMMA SearchStep == SearchIInv /\ [Next]_vars => SearchIInv'
<1> SUFFICES ASSUME SearchIInv, [Next]_vars PROVE SearchIInv'
  OBVIOUS
<1>1. CASE [ImportNext]_importVars /\ UNCHANGED searchVars
  BY <1>1, SearchWhileImports
<1>2. ASSUME NEW p \in Requests, RequestStep(p) PROVE SearchIInv'
  <2>1. ImportsIInv'
    BY <1>2, RequestLeavesFiles, ImportsStep DEF SearchIInv
  <2>2. SearchTypeOK'
    BY <1>2, RequestType DEF SearchIInv, ImportsIInv
  <2>3. RequestInv(p)'
    BY <1>2, OwnStep, RequestParts DEF SearchIInv
  <2>4. ASSUME NEW q \in Requests \ {p} PROVE RequestInv(q)'
    <3>1. /\ step'[q] = step[q] /\ asked'[q] = asked[q] /\ wanted'[q] = wanted[q]
          /\ place'[q] = place[q] /\ open'[q] = open[q] /\ total'[q] = total[q]
          /\ rows'[q] = rows[q] /\ names'[q] = names[q]
      BY <1>2, RequestFrame DEF SearchIInv
    <3>2. /\ holds' = holds /\ writer' = writer /\ crossed' = crossed /\ redone' = redone
      BY <1>2, RequestLeavesFiles DEF importVars, fileVars, historyVars
    <3>3. \A f : Matching(q, f)' = Matching(q, f)
      BY <3>1 DEF Matching, FilterIds
    <3>4. RequestInv(q)
      BY RequestParts DEF SearchIInv
    <3>5. /\ Source(q)' = Source(q) /\ CanRead(q)' = CanRead(q)
          /\ Undisturbed(q)' = Undisturbed(q) /\ Readable(asked[q])' = Readable(asked[q])
      BY <3>1, <3>2 DEF Source, CanRead, Readable, Exists, Undisturbed
    <3>6. Matching(q, Source(q))' = Matching(q, Source(q))
      BY <3>1, <3>5 DEF Matching, FilterIds
    <3>7. Matching(q, rows[q].from)' = Matching(q, rows[q].from)
      BY <3>1 DEF Matching, FilterIds
    <3> QED
      BY <3>1, <3>2, <3>4, <3>5, <3>6, <3>7 DEF RequestInv
  <2>5. (OpenInv /\ CountInv /\ RowsInv /\ NamesInv)'
    <3>1. \A q \in Requests : RequestInv(q)'
      BY <2>3, <2>4
    <3> QED
      BY <3>1 DEF OpenInv, CountInv, RowsInv, NamesInv, RequestInv
  <2> QED
    BY <2>1, <2>2, <2>5 DEF SearchIInv
<1> QED
  BY <1>1, <1>2 DEF Next, vars

\* The inductive invariant of a search among the files of the import tools and the archive
\* job, for every number of requests.
THEOREM SearchInvariant == Spec => []SearchIInv
<1> QED
  BY SearchInitial, SearchStep, PTL DEF Spec

\* The names of an answer are those of the file its rows come from, or missing, in a hot
\* day and in one that one writer at a time has worked on.
THEOREM AnswersAreNamed == Spec => []AnswersNamed
<1>1. SearchIInv => AnswersNamed
  BY DEF SearchIInv, NamesInv, AnswersNamed
<1> QED
  BY <1>1, SearchInvariant, PTL

\* On such a day the total is that of the rows, although they are read by two statements.
THEOREM TotalsFit == Spec => []TotalFits
<1>1. SearchIInv => TotalFits
  BY DEF SearchIInv, RowsInv, TotalFits
<1> QED
  BY <1>1, SearchInvariant, PTL

\* A search for a protocol returns the rows of that protocol, where the hot file's dictionary
\* has it or the ids follow the convention.
THEOREM FilterIsTrue == Spec => []FilterTrue
<1>1. SearchIInv => FilterTrue
  <2> SUFFICES ASSUME SearchIInv, NEW q \in Requests, step[q] = "answered", wanted[q] # NoName,
                      \/ place[q] = "hot" /\ IdsOf(rows[q].from, wanted[q]) # {}
                      \/ Conventional(rows[q].from, wanted[q])
               PROVE  rows[q].ids = IdsOf(rows[q].from, wanted[q])
    BY DEF FilterTrue
  <2>1. /\ rows[q].ids = Matching(q, rows[q].from)
        /\ place[q] = "hot" => rows[q].from = open[q]
    BY DEF SearchIInv, RowsInv
  <2>2. Matching(q, rows[q].from) = DOMAIN Protocols[rows[q].from] \cap FilterIds(q)
    BY DEF Matching
  <2>3. CASE place[q] = "hot" /\ IdsOf(open[q], wanted[q]) # {}
    BY <2>1, <2>2, <2>3 DEF FilterIds, IdsOf
  <2>4. CASE ~(place[q] = "hot" /\ IdsOf(open[q], wanted[q]) # {})
    <3>1. FilterIds(q) = {ByConvention[wanted[q]]}
      BY <2>4 DEF FilterIds
    <3>2. Conventional(rows[q].from, wanted[q])
      BY <2>1, <2>4
    <3> QED
      BY <2>1, <2>2, <3>1, <3>2 DEF Conventional, IdsOf
  <2> QED
    BY <2>3, <2>4
<1> QED
  BY <1>1, SearchInvariant, PTL

=============================================================================
