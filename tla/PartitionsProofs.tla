--------------------------- MODULE PartitionsProofs ---------------------------
(***************************************************************************)
(* Type correctness and the inductive invariant of Partitions, and what    *)
(* follows from them for every number of days, rows, files, requests,      *)
(* kills and crashes.                                                      *)
(***************************************************************************)
EXTENDS PartitionsInv, TLAPS

LEMMA Constants ==
    /\ 0 \in Days /\ Days \subseteq Int
    /\ Rows \subseteq Nat /\ Files \subseteq Nat \ {0}
    /\ None \notin Files /\ 0 \in 0 .. Retries - 1 /\ 0 \in 0 .. MaxToday
    /\ 0 \in 0 .. MaxRows /\ 0 \in 0 .. MaxKills /\ 0 \in 0 .. MaxCrashes
    /\ 0 \in 0 .. MaxRequests
BY PartitionsAssumption DEF PartitionsAssumption, Days, Rows, Files, None

LEMMA TypeInit == Init => TypeOK
<1> SUFFICES ASSUME Init PROVE TypeOK
  OBVIOUS
<1> USE Constants DEF Init
<1>1. /\ hot \in [Days -> Files \cup {None}] /\ conn \in [Days -> Files \cup {None}]
      /\ origin \in [Days -> Files \cup {None}]
      /\ sidecar \in [Days -> Files \cup {None, Torn}] /\ made \in [Days -> Nat]
  OBVIOUS
<1>2. table \in [Days -> [Files -> SUBSET Rows]] /\ coded \in [Rows -> Files \cup {None}]
  OBVIOUS
<1>3. /\ parquet \in [Days -> SUBSET Rows] /\ batch \in [Days -> SUBSET Rows]
      /\ stored \in [Days -> SUBSET Rows] /\ late \in [Days -> SUBSET Rows]
      /\ expired \in [Days -> SUBSET Rows]
  OBVIOUS
<1>4. /\ at \in [Readers -> ReaderControls] /\ asked \in [Readers -> Days]
      /\ place \in [Readers -> {"none", "hot", "cold"}]
      /\ tries \in [Readers -> 0 .. Retries - 1]
  BY DEF ReaderControls
<1>5. /\ opened \in [Readers -> Files \cup {None}]
      /\ answer \in [Readers -> SUBSET Rows] /\ due \in [Readers -> SUBSET Rows]
  OBVIOUS
<1> QED
  BY <1>1, <1>2, <1>3, <1>4, <1>5 DEF TypeOK, JobControls

\* Whoever is no reader leaves the requests alone.
LEMMA OthersLeaveReaders ==
    ASSUME [Next]_vars
    PROVE  \/ UNCHANGED readerVars
           \/ \E r \in Readers : ReaderStep(r) \/ \E d \in Days : ScanCold(r, d)
BY DEF Next, vars, ProcessorStep, ArchiveStep, NextDay, Enqueue, Expire, InsertDay, ConnectRefused,
       ProcessorEnds, StartFlush, EndFlush, Restart, Release, Kill, StartArchive, RemoveHot, Attach,
       AttachRefused, Detach, Replace, WriteSidecar, Unlink, EndArchive, JobCrash

\* A connection and the file it may create have their types.
LEMMA ConnectType ==
    ASSUME TypeOK, NEW d \in Days, NEW f \in Files, Connect(d, f)
    PROVE  /\ hot' \in [Days -> Files \cup {None}] /\ conn' \in [Days -> Files \cup {None}]
           /\ made' \in [Days -> Nat] /\ reopened' \subseteq Days
<1>1. f \in Nat /\ d \in Days
  BY Constants
<1>2. CASE UNCHANGED <<hot, made, conn, reopened>>
  BY <1>2 DEF TypeOK
<1>3. CASE conn' = [conn EXCEPT ![d] = f] /\ UNCHANGED <<hot, made, reopened>>
  BY <1>3 DEF TypeOK
<1>4. CASE /\ hot' = [hot EXCEPT ![d] = f] /\ made' = [made EXCEPT ![d] = f]
           /\ conn' = [conn EXCEPT ![d] = f]
           /\ reopened' = IF d \in cold THEN reopened \cup {d} ELSE reopened
  BY <1>1, <1>4 DEF TypeOK
<1> QED
  BY <1>2, <1>3, <1>4 DEF Connect

LEMMA OpenedInit == Init => OpenedInv
BY DEF Init, OpenedInv

LEMMA OpenedNext == TypeOK /\ OpenedInv /\ [Next]_vars => OpenedInv'
<1> SUFFICES ASSUME TypeOK, OpenedInv, [Next]_vars PROVE OpenedInv'
  OBVIOUS
<1> USE DEF OpenedInv
<1>1. CASE UNCHANGED readerVars
  BY <1>1 DEF readerVars
<1>2. ASSUME NEW r \in Readers, NEW d \in Days, ScanCold(r, d) PROVE OpenedInv'
  BY <1>2 DEF TypeOK, ScanCold
<1>3. ASSUME NEW r \in Readers, ScanHot(r) \/ Retry(r) \/ OpenParquet(r) PROVE OpenedInv'
  BY <1>3 DEF TypeOK, ScanHot, Retry, OpenParquet
<1>4. ASSUME NEW r \in Readers, AttachHot(r) \/ Answer(r) PROVE OpenedInv'
  BY <1>4 DEF TypeOK, AttachHot, Answer
<1>5. ASSUME NEW r \in Readers, Finish(r) PROVE OpenedInv'
  BY <1>5 DEF TypeOK, Finish
<1> QED
  BY <1>1, <1>2, <1>3, <1>4, <1>5, OthersLeaveReaders DEF ReaderStep, NotFound, Fail, Close

\* The type of an answer rests on OpenedInv.
LEMMA TypeNext == TypeOK /\ OpenedInv /\ [Next]_vars => TypeOK'
<1> SUFFICES ASSUME TypeOK, OpenedInv, [Next]_vars PROVE TypeOK'
  OBVIOUS
<1> USE Constants DEF TypeOK, fileVars, processorVars, jobVars, readerVars, historyVars
<1>1. ASSUME NextDay PROVE TypeOK'
  BY <1>1, PartitionsAssumption DEF NextDay, PartitionsAssumption
<1>2. ASSUME StartFlush PROVE TypeOK'
  BY <1>2 DEF StartFlush
<1>3. ASSUME EndFlush PROVE TypeOK'
  BY <1>3 DEF EndFlush
<1>4. ASSUME Restart PROVE TypeOK'
  BY <1>4 DEF Restart
<1>5. ASSUME Release PROVE TypeOK'
  BY <1>5 DEF Release
<1>6. ASSUME Kill PROVE TypeOK'
  <2>1. kills' \in 0 .. MaxKills
    BY <1>6, PartitionsAssumption DEF Kill, PartitionsAssumption
  <2> QED
    BY <1>6, <2>1 DEF Kill, ProcessorEnds
<1>7. ASSUME StartArchive PROVE TypeOK'
  BY <1>7 DEF StartArchive, JobControls
<1>8. ASSUME Detach PROVE TypeOK'
  BY <1>8 DEF Detach, JobControls
<1>9. ASSUME Replace PROVE TypeOK'
  BY <1>9 DEF Replace, JobControls
<1>10. ASSUME WriteSidecar PROVE TypeOK'
  BY <1>10 DEF WriteSidecar, NewSidecar, JobControls
<1>11. ASSUME Unlink PROVE TypeOK'
  BY <1>11 DEF Unlink, JobEnds, JobControls
<1>12. ASSUME EndArchive PROVE TypeOK'
  BY <1>12 DEF EndArchive, JobEnds, JobControls
<1>13. ASSUME JobCrash PROVE TypeOK'
  BY <1>13, PartitionsAssumption DEF JobCrash, JobEnds, JobControls, PartitionsAssumption
<1>14. ASSUME NEW d \in Days, Enqueue(d) PROVE TypeOK'
  <2>1. taken + 1 \in Rows /\ taken' \in 0 .. MaxRows
    BY <1>14, PartitionsAssumption DEF Enqueue, PartitionsAssumption, Rows
  <2>2. PICK f \in Files : Connect(d, f) /\ coded' = [coded EXCEPT ![taken + 1] = f]
    BY <1>14 DEF Enqueue
  <2>3. coded' \in [Rows -> Files \cup {None}] /\ batch' \in [Days -> SUBSET Rows]
    BY <1>14, <2>1, <2>2 DEF Enqueue
  <2>4. /\ hot' \in [Days -> Files \cup {None}] /\ conn' \in [Days -> Files \cup {None}]
        /\ made' \in [Days -> Nat] /\ reopened' \subseteq Days
    BY <2>2, ConnectType
  <2> QED
    BY <1>14, <2>1, <2>3, <2>4 DEF Enqueue
<1>15. ASSUME NEW d \in Days, Expire(d) PROVE TypeOK'
  BY <1>15 DEF Expire
<1>16. ASSUME NEW d \in Days, InsertDay(d) PROVE TypeOK'
  <2>1. PICK f \in Files : /\ Connect(d, f)
                           /\ table' = [table EXCEPT ![d][f] = @ \cup batch[d]]
                           /\ late' = IF Taken(d, f) THEN [late EXCEPT ![d] = @ \cup batch[d]]
                                                    ELSE late
    BY <1>16 DEF InsertDay
  <2>2. /\ hot' \in [Days -> Files \cup {None}] /\ conn' \in [Days -> Files \cup {None}]
        /\ made' \in [Days -> Nat] /\ reopened' \subseteq Days
    BY <2>1, ConnectType
  <2>3. table' \in [Days -> [Files -> SUBSET Rows]]
    BY <2>1
  <2>4. late' \in [Days -> SUBSET Rows]
    BY <2>1
  <2>5. batch' \in [Days -> SUBSET Rows] /\ stored' \in [Days -> SUBSET Rows]
    BY <1>16 DEF InsertDay
  <2> QED
    BY <1>16, <2>2, <2>3, <2>4, <2>5 DEF InsertDay
<1>17. ASSUME NEW d \in Days, ConnectRefused(d) PROVE TypeOK'
  BY <1>17 DEF ConnectRefused, ProcessorEnds
<1>18. ASSUME NEW d \in Days, RemoveHot(d) PROVE TypeOK'
  BY <1>18 DEF RemoveHot
<1>19. ASSUME NEW d \in Days, Attach(d) PROVE TypeOK'
  BY <1>19 DEF Attach, HotRows, JobControls
<1>20. ASSUME NEW d \in Days, AttachRefused(d) PROVE TypeOK'
  BY <1>20 DEF AttachRefused, JobEnds, JobControls
<1>21. ASSUME NEW r \in Readers, ScanHot(r) PROVE TypeOK'
  BY <1>21 DEF ScanHot, ReaderControls
<1>22. ASSUME NEW r \in Readers, NotFound(r) PROVE TypeOK'
  BY <1>22 DEF NotFound, Finish, ReaderControls
<1>23. ASSUME NEW r \in Readers, AttachHot(r) PROVE TypeOK'
  BY <1>23 DEF AttachHot, ReaderControls
<1>24. ASSUME NEW r \in Readers, Retry(r) PROVE TypeOK'
  <2>1. tries[r] \in 0 .. Retries - 1 /\ tries[r] # Retries - 1
    BY <1>24 DEF Retry, LastTry
  <2>2. tries[r] + 1 \in 0 .. Retries - 1
    BY <2>1, PartitionsAssumption DEF PartitionsAssumption
  <2>3. tries' \in [Readers -> 0 .. Retries - 1]
    BY <1>24, <2>2 DEF Retry
  <2> QED
    BY <1>24, <2>3 DEF Retry
<1>25. ASSUME NEW r \in Readers, OpenParquet(r) PROVE TypeOK'
  BY <1>25 DEF OpenParquet, ReaderControls
<1>26. ASSUME NEW r \in Readers, Fail(r) PROVE TypeOK'
  BY <1>26 DEF Fail, Finish, ReaderControls
<1>27. ASSUME NEW r \in Readers, Answer(r) PROVE TypeOK'
  <2>1. table[asked[r]] \in [Files -> SUBSET Rows] /\ parquet[asked[r]] \subseteq Rows
    OBVIOUS
  <2>2. place[r] = "hot" => opened[r] \in Files
    BY <1>27 DEF Answer, OpenedInv
  <2>3. answer' \in [Readers -> SUBSET Rows]
    BY <1>27, <2>1, <2>2 DEF Answer
  <2> QED
    BY <1>27, <2>3 DEF Answer, ReaderControls
<1>28. ASSUME NEW r \in Readers, Close(r) PROVE TypeOK'
  BY <1>28 DEF Close, Finish, ReaderControls
<1>29. ASSUME NEW r \in Readers, NEW d \in Days, ScanCold(r, d) PROVE TypeOK'
  <2>1. requests' \in 0 .. MaxRequests
    BY <1>29, PartitionsAssumption DEF ScanCold, PartitionsAssumption
  <2>2. Found(d) \subseteq Rows
    <3>1. table[d] \in [Files -> SUBSET Rows] /\ hot[d] \in Files \cup {None}
      OBVIOUS
    <3>2. HotRows(d) \subseteq Rows
      BY <3>1 DEF HotRows
    <3>3. ColdRows(d) \subseteq Rows
      BY DEF ColdRows
    <3> QED
      BY <3>2, <3>3 DEF Found
  <2>3. /\ at' \in [Readers -> ReaderControls] /\ asked' \in [Readers -> Days]
        /\ place' \in [Readers -> {"none", "hot", "cold"}] /\ due' \in [Readers -> SUBSET Rows]
    BY <1>29, <2>2 DEF ScanCold, ReaderControls
  <2> QED
    BY <1>29, <2>1, <2>3 DEF ScanCold
<1>30. CASE UNCHANGED vars
  BY <1>30 DEF vars
<1> QED
  BY <1>1, <1>2, <1>3, <1>4, <1>5, <1>6, <1>7, <1>8, <1>9, <1>10, <1>11, <1>12, <1>13, <1>14, <1>15, <1>16, <1>17, <1>18, <1>19, <1>20, <1>21, <1>22, <1>23, <1>24, <1>25, <1>26, <1>27, <1>28, <1>29, <1>30
     DEF Next, ProcessorStep, ArchiveStep, ReaderStep

\* Every variable keeps its type.
THEOREM PartitionsTypeCorrect == Spec => []TypeOK
BY TypeInit, TypeNext, OpenedInit, OpenedNext, PTL DEF Spec

LEMMA InvInit == Init => PartitionsIInv
<1> SUFFICES ASSUME Init PROVE PartitionsIInv
  OBVIOUS
<1>1. JobInv /\ SidecarMatches /\ TwinInv /\ ReaderInv
  BY DEF Init, JobInv, Working, SidecarMatches, TwinInv, ReaderInv, Served
<1>2. RowsInv /\ NamesInv
  BY DEF Init, RowsInv, RowsKept, Working, NamesInv, NamesFromOwnFile
<1> QED
  BY <1>1, <1>2, TypeInit, OpenedInit DEF PartitionsIInv

-----------------------------------------------------------------------------
(* What single steps do *)

\* A connection that is open stays; a new one finds the day's file free of readers, or
\* creates it, which does not go unseen if a Parquet file exists.
LEMMA ConnectFacts ==
    ASSUME TypeOK, NEW d \in Days, NEW f \in Files, Connect(d, f)
    PROVE  /\ f # None /\ conn'[d] = f
           /\ \A e \in Days : e # d => hot'[e] = hot[e] /\ conn'[e] = conn[e]
           /\ conn[d] # None => conn' = conn /\ hot' = hot
           /\ hot[d] # None => hot'[d] = hot[d]
           /\ hot[d] = None => hot'[d] \in {None, f}
           /\ conn[d] = None /\ hot[d] # None => f = hot[d] /\ ~ReaderHolds(d)
           /\ reopened \subseteq reopened'
           /\ hot'[d] # hot[d] /\ d \in cold => d \in reopened'
<1>1. f # None
  BY Constants
<1>2. CASE conn[d] # None /\ f = conn[d] /\ UNCHANGED <<hot, made, conn, reopened>>
  BY <1>1, <1>2
<1>3. CASE /\ conn[d] = None /\ hot[d] # None /\ ~ReaderHolds(d) /\ f = hot[d]
           /\ conn' = [conn EXCEPT ![d] = f]
           /\ UNCHANGED <<hot, made, reopened>>
  BY <1>1, <1>3 DEF TypeOK
<1>4. CASE /\ conn[d] = None /\ hot[d] = None
           /\ hot' = [hot EXCEPT ![d] = f] /\ conn' = [conn EXCEPT ![d] = f]
           /\ reopened' = IF d \in cold THEN reopened \cup {d} ELSE reopened
  BY <1>1, <1>4 DEF TypeOK
<1> QED
  BY <1>2, <1>3, <1>4 DEF Connect

\* The only step that changes table adds the batch of a day to one file of that day.
LEMMA InsertFacts ==
    ASSUME TypeOK, NEW d \in Days, InsertDay(d)
    PROVE  \E f \in Files :
              /\ Connect(d, f)
              /\ table'[d][f] = table[d][f] \cup batch[d]
              /\ \A e \in Days : \A g \in Files :
                    e # d \/ g # f => table'[e][g] = table[e][g]
              /\ Taken(d, f) => late'[d] = late[d] \cup batch[d]
              /\ ~Taken(d, f) => late' = late
              /\ \A e \in Days : late[e] \subseteq late'[e]
              /\ \A e \in Days : e # d => late'[e] = late[e]
              /\ stored'[d] = stored[d] \cup batch[d]
              /\ \A e \in Days : e # d => stored'[e] = stored[e]
              /\ batch'[d] = {} /\ \A e \in Days : e # d => batch'[e] = batch[e]
<1>1. PICK f \in Files :
          /\ Connect(d, f)
          /\ table' = [table EXCEPT ![d][f] = @ \cup batch[d]]
          /\ late' = IF Taken(d, f) THEN [late EXCEPT ![d] = @ \cup batch[d]] ELSE late
  BY DEF InsertDay
<1>2. /\ table'[d][f] = table[d][f] \cup batch[d]
      /\ \A e \in Days : \A g \in Files : e # d \/ g # f => table'[e][g] = table[e][g]
  BY <1>1 DEF TypeOK
<1>3. /\ Taken(d, f) => late'[d] = late[d] \cup batch[d]
      /\ ~Taken(d, f) => late' = late
      /\ \A e \in Days : late[e] \subseteq late'[e]
      /\ \A e \in Days : e # d => late'[e] = late[e]
  BY <1>1 DEF TypeOK
<1>4. /\ stored'[d] = stored[d] \cup batch[d]
      /\ \A e \in Days : e # d => stored'[e] = stored[e]
      /\ batch'[d] = {} /\ \A e \in Days : e # d => batch'[e] = batch[e]
  BY DEF TypeOK, InsertDay
<1> QED
  BY <1>1, <1>2, <1>3, <1>4

\* Whoever steps, the files and the job change only in these ways.
LEMMA JobCases ==
    ASSUME [Next]_vars
    PROVE  \/ UNCHANGED <<hot, table, cold, parquet, origin, sidecar, conn, jobAt, todo, jobDay,
                          snap, snapFile, stored, late, expired, reopened, cut, batch, coded,
                          taken>>
           \/ \E d \in Days : \/ Enqueue(d) \/ InsertDay(d) \/ Expire(d) \/ RemoveHot(d)
                              \/ Attach(d) \/ AttachRefused(d)
           \/ Release \/ ProcessorEnds
           \/ StartArchive \/ Detach \/ Replace \/ WriteSidecar \/ Unlink \/ EndArchive \/ JobCrash
<1> USE DEF fileVars, processorVars, jobVars, historyVars
<1>1. ASSUME NEW r \in Readers, ReaderStep(r) \/ \E d \in Days : ScanCold(r, d)
      PROVE  UNCHANGED <<fileVars, processorVars, jobVars, historyVars>>
  BY <1>1 DEF ReaderStep, ScanCold, ScanHot, NotFound, AttachHot, Retry, OpenParquet, Fail, Answer,
              Close
<1>2. CASE UNCHANGED vars
  BY <1>2 DEF vars
<1>3. CASE NextDay \/ StartFlush \/ EndFlush \/ Restart
  BY <1>3 DEF NextDay, StartFlush, EndFlush, Restart
<1>4. ASSUME NEW d \in Days, ConnectRefused(d) PROVE ProcessorEnds
  BY <1>4 DEF ConnectRefused
<1>5. Kill => ProcessorEnds
  BY DEF Kill
<1> QED
  BY <1>1, <1>2, <1>3, <1>4, <1>5 DEF Next, ProcessorStep, ArchiveStep

-----------------------------------------------------------------------------
(* The job *)

LEMMA JobNext == TypeOK /\ JobInv /\ [Next]_vars => JobInv'
<1> SUFFICES ASSUME TypeOK, JobInv, [Next]_vars PROVE JobInv'
  OBVIOUS
<1> USE DEF JobInv, Working
<1> USE DEF fileVars, processorVars, jobVars, historyVars
<1>1. CASE UNCHANGED <<hot, table, cold, parquet, origin, sidecar, conn, jobAt, todo, jobDay,
                       snap, snapFile, stored, late, expired, reopened, cut, batch, coded,
                          taken>>
  BY <1>1
<1>2. ASSUME NEW d \in Days, NEW f \in Files, Connect(d, f),
             UNCHANGED <<jobVars, cold, origin>>,
             \A e \in Days : \A g \in Files : table[e][g] \subseteq table'[e][g]
      PROVE  JobInv'
  <2>1. \A e \in Days : hot[e] # None => hot'[e] = hot[e]
    BY <1>2, ConnectFacts
  <2>2. ASSUME jobAt = "copying" PROVE conn'[jobDay] # hot'[jobDay]
    <3>1. hot[jobDay] # None /\ hot'[jobDay] = hot[jobDay] /\ conn[jobDay] # hot[jobDay]
      BY <2>1, <2>2 DEF TypeOK
    <3>2. CASE jobDay = d
      <4>1. ReaderHolds(d)
        BY <2>2, <3>1, <3>2 DEF ReaderHolds
      <4>2. conn[d] # None
        BY <1>2, <3>1, <3>2, <4>1, ConnectFacts
      <4> QED
        BY <1>2, <3>1, <3>2, <4>2, ConnectFacts
    <3>3. CASE jobDay # d
      BY <1>2, <3>1, <3>3, ConnectFacts DEF TypeOK
    <3> QED
      BY <3>2, <3>3
  <2>3. jobAt \in {"copying", "copied"} => /\ hot'[jobDay] = snapFile /\ snapFile # None
                                           /\ snap \subseteq table'[jobDay][snapFile]
    BY <1>2, <2>1 DEF TypeOK
  <2>4. \A e \in todo : hot'[e] # None
    BY <2>1 DEF TypeOK
  <2> QED
    BY <1>2, <2>2, <2>3, <2>4
<1>3. ASSUME NEW d \in Days, Enqueue(d) PROVE JobInv'
  <2>1. PICK f \in Files : Connect(d, f)
    BY <1>3 DEF Enqueue
  <2> QED
    BY <1>2, <1>3, <2>1 DEF Enqueue
<1>4. ASSUME NEW d \in Days, InsertDay(d) PROVE JobInv'
  <2>1. PICK f \in Files :
            /\ Connect(d, f)
            /\ table'[d][f] = table[d][f] \cup batch[d]
            /\ \A e \in Days : \A g \in Files : e # d \/ g # f => table'[e][g] = table[e][g]
    BY <1>4, InsertFacts
  <2>2. \A e \in Days : \A g \in Files : table[e][g] \subseteq table'[e][g]
    BY <2>1
  <2>3. UNCHANGED <<jobVars, cold, origin>>
    BY <1>4 DEF InsertDay
  <2> QED
    BY <1>2, <2>1, <2>2, <2>3
<1>5. ASSUME NEW d \in Days, Expire(d) PROVE JobInv'
  BY <1>5 DEF Expire, TypeOK
<1>6. ASSUME Release \/ ProcessorEnds PROVE JobInv'
  BY <1>6 DEF Release, ProcessorEnds, TypeOK
<1>7. ASSUME NEW d \in Days, RemoveHot(d) PROVE JobInv'
  BY <1>7 DEF RemoveHot, TypeOK
<1>8. ASSUME NEW d \in Days, Attach(d) PROVE JobInv'
  BY <1>8 DEF Attach, CopyAllowed, WriterHolds, HotRows, Archived, TypeOK
<1>9. ASSUME NEW d \in Days, AttachRefused(d) PROVE JobInv'
  BY <1>9 DEF AttachRefused, JobEnds
<1>10. ASSUME StartArchive PROVE JobInv'
  BY <1>10 DEF StartArchive
<1>11. ASSUME Detach PROVE JobInv'
  BY <1>11 DEF Detach
<1>12. ASSUME Replace PROVE JobInv'
  BY <1>12 DEF Replace, TypeOK
<1>13. ASSUME WriteSidecar PROVE JobInv'
  BY <1>13 DEF WriteSidecar
<1>14. ASSUME Unlink PROVE JobInv'
  BY <1>14 DEF Unlink, JobEnds, TypeOK
<1>15. ASSUME EndArchive \/ JobCrash PROVE JobInv'
  BY <1>15 DEF EndArchive, JobCrash, JobEnds
<1> QED
  BY <1>1, <1>3, <1>4, <1>5, <1>6, <1>7, <1>8, <1>9, <1>10, <1>11, <1>12, <1>13, <1>14, <1>15,
     JobCases

-----------------------------------------------------------------------------
(* The rows *)

\* As long as no file goes away, what can be found can still be found.
LEMMA FoundGrows ==
    ASSUME TypeOK, NEW e \in Days, UNCHANGED <<cold, parquet>>,
           hot[e] # None => hot'[e] = hot[e],
           \A g \in Files : table[e][g] \subseteq table'[e][g]
    PROVE  Found(e) \subseteq Found(e)'
BY DEF Found, HotRows, ColdRows, TypeOK

LEMMA RowsInsert ==
    ASSUME TypeOK, JobInv, JobInv', RowsInv, NEW d \in Days, InsertDay(d)
    PROVE  RowsInv'
<1>1. PICK f \in Files :
          /\ Connect(d, f)
          /\ table'[d][f] = table[d][f] \cup batch[d]
          /\ \A e \in Days : \A g \in Files : e # d \/ g # f => table'[e][g] = table[e][g]
          /\ Taken(d, f) => late'[d] = late[d] \cup batch[d]
          /\ \A e \in Days : late[e] \subseteq late'[e]
          /\ stored'[d] = stored[d] \cup batch[d]
          /\ \A e \in Days : e # d => stored'[e] = stored[e]
  BY InsertFacts
<1>2. \A e \in Days : \A g \in Files : table[e][g] \subseteq table'[e][g]
  BY <1>1
<1>3. UNCHANGED <<jobVars, cold, parquet, expired>>
  BY DEF InsertDay
<1>4. \A e \in Days : Excused(e) \subseteq Excused(e)'
  BY <1>1, <1>3 DEF Excused
<1>5. Taken(d, f) => batch[d] \subseteq Excused(d)'
  BY <1>1 DEF Excused
<1>6. \A e \in Days : Found(e) \subseteq Found(e)'
  BY <1>1, <1>2, <1>3, ConnectFacts, FoundGrows
<1>7. RowsKept'
  <2>1. ASSUME NEW e \in Days PROVE stored'[e] \subseteq (Found(e) \cup Excused(e))'
    <3>1. stored[e] \subseteq Found(e) \cup Excused(e)
      BY DEF RowsInv, RowsKept, Excused
    <3>2. CASE e # d
      BY <1>1, <1>4, <1>6, <3>1, <3>2
    <3>3. CASE e = d /\ ~Taken(d, f)
      <4>1. hot'[d] = f /\ f # None
        BY <1>1, <3>3, ConnectFacts DEF Taken
      <4>2. batch[d] \subseteq Found(d)'
        BY <1>1, <4>1 DEF Found, HotRows
      <4> QED
        BY <1>1, <1>4, <1>6, <3>1, <3>3, <4>2
    <3>4. CASE e = d /\ Taken(d, f)
      BY <1>1, <1>4, <1>5, <1>6, <3>1, <3>4
    <3> QED
      BY <3>2, <3>3, <3>4
  <2> QED
    BY <2>1 DEF RowsKept, Excused
<1>8. \A e \in cold : stored'[e] \subseteq parquet[e] \cup Excused(e)'
  <2>1. ASSUME NEW e \in cold PROVE stored'[e] \subseteq parquet[e] \cup Excused(e)'
    <3>1. stored[e] \subseteq parquet[e] \cup Excused(e) /\ e \in Days
      BY DEF RowsInv, TypeOK
    <3>2. e = d => Taken(d, f)
      BY DEF Taken
    <3> QED
      BY <1>1, <1>4, <1>5, <3>1, <3>2
  <2> QED
    BY <2>1
<1>9. Working => jobDay \in Days /\ (jobDay = d => Taken(d, f))
  <2>1. jobAt \in {"copied", "replaced", "written"} /\ jobDay = d => Taken(d, f)
    BY DEF Taken
  <2>2. jobAt = "copying" /\ jobDay = d => Taken(d, f)
    <3> SUFFICES ASSUME jobAt = "copying", jobDay = d PROVE hot'[d] # f
      BY DEF Taken
    <3>1. conn'[d] # hot'[d]
      BY <1>3 DEF JobInv, jobVars
    <3> QED
      BY <1>1, <3>1, ConnectFacts
  <2> QED
    BY <2>1, <2>2 DEF Working, TypeOK
<1>10. /\ jobAt \in {"copying", "copied"} => stored'[jobDay] \subseteq snap \cup Excused(jobDay)'
       /\ Working => snap \subseteq stored'[jobDay]
       /\ jobAt \in {"replaced", "written"} =>
             stored'[jobDay] \subseteq ColdRows(jobDay) \cup Excused(jobDay)'
  <2> SUFFICES ASSUME Working
               PROVE  /\ jobAt \in {"copying", "copied"} =>
                            stored'[jobDay] \subseteq snap \cup Excused(jobDay)'
                      /\ snap \subseteq stored'[jobDay]
                      /\ jobAt \in {"replaced", "written"} =>
                            stored'[jobDay] \subseteq ColdRows(jobDay) \cup Excused(jobDay)'
    BY DEF Working
  <2>1. Excused(jobDay) \subseteq Excused(jobDay)'
    BY <1>3, <1>4, <1>9 DEF jobVars
  <2>2. stored[jobDay] \subseteq stored'[jobDay]
    BY <1>1, <1>9
  <2>3. stored'[jobDay] \subseteq stored[jobDay] \cup Excused(jobDay)'
    BY <1>1, <1>3, <1>5, <1>9 DEF jobVars
  <2> QED
    BY <2>1, <2>2, <2>3 DEF RowsInv
<1>11. \A e \in Days : \A g \in Files : table'[e][g] \subseteq stored'[e]
  BY <1>1 DEF RowsInv
<1>12. \A e \in Days : parquet[e] \subseteq stored'[e]
  BY <1>1 DEF RowsInv
<1>13. \A e \in Days : ColdRows(e)' = ColdRows(e)
  BY <1>3 DEF ColdRows
<1> QED
  BY <1>3, <1>7, <1>8, <1>9, <1>10, <1>11, <1>12, <1>13 DEF RowsInv, Working, jobVars

LEMMA RowsNext == TypeOK /\ JobInv /\ JobInv' /\ RowsInv /\ [Next]_vars => RowsInv'
<1> SUFFICES ASSUME TypeOK, JobInv, JobInv', RowsInv, [Next]_vars PROVE RowsInv'
  OBVIOUS
<1> USE DEF RowsInv, RowsKept, Working, Excused, Found, HotRows, ColdRows
<1> USE DEF fileVars, processorVars, jobVars, historyVars
<1>1. CASE UNCHANGED <<hot, table, cold, parquet, origin, sidecar, conn, jobAt, todo, jobDay,
                       snap, snapFile, stored, late, expired, reopened, cut, batch, coded,
                          taken>>
  BY <1>1
<1>2. ASSUME NEW d \in Days, Enqueue(d) PROVE RowsInv'
  <2>1. PICK f \in Files : Connect(d, f)
    BY <1>2 DEF Enqueue
  <2>2. UNCHANGED <<table, cold, parquet, jobVars, stored, late, expired>>
    BY <1>2 DEF Enqueue
  <2>3. \A e \in Days : hot[e] # None => hot'[e] = hot[e]
    BY <2>1, ConnectFacts
  <2>4. \A e \in Days : HotRows(e) \subseteq HotRows(e)'
    BY <2>2, <2>3
  <2> QED
    BY <2>2, <2>4
<1>3. ASSUME NEW d \in Days, InsertDay(d) PROVE RowsInv'
  BY <1>3, RowsInsert
<1>4. ASSUME NEW d \in Days, Expire(d) PROVE RowsInv'
  BY <1>4 DEF Expire, TypeOK
<1>5. ASSUME Release \/ ProcessorEnds PROVE RowsInv'
  BY <1>5 DEF Release, ProcessorEnds
<1>6. ASSUME NEW d \in Days, RemoveHot(d) PROVE RowsInv'
  BY <1>6 DEF RemoveHot, Archived, TypeOK
<1>7. ASSUME NEW d \in Days, Attach(d) PROVE RowsInv'
  BY <1>7 DEF Attach, Archived, JobInv, TypeOK
<1>8. ASSUME (\E d \in Days : AttachRefused(d)) \/ EndArchive PROVE RowsInv'
  BY <1>8 DEF AttachRefused, EndArchive, JobEnds
<1>9. ASSUME StartArchive \/ Detach \/ WriteSidecar PROVE RowsInv'
  BY <1>9 DEF StartArchive, Detach, WriteSidecar
<1>10. ASSUME Replace PROVE RowsInv'
  BY <1>10 DEF Replace, JobInv, TypeOK
<1>11. ASSUME Unlink PROVE RowsInv'
  BY <1>11 DEF Unlink, JobEnds, TypeOK
<1>12. ASSUME JobCrash PROVE RowsInv'
  BY <1>12 DEF JobCrash, JobEnds
<1> QED
  BY <1>1, <1>2, <1>3, <1>4, <1>5, <1>6, <1>7, <1>8, <1>9, <1>10, <1>11, <1>12, JobCases

-----------------------------------------------------------------------------
(* The names *)

LEMMA NamesNext == TypeOK /\ NamesInv /\ [Next]_vars => NamesInv'
<1> SUFFICES ASSUME TypeOK, NamesInv, [Next]_vars PROVE NamesInv'
  OBVIOUS
<1> USE DEF NamesInv, NamesFromOwnFile
<1> USE DEF fileVars, processorVars
<1>1. CASE UNCHANGED <<table, conn, batch, coded, taken>>
  BY <1>1
<1>2. ASSUME NEW d \in Days, Enqueue(d) PROVE NamesInv'
  <2>1. PICK f \in Files : Connect(d, f) /\ coded' = [coded EXCEPT ![taken + 1] = f]
    BY <1>2 DEF Enqueue
  <2>2. /\ taken + 1 \in Rows /\ taken \in Nat /\ taken' = taken + 1
        /\ batch' = [batch EXCEPT ![d] = @ \cup {taken + 1}] /\ table' = table
    BY <1>2, PartitionsAssumption DEF Enqueue, PartitionsAssumption, Rows, TypeOK
  <2>3. coded'[taken + 1] = f
    BY <2>1, <2>2 DEF TypeOK
  <2>4. \A n \in Rows : n <= taken => coded'[n] = coded[n] /\ n <= taken'
    BY <2>1, <2>2, Constants DEF TypeOK
  <2>5. batch[d] # {} => conn' = conn
    BY <2>1, ConnectFacts
  <2>6. \A e \in Days : e # d => conn'[e] = conn[e] /\ batch'[e] = batch[e]
    BY <2>1, <2>2, ConnectFacts DEF TypeOK
  <2>7. conn'[d] = f /\ f # None /\ batch'[d] = batch[d] \cup {taken + 1}
    BY <2>1, <2>2, ConnectFacts DEF TypeOK
  <2>8. \A e \in Days : \A n \in batch'[e] : coded'[n] = conn'[e] /\ n <= taken'
    <3>1. ASSUME NEW e \in Days, NEW n \in batch[e]
          PROVE  coded'[n] = conn'[e] /\ n <= taken'
      <4>1. n \in Rows /\ n <= taken /\ coded[n] = conn[e]
        BY <3>1 DEF TypeOK
      <4>2. conn'[e] = conn[e]
        BY <2>5, <2>6, <3>1
      <4> QED
        BY <2>4, <4>1, <4>2
    <3>2. taken + 1 <= taken'
      BY <2>2
    <3> QED
      BY <2>3, <2>6, <2>7, <3>1, <3>2
  <2>9. \A e \in Days : \A g \in Files : \A n \in table'[e][g] : coded'[n] = g /\ n <= taken'
    BY <2>2, <2>4 DEF TypeOK
  <2>10. \A e \in Days : batch'[e] # {} => conn'[e] # None
    BY <2>6, <2>7
  <2> QED
    BY <2>8, <2>9, <2>10
<1>3. ASSUME NEW d \in Days, InsertDay(d) PROVE NamesInv'
  <2>1. PICK f \in Files :
            /\ Connect(d, f)
            /\ table'[d][f] = table[d][f] \cup batch[d]
            /\ \A e \in Days : \A g \in Files : e # d \/ g # f => table'[e][g] = table[e][g]
            /\ batch'[d] = {} /\ \A e \in Days : e # d => batch'[e] = batch[e]
    BY <1>3, InsertFacts
  <2>2. batch[d] # {} /\ UNCHANGED <<coded, taken>>
    BY <1>3 DEF InsertDay
  <2>3. f = conn[d] /\ conn' = conn
    BY <2>1, <2>2, ConnectFacts
  <2>4. \A n \in batch[d] : coded[n] = f /\ n <= taken
    BY <2>3
  <2>5. \A e \in Days : \A g \in Files : \A n \in table'[e][g] : coded[n] = g /\ n <= taken
    BY <2>1, <2>4
  <2> QED
    BY <2>1, <2>2, <2>3, <2>5
<1>4. ASSUME Release \/ ProcessorEnds PROVE NamesInv'
  <2>1. UNCHANGED <<table, coded, taken>> /\ \A d \in Days : batch'[d] = {}
    BY <1>4 DEF Release, MayRelease, Batched, ProcessorEnds
  <2> QED
    BY <2>1
<1>5. ASSUME NEW d \in Days, Expire(d) \/ RemoveHot(d) \/ Attach(d) \/ AttachRefused(d)
      PROVE  NamesInv'
  BY <1>5 DEF Expire, RemoveHot, Attach, AttachRefused
<1>6. ASSUME StartArchive \/ Detach \/ Replace \/ WriteSidecar \/ Unlink \/ EndArchive \/ JobCrash
      PROVE  NamesInv'
  BY <1>6 DEF StartArchive, Detach, Replace, WriteSidecar, Unlink, EndArchive, JobCrash
<1> QED
  BY <1>1, <1>2, <1>3, <1>4, <1>5, <1>6, JobCases

LEMMA SidecarNext == TypeOK /\ JobInv /\ SidecarMatches /\ [Next]_vars => SidecarMatches'
<1> SUFFICES ASSUME TypeOK, JobInv, SidecarMatches, [Next]_vars PROVE SidecarMatches'
  OBVIOUS
<1> USE DEF SidecarMatches
<1> USE DEF fileVars, processorVars, jobVars, historyVars
<1>1. CASE UNCHANGED <<cold, origin, sidecar, jobAt, jobDay, cut>>
  BY <1>1
<1>2. ASSUME NEW d \in Days, Enqueue(d) \/ InsertDay(d) PROVE SidecarMatches'
  BY <1>2 DEF Enqueue, InsertDay
<1>3. ASSUME NEW d \in Days, Expire(d) PROVE SidecarMatches'
  BY <1>3 DEF Expire, TypeOK
<1>4. ASSUME Release \/ ProcessorEnds PROVE SidecarMatches'
  BY <1>4 DEF Release, ProcessorEnds
<1>5. ASSUME NEW d \in Days, RemoveHot(d) \/ Attach(d) \/ AttachRefused(d) PROVE SidecarMatches'
  BY <1>5 DEF RemoveHot, Attach, AttachRefused, JobEnds
<1>6. ASSUME StartArchive \/ Detach \/ EndArchive \/ Unlink PROVE SidecarMatches'
  BY <1>6 DEF StartArchive, Detach, EndArchive, Unlink, JobEnds
<1>7. ASSUME Replace PROVE SidecarMatches'
  BY <1>7 DEF Replace, TypeOK
<1>8. ASSUME WriteSidecar PROVE SidecarMatches'
  BY <1>8 DEF WriteSidecar, NewSidecar, JobInv, TypeOK
<1>9. ASSUME JobCrash PROVE SidecarMatches'
  BY <1>9 DEF JobCrash, JobEnds, TypeOK
<1> QED
  BY <1>1, <1>2, <1>3, <1>4, <1>5, <1>6, <1>7, <1>8, <1>9, JobCases

-----------------------------------------------------------------------------
(* The readers *)

\* Whoever steps: history and tables only grow, and a hot file that comes where there was
\* none is marked if a Parquet file exists.
LEMMA OnlyGrows ==
    ASSUME TypeOK, [Next]_vars, NEW d \in Days
    PROVE  /\ stored[d] \subseteq stored'[d] /\ late[d] \subseteq late'[d]
           /\ expired[d] \subseteq expired'[d] /\ reopened \subseteq reopened'
           /\ \A f \in Files : table[d][f] \subseteq table'[d][f]
           /\ hot[d] # None => hot'[d] \in {hot[d], None}
           /\ hot[d] = None /\ hot'[d] # None /\ d \in cold => d \in reopened'
<1> USE DEF fileVars, processorVars, jobVars, historyVars
<1>1. CASE UNCHANGED <<hot, table, cold, stored, late, expired, reopened>>
  BY <1>1
<1>2. ASSUME NEW e \in Days, Enqueue(e)
      PROVE  /\ UNCHANGED <<stored, late, expired, table>>
             /\ reopened \subseteq reopened'
             /\ hot[d] # None => hot'[d] \in {hot[d], None}
             /\ hot[d] = None /\ hot'[d] # None /\ d \in cold => d \in reopened'
  <2>1. PICK f \in Files : Connect(e, f)
    BY <1>2 DEF Enqueue
  <2>2. UNCHANGED <<stored, late, expired, table>>
    BY <1>2 DEF Enqueue
  <2> QED
    BY <2>1, <2>2, ConnectFacts
<1>3. ASSUME NEW e \in Days, InsertDay(e)
      PROVE  /\ stored[d] \subseteq stored'[d] /\ late[d] \subseteq late'[d]
             /\ UNCHANGED expired /\ reopened \subseteq reopened'
             /\ \A f \in Files : table[d][f] \subseteq table'[d][f]
             /\ hot[d] # None => hot'[d] \in {hot[d], None}
             /\ hot[d] = None /\ hot'[d] # None /\ d \in cold => d \in reopened'
  <2>1. PICK f \in Files :
            /\ Connect(e, f)
            /\ table'[e][f] = table[e][f] \cup batch[e]
            /\ \A c \in Days : \A g \in Files : c # e \/ g # f => table'[c][g] = table[c][g]
            /\ \A c \in Days : late[c] \subseteq late'[c]
            /\ stored'[e] = stored[e] \cup batch[e]
            /\ \A c \in Days : c # e => stored'[c] = stored[c]
    BY <1>3, InsertFacts
  <2>2. UNCHANGED expired
    BY <1>3 DEF InsertDay
  <2>3. /\ reopened \subseteq reopened'
        /\ hot[d] # None => hot'[d] \in {hot[d], None}
        /\ hot[d] = None /\ hot'[d] # None /\ d \in cold => d \in reopened'
    BY <2>1, ConnectFacts
  <2>4. \A h \in Files : table[d][h] \subseteq table'[d][h]
    BY <2>1
  <2> QED
    BY <2>1, <2>2, <2>3, <2>4
<1>4. ASSUME NEW e \in Days, Expire(e)
      PROVE  UNCHANGED <<hot, table, stored, late, reopened>> /\ expired[d] \subseteq expired'[d]
  BY <1>4 DEF Expire, TypeOK
<1>5. ASSUME NEW e \in Days, RemoveHot(e)
      PROVE  UNCHANGED <<table, stored, late, expired, reopened>> /\ hot'[d] \in {hot[d], None}
  BY <1>5 DEF RemoveHot, TypeOK
<1>6. ASSUME NEW e \in Days, Attach(e) \/ AttachRefused(e)
      PROVE  UNCHANGED <<hot, table, stored, late, expired, reopened>>
  BY <1>6 DEF Attach, AttachRefused
<1>7. ASSUME Release \/ ProcessorEnds \/ StartArchive \/ Detach \/ WriteSidecar \/ EndArchive
             \/ Replace \/ JobCrash
      PROVE  UNCHANGED <<hot, table, stored, late, expired, reopened>>
  BY <1>7 DEF Release, ProcessorEnds, StartArchive, Detach, WriteSidecar, EndArchive, Replace,
              JobCrash
<1>8. ASSUME Unlink
      PROVE  UNCHANGED <<table, stored, late, expired, reopened>> /\ hot'[d] \in {hot[d], None}
  BY <1>8 DEF Unlink, TypeOK
<1> QED
  BY <1>1, <1>2, <1>3, <1>4, <1>5, <1>6, <1>7, <1>8, JobCases

LEMMA TwinNext == TypeOK /\ JobInv /\ TwinInv /\ [Next]_vars => TwinInv'
<1> SUFFICES ASSUME TypeOK, JobInv, TwinInv, [Next]_vars PROVE TwinInv'
  OBVIOUS
<1> USE DEF fileVars, processorVars, jobVars, historyVars
<1>1. ASSUME UNCHANGED parquet, cold' \subseteq cold PROVE TwinInv'
  <2> SUFFICES ASSUME NEW d \in cold', hot'[d] # None, d \notin reopened'
               PROVE  parquet[d] \subseteq table'[d][hot'[d]]
    BY <1>1 DEF TwinInv
  <2>1. d \in cold /\ d \in Days
    BY <1>1 DEF TypeOK
  <2>2. hot'[d] = hot[d] /\ hot[d] \in Files /\ d \notin reopened
    BY <2>1, OnlyGrows DEF TypeOK
  <2>3. table[d][hot[d]] \subseteq table'[d][hot[d]]
    BY <2>1, <2>2, OnlyGrows
  <2> QED
    BY <2>1, <2>2, <2>3 DEF TwinInv
<1>2. ASSUME NEW d \in Days, Expire(d) PROVE TwinInv'
  BY <1>2 DEF Expire, TypeOK, TwinInv
<1>3. ASSUME Replace PROVE TwinInv'
  BY <1>3 DEF Replace, JobInv, TypeOK, TwinInv
<1>4. ASSUME NEW d \in Days,
             Enqueue(d) \/ InsertDay(d) \/ RemoveHot(d) \/ Attach(d) \/ AttachRefused(d)
      PROVE  UNCHANGED <<parquet, cold>>
  BY <1>4 DEF Enqueue, InsertDay, RemoveHot, Attach, AttachRefused
<1>5. ASSUME Release \/ ProcessorEnds \/ StartArchive \/ Detach \/ WriteSidecar \/ EndArchive
             \/ Unlink \/ JobCrash
      PROVE  UNCHANGED <<parquet, cold>>
  BY <1>5 DEF Release, ProcessorEnds, StartArchive, Detach, WriteSidecar, EndArchive, Unlink,
              JobCrash
<1> QED
  BY <1>1, <1>2, <1>3, <1>4, <1>5, JobCases

\* A request in progress keeps what it is owed while others step.
LEMMA ServedWhileOthersStep ==
    ASSUME TypeOK, OpenedInv, RowsInv, [Next]_vars, NEW r \in Readers, Served(r),
           at'[r] = at[r], asked'[r] = asked[r], place'[r] = place[r], opened'[r] = opened[r],
           answer'[r] = answer[r], due'[r] = due[r]
    PROVE  Served(r)'
<1> DEFINE d == asked[r]
<1>1. d \in Days
  BY DEF TypeOK
<1>2. Bound(r)' => Bound(r)
  BY <1>1, OnlyGrows DEF Bound
<1>3. Owed(r)' \subseteq Owed(r)
  BY <1>1, OnlyGrows DEF Owed
<1>4. ASSUME at[r] # "idle" PROVE due[r] \subseteq stored[d] /\ due[r] \subseteq stored'[d]
  BY <1>1, <1>4, OnlyGrows DEF Served
<1>5. ASSUME at[r] # "idle", Bound(r)', hot'[d] # None
      PROVE  Owed(r)' \subseteq table'[d][hot'[d]]
  <2>1. CASE hot[d] # None
    <3>1. hot'[d] = hot[d] /\ hot[d] \in Files
      BY <1>1, <1>5, <2>1, OnlyGrows DEF TypeOK
    <3>2. table[d][hot[d]] \subseteq table'[d][hot[d]]
      BY <1>1, <3>1, OnlyGrows
    <3>3. Owed(r) \subseteq table[d][hot[d]]
      BY <1>2, <1>5, <2>1 DEF Served
    <3> QED
      BY <1>3, <3>1, <3>2, <3>3
  <2>2. CASE hot[d] = None
    <3>1. d \notin cold
      BY <1>1, <1>5, <2>2, OnlyGrows DEF Bound
    <3>2. stored[d] \subseteq late[d] \cup expired[d]
      BY <1>1, <2>2, <3>1 DEF RowsInv, RowsKept, Found, HotRows, ColdRows
    <3>3. due[r] \cap expired[d] = {}
      BY <1>2, <1>5 DEF Bound
    <3>4. Owed(r) = {}
      BY <1>4, <1>5, <3>2, <3>3 DEF Owed
    <3> QED
      BY <1>3, <3>4
  <2> QED
    BY <2>1, <2>2
<1>6. ASSUME at[r] = "attached", place[r] = "hot", Bound(r)'
      PROVE  Owed(r)' \subseteq table'[d][opened[r]]
  <2>1. opened[r] \in Files
    BY <1>6 DEF OpenedInv, TypeOK
  <2>2. table[d][opened[r]] \subseteq table'[d][opened[r]]
    BY <1>1, <2>1, OnlyGrows
  <2>3. Owed(r) \subseteq table[d][opened[r]]
    BY <1>2, <1>6 DEF Served
  <2> QED
    BY <1>3, <2>2, <2>3
<1>7. ASSUME at[r] = "answered", Bound(r)' PROVE Owed(r)' \subseteq answer[r]
  BY <1>2, <1>3, <1>7 DEF Served
<1>8. at[r] \in {"attached", "answered"} => place[r] # "none"
  BY DEF Served
<1> QED
  BY <1>4, <1>5, <1>6, <1>7, <1>8 DEF Served

LEMMA ReaderNext ==
    TypeOK /\ OpenedInv /\ RowsInv /\ TwinInv /\ ReaderInv /\ [Next]_vars => ReaderInv'
<1> SUFFICES ASSUME TypeOK, OpenedInv, RowsInv, TwinInv, ReaderInv, [Next]_vars,
                    NEW q \in Readers
             PROVE  Served(q)'
  BY DEF ReaderInv
<1> USE DEF fileVars, historyVars
<1>1. Served(q)
  BY DEF ReaderInv
<1>2. CASE UNCHANGED readerVars
  BY <1>1, <1>2, ServedWhileOthersStep DEF readerVars
<1>3. ASSUME NEW r \in Readers, r # q, ReaderStep(r) \/ \E d \in Days : ScanCold(r, d)
      PROVE  Served(q)'
  <2>1. /\ at'[q] = at[q] /\ asked'[q] = asked[q] /\ place'[q] = place[q]
        /\ opened'[q] = opened[q] /\ answer'[q] = answer[q] /\ due'[q] = due[q]
    BY <1>3 DEF ReaderStep, ScanCold, ScanHot, NotFound, AttachHot, Retry, OpenParquet, Fail,
                Answer, Close, Finish, TypeOK
  <2> QED
    BY <1>1, <2>1, ServedWhileOthersStep
<1>4. ASSUME NEW d \in Days, ScanCold(q, d) PROVE Served(q)'
  <2>1. /\ at'[q] = "scan" /\ asked'[q] = d /\ due'[q] = Found(d)
        /\ UNCHANGED <<hot, table, cold, parquet, stored, late, expired, reopened>>
    BY <1>4 DEF ScanCold, TypeOK
  <2>2. hot[d] # None => hot[d] \in Files
    BY DEF TypeOK
  <2>3. Found(d) \subseteq stored[d]
    BY <2>2 DEF Found, HotRows, ColdRows, RowsInv
  <2>4. hot[d] # None /\ d \notin reopened => Found(d) \subseteq table[d][hot[d]]
    BY DEF Found, HotRows, ColdRows, TwinInv
  <2> QED
    BY <2>1, <2>3, <2>4 DEF Served, Bound, Owed
<1>5. ASSUME ScanHot(q) PROVE Served(q)'
  BY <1>1, <1>5 DEF ScanHot, TypeOK, Served, Bound, Owed
<1>6. ASSUME Retry(q) PROVE Served(q)'
  BY <1>1, <1>6 DEF Retry, TypeOK, Served, Bound, Owed
<1>7. ASSUME AttachHot(q) PROVE Served(q)'
  BY <1>1, <1>7 DEF AttachHot, TypeOK, Served, Bound, Owed
<1>8. ASSUME OpenParquet(q) PROVE Served(q)'
  BY <1>1, <1>8 DEF OpenParquet, TypeOK, Served, Bound, Owed
<1>9. ASSUME Answer(q) PROVE Served(q)'
  <2> DEFINE d == asked[q]
  <2>1. /\ at[q] = "attached" /\ at'[q] = "answered" /\ d \in Days
        /\ asked'[q] = d /\ place'[q] = place[q] /\ due'[q] = due[q]
        /\ UNCHANGED <<hot, table, cold, parquet, stored, late, expired, reopened>>
        /\ answer'[q] = IF place[q] = "hot" THEN table[d][opened[q]] ELSE parquet[d]
        /\ place[q] = "cold" => d \in cold
    BY <1>9 DEF Answer, TypeOK
  <2>2. place[q] \in {"hot", "cold"}
    BY <1>1, <2>1 DEF Served, TypeOK
  <2>3. Bound(q) => Owed(q) \subseteq answer'[q]
    <3>1. CASE place[q] = "hot"
      BY <1>1, <2>1, <3>1 DEF Served
    <3>2. CASE place[q] = "cold"
      <4>1. stored[d] \subseteq parquet[d] \cup late[d] \cup expired[d]
        BY <2>1, <3>2 DEF RowsInv, Excused
      <4>2. due[q] \subseteq stored[d]
        BY <1>1, <2>1 DEF Served
      <4> QED
        BY <2>1, <3>2, <4>1, <4>2 DEF Bound, Owed
    <3> QED
      BY <2>2, <3>1, <3>2
  <2>4. (Bound(q)' <=> Bound(q)) /\ Owed(q)' = Owed(q)
    BY <2>1 DEF Bound, Owed
  <2> QED
    BY <1>1, <2>1, <2>2, <2>3, <2>4 DEF Served
<1>10. ASSUME Finish(q) PROVE Served(q)'
  BY <1>10 DEF Finish, TypeOK, Served
<1> QED
  BY <1>2, <1>3, <1>4, <1>5, <1>6, <1>7, <1>8, <1>9, <1>10, OthersLeaveReaders
     DEF ReaderStep, NotFound, Fail, Close

-----------------------------------------------------------------------------
(* Theorems *)

\* PartitionsIInv holds in every reachable state, whatever the order of steps of the
\* processor, both jobs and the readers, and wherever they are cut short.
THEOREM PartitionsInvariantHolds == Spec => []PartitionsIInv
<1>1. PartitionsIInv /\ [Next]_vars => PartitionsIInv'
  BY TypeNext, OpenedNext, JobNext, RowsNext, NamesNext, SidecarNext, TwinNext, ReaderNext
     DEF PartitionsIInv
<1> QED
  BY <1>1, InvInit, PTL DEF Spec

\* No crash of archive_day, at whatever step, and no order of its steps with those of the
\* processor loses a row that was stored in time.
THEOREM RowsAreKept == Spec => []RowsKept
<1>1. PartitionsIInv => RowsKept
  BY DEF PartitionsIInv, RowsInv
<1> QED
  BY <1>1, PartitionsInvariantHolds, PTL

\* A row is stored in the file whose dictionaries its ids belong to (_to_entry,
\* insert_batch, close).
THEOREM NamesStayTrue == Spec => []NamesFromOwnFile
<1>1. PartitionsIInv => NamesFromOwnFile
  BY DEF PartitionsIInv, NamesInv
<1> QED
  BY <1>1, PartitionsInvariantHolds, PTL

\* A Parquet file without the sidecar of its own hot file is one that the job is working on
\* or was killed over.
THEOREM SidecarsMatch == Spec => []SidecarMatches
<1>1. PartitionsIInv => SidecarMatches
  BY DEF PartitionsIInv
<1> QED
  BY <1>1, PartitionsInvariantHolds, PTL

\* A request that is answered while its day moves from hot to cold misses nothing that it
\* could have found when it began (list_all, open_for_query).
THEOREM AnswersAreComplete == Spec => []AnswersComplete
<1>1. PartitionsIInv => AnswersComplete
  BY DEF PartitionsIInv, ReaderInv, Served, Bound, Owed, AnswersComplete
<1> QED
  BY <1>1, PartitionsInvariantHolds, PTL
=============================================================================
