--------------------------- MODULE DailyJobsProofs ---------------------------
(***************************************************************************)
(* Proofs about DailyJobs: its types, the inductive invariant behind the   *)
(* alerts and the figures, and the properties that it carries.             *)
(***************************************************************************)
EXTENDS DailyJobs, TLAPS

-----------------------------------------------------------------------------
(* Types *)

LEMMA InitType == Init => TypeOK
BY DailyJobsAssumption DEF Init, TypeOK, Days, None, Recorded, Places, Inserters

LEMMA PlaceType == \A d \in Days : Place(d) \in Places
BY DEF Place, Places

\* Steps of the clock, the processor and retention.
LEMMA FileStepType ==
    ASSUME TypeOK, NEW d \in Days, NEW n \in Nat,
           NextDay \/ StoreRows(d, n) \/ Expire(d)
    PROVE  TypeOK'
<1>1. CASE NextDay
  BY <1>1, DailyJobsAssumption
  DEF TypeOK, NextDay, Recorded, fileVars, archiveVars, analysisVars, alertVars
<1>2. CASE StoreRows(d, n)
  <2>1. hot' \in [Days -> Nat \cup {None}]
    BY <1>2 DEF TypeOK, StoreRows, None
  <2>2. late' \subseteq Days /\ events' \in 0 .. MaxEvents
    BY <1>2, DailyJobsAssumption DEF TypeOK, StoreRows, Event
  <2> QED
    BY <1>2, <2>1, <2>2
    DEF TypeOK, StoreRows, Recorded, archiveVars, analysisVars, alertVars
<1>3. CASE Expire(d)
  BY <1>3 DEF TypeOK, Expire, Recorded, archiveVars, analysisVars, alertVars
<1> QED
  BY <1>1, <1>2, <1>3

LEMMA ArchiveStepType ==
    ASSUME TypeOK, StartArchive \/ ArchiveStep
    PROVE  TypeOK'
<1>1. CASE StartArchive
  BY <1>1 DEF TypeOK, StartArchive, Recorded, fileVars, analysisVars, alertVars
<1>2. CASE ListDays
  BY <1>2, PlaceType DEF TypeOK, ListDays, Recorded, fileVars, analysisVars, alertVars
<1>3. CASE EndArchive
  BY <1>3 DEF TypeOK, EndArchive, ArchiveEnds, Places, Recorded, fileVars, analysisVars, alertVars
<1>4. ASSUME NEW d \in Days, ArchiveDay(d) PROVE TypeOK'
  <2>1. hot' \in [Days -> Nat \cup {None}] /\ cold' \in [Days -> Nat \cup {None}]
    BY <1>4 DEF TypeOK, ArchiveDay
  <2> QED
    BY <1>4, <2>1 DEF TypeOK, ArchiveDay, Recorded, analysisVars, alertVars
<1>5. ASSUME NEW d \in Days, ArchiveCutShort(d) PROVE TypeOK'
  <2>1. cold' \in [Days -> Nat \cup {None}]
    BY <1>5 DEF TypeOK, ArchiveCutShort
  <2> QED
    BY <1>5, <2>1
    DEF TypeOK, ArchiveCutShort, ArchiveEnds, Places, Recorded, analysisVars, alertVars
<1>6. ASSUME NEW d \in Days, CountRows(d) PROVE TypeOK'
  <2>1. figure' \in Nat
    BY <1>6 DEF TypeOK, CountRows, RowsAt, Places
  <2> QED
    BY <1>6, <2>1 DEF TypeOK, CountRows, Recorded, fileVars, analysisVars, alertVars
<1>7. ASSUME NEW d \in Days, CountFails(d) PROVE TypeOK'
  BY <1>7 DEF TypeOK, CountFails, ArchiveEnds, Places, Recorded, fileVars, analysisVars, alertVars
<1>8. ASSUME NEW d \in Days, StoreFigure(d) PROVE TypeOK'
  <2>1. figure \in Nat /\ stats' \in [Days -> Nat \cup {None}]
    BY <1>8 DEF TypeOK, StoreFigure
  <2>2. Recorded(stats) \subseteq Recorded(stats')
    BY <1>8, <2>1 DEF TypeOK, StoreFigure, Recorded, None
  <2>3. todo' \in [Analysts -> SUBSET Recorded(stats')]
    BY <1>8, <2>2 DEF TypeOK, StoreFigure, analysisVars
  <2>4. archFound' \in [Days -> Places]
    BY <1>8 DEF TypeOK, StoreFigure, Places
  <2> QED
    BY <1>8, <2>1, <2>3, <2>4 DEF TypeOK, StoreFigure, fileVars, analysisVars, alertVars
<1> QED
  BY <1>1, <1>2, <1>3, <1>4, <1>5, <1>6, <1>7, <1>8 DEF ArchiveStep

\* What insert_alert leaves.
LEMMA InsertType ==
    ASSUME TypeOK, NEW p \in Inserters, NEW d \in Days, NEW k \in {"anomaly", "watchdog"},
           NEW unasked, InsertAlert(p, d, k, unasked)
    PROVE  /\ kind' \in [Days -> {"none", "anomaly", "watchdog"}]
           /\ acked' \in [Days -> BOOLEAN] /\ page' \in [Days -> {"none", "row", "gone"}]
           /\ unforced' \in [Days -> SUBSET Inserters]
<1>1. kind' \in [Days -> {"none", "anomaly", "watchdog"}] /\ acked' \in [Days -> BOOLEAN]
  BY DEF TypeOK, InsertAlert, AckedAfresh
<1>2. page' \in [Days -> {"none", "row", "gone"}]
  BY DEF TypeOK, InsertAlert
<1>3. unforced' \in [Days -> SUBSET Inserters]
  BY DEF TypeOK, InsertAlert
<1> QED
  BY <1>1, <1>2, <1>3

LEMMA AnalysisStepType ==
    ASSUME TypeOK, NEW a \in Analysts,
           \/ \E d \in Days \cup {None}, f \in BOOLEAN : StartAnalysis(a, d, f)
           \/ AnalysisStep(a)
    PROVE  TypeOK'
<1>1. ASSUME NEW d \in Days \cup {None}, NEW f \in BOOLEAN, StartAnalysis(a, d, f)
      PROVE  TypeOK'
  <2>1. events' \in 0 .. MaxEvents
    BY <1>1, DailyJobsAssumption DEF TypeOK, StartAnalysis, Event
  <2>2. found' \in [Analysts -> [Days -> Places]]
    BY <1>1 DEF TypeOK, StartAnalysis, Places
  <2>3. at' \in [Analysts -> {"off", "scan", "stats", "look", "open", "insert"}]
        /\ only' \in [Analysts -> Days \cup {None}] /\ force' \in [Analysts -> BOOLEAN]
    BY <1>1 DEF TypeOK, StartAnalysis
  <2> QED
    BY <1>1, <2>1, <2>2, <2>3
    DEF TypeOK, StartAnalysis, Recorded, fileVars, archiveVars, alertVars
<1>2. CASE ScanHot(a)
  <2>1. found' \in [Analysts -> [Days -> Places]]
    BY <1>2 DEF TypeOK, ScanHot, Places
  <2> QED
    BY <1>2, <2>1 DEF TypeOK, ScanHot, Recorded, fileVars, archiveVars, alertVars
<1>3. CASE ReadStats(a)
  <2>1. Anomalies(stats) \subseteq Recorded(stats)
    BY DEF Anomalies, Anomalous, Recorded
  <2>2. Known(a) \subseteq Recorded(stats)
    BY DEF Known
  <2>3. todo' \in [Analysts -> SUBSET Recorded(stats)]
    BY <1>3, <2>1, <2>2 DEF TypeOK, ReadStats
  <2>4. found' \in [Analysts -> [Days -> Places]]
    BY <1>3 DEF TypeOK, ReadStats, Places
  <2>5. at' \in [Analysts -> {"off", "scan", "stats", "look", "open", "insert"}]
        /\ only' \in [Analysts -> Days \cup {None}]
    BY <1>3 DEF TypeOK, ReadStats
  <2> QED
    BY <1>3, <2>3, <2>4, <2>5
    DEF TypeOK, ReadStats, Recorded, fileVars, archiveVars, alertVars
<1>4. ASSUME AnalysisEnds(a),
             UNCHANGED <<today, events, fileVars, stats, archiveVars, watched, alertVars>>
      PROVE  TypeOK'
  <2>1. found' \in [Analysts -> [Days -> Places]]
    BY <1>4 DEF TypeOK, AnalysisEnds, Places
  <2>2. todo' \in [Analysts -> SUBSET Recorded(stats)]
    BY <1>4 DEF TypeOK, AnalysisEnds
  <2>3. at' \in [Analysts -> {"off", "scan", "stats", "look", "open", "insert"}]
        /\ only' \in [Analysts -> Days \cup {None}] /\ force' \in [Analysts -> BOOLEAN]
    BY <1>4 DEF TypeOK, AnalysisEnds
  <2> QED
    BY <1>4, <2>1, <2>2, <2>3 DEF TypeOK, Recorded, fileVars, archiveVars, alertVars
<1>5. ASSUME NEW d \in Days, Skip(a, d) PROVE TypeOK'
  <2>1. found' \in [Analysts -> [Days -> Places]] /\ todo' \in [Analysts -> SUBSET Recorded(stats)]
    BY <1>5 DEF TypeOK, Skip, Places
  <2> QED
    BY <1>5, <2>1 DEF TypeOK, Skip, Recorded, fileVars, archiveVars, alertVars
<1>6. ASSUME NEW d \in Days, Look(a, d) \/ Open(a, d) PROVE TypeOK'
  BY <1>6 DEF TypeOK, Look, Open, Recorded, fileVars, archiveVars, alertVars
<1>7. ASSUME NEW d \in Days, Insert(a, d) PROVE TypeOK'
  <2>1. found' \in [Analysts -> [Days -> Places]] /\ todo' \in [Analysts -> SUBSET Recorded(stats)]
    BY <1>7 DEF TypeOK, Insert, Places
  <2>2. InsertAlert(a, d, "anomaly", ~force[a]) /\ a \in Inserters
    BY <1>7 DEF Insert, Inserters
  <2>3. /\ kind' \in [Days -> {"none", "anomaly", "watchdog"}]
        /\ acked' \in [Days -> BOOLEAN] /\ page' \in [Days -> {"none", "row", "gone"}]
        /\ unforced' \in [Days -> SUBSET Inserters]
    BY <2>2, InsertType
  <2> QED
    BY <1>7, <2>1, <2>3 DEF TypeOK, Insert, Recorded, fileVars, archiveVars
<1> QED
  BY <1>1, <1>2, <1>3, <1>4, <1>5, <1>6, <1>7 DEF AnalysisStep, OpenFails, EndAnalysis

\* Steps of the watchdog and the administrator.
LEMMA OtherStepType ==
    ASSUME TypeOK, NEW d \in Days,
           WatchLook \/ WatchInsert \/ OpenPage \/ Acknowledge(d)
    PROVE  TypeOK'
<1>1. CASE WatchLook
  BY <1>1, DailyJobsAssumption
  DEF TypeOK, WatchLook, Event, Recorded, fileVars, archiveVars, analysisVars, alertVars
<1>2. CASE WatchInsert
  <2>1. InsertAlert(Watchdog, watched, "watchdog", TRUE)
        /\ Watchdog \in Inserters /\ watched \in Days
    BY <1>2 DEF TypeOK, WatchInsert, Inserters
  <2>2. /\ kind' \in [Days -> {"none", "anomaly", "watchdog"}]
        /\ acked' \in [Days -> BOOLEAN] /\ page' \in [Days -> {"none", "row", "gone"}]
        /\ unforced' \in [Days -> SUBSET Inserters]
    BY <2>1, InsertType
  <2> QED
    BY <1>2, <2>2 DEF TypeOK, WatchInsert, Recorded, fileVars, archiveVars, analysisVars
<1>3. CASE OpenPage
  BY <1>3, DailyJobsAssumption
  DEF TypeOK, OpenPage, Event, Recorded, fileVars, archiveVars, analysisVars
<1>4. CASE Acknowledge(d)
  BY <1>4 DEF TypeOK, Acknowledge, Recorded, fileVars, archiveVars, analysisVars
<1> QED
  BY <1>1, <1>2, <1>3, <1>4

LEMMA StutterType == TypeOK /\ UNCHANGED vars => TypeOK'
BY DEF TypeOK, vars, Recorded, fileVars, archiveVars, analysisVars, alertVars

LEMMA AmountsNat == Amounts \subseteq Nat
BY DailyJobsAssumption

LEMMA StepType == TypeOK /\ [Next]_vars => TypeOK'
<1> SUFFICES ASSUME TypeOK, [Next]_vars PROVE TypeOK'
  OBVIOUS
<1>1. 0 \in Days /\ 0 \in Nat
  BY DailyJobsAssumption DEF Days
<1> QED
  BY <1>1, AmountsNat, FileStepType, ArchiveStepType, AnalysisStepType, OtherStepType, StutterType
  DEF Next

\* Every figure that is stored is a number, and candidates of an analysis are recorded days,
\* whatever is archived, expired or asked for by hand meanwhile.
THEOREM TypeCorrect == Spec => []TypeOK
BY InitType, StepType, PTL DEF Spec

-----------------------------------------------------------------------------
(* The alerts *)

\* What an insertion does to the row, the page and the history.
LEMMA InsertFacts ==
    ASSUME TypeOK, AlertsThere, NEW p \in Inserters, NEW d \in Days,
           NEW k \in {"anomaly", "watchdog"}, NEW unasked, InsertAlert(p, d, k, unasked)
    PROVE  /\ AlertsThere'
           /\ \A e \in Days \ {d} : acked'[e] = acked[e] /\ page'[e] = page[e]
                                    /\ unforced'[e] = unforced[e]
           /\ ~acked'[d]
           /\ unforced'[d] \subseteq unforced[d] \cup {p}
           /\ page'[d] # "row"
<1>1. /\ kind'[d] # "none"
      /\ \A e \in Days \ {d} : kind'[e] = kind[e] /\ acked'[e] = acked[e] /\ page'[e] = page[e]
  BY DEF TypeOK, InsertAlert
<1>2. \A e \in Days \ {d} : unforced'[e] = unforced[e]
  BY DEF TypeOK, InsertAlert
<1>3. unforced'[d] \subseteq unforced[d] \cup {p}
  BY DEF TypeOK, InsertAlert
<1>4. ~acked'[d]
  BY DEF TypeOK, InsertAlert, AckedAfresh
<1>5. page'[d] # "row"
  BY DEF TypeOK, InsertAlert
<1>6. AlertsThere'
  BY <1>1, <1>2 DEF AlertsThere, Exists
<1> QED
  BY <1>1, <1>2, <1>3, <1>4, <1>5, <1>6

AlertsInv == AlertsThere /\ OncePerDay /\ AckedWasSeen

LEMMA InitAlerts == Init => AlertsInv
BY DEF Init, AlertsInv, AlertsThere, OncePerDay, AckedWasSeen, None

\* Steps that keep the alerts and let no analysis come to open or to insert.
LEMMA QuietAlerts ==
    ASSUME TypeOK, AlertsInv, UNCHANGED <<alertVars, watched>>,
           \A a \in Analysts : at'[a] \in {"open", "insert"}
                               => at[a] \in {"open", "insert"} /\ force'[a] = force[a]
                                  /\ todo'[a] = todo[a]
    PROVE  AlertsInv'
<1>1. AlertsThere' /\ AckedWasSeen'
  BY DEF AlertsInv, AlertsThere, AckedWasSeen, Exists, alertVars
<1>2. OncePerDay'
  BY DEF AlertsInv, OncePerDay, IsFirst, alertVars
<1> QED
  BY <1>1, <1>2 DEF AlertsInv

\* Steps that insert: d is the day, and p, who is not going to insert it again.
LEMMA InsertAlerts ==
    ASSUME TypeOK, AlertsInv, NEW p \in Inserters, NEW d \in Days,
           NEW k \in {"anomaly", "watchdog"}, NEW unasked, InsertAlert(p, d, k, unasked),
           \A a \in Analysts : at'[a] \in {"open", "insert"}
                               => /\ a # p /\ at[a] \in {"open", "insert"}
                                  /\ force'[a] = force[a] /\ todo'[a] = todo[a],
           watched' # None => p # Watchdog /\ watched' = watched
    PROVE  AlertsInv'
<1>1. AlertsThere /\ OncePerDay /\ AckedWasSeen
  BY DEF AlertsInv
<1>2. /\ AlertsThere'
      /\ \A e \in Days \ {d} : acked'[e] = acked[e] /\ page'[e] = page[e]
                               /\ unforced'[e] = unforced[e]
      /\ ~acked'[d]
      /\ unforced'[d] \subseteq unforced[d] \cup {p}
  BY <1>1, InsertFacts
<1>3. AckedWasSeen'
  BY <1>1, <1>2 DEF AckedWasSeen
<1>4. ASSUME NEW a \in Analysts, NEW e \in Days, at'[a] \in {"open", "insert"},
             IsFirst(e, todo'[a]), ~force'[a]
      PROVE  a \notin unforced'[e]
  <2>1. a \notin unforced[e] /\ a # p
    BY <1>1, <1>4 DEF OncePerDay
  <2> QED
    BY <1>2, <2>1
<1>5. watched' # None => Watchdog \notin unforced'[watched']
  <2>1. SUFFICES ASSUME watched' # None PROVE Watchdog \notin unforced'[watched']
    OBVIOUS
  <2>2. watched \in Days /\ watched' = watched /\ p # Watchdog /\ watched # None
    BY <2>1 DEF TypeOK
  <2>3. Watchdog \notin unforced[watched]
    BY <1>1, <2>2 DEF OncePerDay
  <2> QED
    BY <1>2, <2>2, <2>3
<1>6. OncePerDay'
  BY <1>4, <1>5 DEF OncePerDay, IsFirst
<1> QED
  BY <1>2, <1>3, <1>6 DEF AlertsInv

LEMMA AnalysisAlerts ==
    ASSUME TypeOK, AlertsInv, NEW a \in Analysts,
           \/ \E d \in Days \cup {None}, f \in BOOLEAN : StartAnalysis(a, d, f)
           \/ AnalysisStep(a)
    PROVE  AlertsInv'
<1>1. ASSUME NEW d \in Days \cup {None}, NEW f \in BOOLEAN, StartAnalysis(a, d, f)
      PROVE  AlertsInv'
  <2>1. at'[a] = "scan" /\ \A b \in Analysts \ {a} : at'[b] = at[b] /\ force'[b] = force[b]
    BY <1>1 DEF TypeOK, StartAnalysis
  <2>2. todo' = todo /\ UNCHANGED <<alertVars, watched>>
    BY <1>1 DEF StartAnalysis
  <2> QED
    BY <2>1, <2>2, QuietAlerts
<1>2. ASSUME ScanHot(a) \/ ReadStats(a) PROVE AlertsInv'
  <2>1. at'[a] \in {"stats", "look"} /\ \A b \in Analysts \ {a} : at'[b] = at[b]
    BY <1>2 DEF TypeOK, ScanHot, ReadStats
  <2>2. \A b \in Analysts \ {a} : todo'[b] = todo[b]
    BY <1>2 DEF TypeOK, ScanHot, ReadStats
  <2>3. force' = force /\ UNCHANGED <<alertVars, watched>>
    BY <1>2 DEF ScanHot, ReadStats
  <2> QED
    BY <2>1, <2>2, <2>3, QuietAlerts
<1>3. ASSUME AnalysisEnds(a), UNCHANGED <<alertVars, watched>> PROVE AlertsInv'
  <2>1. at'[a] = "off"
        /\ \A b \in Analysts \ {a} : at'[b] = at[b] /\ force'[b] = force[b] /\ todo'[b] = todo[b]
    BY <1>3 DEF TypeOK, AnalysisEnds
  <2> QED
    BY <1>3, <2>1, QuietAlerts
<1>4. ASSUME NEW d \in Days, Skip(a, d) PROVE AlertsInv'
  <2>1. at' = at /\ at[a] = "look" /\ \A b \in Analysts \ {a} : todo'[b] = todo[b]
    BY <1>4 DEF TypeOK, Skip
  <2>2. force' = force /\ UNCHANGED <<alertVars, watched>>
    BY <1>4 DEF Skip
  <2> QED
    BY <2>1, <2>2, QuietAlerts
<1>5. ASSUME NEW d \in Days, Look(a, d) PROVE AlertsInv'
  <2>1. at'[a] = "open" /\ \A b \in Analysts \ {a} : at'[b] = at[b]
    BY <1>5 DEF TypeOK, Look
  <2>2. todo' = todo /\ force' = force /\ UNCHANGED <<alertVars, watched>>
    BY <1>5 DEF Look
  <2>3. AlertsThere' /\ AckedWasSeen'
    BY <2>2 DEF AlertsInv, AlertsThere, AckedWasSeen, Exists, alertVars
  <2>4. IsFirst(d, todo[a]) /\ (force[a] \/ unforced[d] = {})
    BY <1>5 DEF Look, Passed, AlertsInv, AlertsThere
  <2>5. \A e \in Days : IsFirst(e, todo[a]) => e = d
    BY <2>4 DEF IsFirst, Days
  <2>6. OncePerDay'
    BY <2>1, <2>2, <2>4, <2>5 DEF AlertsInv, OncePerDay, IsFirst, alertVars
  <2> QED
    BY <2>3, <2>6 DEF AlertsInv
<1>6. ASSUME NEW d \in Days, Open(a, d) PROVE AlertsInv'
  <2>1. at[a] = "open" /\ \A b \in Analysts \ {a} : at'[b] = at[b]
    BY <1>6 DEF TypeOK, Open
  <2>2. todo' = todo /\ force' = force /\ UNCHANGED <<alertVars, watched>>
    BY <1>6 DEF Open
  <2> QED
    BY <2>1, <2>2, QuietAlerts
<1>7. ASSUME NEW d \in Days, Insert(a, d) PROVE AlertsInv'
  <2>1. at'[a] = "look"
        /\ \A b \in Analysts \ {a} : at'[b] = at[b] /\ todo'[b] = todo[b]
    BY <1>7 DEF TypeOK, Insert
  <2>2. force' = force /\ watched' = watched /\ InsertAlert(a, d, "anomaly", ~force[a])
    BY <1>7 DEF Insert
  <2>3. a \in Inserters /\ a # Watchdog
    BY DailyJobsAssumption DEF Inserters, Watchdog
  <2> HIDE DEF Watchdog
  <2>4. \A b \in Analysts : at'[b] \in {"open", "insert"}
                            => /\ b # a /\ at[b] \in {"open", "insert"}
                               /\ force'[b] = force[b] /\ todo'[b] = todo[b]
    BY <2>1, <2>2
  <2> QED
    BY <2>2, <2>3, <2>4, InsertAlerts
<1> QED
  BY <1>1, <1>2, <1>3, <1>4, <1>5, <1>6, <1>7 DEF AnalysisStep, OpenFails, EndAnalysis

LEMMA OtherAlerts ==
    ASSUME TypeOK, AlertsInv, NEW d \in Days,
           WatchLook \/ WatchInsert \/ OpenPage \/ Acknowledge(d)
    PROVE  AlertsInv'
<1>1. CASE WatchLook
  <2>1. watched' = today /\ today \in Days /\ unforced[today] = {}
    BY <1>1 DEF WatchLook, AlertsInv, AlertsThere
  <2>2. UNCHANGED <<analysisVars, alertVars>>
    BY <1>1 DEF WatchLook
  <2>3. AlertsThere' /\ AckedWasSeen'
    BY <2>2 DEF AlertsInv, AlertsThere, AckedWasSeen, Exists, alertVars
  <2>4. OncePerDay'
    BY <2>1, <2>2 DEF AlertsInv, OncePerDay, IsFirst, analysisVars, alertVars
  <2> QED
    BY <2>3, <2>4 DEF AlertsInv
<1>2. CASE WatchInsert
  <2>1. watched \in Days /\ watched' = None /\ InsertAlert(Watchdog, watched, "watchdog", TRUE)
    BY <1>2 DEF TypeOK, WatchInsert
  <2>2. UNCHANGED analysisVars /\ Watchdog \in Inserters
    BY <1>2 DEF WatchInsert, Inserters
  <2>3. \A a \in Analysts : a # Watchdog
    BY DailyJobsAssumption DEF Watchdog
  <2>4. \A a \in Analysts : at'[a] \in {"open", "insert"}
                            => /\ a # Watchdog /\ at[a] \in {"open", "insert"}
                               /\ force'[a] = force[a] /\ todo'[a] = todo[a]
    BY <2>2, <2>3 DEF analysisVars
  <2> QED
    BY <2>1, <2>2, <2>4, InsertAlerts
<1>3. CASE OpenPage
  <2>1. /\ UNCHANGED <<analysisVars, watched, kind, acked, unforced>>
        /\ \A e \in Days : page'[e] = IF Exists(e) THEN "row" ELSE "none"
    BY <1>3 DEF OpenPage
  <2>2. AlertsThere'
    BY <2>1 DEF AlertsInv, AlertsThere, Exists
  <2>3. AckedWasSeen'
    BY <2>1 DEF AlertsInv, AlertsThere, AckedWasSeen
  <2>4. OncePerDay'
    BY <2>1 DEF AlertsInv, OncePerDay, IsFirst, analysisVars
  <2> QED
    BY <2>2, <2>3, <2>4 DEF AlertsInv
<1>4. CASE Acknowledge(d)
  <2>1. /\ UNCHANGED <<analysisVars, watched, kind, page, unforced>>
        /\ page[d] = "row" /\ acked' = [acked EXCEPT ![d] = TRUE]
    BY <1>4 DEF Acknowledge
  <2>2. AlertsThere'
    BY <2>1 DEF AlertsInv, AlertsThere, Exists
  <2>3. AckedWasSeen'
    BY <2>1 DEF TypeOK, AlertsInv, AckedWasSeen
  <2>4. OncePerDay'
    BY <2>1 DEF AlertsInv, OncePerDay, IsFirst, analysisVars
  <2> QED
    BY <2>2, <2>3, <2>4 DEF AlertsInv
<1> QED
  BY <1>1, <1>2, <1>3, <1>4

\* Nobody else touches the alerts and the analyses.
LEMMA ApartAlerts ==
    ASSUME TypeOK, AlertsInv, UNCHANGED <<analysisVars, watched, alertVars>>
    PROVE  AlertsInv'
BY QuietAlerts DEF analysisVars

LEMMA FilesApart ==
    ASSUME NEW d, NEW n,
           \/ NextDay \/ StoreRows(d, n) \/ Expire(d) \/ StartArchive \/ ArchiveStep
    PROVE  UNCHANGED <<analysisVars, watched, alertVars>>
BY DEF NextDay, StoreRows, Expire, StartArchive, ArchiveStep, ArchiveDay, ArchiveCutShort, ListDays,
       CountRows, CountFails, StoreFigure, EndArchive

LEMMA StepAlerts == TypeOK /\ AlertsInv /\ [Next]_vars => AlertsInv'
<1> SUFFICES ASSUME TypeOK, AlertsInv, [Next]_vars PROVE AlertsInv'
  OBVIOUS
<1>1. ASSUME NEW d \in Days, NEW n \in Amounts,
             NextDay \/ StoreRows(d, n) \/ Expire(d) \/ StartArchive \/ ArchiveStep
      PROVE  AlertsInv'
  BY <1>1, FilesApart, ApartAlerts
<1>2. ASSUME NEW d \in Days, Expire(d) \/ NextDay \/ StartArchive \/ ArchiveStep PROVE AlertsInv'
  BY <1>2, FilesApart, ApartAlerts
<1>3. CASE UNCHANGED vars
  BY <1>3, ApartAlerts DEF vars
<1>4. 0 \in Days
  BY DailyJobsAssumption DEF Days
<1> QED
  BY <1>1, <1>2, <1>3, <1>4, AnalysisAlerts, OtherAlerts DEF Next

THEOREM AlertsInvariant == Spec => []AlertsInv
BY InitType, StepType, InitAlerts, StepAlerts, PTL DEF Spec

\* Whoever looks for an alert before inserting one inserts at most one for a day, for any
\* number of analyses in progress together.
THEOREM OncePerDayHolds == Spec => []OncePerDay
BY AlertsInvariant, PTL DEF AlertsInv

\* An acknowledgement is never carried over to a row that the administrator has not seen.
THEOREM AckedWasSeenHolds == Spec => []AckedWasSeen
BY AlertsInvariant, PTL DEF AlertsInv

-----------------------------------------------------------------------------
(* The figures *)

FiguresInv == OldMoved /\ FiguresBelow

LEMMA InitFigures == Init => FiguresInv
BY DailyJobsAssumption
DEF Init, FiguresInv, OldMoved, FiguresBelow, Storing, Place, Rows, Days, None

LEMMA FirstUnique ==
    ASSUME NEW S, NEW d \in Days, NEW e \in Days, IsFirst(d, S), IsFirst(e, S)
    PROVE  d = e
BY DEF IsFirst, Days

\* What is known of a day without late records; its primed form is what a step has to show.
FigureOf(d) ==
    /\ hot[d] # None /\ cold[d] # None => hot[d] = cold[d]
    /\ Place(d) # "none" => stats[d] <= Rows(d)
    /\ Place(d) = "none" /\ stats[d] # None => Old(d)
    /\ Storing(d) => /\ stats[d] <= figure
                     /\ Place(d) # "none" => figure <= Rows(d)
                     /\ Place(d) = "none" => Old(d)

\* A day stays old.
LEMMA Later ==
    ASSUME NEW t \in Int, NEW u \in Int, NEW d \in Int, NEW h \in Int, t <= u, t - d > h
    PROVE  u - d > h
OBVIOUS

LEMMA OldStays ==
    ASSUME TypeOK, NEW d \in Days, today' \in Int, today <= today', Old(d)
    PROVE  Old(d)'
<1>1. d \in Int /\ today \in Int /\ HotRetention \in Int
  BY DailyJobsAssumption DEF TypeOK, Days
<1>2. today - d > HotRetention
  BY DEF Old
<1>3. today' - d > HotRetention
  BY <1>1, <1>2, Later
<1> QED
  BY <1>3 DEF Old

\* Steps that touch neither files nor figures.
LEMMA QuietFigures ==
    ASSUME TypeOK, FiguresInv, today' \in Int, today <= today',
           UNCHANGED <<fileVars, stats, archiveVars>>
    PROVE  FiguresInv'
<1>1. OldMoved'
  BY OldStays DEF FiguresInv, OldMoved, fileVars, archiveVars
<1>2. ASSUME NEW d \in Days \ late' PROVE FigureOf(d)'
  <2>1. d \in Days \ late /\ FigureOf(d)
    BY <1>2 DEF FiguresInv, FiguresBelow, FigureOf, fileVars
  <2>2. /\ Place(d)' = Place(d) /\ Rows(d)' = Rows(d) /\ (Storing(d)' <=> Storing(d))
        /\ stats' = stats /\ figure' = figure /\ hot' = hot /\ cold' = cold
    BY DEF Place, Rows, Storing, IsFirst, fileVars, archiveVars
  <2> QED
    BY <2>1, <2>2, OldStays DEF FigureOf
<1> QED
  BY <1>1, <1>2 DEF FiguresInv, FiguresBelow, FigureOf

LEMMA StoreFigures ==
    ASSUME TypeOK, FiguresInv, NEW d \in Days, NEW n \in Nat, StoreRows(d, n)
    PROVE  FiguresInv'
<1>1. /\ hot' = [hot EXCEPT ![d] = IF hot[d] = None THEN n ELSE hot[d] + n]
      /\ late' = IF Old(d) THEN late \cup {d} ELSE late
      /\ UNCHANGED <<today, cold, stats, archiveVars>>
  BY DEF StoreRows, Old
<1>2. hot'[d] \in Nat /\ hot'[d] # None /\ (hot[d] # None => hot[d] <= hot'[d])
  BY <1>1 DEF TypeOK, None
<1>3. \A e \in Days \ {d} : hot'[e] = hot[e]
  BY <1>1 DEF TypeOK
<1>4. OldMoved'
  BY <1>1, <1>2, <1>3 DEF FiguresInv, OldMoved, Old, archiveVars
<1>5. ASSUME NEW e \in Days \ late' PROVE FigureOf(e)'
  <2>1. e \in Days \ late /\ FigureOf(e)
    BY <1>1, <1>5 DEF FiguresInv, FiguresBelow, FigureOf
  <2>2. CASE e # d
    BY <1>1, <1>3, <2>1, <2>2
    DEF FigureOf, Place, Rows, Storing, IsFirst, Old, archiveVars
  <2>3. CASE e = d
    <3>1. ~Old(d) /\ cold[d] = None
      BY <1>1, <1>5, <2>3 DEF FiguresInv, OldMoved
    <3>2. Place(d)' = "hot" /\ Rows(d)' = hot'[d]
      BY <1>2 DEF Place, Rows
    <3>3. CASE hot[d] = None
      <4>1. stats[d] = None /\ ~Storing(d)
        BY <2>1, <2>3, <3>1, <3>3 DEF FigureOf, Place
      <4>2. stats'[d] <= hot'[d] /\ ~Storing(d)'
        BY <1>1, <1>2, <4>1 DEF None, Storing, IsFirst, archiveVars
      <4> QED
        BY <1>1, <2>3, <3>1, <3>2, <4>2 DEF FigureOf
    <3>4. CASE hot[d] # None
      <4>1. Place(d) = "hot" /\ Rows(d) = hot[d]
        BY <3>4 DEF Place, Rows
      <4>2. stats[d] <= hot[d] /\ (Storing(d) => stats[d] <= figure /\ figure <= hot[d])
        BY <2>1, <2>3, <4>1 DEF FigureOf
      <4>3. (Storing(d)' <=> Storing(d)) /\ figure' = figure /\ stats' = stats
        BY <1>1 DEF Storing, IsFirst, archiveVars
      <4>4. stats[d] \in Int /\ hot[d] \in Int /\ hot'[d] \in Int /\ figure \in Int
        BY <1>2 DEF TypeOK, None
      <4>5. stats[d] <= hot'[d] /\ (Storing(d) => figure <= hot'[d])
        BY <1>2, <3>4, <4>2, <4>4
      <4> QED
        BY <1>1, <2>3, <3>1, <3>2, <4>2, <4>3, <4>5 DEF FigureOf
    <3> QED
      BY <3>3, <3>4
  <2> QED
    BY <2>2, <2>3
<1> QED
  BY <1>4, <1>5 DEF FiguresInv, FiguresBelow, FigureOf

LEMMA ExpireFigures ==
    ASSUME TypeOK, FiguresInv, NEW d \in Days, Expire(d)
    PROVE  FiguresInv'
<1>1. /\ cold' = [cold EXCEPT ![d] = None] /\ Old(d) /\ cold[d] # None
      /\ UNCHANGED <<today, hot, late, stats, archiveVars>>
  BY DEF Expire, FiguresInv, OldMoved
<1>2. cold'[d] = None /\ \A e \in Days \ {d} : cold'[e] = cold[e]
  BY <1>1 DEF TypeOK
<1>3. OldMoved'
  BY <1>1, <1>2 DEF FiguresInv, OldMoved, Old, archiveVars
<1>4. ASSUME NEW e \in Days \ late' PROVE FigureOf(e)'
  <2>1. e \in Days \ late /\ FigureOf(e)
    BY <1>1, <1>4 DEF FiguresInv, FiguresBelow, FigureOf
  <2>2. (Storing(e)' <=> Storing(e)) /\ figure' = figure /\ stats' = stats /\ hot' = hot
        /\ (Old(e)' <=> Old(e))
    BY <1>1 DEF Storing, IsFirst, Old, archiveVars
  <2>3. CASE e # d
    <3>1. Place(e)' = Place(e) /\ Rows(e)' = Rows(e) /\ cold'[e] = cold[e]
      BY <1>1, <1>2, <2>3 DEF Place, Rows
    <3> QED
      BY <2>1, <2>2, <3>1 DEF FigureOf
  <2>4. CASE e = d /\ hot[d] # None
    <3>1. Place(e) = "hot" /\ Rows(e) = hot[e] /\ Place(e)' = "hot" /\ Rows(e)' = hot[e]
      BY <1>1, <2>4 DEF Place, Rows
    <3> QED
      BY <1>2, <2>1, <2>2, <2>4, <3>1 DEF FigureOf
  <2>5. CASE e = d /\ hot[d] = None
    <3>1. Place(e)' = "none" /\ Place(e) = "cold" /\ Old(e)
      BY <1>1, <1>2, <2>5 DEF Place
    <3> QED
      BY <1>1, <1>2, <2>1, <2>2, <2>5, <3>1 DEF FigureOf
  <2> QED
    BY <2>3, <2>4, <2>5
<1> QED
  BY <1>3, <1>4 DEF FiguresInv, FiguresBelow, FigureOf

\* Steps of the archive job that leave every day with the rows it had and store no figure.
LEMMA MoveFigures ==
    ASSUME TypeOK, FiguresInv, OldMoved', UNCHANGED <<today, late, stats>>, archAt' # "store",
           \A d \in Days \ late : /\ Place(d)' = "none" <=> Place(d) = "none"
                                  /\ Rows(d)' = Rows(d)
                                  /\ hot'[d] # None /\ cold'[d] # None => hot'[d] = cold'[d]
    PROVE  FiguresInv'
<1>1. ASSUME NEW d \in Days \ late' PROVE FigureOf(d)'
  <2>1. d \in Days \ late /\ FigureOf(d) /\ ~Storing(d)'
    BY <1>1 DEF FiguresInv, FiguresBelow, FigureOf, Storing
  <2> QED
    BY <2>1 DEF FigureOf, Old
<1> QED
  BY <1>1 DEF FiguresInv, FiguresBelow, FigureOf

LEMMA ArchiveDayFigures ==
    ASSUME TypeOK, FiguresInv, NEW d \in Days, ArchiveDay(d) \/ ArchiveCutShort(d)
    PROVE  FiguresInv'
<1>1. /\ archAt = "move" /\ d \in archTodo /\ hot[d] # None /\ Old(d)
      /\ UNCHANGED <<today, late, stats>>
  BY DEF ArchiveDay, ArchiveCutShort, FiguresInv, OldMoved
<1>2. /\ hot'[d] = hot[d] \/ (hot'[d] = None /\ cold'[d] # None)
      /\ cold'[d] = cold[d] \/ (cold[d] = None /\ cold'[d] = hot[d])
      /\ \A e \in Days \ {d} : hot'[e] = hot[e] /\ cold'[e] = cold[e]
  BY <1>1 DEF TypeOK, ArchiveDay, ArchiveCutShort
<1>3. archAt' \in {"move", "off"} /\ archTodo' \subseteq archTodo \ {d}
  BY <1>1 DEF ArchiveDay, ArchiveCutShort, ArchiveEnds
<1>4. OldMoved'
  BY <1>1, <1>2, <1>3 DEF FiguresInv, OldMoved, Old
<1>5. ASSUME NEW e \in Days \ late
      PROVE  /\ Place(e)' = "none" <=> Place(e) = "none"
             /\ Rows(e)' = Rows(e)
             /\ hot'[e] # None /\ cold'[e] # None => hot'[e] = cold'[e]
  <2>1. hot[e] # None /\ cold[e] # None => hot[e] = cold[e]
    BY <1>5 DEF FiguresInv, FiguresBelow
  <2>2. CASE e # d
    BY <1>2, <2>1, <2>2 DEF Place, Rows
  <2>3. CASE e = d
    BY <1>1, <1>2, <2>1, <2>3 DEF Place, Rows
  <2> QED
    BY <2>2, <2>3
<1> QED
  BY <1>1, <1>3, <1>4, <1>5, MoveFigures

LEMMA ControlFigures ==
    ASSUME TypeOK, FiguresInv,
           StartArchive \/ ListDays \/ EndArchive \/ \E d \in Days : CountFails(d)
    PROVE  FiguresInv'
<1>1. UNCHANGED <<today, fileVars, stats>> /\ archAt' # "store"
  BY DEF StartArchive, ListDays, EndArchive, CountFails, ArchiveEnds
<1>2. OldMoved'
  <2>1. archAt' = "move" => archTodo' = {d \in Days : hot[d] # None /\ Old(d)}
    BY DEF StartArchive, ListDays, EndArchive, CountFails, ArchiveEnds
  <2> QED
    BY <1>1, <2>1 DEF FiguresInv, OldMoved, Old, fileVars
<1>3. ASSUME NEW d \in Days \ late
      PROVE  /\ Place(d)' = "none" <=> Place(d) = "none"
             /\ Rows(d)' = Rows(d)
             /\ hot'[d] # None /\ cold'[d] # None => hot'[d] = cold'[d]
  BY <1>1, <1>3 DEF FiguresInv, FiguresBelow, Place, Rows, fileVars
<1> QED
  BY <1>1, <1>2, <1>3, MoveFigures DEF fileVars

LEMMA CountFigures ==
    ASSUME TypeOK, FiguresInv, NEW d \in Days, CountRows(d)
    PROVE  FiguresInv'
<1>1. /\ archAt' = "store" /\ IsFirst(d, archTodo) /\ archTodo' = archTodo
      /\ figure' = RowsAt(archFound[d], d) /\ figure' # None
      /\ UNCHANGED <<today, fileVars, stats>>
  BY DEF CountRows
<1>2. OldMoved'
  BY <1>1 DEF FiguresInv, OldMoved, Old, fileVars
<1>3. ASSUME NEW e \in Days \ late' PROVE FigureOf(e)'
  <2>1. e \in Days \ late /\ FigureOf(e)
    BY <1>1, <1>3 DEF FiguresInv, FiguresBelow, FigureOf, fileVars
  <2>2. /\ Place(e)' = Place(e) /\ Rows(e)' = Rows(e) /\ (Old(e)' <=> Old(e))
        /\ hot' = hot /\ cold' = cold /\ stats' = stats
    BY <1>1 DEF Place, Rows, Old, fileVars
  <2>3. ASSUME Storing(e)' PROVE figure' = Rows(e) /\ Place(e) # "none"
    <3>1. e = d
      BY <1>1, <2>3, FirstUnique DEF Storing, IsFirst
    <3>2. archFound[d] \in Places
      BY DEF TypeOK
    <3>3. hot[d] = figure' \/ (archFound[d] = "cold" /\ cold[d] = figure')
      BY <1>1, <3>2 DEF RowsAt, Places
    <3>4. CASE hot[d] # None
      <4>1. figure' = hot[d]
        BY <1>1, <2>1, <3>1, <3>3, <3>4 DEF FigureOf
      <4> QED
        BY <3>1, <3>4, <4>1 DEF Rows, Place
    <3>5. CASE hot[d] = None
      <4>1. cold[d] = figure' /\ cold[d] # None
        BY <1>1, <3>3, <3>5
      <4> QED
        BY <3>1, <3>5, <4>1 DEF Rows, Place
    <3> QED
      BY <3>4, <3>5
  <2>4. figure' \in Int
    BY StepType DEF TypeOK, RowsAt, Places, None, CountRows
  <2>5. Storing(e)' => stats[e] <= figure' /\ figure' <= Rows(e)
    BY <2>1, <2>3, <2>4 DEF FigureOf
  <2> QED
    BY <2>1, <2>2, <2>3, <2>5 DEF FigureOf
<1> QED
  BY <1>2, <1>3 DEF FiguresInv, FiguresBelow, FigureOf

LEMMA StoreFigureFigures ==
    ASSUME TypeOK, FiguresInv, NEW d \in Days, StoreFigure(d)
    PROVE  FiguresInv'
<1>1. /\ archAt' = "count" /\ Storing(d) /\ stats' = [stats EXCEPT ![d] = figure]
      /\ UNCHANGED <<today, fileVars>>
  BY DEF StoreFigure, Storing
<1>2. OldMoved'
  BY <1>1 DEF FiguresInv, OldMoved, Old, fileVars
<1>3. stats'[d] = figure /\ \A e \in Days \ {d} : stats'[e] = stats[e]
  BY <1>1 DEF TypeOK
<1>4. ASSUME NEW e \in Days \ late' PROVE FigureOf(e)'
  <2>1. e \in Days \ late /\ FigureOf(e)
    BY <1>1, <1>4 DEF FiguresInv, FiguresBelow, FigureOf, fileVars
  <2>2. /\ Place(e)' = Place(e) /\ Rows(e)' = Rows(e) /\ (Old(e)' <=> Old(e))
        /\ hot' = hot /\ cold' = cold /\ ~Storing(e)'
    BY <1>1 DEF Place, Rows, Old, Storing, fileVars
  <2>3. CASE e # d
    BY <1>3, <2>1, <2>2, <2>3 DEF FigureOf
  <2>4. CASE e = d
    BY <1>1, <1>3, <2>1, <2>2, <2>4 DEF FigureOf
  <2> QED
    BY <2>3, <2>4
<1> QED
  BY <1>2, <1>4 DEF FiguresInv, FiguresBelow, FigureOf

\* The analyses, the watchdog and the administrator leave files and figures alone.
LEMMA AlertsApart ==
    ASSUME NEW d \in Days,
           \/ \E a \in Analysts : \/ \E e \in Days \cup {None}, f \in BOOLEAN :
                                        StartAnalysis(a, e, f)
                                  \/ AnalysisStep(a)
           \/ WatchLook \/ WatchInsert \/ OpenPage \/ Acknowledge(d)
    PROVE  UNCHANGED <<today, fileVars, stats, archiveVars>>
BY DEF StartAnalysis, AnalysisStep, ScanHot, ReadStats, Skip, Look, Open, OpenFails, Insert,
       EndAnalysis, WatchLook, WatchInsert, OpenPage, Acknowledge

LEMMA StepFigures == TypeOK /\ FiguresInv /\ [Next]_vars => FiguresInv'
<1> SUFFICES ASSUME TypeOK, FiguresInv, [Next]_vars PROVE FiguresInv'
  OBVIOUS
<1>1. today \in Int
  BY DailyJobsAssumption DEF TypeOK
<1>2. ASSUME UNCHANGED <<today, fileVars, stats, archiveVars>> PROVE FiguresInv'
  BY <1>1, <1>2, QuietFigures
<1>3. CASE NextDay
  <2>1. today' = today + 1 /\ UNCHANGED <<fileVars, stats, archiveVars>>
    BY <1>3 DEF NextDay
  <2>2. today' \in Int /\ today <= today'
    BY <1>1, <2>1
  <2> QED
    BY <2>1, <2>2, QuietFigures
<1>4. ASSUME NEW d \in Days, NEW n \in Amounts, StoreRows(d, n) PROVE FiguresInv'
  BY <1>4, AmountsNat, StoreFigures
<1>5. ASSUME NEW d \in Days, Expire(d) PROVE FiguresInv'
  BY <1>5, ExpireFigures
<1>6. CASE StartArchive \/ ArchiveStep
  BY <1>6, ArchiveDayFigures, ControlFigures, CountFigures, StoreFigureFigures DEF ArchiveStep
<1>7. CASE UNCHANGED vars
  BY <1>2, <1>7 DEF vars
<1>8. 0 \in Days
  BY DailyJobsAssumption DEF Days
<1> QED
  BY <1>2, <1>3, <1>4, <1>5, <1>6, <1>7, <1>8, AlertsApart DEF Next

THEOREM FiguresInvariant == Spec => [](TypeOK /\ FiguresInv)
<1>1. Init => TypeOK /\ FiguresInv
  BY InitType, InitFigures
<1>2. TypeOK /\ FiguresInv /\ [Next]_vars => (TypeOK /\ FiguresInv)'
  BY StepType, StepFigures
<1> QED
  BY <1>1, <1>2, PTL DEF Spec

\* The inductive invariant that the runs check.
THEOREM DailyInvariant == Spec => []DailyIInv
<1>1. TypeOK /\ AlertsInv /\ FiguresInv => DailyIInv
  BY DEF AlertsInv, FiguresInv, DailyIInv
<1> QED
  BY <1>1, AlertsInvariant, FiguresInvariant, PTL

FigureFalls == \E d \in Days : stats'[d] < stats[d] /\ d \notin late

LEMMA NoFigureFalls == TypeOK /\ FiguresInv /\ [Next]_vars => ~FigureFalls
<1> SUFFICES ASSUME TypeOK, FiguresInv, [Next]_vars, NEW d \in Days, d \notin late
             PROVE  ~(stats'[d] < stats[d])
  BY DEF FigureFalls
<1>1. stats[d] \in Int
  BY DEF TypeOK, None
<1>2. CASE stats' = stats
  BY <1>1, <1>2
<1>3. ASSUME NEW e \in Days, StoreFigure(e) PROVE ~(stats'[d] < stats[d])
  <2>1. stats' = [stats EXCEPT ![e] = figure] /\ Storing(e) /\ figure \in Nat
    BY <1>3 DEF TypeOK, StoreFigure, Storing
  <2>2. CASE d = e
    <3>1. stats[d] <= figure /\ stats'[d] = figure
      BY <2>1, <2>2 DEF TypeOK, FiguresInv, FiguresBelow
    <3> QED
      BY <1>1, <2>1, <3>1
  <2>3. CASE d # e
    BY <1>1, <2>1, <2>3 DEF TypeOK
  <2> QED
    BY <2>2, <2>3
<1>4. ASSUME NEW e \in Days, NEW n \in Amounts,
             \/ NextDay \/ StoreRows(e, n) \/ Expire(e) \/ StartArchive
             \/ ListDays \/ EndArchive \/ ArchiveDay(e) \/ ArchiveCutShort(e)
             \/ CountRows(e) \/ CountFails(e)
      PROVE  stats' = stats
  BY <1>4 DEF NextDay, StoreRows, Expire, StartArchive, ListDays, EndArchive, ArchiveDay,
              ArchiveCutShort, CountRows, CountFails
<1>5. ASSUME NEW e \in Days,
             \/ NextDay \/ Expire(e) \/ StartArchive
             \/ ListDays \/ EndArchive \/ ArchiveDay(e) \/ ArchiveCutShort(e)
             \/ CountRows(e) \/ CountFails(e)
      PROVE  stats' = stats
  BY <1>5 DEF NextDay, Expire, StartArchive, ListDays, EndArchive, ArchiveDay,
              ArchiveCutShort, CountRows, CountFails
<1>6. UNCHANGED vars => stats' = stats
  BY DEF vars
<1>7. CASE \E a \in Analysts : \/ \E e \in Days \cup {None}, f \in BOOLEAN :
                                     StartAnalysis(a, e, f)
                               \/ AnalysisStep(a)
  BY <1>2, <1>7, AlertsApart
<1> QED
  BY <1>2, <1>3, <1>4, <1>5, <1>6, <1>7, AlertsApart DEF Next, ArchiveStep

\* Only late records make the figure of a day fall, for any settings of the jobs and any
\* number of runs and failures.
THEOREM FiguresFallOnlyLateHolds == Spec => FiguresFallOnlyLate
<1>1. TypeOK /\ FiguresInv /\ [Next]_vars
      => [\A d \in Days : stats'[d] < stats[d] => d \in late]_vars
  BY NoFigureFalls DEF FigureFalls
<1> QED
  BY <1>1, FiguresInvariant, PTL DEF Spec, FiguresFallOnlyLate
=============================================================================
