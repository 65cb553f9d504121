----------------------------- MODULE Algorithms -----------------------------
(***************************************************************************)
(* The pure parts of the program as a specification: a task is one call    *)
(* with its arguments, and the one step of a behaviour gives its answer.   *)
(***************************************************************************)
EXTENDS Analyzer, Timestamps, LegacyRows

CONSTANTS
    Figures,        \* arguments of classify_traffic
    Days,           \* days of rows for analyze_day
    Dictionaries,   \* their protocols by id
    Times,          \* when lines are written and read, for parse_ts
    Registries,     \* the addresses by id that import_legacy finds
    Databases,      \* the old databases that it reads
    None

ASSUME AlgorithmsAssumption ==
    /\ Figures \subseteq Stats
    /\ \A day \in Days : IsDay(day)
    /\ Times \subseteq Moments
    /\ \A known \in Registries : IsRegistry(known)
    /\ \A db \in Databases : IsDatabase(db)

VARIABLES task, answer

vars == <<task, answer>>

-----------------------------------------------------------------------------

StatsTasks == [of : {"stats"}, stats : Figures]
DayTasks == [of : {"day"}, day : Days, names : Dictionaries]
LineTasks == [of : {"line"}, format : Formats, sent : Times, now : Times]
DatabaseTasks == [of : {"database"}, known : Registries, db : Databases]

Init ==
    /\ \/ task \in StatsTasks \/ task \in DayTasks
       \/ task \in LineTasks \/ task \in DatabaseTasks
    /\ answer = None

Answers(of) == answer = None /\ task.of = of /\ UNCHANGED task

Classify ==
    /\ Answers("stats")
    /\ \E v \in Verdicts(task.stats) : answer' = [verdict |-> v]

Analyze ==
    /\ Answers("day")
    /\ \E st \in CollectStats(task.day) : \E v \in Verdicts(st) :
          answer' = [verdict |-> v, narrative |-> Narrative(st)]

Parse == Answers("line") /\ answer' = Stamp(task.format, task.sent, task.now)

Import == Answers("database") /\ answer' = Imported(task.known, task.db)

Next == Classify \/ Analyze \/ Parse \/ Import

Spec == Init /\ [][Next]_vars

-----------------------------------------------------------------------------

Answered(of) == answer # None /\ task.of = of

\* classify_traffic: a flow repeated half a million times is named (LoopNamed).
LoopsNamed == Answered("stats") => LoopNamed(task.stats, answer.verdict)

\* classify_traffic: a verdict gives its reasons (VerdictExplained).
VerdictsExplained == Answered("stats") => VerdictExplained(task.stats, answer.verdict)

\* analyze_day: an abuse of a protocol was counted in the day (AbuseWasCounted), and the
\* narrative shows what a verdict rests on (NarrativeFits).
AbusesCounted ==
    Answered("day") => /\ AbuseWasCounted(task.day, answer.verdict)
                       /\ NarrativeFits(answer.verdict, answer.narrative)

\* analyze_day: malware was UDP in the day (MalwareIsUdp).
MalwareFound == Answered("day") => MalwareIsUdp(task.day, task.names, answer.verdict)

\* parse_line: a line has the moment it was written (StampRight).
StampsRight == Answered("line") => StampRight(task.format, task.sent, task.now, answer)

\* import_legacy: rows keep their addresses (AddressesKept).
ImportsKeep == Answered("database") => AddressesKept(task.known, task.db, answer)
=============================================================================
