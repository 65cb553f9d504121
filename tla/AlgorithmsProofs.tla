-------------------------- MODULE AlgorithmsProofs --------------------------
(***************************************************************************)
(* Proofs about module Algorithms: what classify_traffic, collect_stats,   *)
(* parse_ts and import_legacy give for all their arguments.  Nothing of    *)
(* them is a step of a process, so nearly all of the work is about         *)
(* operators; the invariant of the specification at the end only says that *)
(* an answer is one of the call's results.                                 *)
(***************************************************************************)
EXTENDS Algorithms, Sums, SequenceTheorems

-----------------------------------------------------------------------------
(* classify_traffic *)

\* What it is to be a verdict.
LEMMA VerdictParts ==
    ASSUME NEW st \in Stats, NEW v \in Verdicts(st)
    PROVE  \E c \in Categories, below \in BOOLEAN :
              /\ \A o \in Categories : Score(st, o, below) <= Score(st, c, below)
              /\ v.category = c /\ v.score = Score(st, c, below) /\ v.reasons = Reasons(st, c)
<1>1. PICK p \in Categories \X BOOLEAN : Best(st, p[1], p[2]) /\ v = Verdict(st, p[1], p[2])
  BY DEF Verdicts
<1>2. p[1] \in Categories /\ p[2] \in BOOLEAN
  OBVIOUS
<1> QED
  BY <1>1, <1>2 DEF Best, Verdict

\* Each score is a number of hundredths up to one.
LEMMA P2PRange ==
    ASSUME NEW st \in Stats
    PROVE  /\ P2PMesh(st) \in {0, 15, 30} /\ P2PSuspects(st) \in {0, 15, 30}
           /\ P2PPorts(st) \in {0, 10, 20} /\ P2PSwarm(st) \in 0 .. 95
           /\ P2PScore(st) \in 0 .. 105
<1>1. P2PMesh(st) \in {0, 15, 30}
  BY DEF P2PMesh, Signal
<1>2. P2PSuspects(st) \in {0, 15, 30}
  BY DEF P2PSuspects, Signal
<1>3. P2PPorts(st) \in {0, 10, 20}
  BY DEF P2PPorts, Signal
<1>4. P2PSwarm(st) \in 0 .. 95
  BY <1>1, <1>2, <1>3 DEF P2PSwarm, Signal
<1>5. P2PScore(st) \in 0 .. 105
  BY <1>4 DEF P2PScore, Signal, Less
<1> QED
  BY <1>1, <1>2, <1>3, <1>4, <1>5

LEMMA OtherRanges ==
    ASSUME NEW st \in Stats, NEW below \in BOOLEAN
    PROVE  /\ NtpScore(st) \in 0 .. 85 /\ DnsScore(st) \in 0 .. 75
           /\ DosTop(st) \in {0, 35, 55} /\ DosSum(st) \in 0 .. 80 /\ DosScore(st) \in 0 .. 95
           /\ ScanScore(st) \in 0 .. 75
           /\ BotSum(st) \in 0 .. 85 /\ BotScore(st) \in 0 .. 100
           /\ BandScore(st, below) \in {0, 35, 50} /\ FloodScore(st) \in {0, 45, 65, 80, 90}
           /\ MalwareUdp(st) \in {0, 40, 60} /\ MalwareScore(st) \in 0 .. 80
<1>1. NtpScore(st) \in 0 .. 85
  BY DEF NtpScore, Signal
<1>2. DnsScore(st) \in 0 .. 75
  BY DEF DnsScore, Signal
<1>3. DosTop(st) \in {0, 35, 55}
  BY DEF DosTop, Signal
<1>4. DosSum(st) \in 0 .. 80
  BY <1>3 DEF DosSum, Signal
<1>5. DosScore(st) \in 0 .. 95
  BY <1>4 DEF DosScore, Signal, Less
<1>6. ScanScore(st) \in 0 .. 75
  BY DEF ScanScore, ScanPorts, Signal, Less
<1>7. BotSum(st) \in 0 .. 85
  BY DEF BotSum, BotFew, Signal
<1>8. BotScore(st) \in 0 .. 100
  BY <1>7 DEF BotScore, Signal
<1>9. BandScore(st, below) \in {0, 35, 50}
  BY DEF BandScore, Signal
<1>10. FloodScore(st) \in {0, 45, 65, 80, 90}
  BY DEF FloodScore, Signal
<1>11. MalwareUdp(st) \in {0, 40, 60}
  BY DEF MalwareUdp, Signal
<1>12. MalwareScore(st) \in 0 .. 80
  BY <1>11 DEF MalwareScore, Signal
<1> QED
  BY <1>1, <1>2, <1>3, <1>4, <1>5, <1>6, <1>7, <1>8, <1>9, <1>10, <1>11, <1>12

\* classify_traffic: a verdict is at least as sure as the limit of 0.30 and at most certain,
\* although the signs of P2P add up to more than one.
THEOREM ScoreBounded ==
    ASSUME NEW st \in Stats, NEW v \in Verdicts(st)
    PROVE  v.score \in 30 .. 100
<1>1. PICK c \in Categories, below \in BOOLEAN :
          /\ \A o \in Categories : Score(st, o, below) <= Score(st, c, below)
          /\ v.category = c /\ v.score = Score(st, c, below) /\ v.reasons = Reasons(st, c)
  BY VerdictParts
<1>2. Score(st, "unknown", below) = 30
  BY DEF Score
<1>3. AtMost(P2PScore(st)) \in 0 .. 100
  BY P2PRange DEF AtMost
<1>4. Score(st, c, below) \in 0 .. 100
  BY <1>3, OtherRanges DEF Score, Categories, Named
<1> QED
  BY <1>1, <1>2, <1>4 DEF Categories

\* classify_traffic: a flow repeated half a million times is named.
THEOREM LoopNamedTheorem ==
    ASSUME NEW st \in Stats, NEW v \in Verdicts(st)
    PROVE  LoopNamed(st, v)
<1> SUFFICES ASSUME st.maxFlow >= 500000
             PROVE  v.category \in {"flood", "dos", "botnet"}
  BY DEF LoopNamed
<1>1. PICK c \in Categories, below \in BOOLEAN :
          /\ \A o \in Categories : Score(st, o, below) <= Score(st, c, below)
          /\ v.category = c /\ v.score = Score(st, c, below) /\ v.reasons = Reasons(st, c)
  BY VerdictParts
<1>2. Score(st, "flood", below) = 90
  BY DEF Score, FloodScore
<1>3. Score(st, c, below) >= 90
  BY <1>1, <1>2 DEF Categories, Named
<1>4. AtMost(P2PScore(st)) <= 85
  <2>1. P2PSwarm(st) + Signal(LittleWeb(st), 10) \in 0 .. 105
    BY P2PRange DEF Signal
  <2>2. st.maxFlow >= 5000
    BY DEF Stats
  <2>3. P2PScore(st) \in 0 .. 85
    BY <2>1, <2>2 DEF P2PScore, Signal, Less
  <2> QED
    BY <2>3 DEF AtMost
<1>5. c # "p2p"
  BY <1>3, <1>4, P2PRange DEF Score, AtMost
<1>6. c \notin {"ntp", "dns", "scan", "band", "malware", "unknown"}
  BY <1>3, OtherRanges DEF Score
<1> QED
  BY <1>1, <1>5, <1>6 DEF Categories, Named

\* classify_traffic: the verdicts that come without a reason are the ones that P2P wins by
\* three weak signs.
THEOREM VerdictExplainedTheorem ==
    ASSUME NEW st \in Stats, NEW v \in Verdicts(st)
    PROVE  VerdictExplained(st, v)
<1> SUFFICES ASSUME v.reasons = {}
             PROVE  /\ v.category = "p2p" /\ v.score = 33
                    /\ st.httpPct < 5000 /\ (st.httpPct >= 1000 \/ st.dnsPct >= 2000)
  BY DEF VerdictExplained
<1>1. PICK c \in Categories, below \in BOOLEAN :
          /\ \A o \in Categories : Score(st, o, below) <= Score(st, c, below)
          /\ v.category = c /\ v.score = Score(st, c, below) /\ v.reasons = Reasons(st, c)
  BY VerdictParts
<1>2. Score(st, c, below) >= 30
  BY <1>1 DEF Score, Categories
<1>3. c # "ntp"
  <2> SUFFICES ASSUME c = "ntp" PROVE FALSE
    OBVIOUS
  <2>1. NtpScore(st) >= 30 /\ NtpReasons(st) = {}
    BY <1>1, <1>2 DEF Score, Reasons
  <2>2. NtpMany(st)
    BY <2>1 DEF NtpScore
  <2>3. ~(st.ntpClients <= 10)
    BY <2>1, <2>2 DEF NtpReasons, Says
  <2>4. ~(st.ntpServers >= 50)
    BY <2>1, <2>2 DEF NtpReasons, Says
  <2>5. st.ntpClients \in Nat
    BY DEF Stats
  <2> QED
    BY <2>1, <2>2, <2>3, <2>4, <2>5 DEF NtpScore, Signal
<1>4. c # "dns"
  <2> SUFFICES ASSUME c = "dns" PROVE FALSE
    OBVIOUS
  <2>1. DnsScore(st) >= 30 /\ DnsReasons(st) = {}
    BY <1>1, <1>2 DEF Score, Reasons
  <2>2. DnsMany(st)
    BY <2>1 DEF DnsScore
  <2>3. ~(st.dnsClients <= 5) /\ ~(st.dnsServers <= 3 /\ st.dnsClients >= 20)
    BY <2>1, <2>2 DEF DnsReasons, Says
  <2> QED
    BY <2>1, <2>2, <2>3 DEF DnsScore, Signal
<1>5. c # "dos"
  <2> SUFFICES ASSUME c = "dos" PROVE FALSE
    OBVIOUS
  <2>1. DosScore(st) >= 30 /\ DosReasons(st) = {}
    BY <1>1, <1>2 DEF Score, Reasons
  <2>2. DosTop(st) = 0 /\ ~DosFew(st) /\ ~DosPorts(st)
    <3>1. ~(DosTop(st) > 0)
      <4>1. (DosTop(st) > 0) => "top client" \in DosReasons(st)
        BY ZenonT(20) DEF DosReasons, Says
      <4> QED
        BY <4>1, <2>1
    <3>2. ~DosFew(st)
      BY <2>1 DEF DosReasons, Says
    <3>3. ~DosPorts(st)
      BY <2>1 DEF DosReasons, Says
    <3> QED
      BY <3>1, <3>2, <3>3, OtherRanges
  <2>3. DosSum(st) = 0
    BY <2>2 DEF DosSum, Signal
  <2> QED
    BY <2>1, <2>2, <2>3 DEF DosScore, Signal, Less
<1>6. c # "scan"
  <2> SUFFICES ASSUME c = "scan" PROVE FALSE
    OBVIOUS
  <2>1. ScanScore(st) >= 30 /\ ScanReasons(st) = {}
    BY <1>1, <1>2 DEF Score, Reasons
  <2>2. ScanPorts(st) \in {0, 40, 55}
    BY DEF ScanPorts, Signal
  <2>3. ScanPorts(st) = 0 /\ ~ScanIps(st)
    BY <2>1, <2>2 DEF ScanReasons, Says
  <2> QED
    BY <2>1, <2>3 DEF ScanScore, Signal, Less
<1>7. c # "botnet"
  <2> SUFFICES ASSUME c = "botnet" PROVE FALSE
    OBVIOUS
  <2>1. BotScore(st) >= 30 /\ BotReasons(st) = {}
    BY <1>1, <1>2 DEF Score, Reasons
  <2>2. BotFew(st) \in {0, 45, 70}
    BY DEF BotFew, Signal
  <2>3. BotFew(st) = 0 /\ ~BotEven(st) /\ ~BotUdp(st)
    <3>1. ~(BotFew(st) > 0)
      <4>1. (BotFew(st) > 0) => "few targets" \in BotReasons(st)
        BY ZenonT(20) DEF BotReasons, Says
      <4> QED
        BY <4>1, <2>1
    <3>2. ~BotEven(st)
      BY <2>1 DEF BotReasons, Says
    <3>3. ~BotUdp(st)
      BY <2>1 DEF BotReasons, Says
    <3> QED
      BY <2>2, <3>1, <3>2, <3>3
  <2> QED
    BY <2>1, <2>3 DEF BotScore, BotSum, Signal
<1>8. c # "malware"
  <2> SUFFICES ASSUME c = "malware" PROVE FALSE
    OBVIOUS
  <2>1. MalwareScore(st) >= 30 /\ MalwareReasons(st) = {}
    BY <1>1, <1>2 DEF Score, Reasons
  <2>2. MalwareUdp(st) = 0
    <3>1. ~(MalwareUdp(st) > 0)
      <4>1. (MalwareUdp(st) > 0) => "udp on tcp" \in MalwareReasons(st)
        BY ZenonT(20) DEF MalwareReasons, Says
      <4> QED
        BY <4>1, <2>1
    <3> QED
      BY <3>1, OtherRanges
  <2>3. ~MalwareLoop(st)
    BY <2>2 DEF MalwareLoop
  <2> QED
    BY <2>1, <2>2, <2>3 DEF MalwareScore, Signal
<1>9. c \notin {"band", "flood", "unknown"}
  BY <1>1 DEF Reasons, BandReasons
<1>10. c = "p2p"
  BY <1>3, <1>4, <1>5, <1>6, <1>7, <1>8, <1>9 DEF Categories, Named
<1>11. P2PReasons(st) = {} /\ AtMost(P2PScore(st)) >= 30 /\ v.score = AtMost(P2PScore(st))
  BY <1>1, <1>2, <1>10 DEF Score, Reasons
<1> DEFINE A == Says(P2PMesh(st) = 30, "mesh") \cup Says(P2PSuspects(st) > 0, "suspects")
                 \cup Says(P2PPorts(st) = 20, "ephemeral")
           D == Says(st.dstIps >= 10000, "swarm")
           E == Says(LittleWeb(st), "little web")
<1>12. /\ P2PMesh(st) \in {0, 15} /\ P2PSuspects(st) = 0 /\ P2PPorts(st) \in {0, 10}
       /\ ~(st.dstIps >= 10000) /\ ~LittleWeb(st)
  <2>1. ~(P2PMesh(st) = 30)
    <3>1. (P2PMesh(st) = 30) => "mesh" \in P2PReasons(st)
      BY ZenonT(20) DEF P2PReasons, Says
    <3> QED
      BY <3>1, <1>11
  <2>2. ~(P2PSuspects(st) > 0)
    <3>1. (P2PSuspects(st) > 0) => "suspects" \in P2PReasons(st)
      BY ZenonT(20) DEF P2PReasons, Says
    <3> QED
      BY <3>1, <1>11
  <2>3. ~(P2PPorts(st) = 20)
    <3>1. (P2PPorts(st) = 20) => "ephemeral" \in P2PReasons(st)
      BY ZenonT(20) DEF P2PReasons, Says
    <3> QED
      BY <3>1, <1>11
  <2>4. ~(st.dstIps >= 10000)
    <3>1. (st.dstIps >= 10000) => "swarm" \in P2PReasons(st)
      <4>1. (st.dstIps >= 10000) => "swarm" \in D
        BY DEF Says
      <4>2. P2PReasons(st) = A \cup D \cup E
        BY Zenon DEF P2PReasons
      <4> HIDE DEF A, D, E
      <4> QED
        BY <4>1, <4>2
    <3> QED
      BY <3>1, <1>11
  <2>5. ~(LittleWeb(st))
    <3>1. (LittleWeb(st)) => "little web" \in P2PReasons(st)
      <4>1. (LittleWeb(st)) => "little web" \in E
        BY DEF Says
      <4>2. P2PReasons(st) = A \cup D \cup E
        BY Zenon DEF P2PReasons
      <4> HIDE DEF A, D, E
      <4> QED
        BY <4>1, <4>2
    <3> QED
      BY <3>1, <1>11
  <2> QED
    BY <2>1, <2>2, <2>3, <2>4, <2>5, P2PRange
<1>13. P2PSwarm(st) \in 0 .. 33 /\ (P2PSwarm(st) >= 30 => P2PSwarm(st) = 33)
  BY <1>12 DEF P2PSwarm, Signal
<1>14. P2PScore(st) >= 30
  BY <1>11, P2PRange DEF AtMost
<1>15. P2PSwarm(st) = 33 /\ P2PScore(st) = 33 /\ ~(st.httpPct >= 5000)
  BY <1>12, <1>13, <1>14 DEF P2PScore, Signal, Less
<1>16. st.httpPct >= 1000 \/ st.dnsPct >= 2000
  BY <1>12, <1>15 DEF LittleWeb, Stats
<1> QED
  BY <1>1, <1>10, <1>11, <1>15, <1>16 DEF AtMost, Stats

-----------------------------------------------------------------------------
(* collect_stats and analyze_day *)

\* The values of a function of a finite set are finitely many.
LEMMA FiniteImage ==
    ASSUME NEW S, IsFiniteSet(S), NEW f, DOMAIN f = S, NEW T, T = {f[x] : x \in S}
    PROVE  IsFiniteSet(T)
<1> DEFINE g == [x \in S |-> f[x]]
<1>1. g \in Surjection(S, T)
  BY DEF Surjection
<1> QED
  BY <1>1, FS_Surjection

\* Long division gives a number.
LEMMA ShareType ==
    ASSUME NEW n \in Nat, NEW d \in Nat \ {0}, NEW k \in Nat
    PROVE  Share(n, d, k) \in Nat
<1> DEFINE Step(g, i) ==
              IF i = 0 THEN <<n \div d, n % d>>
              ELSE LET r == 10 * g[i - 1][2] IN <<10 * g[i - 1][1] + r \div d, r % d>>
           IsLong(g) == g = [i \in 0 .. k |-> Step(g, i)]
           Upto(g, m) == \A i \in 0 .. k : i <= m => g[i] = Step(g, i)
           N == {m \in Nat : \E g \in [0 .. k -> Nat \X Nat] : Upto(g, m)}
           long == CHOOSE g : IsLong(g)
<1>1. \A a \in Nat : a \div d \in Nat /\ a % d \in Nat
  BY SMTT(30)
<1>2. ASSUME NEW g \in [0 .. k -> Nat \X Nat], NEW i \in 0 .. k PROVE Step(g, i) \in Nat \X Nat
  <2>1. CASE i = 0
    BY <1>1, <2>1
  <2>2. CASE i # 0
    <3> DEFINE a == g[i - 1][1]
               b == 10 * g[i - 1][2]
    <3>1. i - 1 \in 0 .. k /\ g[i - 1] \in Nat \X Nat
      BY <2>2
    <3>2. a \in Nat /\ b \in Nat
      BY <3>1
    <3>3. Step(g, i) = <<10 * a + b \div d, b % d>>
      BY <2>2
    <3> HIDE DEF a, b, Step
    <3>4. b \div d \in Nat /\ b % d \in Nat
      BY <1>1, <3>2
    <3>5. 10 * a + b \div d \in Nat
      BY <3>2, <3>4
    <3> QED
      BY <3>3, <3>4, <3>5
  <2> QED
    BY <2>1, <2>2
<1>3. 0 \in N
  <2> DEFINE g == [i \in 0 .. k |-> <<n \div d, n % d>>]
  <2>1. g \in [0 .. k -> Nat \X Nat]
    BY <1>1
  <2>2. Upto(g, 0)
    OBVIOUS
  <2> HIDE DEF g, Upto
  <2> QED
    BY <2>1, <2>2
<1>4. ASSUME NEW m \in Nat, m \in N PROVE m + 1 \in N
  <2>1. PICK g \in [0 .. k -> Nat \X Nat] : Upto(g, m)
    BY <1>4
  <2> DEFINE h == [i \in 0 .. k |-> IF i <= m THEN g[i] ELSE Step(g, i)]
  <2>2. h \in [0 .. k -> Nat \X Nat]
    <3> HIDE DEF Step
    <3> QED
      BY <1>2
  <2>3. ASSUME NEW i \in 0 .. k, i <= m + 1 PROVE h[i] = Step(h, i)
    <3>1. h[i] = Step(g, i)
      BY <2>1
    <3>2. i = 0 \/ (i - 1 \in 0 .. k /\ h[i - 1] = g[i - 1])
      BY <2>3
    <3>3. Step(g, i) = Step(h, i)
      BY <3>2
    <3> HIDE DEF h, Step
    <3> QED
      BY <3>1, <3>3
  <2>4. Upto(h, m + 1)
    BY <2>3
  <2> HIDE DEF h, Upto, Step
  <2>5. \E j \in [0 .. k -> Nat \X Nat] : Upto(j, m + 1)
    BY <2>2, <2>4
  <2>6. m + 1 \in Nat
    OBVIOUS
  <2> QED
    BY <2>5, <2>6
<1>5. k \in N
  <2> HIDE DEF N
  <2>1. Nat \subseteq N
    BY <1>3, <1>4, NatInductionOfSet
  <2> QED
    BY <2>1
<1>6. PICK g \in [0 .. k -> Nat \X Nat] : Upto(g, k)
  BY <1>5
<1>7. IsLong(g)
  <2> HIDE DEF Step
  <2>1. \A i \in 0 .. k : g[i] = Step(g, i)
    BY <1>6
  <2> QED
    BY <2>1
<1>8. IsLong(long)
  <2> HIDE DEF IsLong
  <2> QED
    BY <1>7
<1>9. Share(n, d, k) = long[k][1] + (IF 2 * long[k][2] >= d THEN 1 ELSE 0)
  BY DEF Share
<1> HIDE DEF long
<1>10. \A i \in 0 .. k : long[i] = Step(long, i)
  <2> HIDE DEF Step
  <2>1. long = [i \in 0 .. k |-> Step(long, i)]
    BY <1>8
  <2> QED
    BY <2>1
<1> DEFINE S == {m \in Nat : m <= k => long[m] \in Nat \X Nat}
<1>11. 0 \in S
  <2>1. Step(long, 0) = <<n \div d, n % d>>
    OBVIOUS
  <2> HIDE DEF Step
  <2>2. long[0] = Step(long, 0)
    BY <1>10
  <2>3. <<n \div d, n % d>> \in Nat \X Nat
    BY <1>1
  <2>4. long[0] \in Nat \X Nat
    BY <2>1, <2>2, <2>3, Zenon
  <2> QED
    BY <2>4
<1>12. ASSUME NEW m \in Nat, m \in S PROVE m + 1 \in S
  <2> SUFFICES ASSUME m + 1 <= k PROVE long[m + 1] \in Nat \X Nat
    OBVIOUS
  <2> DEFINE a == long[m][1]
             b == 10 * long[m][2]
  <2>1. long[m] \in Nat \X Nat
    BY <1>12
  <2>2. a \in Nat /\ b \in Nat
    BY <2>1
  <2>3. m + 1 \in 0 .. k /\ m + 1 # 0 /\ (m + 1) - 1 = m
    OBVIOUS
  <2>4. long[m + 1] = <<10 * a + b \div d, b % d>>
    BY <1>10, <2>3
  <2> HIDE DEF a, b, long, Step
  <2>5. b \div d \in Nat /\ b % d \in Nat
    BY <1>1, <2>2
  <2>6. 10 * a + b \div d \in Nat
    BY <2>2, <2>5
  <2>7. <<10 * a + b \div d, b % d>> \in Nat \X Nat
    BY <2>5, <2>6
  <2> QED
    BY <2>4, <2>7, Zenon
<1> HIDE DEF S
<1>13. Nat \subseteq S
  BY <1>11, <1>12, NatInductionOfSet
<1>14. long[k] \in Nat \X Nat
  BY <1>13 DEF S
<1> QED
  BY <1>9, <1>14

\* The values of a day's flows, and how many flows have each.
LEMMA RowValues ==
    ASSUME NEW day, IsDay(day), NEW flows \in SUBSET DOMAIN day
    PROVE  LET V == {day[f] : f \in flows}
               r == [n \in V |-> n * Cardinality({f \in flows : day[f] = n})]
           IN  /\ Rows(day, flows) = SumFunction(r)
               /\ IsFiniteSet(V) /\ V \subseteq Nat \ {0} /\ r \in [V -> Nat]
               /\ \A n \in V : r[n] >= n
<1> DEFINE V == {day[f] : f \in flows}
           At(n) == {f \in flows : day[f] = n}
           r == [n \in V |-> n * Cardinality(At(n))]
<1>1. IsFiniteSet(flows) /\ \A f \in flows : day[f] \in Nat \ {0}
  BY FS_Subset DEF IsDay
<1>2. IsFiniteSet(V)
  <2> DEFINE g == [f \in flows |-> day[f]]
  <2>1. DOMAIN g = flows /\ V = {g[f] : f \in flows}
    OBVIOUS
  <2> HIDE DEF g, V
  <2> QED
    BY <1>1, <2>1, FiniteImage
<1>3. V \subseteq Nat \ {0}
  BY <1>1
<1>4. ASSUME NEW n \in V
      PROVE  r[n] \in Nat /\ r[n] >= n
  <2>1. At(n) \in SUBSET flows /\ At(n) # {}
    BY <1>4
  <2> DEFINE A == At(n)
             c == Cardinality(At(n))
  <2>2. c \in Nat
    <3>1. A \in SUBSET flows
      OBVIOUS
    <3> HIDE DEF A
    <3>2. IsFiniteSet(A)
      BY <1>1, <3>1, FS_Subset
    <3>3. Cardinality(A) \in Nat
      BY <3>2, FS_CardinalityType
    <3> QED
      BY <3>3 DEF A
  <2>3. c # 0
    <3>1. A \in SUBSET flows /\ A # {}
      BY <2>1
    <3> HIDE DEF A
    <3>2. IsFiniteSet(A)
      BY <1>1, <3>1, FS_Subset
    <3>3. Cardinality(A) # 0
      BY <3>1, <3>2, FS_EmptySet
    <3> QED
      BY <3>3 DEF A
  <2>4. r[n] = n * c /\ n \in Nat
    BY <1>3
  <2> HIDE DEF c, r
  <2> QED
    BY <2>2, <2>3, <2>4, SMTT(30)
<1>5. r \in [V -> Nat]
  BY <1>4
<1>6. Rows(day, flows) = SumFunction(r)
  BY DEF Rows
<1> QED
  BY <1>2, <1>3, <1>4, <1>5, <1>6

LEMMA RowsType ==
    ASSUME NEW day, IsDay(day), NEW flows \in SUBSET DOMAIN day
    PROVE  /\ Rows(day, flows) \in Nat /\ (Rows(day, flows) = 0 <=> flows = {})
<1> DEFINE V == {day[f] : f \in flows}
           r == [n \in V |-> n * Cardinality({f \in flows : day[f] = n})]
<1>1. /\ Rows(day, flows) = SumFunction(r) /\ IsFiniteSet(V) /\ V \subseteq Nat \ {0}
      /\ r \in [V -> Nat] /\ \A n \in V : r[n] >= n
  BY RowValues
<1>2. flows = {} <=> V = {}
  OBVIOUS
<1> HIDE DEF V, r
<1>3. SumFunction(r) \in Nat /\ \A n \in V : r[n] <= SumFunction(r)
  BY <1>1, SumAtLeast
<1>4. CASE V = {}
  <2>1. r \in [V -> Int] /\ \A x \in V : r[x] = 0
    BY <1>1, <1>4
  <2>2. SumFunction(r) = 0
    BY <1>1, <2>1, SumOfZeros
  <2> QED
    BY <1>1, <1>2, <1>4, <2>2
<1>5. CASE V # {}
  <2>1. PICK n \in V : TRUE
    BY <1>5
  <2>2. n \in Nat \ {0} /\ r[n] >= n /\ r[n] <= SumFunction(r) /\ r[n] \in Nat
    BY <1>1, <1>3
  <2>3. SumFunction(r) > 0
    BY <1>3, <2>2
  <2> QED
    BY <1>1, <1>2, <1>3, <1>5, <2>3
<1> QED
  BY <1>4, <1>5

\* More flows have more rows.
LEMMA RowsGrow ==
    ASSUME NEW day, IsDay(day), NEW flows \in SUBSET DOMAIN day, NEW part \in SUBSET flows
    PROVE  Rows(day, part) <= Rows(day, flows)
<1> DEFINE V(F) == {day[f] : f \in F}
           At(n, F) == {f \in F : day[f] = n}
           r(F) == [n \in V(F) |-> n * Cardinality(At(n, F))]
<1>1. /\ Rows(day, flows) = SumFunction(r(flows)) /\ IsFiniteSet(V(flows))
      /\ V(flows) \subseteq Nat \ {0} /\ r(flows) \in [V(flows) -> Nat]
  BY RowValues
<1>2. /\ Rows(day, part) = SumFunction(r(part)) /\ r(part) \in [V(part) -> Nat]
  BY RowValues
<1>3. V(part) \subseteq V(flows)
  OBVIOUS
<1>4. IsFiniteSet(flows)
  BY FS_Subset DEF IsDay
<1>5. ASSUME NEW n \in V(part) PROVE r(part)[n] <= r(flows)[n]
  <2> DEFINE A == At(n, part)
             B == At(n, flows)
             a == Cardinality(A)
             b == Cardinality(B)
  <2>1. A \in SUBSET B /\ B \in SUBSET flows
    OBVIOUS
  <2>2. r(part)[n] = n * a /\ r(flows)[n] = n * b
    BY <1>3
  <2> HIDE DEF A, B
  <2>3. IsFiniteSet(B)
    BY <1>4, <2>1, FS_Subset
  <2>4. a \in Nat /\ b \in Nat /\ a <= b
    BY <2>1, <2>3, FS_Subset, FS_CardinalityType
  <2>5. n \in Nat
    BY <1>1, <1>3
  <2> HIDE DEF a, b, r
  <2>6. n * a <= n * b
    BY <2>4, <2>5, SMTT(30)
  <2> QED
    BY <2>2, <2>6
<1> HIDE DEF r, V
<1> QED
  BY <1>1, <1>2, <1>3, <1>5, SumGrows

-----------------------------------------------------------------------------

\* Flows have as many sources, destinations and ports as they have, at most one each.
LEMMA DistinctType ==
    ASSUME NEW day, IsDay(day), NEW flows \in SUBSET DOMAIN day
    PROVE  /\ IsFiniteSet(Srcs(flows)) /\ Cardinality(Srcs(flows)) \in Nat
           /\ IsFiniteSet(Dsts(flows)) /\ Cardinality(Dsts(flows)) \in Nat
           /\ IsFiniteSet(Ports(flows)) /\ Cardinality(Ports(flows)) \in Nat
           /\ (Cardinality(Srcs(flows)) = 0 <=> flows = {})
           /\ (Cardinality(Dsts(flows)) = 0 <=> flows = {})
<1>1. IsFiniteSet(flows)
  BY FS_Subset DEF IsDay
<1>2. IsFiniteSet(Srcs(flows))
  <2> DEFINE g == [f \in flows |-> f.src]
             T == Srcs(flows)
  <2>1. DOMAIN g = flows /\ T = {g[f] : f \in flows}
    BY DEF Srcs
  <2> HIDE DEF g, T
  <2>2. IsFiniteSet(T)
    BY <1>1, <2>1, FiniteImage
  <2> QED
    BY <2>2 DEF T
<1>3. IsFiniteSet(Dsts(flows))
  <2> DEFINE g == [f \in flows |-> f.dst]
             T == Dsts(flows)
  <2>1. DOMAIN g = flows /\ T = {g[f] : f \in flows}
    BY DEF Dsts
  <2> HIDE DEF g, T
  <2>2. IsFiniteSet(T)
    BY <1>1, <2>1, FiniteImage
  <2> QED
    BY <2>2 DEF T
<1>4. IsFiniteSet(Ports(flows))
  <2> DEFINE g == [f \in flows |-> f.port]
             T == Ports(flows)
  <2>1. DOMAIN g = flows /\ T = {g[f] : f \in flows}
    BY DEF Ports
  <2> HIDE DEF g, T
  <2>2. IsFiniteSet(T)
    BY <1>1, <2>1, FiniteImage
  <2> QED
    BY <2>2 DEF T
<1>5. (Srcs(flows) = {} <=> flows = {}) /\ (Dsts(flows) = {} <=> flows = {})
  BY DEF Srcs, Dsts
<1> QED
  BY <1>2, <1>3, <1>4, <1>5, FS_CardinalityType, FS_EmptySet

\* A finite set of numbers has a largest one.
LEMMA MaxType ==
    ASSUME NEW S, IsFiniteSet(S), S # {}, S \subseteq Int
    PROVE  Max(S) \in S /\ \A x \in S : Max(S) >= x
<1> DEFINE HasMax(T) == T # {} => \E x \in T : \A y \in T : x >= y
           G == {T \in SUBSET S : HasMax(T)}
<1>1. ASSUME NEW T \in SUBSET S, \A x \in T : T \ {x} \in G
      PROVE  T \in G
  <2> SUFFICES ASSUME NEW x \in T PROVE \E m \in T : \A y \in T : m >= y
    OBVIOUS
  <2>1. HasMax(T \ {x})
    BY <1>1
  <2>2. CASE T = {x}
    BY <2>2
  <2>3. CASE T # {x}
    <3>1. PICK m \in T \ {x} : \A y \in T \ {x} : m >= y
      BY <2>1, <2>3
    <3>2. m \in Int /\ x \in Int /\ \A y \in T : y \in Int
      OBVIOUS
    <3>3. CASE m >= x
      BY <3>1, <3>3
    <3>4. CASE x > m
      <4>1. \A y \in T : x >= y
        BY <3>1, <3>2, <3>4
      <4> QED
        BY <4>1
    <3> QED
      BY <3>2, <3>3, <3>4
  <2> QED
    BY <2>2, <2>3
<1> HIDE DEF G
<1>2. Inductive(S, G)
  BY <1>1 DEF Inductive
<1>3. S \in G
  BY <1>2, SubsetInductionOfSet
<1>4. \E x \in S : \A y \in S : x >= y
  BY <1>3 DEF G
<1> QED
  BY <1>4 DEF Max

LEMMA ShareOfRows ==
    ASSUME NEW day, IsDay(day), NEW flows \in SUBSET DOMAIN day, flows # {},
           NEW part \in SUBSET DOMAIN day, NEW k \in Nat
    PROVE  Share(Rows(day, part), Rows(day, flows), k) \in Nat
<1> DEFINE n == Rows(day, part)
           d == Rows(day, flows)
<1>1. n \in Nat /\ d \in Nat \ {0}
  BY RowsType
<1> HIDE DEF n, d
<1>2. Share(n, d, k) \in Nat
  BY <1>1, ShareType
<1> QED
  BY <1>2 DEF n, d

\* The clients and servers of a port, where they are counted.
LEMMA DetailType ==
    ASSUME NEW day, IsDay(day), NEW port, NEW least
    PROVE  Detail(day, port, least) \in [clients : Nat, servers : Nat]
<1>1. OnPorts(day, {port}) \in SUBSET DOMAIN day
  BY DEF OnPorts
<1> QED
  BY <1>1, DistinctType DEF Detail

\* AVG over the clients of their ports.
LEMMA AvgPortsType ==
    ASSUME NEW day, IsDay(day), DOMAIN day # {}
    PROVE  AvgPorts(day) \in Nat
<1> DEFINE S == Srcs(DOMAIN day)
           f == [s \in S |-> Cardinality(Ports(From(day, s)))]
           n == SumFunction(f)
           d == Cardinality(S)
<1>1. IsFiniteSet(S) /\ d \in Nat \ {0}
  BY DistinctType
<1>2. f \in [S -> Nat]
  <2>1. \A s \in S : From(day, s) \in SUBSET DOMAIN day
    BY DEF From
  <2> QED
    BY <2>1, DistinctType
<1>3. AvgPorts(day) = Share(n, d, 1)
  BY DEF AvgPorts
<1> HIDE DEF S, f
<1>4. n \in Nat
  BY <1>1, <1>2, SumAtLeast
<1> HIDE DEF n, d
<1> QED
  BY <1>1, <1>3, <1>4, ShareType

LEMMA NoStatsType == NoStats \in Stats
BY DEF NoStats, Stats

\* collect_stats gives the figures of a day, whatever rows it has.
THEOREM StatsRight ==
    ASSUME NEW day, IsDay(day), NEW st \in CollectStats(day)
    PROVE  st \in Stats
<1>1. CASE DOMAIN day = {}
  BY <1>1, NoStatsType DEF CollectStats
<1>2. CASE DOMAIN day # {}
  <2>1. PICK t \in TopTalkers(day) : st = StatsWith(day, t)
    BY <1>2 DEF CollectStats
  <2> DEFINE D == DOMAIN day
             own == From(day, t)
  <2>2. own \in SUBSET D /\ own # {} /\ D \in SUBSET D
    BY DEF TopTalkers, Srcs, From
  <2>3. /\ Cardinality(Srcs(D)) \in Nat /\ Cardinality(Dsts(D)) \in Nat
        /\ Cardinality(Ports(D)) \in Nat
        /\ Cardinality(Ports(own)) \in Nat /\ Cardinality(Dsts(own)) \in Nat
    BY <2>2, DistinctType
  <2>4. AvgPorts(day) \in Nat
    BY <1>2, AvgPortsType
  <2>5. Cardinality(Suspects(day)) \in Nat
    <3>1. Suspects(day) \in SUBSET Srcs(D) /\ IsFiniteSet(Srcs(D))
      BY <2>2, DistinctType DEF Suspects
    <3>2. IsFiniteSet(Suspects(day))
      BY <3>1, FS_Subset
    <3> QED
      BY <3>2, FS_CardinalityType
  <2>6. /\ Total(day) = Rows(day, D)
        /\ \A part \in SUBSET D, k \in Nat : Share(Rows(day, part), Total(day), k) \in Nat
        /\ \A part \in SUBSET D : Rows(day, part) \in Nat
    BY <1>2, <2>2, ShareOfRows, RowsType DEF Total
  <2>7. Share(Rows(day, own), Total(day), 3) \in Nat
    BY <2>2, <2>6
  <2>8. /\ Share(Rows(day, {f \in D : WellKnown(f.port)}), Total(day), 3) \in Nat
        /\ Share(Rows(day, {f \in D : Registered(f.port)}), Total(day), 3) \in Nat
        /\ Share(Rows(day, {f \in D : Ephemeral(f.port)}), Total(day), 3) \in Nat
    <3>1. /\ {f \in D : WellKnown(f.port)} \in SUBSET D
          /\ {f \in D : Registered(f.port)} \in SUBSET D
          /\ {f \in D : Ephemeral(f.port)} \in SUBSET D
      OBVIOUS
    <3> QED
      BY <2>6, <3>1
  <2>9. /\ Rows(day, OnPorts(day, {123})) \in Nat /\ Rows(day, OnPorts(day, {53})) \in Nat
        /\ Share(Rows(day, OnPorts(day, {123})), Total(day), 4) \in Nat
        /\ Share(Rows(day, OnPorts(day, {53})), Total(day), 4) \in Nat
        /\ Share(Rows(day, OnPorts(day, {80, 443})), Total(day), 4) \in Nat
    <3>1. \A ports : OnPorts(day, ports) \in SUBSET D
      BY DEF OnPorts
    <3> QED
      BY <2>6, <3>1
  <2>10. NtpDetail(day) \in [clients : Nat, servers : Nat]
         /\ DnsDetail(day) \in [clients : Nat, servers : Nat]
    BY DetailType DEF NtpDetail, DnsDetail
  <2>11. Share(Rows(day, {f \in own : WellKnown(f.port)}), Rows(day, own), 3) \in Nat
    <3> DEFINE part == {f \in own : WellKnown(f.port)}
    <3>1. part \in SUBSET D
      BY <2>2
    <3> HIDE DEF part, own
    <3>2. Share(Rows(day, part), Rows(day, own), 3) \in Nat
      BY <2>2, <3>1, ShareOfRows
    <3> QED
      BY <3>2 DEF part
  <2>12. MaxFlow(day) \in Nat
    <3> DEFINE R == Range(day)
    <3>1. R \subseteq Nat /\ R = {day[f] : f \in D} /\ R # {}
      BY <1>2 DEF IsDay, Range
    <3>2. IsFiniteSet(D)
      BY DEF IsDay
    <3> HIDE DEF R
    <3>3. IsFiniteSet(R)
      BY <3>1, <3>2, FiniteImage
    <3>4. R \subseteq Int
      BY <3>1
    <3>5. Max(R) \in R
      BY <3>1, <3>3, <3>4, MaxType
    <3> QED
      BY <3>1, <3>5 DEF MaxFlow, R
  <2>13. /\ Rows(day, UdpOnTcp(day)) \in Nat
         /\ Share(Rows(day, UdpOnTcp(day)), Total(day), 4) \in Nat
    <3>1. UdpOnTcp(day) \in SUBSET D
      BY DEF UdpOnTcp, OnPorts
    <3> QED
      BY <2>6, <3>1
  <2> QED
    BY <2>1, <2>3, <2>4, <2>5, <2>7, <2>8, <2>9, <2>10, <2>11, <2>12, <2>13
    DEF StatsWith, Stats
<1> QED
  BY <1>1, <1>2

\* A verdict is worth at least the 30 hundredths of the category that claims nothing.
LEMMA VerdictScore ==
    ASSUME NEW st \in Stats, NEW v \in Verdicts(st)
    PROVE  \E below \in BOOLEAN :
              /\ v.category \in Categories
              /\ Score(st, v.category, below) >= 30
<1>1. PICK p \in Categories \X BOOLEAN : Best(st, p[1], p[2]) /\ v = Verdict(st, p[1], p[2])
  BY DEF Verdicts
<1>2. p[1] \in Categories /\ p[2] \in BOOLEAN /\ v.category = p[1]
  BY <1>1 DEF Verdict
<1>3. Score(st, "unknown", p[2]) = 30 /\ "unknown" \in Categories
  BY DEF Score, Categories
<1> QED
  BY <1>1, <1>2, <1>3 DEF Best

\* What a verdict of an abuse, a flood or malware says of the figures.
LEMMA VerdictFigures ==
    ASSUME NEW st \in Stats, NEW v \in Verdicts(st)
    PROVE  /\ v.category = "ntp" => NtpMany(st) /\ st.ntpClients <= 10
           /\ v.category = "dns" => /\ DnsMany(st)
                                    /\ \/ st.dnsClients <= 5
                                       \/ st.dnsServers <= 3 /\ st.dnsClients >= 20
           /\ v.category = "flood" => st.maxFlow >= 1000
           /\ v.category = "malware" => st.udpOnTcp >= 1000
<1>1. PICK below \in BOOLEAN : v.category \in Categories /\ Score(st, v.category, below) >= 30
  BY VerdictScore
<1>2. ASSUME v.category = "ntp" PROVE NtpMany(st) /\ st.ntpClients <= 10
  <2>1. NtpScore(st) >= 30
    BY <1>1, <1>2 DEF Score
  <2>2. st.ntpClients \in Nat
    BY DEF Stats
  <2> QED
    BY <2>1, <2>2 DEF NtpScore, Signal
<1>3. ASSUME v.category = "dns"
      PROVE  DnsMany(st) /\ (st.dnsClients <= 5 \/ (st.dnsServers <= 3 /\ st.dnsClients >= 20))
  <2>1. DnsScore(st) >= 30
    BY <1>1, <1>3 DEF Score
  <2> QED
    BY <2>1 DEF DnsScore, Signal
<1>4. ASSUME v.category = "flood" PROVE st.maxFlow >= 1000
  <2>1. FloodScore(st) >= 30
    BY <1>1, <1>4 DEF Score
  <2>2. st.maxFlow \in Nat
    BY DEF Stats
  <2> QED
    BY <2>1, <2>2 DEF FloodScore, Signal
<1>5. ASSUME v.category = "malware" PROVE st.udpOnTcp >= 1000
  <2>1. MalwareScore(st) >= 30
    BY <1>1, <1>5 DEF Score
  <2>2. st.udpOnTcp \in Nat
    BY DEF Stats
  <2>3. MalwareUdp(st) # 0
    BY <2>1 DEF MalwareScore, MalwareLoop, Signal
  <2> QED
    BY <2>2, <2>3 DEF MalwareUdp, Signal
<1> QED
  BY <1>2, <1>3, <1>4, <1>5

\* The verdict on an empty day has no abuse.
LEMMA QuietDay ==
    ASSUME NEW day, DOMAIN day = {}, NEW st \in CollectStats(day), NEW v \in Verdicts(st)
    PROVE  v.category \notin {"ntp", "dns", "flood", "malware"}
<1>1. st = NoStats /\ st \in Stats
  BY NoStatsType DEF CollectStats
<1> QED
  BY <1>1, VerdictFigures DEF NoStats, NtpMany, DnsMany

\* collect_stats: what the classifier takes for the clients of a protocol was counted.
THEOREM AbuseWasCountedTheorem ==
    ASSUME NEW day, IsDay(day), NEW st \in CollectStats(day), NEW v \in Verdicts(st)
    PROVE  AbuseWasCounted(day, v)
<1>1. st \in Stats
  BY StatsRight
<1>2. CASE DOMAIN day = {}
  BY <1>2, QuietDay DEF AbuseWasCounted
<1>3. CASE DOMAIN day # {}
  <2>1. PICK t \in TopTalkers(day) : st = StatsWith(day, t)
    BY <1>3 DEF CollectStats
  <2> DEFINE ntp == OnPorts(day, {123})
             dns == OnPorts(day, {53})
  <2>2. ntp \in SUBSET DOMAIN day /\ dns \in SUBSET DOMAIN day
    BY DEF OnPorts
  <2>3. /\ st.ntpConns = Rows(day, ntp) /\ st.ntpClients = NtpDetail(day).clients
        /\ st.dnsConns = Rows(day, dns) /\ st.dnsClients = DnsDetail(day).clients
        /\ st.dnsServers = DnsDetail(day).servers
    BY <2>1 DEF StatsWith
  <2>4. NtpDetail(day) = Detail(day, 123, 50000) /\ DnsDetail(day) = Detail(day, 53, 200000)
    BY DEF NtpDetail, DnsDetail
  <2> HIDE DEF ntp, dns
  <2>5. ASSUME v.category = "ntp" PROVE Clients(day, 123) \in 1 .. 10
    <3>1. NtpMany(st) /\ st.ntpClients <= 10
      BY <1>1, <2>5, VerdictFigures
    <3>2. Rows(day, ntp) \in Nat /\ Rows(day, ntp) >= 100000
      BY <2>2, <2>3, <3>1, RowsType DEF NtpMany
    <3>3. ntp # {}
      BY <2>2, <3>2, RowsType
    <3>4. st.ntpClients = Cardinality(Srcs(ntp))
      BY <2>3, <2>4, <3>2 DEF Detail, ntp
    <3>5. Cardinality(Srcs(ntp)) \in Nat \ {0}
      BY <2>2, <3>3, DistinctType
    <3> QED
      BY <3>1, <3>4, <3>5 DEF Clients, ntp
  <2>6. ASSUME v.category = "dns"
        PROVE  \/ Clients(day, 53) \in 1 .. 5
               \/ Clients(day, 53) >= 20 /\ Cardinality(Dsts(OnPorts(day, {53}))) \in 1 .. 3
    <3>1. DnsMany(st) /\ (st.dnsClients <= 5 \/ (st.dnsServers <= 3 /\ st.dnsClients >= 20))
      BY <1>1, <2>6, VerdictFigures
    <3>2. Rows(day, dns) \in Nat /\ Rows(day, dns) >= 500000
      BY <2>2, <2>3, <3>1, RowsType DEF DnsMany
    <3>3. dns # {}
      BY <2>2, <3>2, RowsType
    <3>4. st.dnsClients = Cardinality(Srcs(dns)) /\ st.dnsServers = Cardinality(Dsts(dns))
      BY <2>3, <2>4, <3>2 DEF Detail, dns
    <3>5. Cardinality(Srcs(dns)) \in Nat \ {0} /\ Cardinality(Dsts(dns)) \in Nat \ {0}
      BY <2>2, <3>3, DistinctType
    <3> QED
      BY <3>1, <3>4, <3>5 DEF Clients, dns
  <2> QED
    BY <2>5, <2>6 DEF AbuseWasCounted
<1> QED
  BY <1>2, <1>3

\* analyze_day: the narrative shows what a verdict rests on.
THEOREM NarrativeFitsTheorem ==
    ASSUME NEW st \in Stats, NEW v \in Verdicts(st)
    PROVE  NarrativeFits(v, Narrative(st))
<1>1. st.ntpPct \in Nat /\ st.dnsPct \in Nat /\ st.udpOnTcp \in Nat
  BY DEF Stats
<1>2. /\ st.ntpPct >= 50 => "ntp" \in Narrative(st)
      /\ st.dnsPct >= 100 => "dns" \in Narrative(st)
      /\ st.maxFlow >= 1000 => "flow" \in Narrative(st)
      /\ st.udpOnTcp >= 100 => "udp on tcp" \in Narrative(st)
  BY ZenonT(30) DEF Narrative, Says
<1>3. /\ NtpMany(st) => st.ntpPct >= 50
      /\ DnsMany(st) => st.dnsPct >= 100
      /\ st.udpOnTcp >= 1000 => st.udpOnTcp >= 100
  BY <1>1 DEF NtpMany, DnsMany
<1>4. /\ v.category = "ntp" => NtpMany(st)
      /\ v.category = "dns" => DnsMany(st)
      /\ v.category = "flood" => st.maxFlow >= 1000
      /\ v.category = "malware" => st.udpOnTcp >= 1000
  BY VerdictFigures
<1>5. v.category = "ntp" => "ntp" \in Narrative(st)
  BY <1>2, <1>3, <1>4
<1>6. v.category = "dns" => "dns" \in Narrative(st)
  BY <1>2, <1>3, <1>4
<1>7. v.category = "flood" => "flow" \in Narrative(st)
  BY <1>2, <1>4
<1>8. v.category = "malware" => "udp on tcp" \in Narrative(st)
  BY <1>2, <1>3, <1>4
<1> QED
  BY <1>5, <1>6, <1>7, <1>8 DEF NarrativeFits

\* analyze_day: malware is reported only for a day with UDP on TCP's ports, where the
\* dictionary of the day has UDP at the id that the code takes for it.
THEOREM MalwareIsUdpTheorem ==
    ASSUME NEW day, IsDay(day), NEW names, NEW st \in CollectStats(day), NEW v \in Verdicts(st)
    PROVE  MalwareIsUdp(day, names, v)
<1> DEFINE udp == {f \in OnPorts(day, TcpOnlyPorts) :
                      f.proto \in DOMAIN names /\ names[f.proto] = "UDP"}
<1> SUFFICES ASSUME v.category = "malware", 2 \in DOMAIN names, names[2] = "UDP"
             PROVE  Rows(day, udp) >= 1000
  BY DEF MalwareIsUdp
<1>1. st \in Stats
  BY StatsRight
<1>2. DOMAIN day # {}
  BY QuietDay
<1>3. st.udpOnTcp = Rows(day, UdpOnTcp(day))
  <2>1. PICK t \in TopTalkers(day) : st = StatsWith(day, t)
    BY <1>2 DEF CollectStats
  <2> QED
    BY <2>1 DEF StatsWith
<1>4. udp \in SUBSET DOMAIN day /\ UdpOnTcp(day) \in SUBSET udp
  BY DEF UdpOnTcp, OnPorts
<1>5. UdpOnTcp(day) \in SUBSET DOMAIN day
  BY <1>4
<1> HIDE DEF udp
<1>6. Rows(day, UdpOnTcp(day)) <= Rows(day, udp)
  BY <1>4, RowsGrow
<1>7. Rows(day, UdpOnTcp(day)) \in Nat /\ Rows(day, udp) \in Nat
  BY <1>4, <1>5, RowsType
<1>8. st.udpOnTcp >= 1000
  BY <1>1, VerdictFigures
<1> QED
  BY <1>3, <1>6, <1>7, <1>8

-----------------------------------------------------------------------------
(* parse_ts *)

\* The days of the year before each month.
MonthTable(y) ==
    LET l == IF Leap(y) THEN 1 ELSE 0
    IN  <<0, 31, 59 + l, 90 + l, 120 + l, 151 + l, 181 + l, 212 + l, 243 + l, 273 + l, 304 + l,
          334 + l>>

LEMMA MonthLengths ==
    ASSUME NEW y \in Int
    PROVE  /\ \A k \in 1 .. 12 : MonthDays(y)[k] \in 28 .. 31
           /\ \A k \in 2 .. 12 : MonthTable(y)[k] = MonthTable(y)[k - 1] + MonthDays(y)[k - 1]
           /\ MonthTable(y)[1] = 0
           /\ MonthTable(y)[12] + MonthDays(y)[12] = IF Leap(y) THEN 366 ELSE 365
<1> DEFINE l == IF Leap(y) THEN 1 ELSE 0
<1>1. l \in Int /\ (l = 0 \/ l = 1)
  OBVIOUS
<1>2. MonthDays(y) = <<31, 28 + l, 31, 30, 31, 30, 31, 31, 30, 31, 30, 31>>
  BY DEF MonthDays
<1>3. MonthTable(y) = <<0, 31, 59 + l, 90 + l, 120 + l, 151 + l, 181 + l, 212 + l, 243 + l, 273 + l,
                        304 + l, 334 + l>>
  BY DEF MonthTable
<1>4. (IF Leap(y) THEN 366 ELSE 365) = 365 + l
  OBVIOUS
<1> HIDE DEF l
<1> QED
  BY <1>1, <1>2, <1>3, <1>4

\* The recursion of DaysBeforeMonth gives the table.
LEMMA DaysBefore ==
    ASSUME NEW y \in Int, NEW m \in 1 .. 12
    PROVE  DaysBeforeMonth(y, m) = MonthTable(y)[m]
<1> DEFINE IsDays(d) == d = [k \in 0 .. 11 |-> IF k = 0 THEN 0 ELSE d[k - 1] + MonthDays(y)[k]]
           days == CHOOSE d : IsDays(d)
           table == [k \in 0 .. 11 |-> MonthTable(y)[k + 1]]
<1>1. IsDays(table)
  <2>1. ASSUME NEW k \in 0 .. 11, k # 0
        PROVE  MonthTable(y)[k + 1] = MonthTable(y)[k] + MonthDays(y)[k]
    <3>1. k + 1 \in 2 .. 12 /\ (k + 1) - 1 = k
      BY <2>1
    <3> QED
      BY <3>1, MonthLengths
  <2>2. \A k \in 0 .. 11 : k # 0 => k - 1 \in 0 .. 11 /\ (k - 1) + 1 = k
    OBVIOUS
  <2>3. MonthTable(y)[1] = 0
    BY MonthLengths
  <2> QED
    BY <2>1, <2>2, <2>3
<1> HIDE DEF table
<1>2. IsDays(days)
  BY <1>1
<1>3. DaysBeforeMonth(y, m) = days[m - 1]
  BY DEF DaysBeforeMonth
<1> HIDE DEF days
<1>4. days[0] = 0 /\ \A k \in 1 .. 11 : days[k] = days[k - 1] + MonthDays(y)[k]
  BY <1>2
<1> DEFINE S == {n \in Nat : n <= 11 => days[n] = MonthTable(y)[n + 1]}
<1>5. 0 \in S
  BY <1>4, MonthLengths
<1>6. ASSUME NEW n \in Nat, n \in S PROVE n + 1 \in S
  <2> SUFFICES ASSUME n + 1 <= 11 PROVE days[n + 1] = MonthTable(y)[n + 2]
    OBVIOUS
  <2>1. days[n] = MonthTable(y)[n + 1]
    BY <1>6
  <2>2. days[n + 1] = days[n] + MonthDays(y)[n + 1]
    BY <1>4
  <2>3. n + 2 \in 2 .. 12 /\ (n + 2) - 1 = n + 1
    OBVIOUS
  <2> QED
    BY <2>1, <2>2, <2>3, MonthLengths
<1> HIDE DEF S
<1>7. Nat \subseteq S
  BY <1>5, <1>6, NatInductionOfSet
<1>8. m - 1 \in S /\ (m - 1) + 1 = m
  BY <1>7
<1> QED
  BY <1>3, <1>8 DEF S

\* The days of the years before a year, from year 0 on.
YearDays(y) == 365 * y + (y - 1) \div 4 - (y - 1) \div 100 + (y - 1) \div 400
YearLength(y) == IF Leap(y) THEN 366 ELSE 365

LEMMA NextYear ==
    ASSUME NEW y \in Nat
    PROVE  YearDays(y) \in Int /\ YearDays(y + 1) = YearDays(y) + YearLength(y)
BY SMTT(60) DEF YearDays, YearLength, Leap

LEMMA LaterYear ==
    ASSUME NEW y \in Nat, NEW z \in Nat, y <= z
    PROVE  YearDays(z) - YearDays(y) >= 365 * (z - y)
<1> DEFINE q(x) == (x - 1) \div 4 - (x - 1) \div 100 + (x - 1) \div 400
<1>1. \A x \in Nat : (x - 1) \div 100 = ((x - 1) \div 4) \div 25
  BY SMTT(30)
<1>2. (y - 1) \div 4 <= (z - 1) \div 4 /\ (y - 1) \div 400 <= (z - 1) \div 400
  OBVIOUS
<1>3. \A u, w \in Int : u <= w => w \div 25 - u \div 25 <= w - u
  BY SMTT(30)
<1>4. q(z) - q(y) >= 0
  BY <1>1, <1>2, <1>3, SMTT(30)
<1> QED
  BY <1>4 DEF YearDays

DayOfYear(y, t) == MonthTable(y)[t.month] + t.day

LEMMA MonthEnds ==
    ASSUME NEW y \in Int, NEW m \in 1 .. 12
    PROVE  /\ MonthTable(y)[m] \in Nat /\ MonthDays(y)[m] \in Nat
           /\ MonthTable(y)[m] + MonthDays(y)[m] <= YearLength(y)
<1> DEFINE l == IF Leap(y) THEN 1 ELSE 0
<1>1. l = 0 \/ l = 1
  OBVIOUS
<1>2. MonthDays(y) = <<31, 28 + l, 31, 30, 31, 30, 31, 31, 30, 31, 30, 31>>
  BY DEF MonthDays
<1>3. MonthTable(y) = <<0, 31, 59 + l, 90 + l, 120 + l, 151 + l, 181 + l, 212 + l, 243 + l, 273 + l,
                        304 + l, 334 + l>>
  BY DEF MonthTable
<1>4. YearLength(y) = 365 + l
  BY DEF YearLength
<1> HIDE DEF l
<1> QED
  BY <1>1, <1>2, <1>3, <1>4

\* A date lies within its year.
LEMMA HoursInYear ==
    ASSUME NEW t \in Dates, NEW y \in Nat
    PROVE  /\ InYear(t, y).hour = t.hour /\ DayOfYear(y, t) \in Nat
           /\ Hours(InYear(t, y)) = 24 * (YearDays(y) + DayOfYear(y, t)) + t.hour
           /\ Hours(InYear(t, y)) \in Int
           /\ HasDate(y, t) => DayOfYear(y, t) \in 1 .. YearLength(y)
<1> DEFINE u == InYear(t, y)
<1>1. u.year = y /\ u.month = t.month /\ u.day = t.day /\ u.hour = t.hour
  BY DEF InYear, Dates
<1>2. t.month \in 1 .. 12 /\ t.day \in 1 .. 31 /\ t.hour \in 0 .. 23
  BY DEF Dates
<1>3. MonthTable(y)[t.month] \in Nat /\ MonthDays(y)[t.month] \in Nat
      /\ MonthTable(y)[t.month] + MonthDays(y)[t.month] <= YearLength(y)
  BY <1>2, MonthEnds
<1>4. DaysBeforeMonth(y, t.month) = MonthTable(y)[t.month]
  BY <1>2, DaysBefore
<1>5. YearDays(y) \in Int
  BY NextYear
<1>6. Hours(u) = 24 * (YearDays(y) + DayOfYear(y, t)) + t.hour
  <2> HIDE DEF u
  <2>1. DayOfYear(y, t) = MonthTable(y)[t.month] + t.day
    BY DEF DayOfYear
  <2> QED
    BY <1>1, <1>2, <1>3, <1>4, <2>1 DEF Hours, YearDays
<1>7. DayOfYear(y, t) \in Nat
  BY <1>2, <1>3 DEF DayOfYear
<1>8. HasDate(y, t) => DayOfYear(y, t) \in 1 .. YearLength(y)
  BY <1>2, <1>3 DEF DayOfYear, HasDate, YearLength
<1> HIDE DEF u
<1>9. Hours(u) \in Int
  BY <1>2, <1>5, <1>6, <1>7
<1> QED
  BY <1>1, <1>6, <1>7, <1>8, <1>9 DEF u

\* A date other than February 29 has its place in every year, a day later at most where
\* the year is a leap year.
LEMMA SameDay ==
    ASSUME NEW t \in Moments, NEW y \in Nat, <<t.month, t.day>> # <<2, 29>>
    PROVE  HasDate(y, t)
           /\ DayOfYear(y, t) >= DayOfYear(t.year, t) - 1
<1>1. t \in Dates /\ t.month \in 1 .. 12 /\ t.day \in 1 .. 31 /\ t.year \in Nat /\ HasDate(t.year, t)
  BY DEF Moments, Dates
<1> DEFINE l(x) == IF Leap(x) THEN 1 ELSE 0
<1>2. \A x : l(x) = 0 \/ l(x) = 1
  OBVIOUS
<1>3. \A x : MonthDays(x) = <<31, 28 + l(x), 31, 30, 31, 30, 31, 31, 30, 31, 30, 31>>
  BY DEF MonthDays
<1>4. \A x : MonthTable(x) = <<0, 31, 59 + l(x), 90 + l(x), 120 + l(x), 151 + l(x), 181 + l(x),
                               212 + l(x), 243 + l(x), 273 + l(x), 304 + l(x), 334 + l(x)>>
  BY DEF MonthTable
<1> HIDE DEF l
<1>5. t.day <= MonthDays(t.year)[t.month]
  BY <1>1 DEF HasDate
<1>6. t.day <= MonthDays(y)[t.month]
  <2>1. CASE t.month = 2
    <3>1. t.day <= 28
      BY <1>1, <1>2, <1>3, <1>5, <2>1
    <3> QED
      BY <1>1, <1>2, <1>3, <2>1, <3>1
  <2>2. CASE t.month # 2
    BY <1>1, <1>3, <1>5, <2>2
  <2> QED
    BY <2>1, <2>2
<1>7. MonthTable(y)[t.month] >= MonthTable(t.year)[t.month] - 1
      /\ MonthTable(y)[t.month] \in Int /\ MonthTable(t.year)[t.month] \in Int
  BY <1>1, <1>2, <1>4
<1> QED
  BY <1>1, <1>6, <1>7 DEF HasDate, DayOfYear

LEMMA OwnYear ==
    ASSUME NEW t \in Dates
    PROVE  InYear(t, t.year) = t
BY DEF InYear, Dates

\* parse_ts: whatever was written, what it is taken for lies at most 25 hours ahead.
LEMMA NotAhead ==
    ASSUME NEW t \in Moments, NEW now \in Moments
    PROVE  Hours(StampWithoutYear(t, now)) - Hours(now) <= 25
<1> DEFINE ahead == Hours(InYear(t, now.year)) - Hours(now) > 25
<1>1. /\ t \in Dates /\ now \in Dates /\ HasDate(t.year, t) /\ HasDate(now.year, now)
      /\ now.year \in Nat \ {0} /\ now.year - 1 \in Nat
      /\ t.hour \in 0 .. 23 /\ now.hour \in 0 .. 23
  BY DEF Moments, Dates
<1>2. InYear(now, now.year) = now
  BY <1>1, OwnYear
<1>3. Hours(now) \in Int
  BY <1>1, <1>2, HoursInYear
<1>4. CASE StampWithoutYear(t, now) = now
  BY <1>3, <1>4
<1>5. CASE ~ahead /\ StampWithoutYear(t, now) = InYear(t, now.year)
  <2>1. Hours(InYear(t, now.year)) \in Int
    BY <1>1, HoursInYear
  <2> QED
    BY <1>3, <1>5, <2>1
<1>6. CASE HasDate(now.year - 1, t) /\ StampWithoutYear(t, now) = InYear(t, now.year - 1)
  <2> DEFINE y == now.year - 1
  <2>1. /\ Hours(InYear(t, y)) = 24 * (YearDays(y) + DayOfYear(y, t)) + t.hour
        /\ DayOfYear(y, t) \in 1 .. YearLength(y)
    BY <1>1, <1>6, HoursInYear
  <2>2. /\ Hours(now) = 24 * (YearDays(now.year) + DayOfYear(now.year, now)) + now.hour
        /\ DayOfYear(now.year, now) \in 1 .. YearLength(now.year)
    BY <1>1, <1>2, HoursInYear
  <2>3. YearDays(y) \in Int /\ YearDays(now.year) = YearDays(y) + YearLength(y)
    <3>1. y + 1 = now.year
      BY <1>1
    <3> QED
      BY <1>1, <3>1, NextYear
  <2>4. YearLength(y) \in Int /\ YearLength(now.year) \in Int
    BY DEF YearLength
  <2> HIDE DEF y
  <2>5. Hours(InYear(t, y)) < Hours(now)
    BY <1>1, <2>1, <2>2, <2>3, <2>4
  <2>6. Hours(InYear(t, y)) \in Int
    BY <1>1, HoursInYear DEF y
  <2> QED
    BY <1>3, <1>6, <2>5, <2>6 DEF y
<1>7. \/ StampWithoutYear(t, now) = now
      \/ ~ahead /\ StampWithoutYear(t, now) = InYear(t, now.year)
      \/ HasDate(now.year - 1, t) /\ StampWithoutYear(t, now) = InYear(t, now.year - 1)
  BY DEF StampWithoutYear
<1> QED
  BY <1>4, <1>5, <1>6, <1>7

\* A moment at most 330 days before another lies in the same year or in the year before.
LEMMA YearBefore ==
    ASSUME NEW t \in Moments, NEW now \in Moments
    PROVE  0 <= Hours(now) - Hours(t) /\ Hours(now) - Hours(t) <= 7920 =>
              now.year \in {t.year, t.year + 1}
<1> DEFINE y == t.year
           z == now.year
           d == DayOfYear(y, t)
           e == DayOfYear(z, now)
           h == t.hour
           i == now.hour
           lag == Hours(now) - Hours(t)
<1>1. y \in Nat /\ z \in Nat /\ h \in 0 .. 23 /\ i \in 0 .. 23
  BY DEF Moments, Dates
<1>2. /\ Hours(now) = 24 * (YearDays(z) + e) + i /\ e \in 1 .. YearLength(z)
      /\ Hours(t) = 24 * (YearDays(y) + d) + h /\ d \in 1 .. YearLength(y)
  <2>1. /\ t \in Dates /\ now \in Dates /\ HasDate(y, t) /\ HasDate(z, now)
        /\ InYear(now, z) = now /\ InYear(t, y) = t
    BY OwnYear DEF Moments
  <2> QED
    BY <1>1, <2>1, HoursInYear
<1> HIDE DEF y, z, d, e, h, i
<1>3. /\ YearDays(y) \in Int /\ YearDays(z) \in Int
      /\ YearLength(y) \in 365 .. 366 /\ YearLength(z) \in 365 .. 366
  BY <1>1, NextYear DEF YearLength
<1>4. d \in 1 .. 366 /\ e \in 1 .. 366 /\ d <= YearLength(y) /\ e <= YearLength(z)
  BY <1>2, <1>3
<1>5. lag = 24 * (YearDays(z) + e) + i - (24 * (YearDays(y) + d) + h) /\ lag \in Int
  BY <1>1, <1>2, <1>3, <1>4
<1> HIDE DEF lag
<1>6. ASSUME y > z PROVE lag < 0
  <2>1. YearDays(z + 1) = YearDays(z) + YearLength(z)
    BY <1>1, NextYear
  <2>2. YearDays(y) - YearDays(z + 1) >= 365 * (y - (z + 1))
    BY <1>1, <1>6, LaterYear
  <2>3. YearDays(y) >= YearDays(z) + YearLength(z)
    BY <1>1, <1>3, <1>6, <2>1, <2>2
  <2> QED
    BY <1>1, <1>3, <1>4, <1>5, <2>3
<1>7. ASSUME y < z - 1 PROVE lag > 7920
  <2>1. YearDays(y + 1) = YearDays(y) + YearLength(y)
    BY <1>1, NextYear
  <2>2. YearDays(z) - YearDays(y + 1) >= 365 * (z - (y + 1))
    BY <1>1, <1>7, LaterYear
  <2>3. YearDays(z) >= YearDays(y) + YearLength(y) + 365
    BY <1>1, <1>3, <1>7, <2>1, <2>2
  <2> QED
    BY <1>1, <1>3, <1>4, <1>5, <2>3
<1>8. z \in {y, y + 1} \/ y > z \/ y < z - 1
  BY <1>1
<1>9. 0 <= lag /\ lag <= 7920 => z \in {y, y + 1}
  BY <1>5, <1>6, <1>7, <1>8
<1> QED
  BY <1>9 DEF lag, y, z

\* parse_ts: the year before is found for a date that lies ahead in this year.
LEMMA LastYear ==
    ASSUME NEW t \in Moments, NEW now \in Moments, now.year = t.year + 1,
           <<t.month, t.day>> # <<2, 29>>
    PROVE  Hours(now) - Hours(t) <= 7920 => StampWithoutYear(t, now) = t
<1> DEFINE y == t.year
           z == now.year
           d == DayOfYear(y, t)
           c == DayOfYear(z, t)
<1>1. t \in Dates /\ now \in Dates /\ HasDate(y, t) /\ HasDate(z, now)
  BY DEF Moments
<1>2. y \in Nat /\ z \in Nat /\ t.hour \in 0 .. 23 /\ now.hour \in 0 .. 23
  BY <1>1 DEF Dates
<1>3. InYear(now, z) = now /\ InYear(t, y) = t
  BY <1>1, OwnYear
<1>4. Hours(now) \in Int
  BY <1>1, <1>2, <1>3, HoursInYear
<1>5. Hours(t) = 24 * (YearDays(y) + d) + t.hour /\ d \in 1 .. YearLength(y) /\ Hours(t) \in Int
  BY <1>1, <1>2, <1>3, HoursInYear
<1>6. HasDate(z, t) /\ c >= d - 1
  BY <1>2, SameDay
<1>7. Hours(InYear(t, z)) = 24 * (YearDays(z) + c) + t.hour /\ c \in Nat
      /\ Hours(InYear(t, z)) \in Int
  BY <1>1, <1>2, HoursInYear
<1>8. YearDays(z) = YearDays(y) + YearLength(y) /\ YearDays(y) \in Int
  BY <1>2, NextYear
<1>9. YearLength(y) \in 365 .. 366
  BY DEF YearLength
<1>10. d \in Int
  BY <1>5, <1>9
<1>11. Hours(InYear(t, z)) >= Hours(t) + 24 * 364
  <2> HIDE DEF y, z, c, d
  <2> QED
    BY <1>2, <1>5, <1>6, <1>7, <1>8, <1>9, <1>10
<1>12. ASSUME Hours(now) - Hours(t) <= 7920
       PROVE  Hours(InYear(t, z)) - Hours(now) > 25
  <2> HIDE DEF z
  <2> QED
    BY <1>4, <1>5, <1>7, <1>11, <1>12
<1>13. z - 1 = y
  BY <1>2
<1> QED
  BY <1>1, <1>3, <1>6, <1>12, <1>13 DEF StampWithoutYear

\* parse_ts: the year that a line does not carry is found when the line is read in time.
LEMMA YearFound ==
    ASSUME NEW t \in Moments, NEW now \in Moments,
           <<t.month, t.day>> = <<2, 29>> => t.year = now.year
    PROVE  /\ Hours(now) - Hours(t) >= -25 /\ Hours(now) - Hours(t) <= 7920
           /\ Hours(now) - Hours(t) < 0 => t.year = now.year
           => StampWithoutYear(t, now) = t
<1> DEFINE lag == Hours(now) - Hours(t)
<1>1. t \in Dates /\ now \in Dates /\ HasDate(t.year, t) /\ HasDate(now.year, now)
  BY DEF Moments
<1>2. /\ t.year \in Nat /\ now.year \in Nat /\ t.hour \in 0 .. 23 /\ now.hour \in 0 .. 23
      /\ InYear(now, now.year) = now /\ InYear(t, t.year) = t
  BY <1>1, OwnYear DEF Dates
<1>3. Hours(now) \in Int /\ Hours(t) \in Int
  BY <1>1, <1>2, HoursInYear
<1>4. ASSUME t.year = now.year, lag >= -25 PROVE StampWithoutYear(t, now) = t
  <2>1. ~ (Hours(t) - Hours(now) > 25)
    BY <1>3, <1>4
  <2> QED
    BY <1>1, <1>2, <1>4, <2>1 DEF StampWithoutYear
<1>5. ASSUME t.year # now.year, 0 <= lag, lag <= 7920 PROVE now.year = t.year + 1
  BY <1>5, YearBefore
<1> HIDE DEF lag
<1>6. ASSUME lag >= -25, lag <= 7920, lag < 0 => t.year = now.year PROVE StampWithoutYear(t, now) = t
  <2>1. CASE t.year = now.year
    BY <1>4, <1>6, <2>1
  <2>2. CASE t.year # now.year
    <3>1. 0 <= lag /\ lag <= 7920
      BY <1>3, <1>6, <2>2 DEF lag
    <3>2. now.year = t.year + 1 /\ <<t.month, t.day>> # <<2, 29>> /\ lag <= 7920
      BY <1>5, <2>2, <3>1
    <3> QED
      BY <3>2, LastYear DEF lag
  <2> QED
    BY <2>1, <2>2
<1> QED
  BY <1>6 DEF lag

\* parse_ts: a line is stamped with the moment it was written, as far as StampRight says.
THEOREM StampRightTheorem ==
    ASSUME NEW f \in Formats, NEW t \in Moments, NEW now \in Moments
    PROVE  StampRight(f, t, now, Stamp(f, t, now))
<1>1. CASE f \in {"A", "E"}
  BY <1>1 DEF Stamp, StampRight
<1>2. CASE f = "C"
  <2>1. Stamp(f, t, now) = [now EXCEPT !.hour = t.hour]
    BY <1>2 DEF Stamp
  <2>2. t \in Dates /\ now \in Dates
    BY DEF Moments
  <2>3. <<t.year, t.month, t.day>> = <<now.year, now.month, now.day>> => Stamp(f, t, now) = t
    BY <2>1, <2>2 DEF Dates
  <2> QED
    BY <1>2, <2>3 DEF StampRight
<1>3. CASE f \in {"B", "D"}
  <2>1. Stamp(f, t, now) = StampWithoutYear(t, now)
    BY <1>3 DEF Stamp
  <2>2. f # "C" /\ f \notin {"A", "E"}
    BY <1>3
  <2>3. Hours(now) - Hours(t) \in -25 .. 330 * 24 =>
          Hours(now) - Hours(t) >= -25 /\ Hours(now) - Hours(t) <= 7920
    <3>1. Hours(InYear(t, t.year)) \in Int /\ Hours(InYear(now, now.year)) \in Int
      BY HoursInYear DEF Moments, Dates
    <3>2. Hours(t) \in Int /\ Hours(now) \in Int
      BY <3>1, OwnYear DEF Moments
    <3> DEFINE lag == Hours(now) - Hours(t)
    <3>3. lag \in Int
      BY <3>2
    <3> HIDE DEF lag
    <3>4. lag \in -25 .. 330 * 24 => lag >= -25 /\ lag <= 7920
      BY <3>3
    <3> QED
      BY <3>4 DEF lag
  <2> QED
    BY <2>1, <2>2, <2>3, NotAhead, YearFound DEF StampRight
<1> QED
  BY <1>1, <1>2, <1>3 DEF Formats

-----------------------------------------------------------------------------
(* import_legacy *)

\* An address space is not empty.
LEMMA AddressSpace == 2 ^ Bits \in Nat \ {0}
<1>1. IsFiniteSet(1 .. Bits) /\ Cardinality(1 .. Bits) = Bits
  BY LegacyRowsAssumption, FS_Interval
<1>2. IsFiniteSet(SUBSET (1 .. Bits)) /\ Cardinality(SUBSET (1 .. Bits)) = 2 ^ Bits
  BY <1>1, FS_SUBSET
<1> DEFINE P == SUBSET (1 .. Bits)
<1>3. IsFiniteSet(P) /\ P # {}
  BY <1>2
<1> HIDE DEF P
<1>4. Cardinality(P) \in Nat /\ Cardinality(P) # 0
  BY <1>3, FS_CardinalityType, FS_EmptySet
<1> QED
  BY <1>2, <1>4 DEF P

LEMMA UnsignedIsAddress ==
    ASSUME NEW v \in Int
    PROVE  Unsigned(v) \in Addresses /\ (v \in Addresses => Unsigned(v) = v)
<1> DEFINE n == 2 ^ Bits
<1>1. n \in Nat \ {0}
  BY AddressSpace
<1> HIDE DEF n
<1>2. v % n \in 0 .. n - 1 /\ (v \in 0 .. n - 1 => v % n = v)
  BY <1>1, SMTT(30)
<1> QED
  BY <1>2 DEF Unsigned, Addresses, n

\* SetToSeq lists a finite set without repetition.
LEMMA SetToSeqLists ==
    ASSUME NEW S, IsFiniteSet(S)
    PROVE  /\ SetToSeq(S) \in Seq(S) /\ Len(SetToSeq(S)) = Cardinality(S)
           /\ \A i, j \in 1 .. Cardinality(S) : SetToSeq(S)[i] = SetToSeq(S)[j] => i = j
           /\ \A x \in S : \E i \in 1 .. Cardinality(S) : SetToSeq(S)[i] = x
<1> DEFINE n == Cardinality(S)
           s == SetToSeq(S)
<1>1. n \in Nat /\ ExistsBijection(1 .. n, S)
  BY FS_CardinalityType
<1>2. PICK b : b \in Bijection(1 .. n, S)
  BY <1>1 DEF ExistsBijection
<1>3. b \in [1 .. n -> S] /\ IsInjective(b)
  BY <1>2 DEF Bijection, Injection, IsInjective
<1>4. s \in [1 .. n -> S] /\ IsInjective(s)
  BY <1>3 DEF SetToSeq
<1> HIDE DEF s, n
<1>5. IsFiniteSet(1 .. n) /\ Cardinality(1 .. n) = n
  BY <1>1, FS_Interval
<1>6. s \in Injection(1 .. n, S)
  BY <1>4 DEF Injection, IsInjective
<1>7. s \in Surjection(1 .. n, S)
  BY <1>5, <1>6, FS_Injection DEF n
<1>8. s \in Seq(S) /\ Len(s) = n
  BY <1>1, <1>4
<1>9. \A i, j \in 1 .. n : s[i] = s[j] => i = j
  BY <1>4 DEF IsInjective
<1>10. \A x \in S : \E i \in 1 .. n : s[i] = x
  BY <1>7 DEF Surjection
<1> QED
  BY <1>8, <1>9, <1>10 DEF s, n

\* get_or_create: the ids that were given keep their addresses, and every new address gets one.
LEMMA EnrolledRight ==
    ASSUME NEW known, IsRegistry(known), NEW A \in SUBSET Int, IsFiniteSet(A)
    PROVE  /\ Enrolled(known, A) \in Seq(Int)
           /\ \A i \in DOMAIN known : Enrolled(known, A)[i] = known[i]
           /\ \A i, j \in DOMAIN Enrolled(known, A) :
                 Enrolled(known, A)[i] = Enrolled(known, A)[j] => i = j
           /\ \A a \in A : \E i \in DOMAIN Enrolled(known, A) : Enrolled(known, A)[i] = a
<1> DEFINE N == A \ Range(known)
           s == SetToSeq(N)
           m == Len(known)
           n == Cardinality(N)
           r == Enrolled(known, A)
<1>1. IsFiniteSet(N)
  BY FS_Difference
<1>2. /\ s \in Seq(N) /\ Len(s) = n
      /\ \A i, j \in 1 .. n : s[i] = s[j] => i = j
      /\ \A x \in N : \E i \in 1 .. n : s[i] = x
  BY <1>1, SetToSeqLists
<1>3. known \in Seq(Int) /\ m \in Nat /\ DOMAIN known = 1 .. m
      /\ \A i, j \in 1 .. m : known[i] = known[j] => i = j
  BY DEF IsRegistry, IsInjective
<1>4. r = known \o s
  BY DEF Enrolled
<1>5. Range(known) = {known[i] : i \in 1 .. m}
  BY <1>3 DEF Range
<1>6. n \in Nat
  BY <1>1, FS_CardinalityType
<1>8. N = A \ {known[i] : i \in 1 .. m} /\ N \subseteq Int
  BY <1>5
<1> HIDE DEF s, n, r, N
<1>7. s \in Seq(Int)
  BY <1>2, <1>8
<1>9. r \in Seq(Int) /\ Len(r) = m + n /\ DOMAIN r = 1 .. m + n
  <2>1. r \in Seq(Int) /\ Len(r) = Len(known) + Len(s)
    BY <1>3, <1>4, <1>7
  <2> QED
    BY <1>2, <1>3, <1>6, <2>1
<1> HIDE DEF m
<1>10. /\ \A i \in 1 .. m : r[i] = known[i]
       /\ \A i \in m + 1 .. m + n : r[i] = s[i - m] /\ i - m \in 1 .. n
  BY <1>2, <1>3, <1>4, <1>6, <1>7 DEF m
<1>11. \A i \in 1 .. n : s[i] \in N
  BY <1>2
<1>12. \A i \in 1 .. m, j \in m + 1 .. m + n : r[i] # r[j]
  BY <1>8, <1>10, <1>11
<1>13. \A i, j \in 1 .. m + n : r[i] = r[j] => i = j
  <2> SUFFICES ASSUME NEW i \in 1 .. m + n, NEW j \in 1 .. m + n, r[i] = r[j] PROVE i = j
    OBVIOUS
  <2>1. CASE i \in 1 .. m /\ j \in 1 .. m
    BY <1>3, <1>10, <2>1
  <2>2. CASE i \in m + 1 .. m + n /\ j \in m + 1 .. m + n
    BY <1>2, <1>3, <1>6, <1>10, <2>2
  <2> QED
    BY <1>3, <1>6, <1>12, <2>1, <2>2
<1>14. \A a \in A : \E i \in 1 .. m + n : r[i] = a
  <2> SUFFICES ASSUME NEW a \in A PROVE \E i \in 1 .. m + n : r[i] = a
    OBVIOUS
  <2>1. CASE a \in N
    <3>1. PICK k \in 1 .. n : s[k] = a
      BY <1>2, <2>1
    <3>2. k + m \in m + 1 .. m + n /\ (k + m) - m = k /\ k + m \in 1 .. m + n
      BY <1>3, <1>6
    <3>3. r[k + m] = a
      BY <1>10, <3>1, <3>2
    <3> QED
      BY <3>2, <3>3
  <2>2. CASE a \notin N
    <3>1. PICK k \in 1 .. m : known[k] = a
      BY <1>8, <2>2
    <3>2. k \in 1 .. m + n /\ r[k] = a
      BY <1>3, <1>6, <1>10, <3>1
    <3> QED
      BY <3>2
  <2> QED
    BY <2>1, <2>2
<1> QED
  BY <1>3, <1>9, <1>10, <1>13, <1>14 DEF r

\* The cells of a table.
LEMMA FiniteTable ==
    ASSUME NEW D, IsFiniteSet(D), NEW C, IsFiniteSet(C), NEW rows,
           NEW T, T = {rows[i][c] : i \in D, c \in C}
    PROVE  IsFiniteSet(T)
<1> DEFINE row(i) == {rows[i][c] : c \in C}
           g == [i \in D |-> row(i)]
           R == {g[i] : i \in D}
<1>1. \A i \in D : IsFiniteSet(row(i))
  <2> SUFFICES ASSUME NEW i \in D PROVE IsFiniteSet(row(i))
    OBVIOUS
  <2> DEFINE h == [c \in C |-> rows[i][c]]
             U == row(i)
  <2>1. DOMAIN h = C /\ U = {h[c] : c \in C}
    OBVIOUS
  <2> HIDE DEF h, U
  <2>2. IsFiniteSet(U)
    BY <2>1, FiniteImage
  <2> QED
    BY <2>2 DEF U
<1>2. DOMAIN g = D /\ \A i \in D : g[i] = row(i)
  OBVIOUS
<1>3. UNION R = T
  OBVIOUS
<1> HIDE DEF g
<1>4. IsFiniteSet(R)
  BY <1>2, FiniteImage
<1>5. \A U \in R : IsFiniteSet(U)
  BY <1>1, <1>2
<1> HIDE DEF R
<1>6. IsFiniteSet(UNION R)
  BY <1>4, <1>5, FS_UNION
<1> QED
  BY <1>3, <1>6

\* The rows of a database hold finitely many values, which are registered as addresses.
LEMMA AddressesFinite ==
    ASSUME NEW db, IsDatabase(db)
    PROVE  /\ AddressesOf(Schema(db.tables), db) \in SUBSET Addresses
           /\ IsFiniteSet(AddressesOf(Schema(db.tables), db))
<1> DEFINE schema == Schema(db.tables)
           V == Values(db.rows)
           W == {db.rows[i][c] : i \in DOMAIN db.rows, c \in Columns}
<1>1. /\ db.ips \in Seq(Int) /\ db.rows \in Seq([Columns -> OldValues(schema) \cup {Null}])
      /\ schema \in {"v2", "A", "B", "C"}
  BY DEF IsDatabase, Schema
<1>2. IsFiniteSet(DOMAIN db.rows) /\ IsFiniteSet(DOMAIN db.ips)
  <2>1. /\ Len(db.rows) \in Nat /\ DOMAIN db.rows = 1 .. Len(db.rows)
        /\ Len(db.ips) \in Nat /\ DOMAIN db.ips = 1 .. Len(db.ips)
    BY <1>1
  <2>2. \A n \in Nat : IsFiniteSet(1 .. n)
    BY FS_Interval
  <2> QED
    BY <2>1, <2>2
<1>3. IsFiniteSet(Columns)
  <2>1. IsFiniteSet({"src"}) /\ IsFiniteSet({"dst"}) /\ IsFiniteSet({"nat"})
    BY FS_Singleton
  <2>2. Columns = ({"src"} \cup {"dst"}) \cup {"nat"}
    BY DEF Columns
  <2> QED
    BY <2>1, <2>2, FS_Union
<1>4. V = W \ {Null}
  BY DEF Values
<1>5. IsFiniteSet(W)
  BY <1>2, <1>3, FiniteTable
<1>7. IsFiniteSet(V)
  <2> HIDE DEF V, W
  <2> QED
    BY <1>4, <1>5, FS_Difference
<1>8. V \subseteq OldValues(schema)
  <2>1. \A i \in DOMAIN db.rows, c \in Columns : db.rows[i][c] \in OldValues(schema) \cup {Null}
    BY <1>1
  <2> QED
    BY <2>1 DEF Values
<1>9. ASSUME NEW X \in SUBSET Int, IsFiniteSet(X)
      PROVE  IsFiniteSet({Unsigned(v) : v \in X}) /\ {Unsigned(v) : v \in X} \subseteq Addresses
  <2> DEFINE g == [v \in X |-> Unsigned(v)]
             T == {Unsigned(v) : v \in X}
  <2>1. DOMAIN g = X /\ T = {g[v] : v \in X}
    OBVIOUS
  <2> HIDE DEF g, T
  <2>2. IsFiniteSet(T)
    BY <1>9, <2>1, FiniteImage
  <2> QED
    BY <2>2, UnsignedIsAddress DEF T
<1>10. 0 \in Addresses
  BY AddressSpace DEF Addresses
<1> HIDE DEF V, W
<1>11. CASE schema = "v2"
  <2> DEFINE X == {db.ips[i] : i \in DOMAIN db.ips}
  <2>1. IsFiniteSet(X) /\ X \subseteq Int
    BY <1>1, <1>2, FiniteImage
  <2>2. AddressesOf(schema, db) = {Unsigned(v) : v \in X}
    BY <1>11 DEF AddressesOf
  <2> HIDE DEF X
  <2> QED
    BY <1>9, <2>1, <2>2
<1>12. CASE schema = "B"
  <2>1. V \in SUBSET Int
    BY <1>8, <1>12 DEF OldValues
  <2>2. AddressesOf(schema, db) = {Unsigned(v) : v \in V}
    BY <1>12 DEF AddressesOf, V
  <2> QED
    BY <1>7, <1>9, <2>1, <2>2
<1>13. CASE schema = "C"
  <2>1. V \ {0} \in SUBSET Int /\ IsFiniteSet(V \ {0})
    BY <1>7, <1>8, <1>13, FS_Difference DEF OldValues
  <2>2. AddressesOf(schema, db) = {Unsigned(v) : v \in V \ {0}}
    BY <1>13 DEF AddressesOf, V
  <2> QED
    BY <1>9, <2>1, <2>2
<1>14. CASE schema = "A"
  <2>1. V \subseteq Addresses
    BY <1>8, <1>14 DEF OldValues
  <2>2. AddressesOf(schema, db) \subseteq V \cup {0}
    BY <1>14 DEF AddressesOf, V
  <2>3. IsFiniteSet(V \cup {0})
    BY <1>7, FS_AddElement
  <2>4. AddressesOf(schema, db) \in SUBSET (V \cup {0})
    BY <2>2
  <2> QED
    BY <1>10, <2>1, <2>3, <2>4, FS_Subset
<1> QED
  BY <1>1, <1>11, <1>12, <1>13, <1>14

\* import_legacy: every row of an old database of any schema comes through with its addresses.
THEOREM AddressesKeptTheorem ==
    ASSUME NEW known, IsRegistry(known), NEW db, IsDatabase(db)
    PROVE  AddressesKept(known, db, Imported(known, db))
<1> DEFINE schema == Schema(db.tables)
           A == AddressesOf(schema, db)
           r == Enrolled(known, A)
           map == IpMap(schema, db, r)
           new == Imported(known, db)
<1>1. A \in SUBSET Addresses /\ IsFiniteSet(A) /\ Addresses \subseteq Int /\ A \in SUBSET Int
  BY AddressesFinite, AddressSpace DEF Addresses
<1>2. /\ r \in Seq(Int)
      /\ \A i \in DOMAIN known : r[i] = known[i]
      /\ \A i, j \in DOMAIN r : r[i] = r[j] => i = j
      /\ \A a \in A : \E i \in DOMAIN r : r[i] = a
  BY <1>1, EnrolledRight
<1>3. \A a \in A : IdOf(r, a) \in DOMAIN r /\ r[IdOf(r, a)] = a
  BY <1>2 DEF IdOf
<1>4. DOMAIN r = 1 .. Len(r) /\ Len(r) \in Nat
  BY <1>2
<1>5. 0 \notin DOMAIN r /\ Null \notin DOMAIN r /\ Null # 0
  BY <1>4, LegacyRowsAssumption
<1>6. /\ new.registry = r
      /\ \A i \in DOMAIN db.rows :
            new.rows[i] = IF schema = "A" THEN TextRow(r, db.rows[i]) ELSE JoinedRow(map, db.rows[i])
  BY DEF Imported
<1>7. schema \in {"v2", "A", "B", "C"} /\ db.ips \in Seq(Int)
  BY DEF Schema, IsDatabase
<1>8. \A i \in DOMAIN db.rows, c \in Columns : db.rows[i][c] \in OldValues(schema) \cup {Null}
  BY DEF IsDatabase
<1> HIDE DEF A, r, map, new
<1>9. ASSUME NEW i \in DOMAIN db.rows, NEW c \in Columns,
             ~Lost(db, c, db.rows[i][c]), db.rows[i][c] # Null \/ schema # "A"
      PROVE  NewAddress(r, new.rows[i][c]) = OldAddress(db, db.rows[i][c])
  <2> DEFINE v == db.rows[i][c]
  <2>1. CASE schema = "A"
    <3>1. v # Null /\ v \in Addresses /\ Unsigned(v) = v
      BY <1>1, <1>8, <1>9, <2>1, UnsignedIsAddress DEF OldValues
    <3>2. v # 0 \/ c \in {"src", "dst"}
      BY <1>9, <2>1 DEF Lost, Columns
    <3>3. v \in A
      <4>1. v # 0 => v \in Values(db.rows) \ {0}
        BY <3>1 DEF Values
      <4>2. v = 0 => db.rows[i].src = 0 \/ db.rows[i].dst = 0
        BY <3>2
      <4> QED
        BY <2>1, <4>1, <4>2 DEF A, AddressesOf
    <3>4. new.rows[i][c] = IdOf(r, v)
      <4>1. new.rows[i] = TextRow(r, db.rows[i])
        BY <1>6, <2>1
      <4> QED
        BY <3>1, <3>2, <4>1 DEF TextRow, OrZero, Columns
    <3>5. OldAddress(db, v) = v
      BY <2>1, <3>1 DEF OldAddress
    <3> QED
      BY <1>3, <3>3, <3>4, <3>5 DEF NewAddress
  <2>2. CASE schema # "A"
    <3>1. new.rows[i] = JoinedRow(map, db.rows[i])
      BY <1>6, <2>2
    <3>2. new.rows[i][c] = Joined(map, v) \/ (c # "nat" /\ new.rows[i][c] = OrZero(Joined(map, v)))
      BY <3>1 DEF JoinedRow, Columns
    <3>3. ASSUME v \notin DOMAIN map PROVE NewAddress(r, new.rows[i][c]) = Null
      BY <1>5, <3>2, <3>3 DEF Joined, OrZero, NewAddress
    <3>4. ASSUME v \in DOMAIN map, map[v] \in DOMAIN r
          PROVE  NewAddress(r, new.rows[i][c]) = r[map[v]]
      BY <1>5, <3>2, <3>4 DEF Joined, OrZero, NewAddress
    <3>5. CASE schema = "v2"
      <4>1. map = [k \in DOMAIN db.ips |-> IdOf(r, Unsigned(db.ips[k]))]
        BY <3>5 DEF map, IpMap
      <4>2. \A k \in DOMAIN db.ips : Unsigned(db.ips[k]) \in A
        BY <3>5 DEF A, AddressesOf
      <4>3. OldAddress(db, v) = IF v \in DOMAIN db.ips THEN Unsigned(db.ips[v]) ELSE Null
        BY <3>5 DEF OldAddress
      <4>4. CASE v \in DOMAIN db.ips
        <5>1. v \in DOMAIN map /\ map[v] = IdOf(r, Unsigned(db.ips[v]))
          BY <4>1, <4>4
        <5> QED
          BY <1>3, <3>4, <4>2, <4>3, <4>4, <5>1
      <4>5. CASE v \notin DOMAIN db.ips
        BY <3>3, <4>1, <4>3, <4>5
      <4> QED
        BY <4>4, <4>5
    <3>6. CASE schema \in {"B", "C"}
      <4>1. map = [a \in A |-> IdOf(r, a)]
        BY <3>6 DEF map, IpMap, A
      <4>2. OldAddress(db, v) = IF v = Null THEN Null ELSE Unsigned(v)
        BY <3>6 DEF OldAddress
      <4>3. CASE v = Null
        <5>1. v \notin DOMAIN map
          BY <1>1, <4>1, <4>3, LegacyRowsAssumption
        <5> QED
          BY <3>3, <4>2, <4>3, <5>1
      <4>4. CASE v # Null
        <5>1. v \in Int /\ v < 2 ^ Bits
          BY <1>8, <3>6, <4>4 DEF OldValues
        <5>2. ~ (v < 0) /\ (schema = "C" => v # 0)
          BY <1>9, <3>6, <4>4 DEF Lost
        <5>3. v \in Addresses
          BY <5>1, <5>2, AddressSpace DEF Addresses
        <5>4. Unsigned(v) = v
          BY <5>1, <5>3, UnsignedIsAddress
        <5>5. v \in Values(db.rows)
          BY <4>4 DEF Values
        <5>6. v \in A
          BY <3>6, <5>2, <5>4, <5>5 DEF A, AddressesOf
        <5> QED
          BY <1>3, <3>4, <4>1, <4>2, <4>4, <5>4, <5>6
      <4> QED
        BY <4>3, <4>4
    <3> QED
      BY <1>7, <2>2, <3>5, <3>6
  <2> QED
    BY <2>1, <2>2
<1>10. \A i \in DOMAIN db.rows, c \in Columns :
          LET v == db.rows[i][c] IN
          ~Lost(db, c, v) /\ (v # Null \/ Schema(db.tables) # "A") =>
             NewAddress(new.registry, new.rows[i][c]) = OldAddress(db, v)
  BY <1>6, <1>9
<1>11. /\ \A i \in DOMAIN known : new.registry[i] = known[i]
       /\ \A i, j \in DOMAIN new.registry : new.registry[i] = new.registry[j] => i = j
  BY <1>2, <1>6
<1> HIDE DEF schema
<1>12. AddressesKept(known, db, new)
  BY <1>10, <1>11, Zenon DEF AddressesKept
<1> QED
  BY <1>12 DEF new

-----------------------------------------------------------------------------
(* The specification *)

Tasks == StatsTasks \cup DayTasks \cup LineTasks \cup DatabaseTasks

\* An answer is a result of the call that the task is.
AlgInv ==
    /\ task \in Tasks
    /\ Answered("stats") => \E v \in Verdicts(task.stats) : answer = [verdict |-> v]
    /\ Answered("day") =>
          \E st \in CollectStats(task.day) : \E v \in Verdicts(st) :
             answer = [verdict |-> v, narrative |-> Narrative(st)]
    /\ Answered("line") => answer = Stamp(task.format, task.sent, task.now)
    /\ Answered("database") => answer = Imported(task.known, task.db)

\* Each answer comes from its own call.
LEMMA AlgInvariant == Spec => []AlgInv
<1>1. Init => AlgInv
  BY DEF Init, AlgInv, Answered, Tasks
<1>2. AlgInv /\ [Next]_vars => AlgInv'
  <2> SUFFICES ASSUME AlgInv, [Next]_vars PROVE AlgInv'
    OBVIOUS
  <2>1. CASE Classify
    <3>1. task' = task /\ task.of = "stats" /\ task \in Tasks
          /\ \E v \in Verdicts(task.stats) : answer' = [verdict |-> v]
      BY <2>1 DEF Classify, Answers, AlgInv
    <3> QED
      BY <3>1 DEF AlgInv, Answered, Tasks
  <2>2. CASE Analyze
    <3>1. task' = task /\ task.of = "day" /\ task \in Tasks
          /\ \E st \in CollectStats(task.day) : \E v \in Verdicts(st) :
                answer' = [verdict |-> v, narrative |-> Narrative(st)]
      BY <2>2 DEF Analyze, Answers, AlgInv
    <3> QED
      BY <3>1 DEF AlgInv, Answered, Tasks
  <2>3. CASE Parse
    <3>1. task' = task /\ task.of = "line" /\ task \in Tasks
          /\ answer' = Stamp(task.format, task.sent, task.now)
      BY <2>3 DEF Parse, Answers, AlgInv
    <3> QED
      BY <3>1 DEF AlgInv, Answered, Tasks
  <2>4. CASE Import
    <3>1. task' = task /\ task.of = "database" /\ task \in Tasks
          /\ answer' = Imported(task.known, task.db)
      BY <2>4 DEF Import, Answers, AlgInv
    <3> QED
      BY <3>1 DEF AlgInv, Answered, Tasks
  <2>5. CASE UNCHANGED vars
    BY <2>5 DEF vars, AlgInv, Answered, Tasks
  <2> QED
    BY <2>1, <2>2, <2>3, <2>4, <2>5 DEF Next
<1> QED
  BY <1>1, <1>2, PTL DEF Spec

\* The kinds of tasks are told apart by their name.
LEMMA TaskArguments ==
    ASSUME task \in Tasks
    PROVE  /\ task.of = "stats" => task.stats \in Stats
           /\ task.of = "day" => IsDay(task.day)
           /\ task.of = "line" => task.format \in Formats /\ task.sent \in Moments
                                                         /\ task.now \in Moments
           /\ task.of = "database" => IsRegistry(task.known) /\ IsDatabase(task.db)
<1>1. CASE task \in StatsTasks
  BY <1>1, AlgorithmsAssumption DEF StatsTasks
<1>2. CASE task \in DayTasks
  BY <1>2, AlgorithmsAssumption DEF DayTasks
<1>3. CASE task \in LineTasks
  BY <1>3, AlgorithmsAssumption DEF LineTasks
<1>4. CASE task \in DatabaseTasks
  BY <1>4, AlgorithmsAssumption DEF DatabaseTasks
<1> QED
  BY <1>1, <1>2, <1>3, <1>4 DEF Tasks

\* classify_traffic: a flow repeated half a million times is named.
THEOREM LoopsAreNamed == Spec => []LoopsNamed
<1>1. AlgInv => LoopsNamed
  BY TaskArguments, LoopNamedTheorem DEF AlgInv, LoopsNamed, Answered
<1> QED
  BY <1>1, AlgInvariant, PTL

\* classify_traffic: a verdict gives its reasons.
THEOREM VerdictsAreExplained == Spec => []VerdictsExplained
<1>1. AlgInv => VerdictsExplained
  BY TaskArguments, VerdictExplainedTheorem DEF AlgInv, VerdictsExplained, Answered
<1> QED
  BY <1>1, AlgInvariant, PTL

\* analyze_day: an abuse that a verdict names was counted in the day's rows, and the
\* narrative shows what the verdict rests on.
THEOREM AbusesAreCounted == Spec => []AbusesCounted
<1>1. ASSUME AlgInv, Answered("day")
      PROVE  AbuseWasCounted(task.day, answer.verdict)
             /\ NarrativeFits(answer.verdict, answer.narrative)
  <2>1. IsDay(task.day)
    BY <1>1, TaskArguments DEF AlgInv, Answered
  <2>2. PICK st \in CollectStats(task.day) : \E v \in Verdicts(st) :
             answer = [verdict |-> v, narrative |-> Narrative(st)]
    BY <1>1 DEF AlgInv
  <2>3. PICK v \in Verdicts(st) : answer = [verdict |-> v, narrative |-> Narrative(st)]
    BY <2>2
  <2>4. answer.verdict = v /\ answer.narrative = Narrative(st)
    BY <2>3
  <2>5. AbuseWasCounted(task.day, v)
    BY <2>1, AbuseWasCountedTheorem
  <2>6. NarrativeFits(v, Narrative(st))
    BY <2>1, StatsRight, NarrativeFitsTheorem
  <2> QED
    BY <2>4, <2>5, <2>6
<1>2. AlgInv => AbusesCounted
  BY <1>1 DEF AbusesCounted
<1> QED
  BY <1>2, AlgInvariant, PTL

\* analyze_day: malware that a verdict names was UDP in the day.
THEOREM MalwareIsFound == Spec => []MalwareFound
<1>1. ASSUME AlgInv, Answered("day")
      PROVE  MalwareIsUdp(task.day, task.names, answer.verdict)
  <2>1. IsDay(task.day)
    BY <1>1, TaskArguments DEF AlgInv, Answered
  <2>2. PICK st \in CollectStats(task.day) : \E v \in Verdicts(st) :
             answer = [verdict |-> v, narrative |-> Narrative(st)]
    BY <1>1 DEF AlgInv
  <2>3. PICK v \in Verdicts(st) : answer = [verdict |-> v, narrative |-> Narrative(st)]
    BY <2>2
  <2>4. MalwareIsUdp(task.day, task.names, v)
    BY <2>1, MalwareIsUdpTheorem
  <2> QED
    BY <2>3, <2>4
<1>2. AlgInv => MalwareFound
  BY <1>1 DEF MalwareFound
<1> QED
  BY <1>2, AlgInvariant, PTL

\* parse_line: a line has the moment it was written, as far as StampRight says.
THEOREM StampsAreRight == Spec => []StampsRight
<1>1. AlgInv => StampsRight
  BY TaskArguments, StampRightTheorem DEF AlgInv, StampsRight, Answered
<1> QED
  BY <1>1, AlgInvariant, PTL

\* import_legacy: rows keep their addresses, and ids that were given keep theirs.
THEOREM ImportsKeepAddresses == Spec => []ImportsKeep
<1>1. AlgInv => ImportsKeep
  BY TaskArguments, AddressesKeptTheorem DEF AlgInv, ImportsKeep, Answered
<1> QED
  BY <1>1, AlgInvariant, PTL
=============================================================================
