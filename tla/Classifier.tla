----------------------------- MODULE Classifier -----------------------------
(***************************************************************************)
(* classify_traffic of megalog/analytics/classifier.py: nine scores, and   *)
(* the category with the best of them.                                     *)
(*                                                                         *)
(* Scores are hundredths.  Shares are integers in the unit to which        *)
(* collect_stats rounds them: thousandths for the top client and the port  *)
(* ranges, ten-thousandths for the protocols, tenths of a percent for the  *)
(* top client's profile, and tenths for the average.  The code adds        *)
(* floats: where a sum equals a limit or another sum, the rounding decides *)
(* and both outcomes are allowed.  One tie is not left open: port shares   *)
(* that add up to exactly 0.70 count as 0.70 (P2PPorts), though the float  *)
(* may fall just short.  A reason is a word for the code's sentence.       *)
(***************************************************************************)
EXTENDS Integers

\* The entries of `stats` that the classifier reads and uses.
Stats ==
    [ srcIps : Nat, dstIps : Nat, dstPorts : Nat, avgPorts : Nat, topPct : Nat, suspects : Nat,
      wkPct : Nat, regPct : Nat, ephPct : Nat,
      ntpConns : Nat, ntpPct : Nat, ntpClients : Nat, ntpServers : Nat,
      dnsConns : Nat, dnsPct : Nat, dnsClients : Nat, dnsServers : Nat,
      httpPct : Nat, topPorts : Nat, topDips : Nat, topWkPct : Nat,
      maxFlow : Nat, udpOnTcp : Nat, udpOnTcpPct : Nat ]

\* What stats.get returns for a day without rows.
NoStats ==
    [ srcIps |-> 1, dstIps |-> 0, dstPorts |-> 0, avgPorts |-> 0, topPct |-> 0, suspects |-> 0,
      wkPct |-> 0, regPct |-> 0, ephPct |-> 0,
      ntpConns |-> 0, ntpPct |-> 0, ntpClients |-> 0, ntpServers |-> 0,
      dnsConns |-> 0, dnsPct |-> 0, dnsClients |-> 0, dnsServers |-> 0,
      httpPct |-> 0, topPorts |-> 0, topDips |-> 0, topWkPct |-> 0,
      maxFlow |-> 0, udpOnTcp |-> 0, udpOnTcpPct |-> 0 ]

Signal(c, points) == IF c THEN points ELSE 0
Less(s, points) == IF s >= points THEN s - points ELSE 0
Says(c, reason) == IF c THEN {reason} ELSE {}
AtMost(s) == IF s > 100 THEN 100 ELSE s

-----------------------------------------------------------------------------
(* A) P2P/Torrent *)

P2PMesh(st) ==
    IF st.topPorts >= 2000 /\ st.topDips >= 2000 THEN 30
    ELSE Signal(st.topPorts >= 500 /\ st.topDips >= 500, 15)

P2PSuspects(st) ==
    IF st.suspects >= 20 /\ st.avgPorts >= 1000 THEN 30
    ELSE Signal(st.suspects >= 5 /\ st.avgPorts >= 500, 15)

P2PPorts(st) ==
    IF st.ephPct >= 300 /\ st.dstPorts >= 3000 THEN 20
    ELSE Signal(st.regPct + st.ephPct >= 700 /\ st.dstPorts >= 1500, 10)

P2PSwarm(st) ==
    LET s == P2PMesh(st) + P2PSuspects(st) + P2PPorts(st)
    IN  s + (IF st.dstIps >= 10000 THEN 15 ELSE Signal(st.dstIps >= 3000 /\ s >= 15, 8))

LittleWeb(st) == st.httpPct < 1000 /\ st.dnsPct < 2000 /\ P2PSwarm(st) >= 15

\* Mutant: a flow that is repeated is no argument against P2P.
P2PScoreWithoutFlow(st) ==
    LET signals == P2PSwarm(st) + Signal(LittleWeb(st), 10)
        web == Less(signals, Signal(st.httpPct >= 5000, 20))
    IN  Less(web, Signal(st.wkPct >= 700, 15))

P2PScore(st) ==
    LET signals == P2PSwarm(st) + Signal(LittleWeb(st), 10)
        web == Less(signals, Signal(st.httpPct >= 5000, 20))
        known == Less(web, Signal(st.wkPct >= 700, 15))
    IN  Less(known, Signal(st.maxFlow >= 5000, 20))

\* Mutant: the weaker sign of the suspects has no sentence, like that of the mesh.
P2PReasonsStrong(st) ==
    Says(P2PMesh(st) = 30, "mesh") \cup Says(P2PSuspects(st) = 30, "suspects")
    \cup Says(P2PPorts(st) = 20, "ephemeral") \cup Says(st.dstIps >= 10000, "swarm")
    \cup Says(LittleWeb(st), "little web")

P2PReasons(st) ==
    Says(P2PMesh(st) = 30, "mesh") \cup Says(P2PSuspects(st) > 0, "suspects")
    \cup Says(P2PPorts(st) = 20, "ephemeral") \cup Says(st.dstIps >= 10000, "swarm")
    \cup Says(LittleWeb(st), "little web")

-----------------------------------------------------------------------------
(* B) and C) Abuse of a protocol *)

NtpMany(st) == st.ntpConns >= 100000 /\ st.ntpPct >= 200

NtpScore(st) ==
    IF ~NtpMany(st) THEN 0
    ELSE (IF st.ntpClients <= 3 THEN 70 ELSE Signal(st.ntpClients <= 10, 50))
         + Signal(st.ntpServers >= 50, 15)

NtpReasons(st) ==
    IF ~NtpMany(st) THEN {}
    ELSE Says(st.ntpClients <= 10, "clients") \cup Says(st.ntpClients = 1, "one client")
         \cup Says(st.ntpServers >= 50, "servers")
         \cup Says(st.ntpServers <= 3 /\ st.ntpClients <= 3, "loop")

DnsMany(st) == st.dnsConns >= 500000 /\ st.dnsPct >= 1500

DnsScore(st) ==
    IF ~DnsMany(st) THEN 0
    ELSE IF st.dnsClients <= 5 THEN 60 + Signal(st.dnsServers >= 100, 15)
    ELSE Signal(st.dnsServers <= 3 /\ st.dnsClients >= 20, 55)

DnsReasons(st) ==
    IF ~DnsMany(st) THEN {}
    ELSE Says(st.dnsClients <= 5, "clients")
         \cup Says(st.dnsServers <= 3 /\ st.dnsClients >= 20, "one server")
         \cup Says(st.dnsServers >= 100 /\ st.dnsClients <= 5, "servers")

-----------------------------------------------------------------------------
(* D) to F) Attack, scan, botnet *)

DosTop(st) ==
    IF st.topPct >= 800 /\ st.dstIps <= 10 THEN 55
    ELSE Signal(st.topPct >= 600 /\ st.dstIps <= 20, 35)

DosFew(st) == st.srcIps <= 5 /\ st.dstIps <= 5
DosSum(st) == DosTop(st) + Signal(DosFew(st), 25)
DosPorts(st) == st.dstPorts <= 5 /\ DosSum(st) >= 25

DosScore(st) ==
    LET wide == Less(DosSum(st) + Signal(DosPorts(st), 15), Signal(st.dstIps >= 1000, 30))
    IN  Less(wide, Signal(st.suspects >= 10, 15))

DosReasons(st) ==
    Says(DosTop(st) > 0, "top client") \cup Says(DosFew(st), "concentrated")
    \cup Says(DosPorts(st), "ports")

ScanPorts(st) ==
    IF st.srcIps <= 10 /\ st.dstPorts >= 1000 THEN 55
    ELSE Signal(st.srcIps <= 5 /\ st.dstPorts >= 500, 40)

ScanIps(st) == st.dstIps >= 500 /\ st.srcIps <= 10

ScanScore(st) ==
    Less(ScanPorts(st) + Signal(ScanIps(st), 20), Signal(st.srcIps >= 30, 25))

ScanReasons(st) == Says(ScanPorts(st) > 0, "ports") \cup Says(ScanIps(st), "addresses")

BotFew(st) ==
    IF st.srcIps >= 30 /\ st.dstIps <= 10 /\ st.dstPorts <= 5 THEN 70
    ELSE Signal(st.srcIps >= 20 /\ st.dstIps <= 15 /\ st.dstPorts <= 8, 45)

BotEven(st) == st.srcIps >= 30 /\ st.topPct <= 150
BotSum(st) == BotFew(st) + Signal(BotEven(st), 15)
BotUdp(st) == st.udpOnTcp >= 5000 /\ BotSum(st) >= 20
BotScore(st) == BotSum(st) + Signal(BotUdp(st), 15)

BotReasons(st) ==
    Says(BotFew(st) > 0, "few targets") \cup Says(BotEven(st), "even")
    \cup Says(BotUdp(st), "udp on tcp")

-----------------------------------------------------------------------------
(* G) Bandwidth, which looks at the scores of A) and D) *)

\* below: whether the sum of P2P counts as less than 0.40 when it equals it.
BandOpen(st, below) ==
    /\ st.topPct >= 500
    /\ P2PScore(st) < 40 \/ (P2PScore(st) = 40 /\ below)
    /\ DosScore(st) < 35

BandServices(st) == st.topWkPct >= 300 /\ st.topPorts < 500

BandScore(st, below) ==
    IF ~BandOpen(st, below) THEN 0
    ELSE IF BandServices(st) THEN 50 ELSE Signal(st.topPct >= 400 /\ st.srcIps >= 3, 35)

BandReasons(st) == IF BandServices(st) THEN {"services"} ELSE {"dominant"}

-----------------------------------------------------------------------------
(* H) and I) Floods, malware *)

FloodScore(st) ==
    IF st.maxFlow >= 500000 THEN 90
    ELSE IF st.maxFlow >= 100000 THEN 80
    ELSE IF st.maxFlow >= 10000 THEN 65
    ELSE Signal(st.maxFlow >= 1000, 45)

MalwareUdp(st) ==
    IF st.udpOnTcp >= 10000 /\ st.udpOnTcpPct >= 100 THEN 60 ELSE Signal(st.udpOnTcp >= 1000, 40)

MalwareLoop(st) == MalwareUdp(st) >= 30 /\ FloodScore(st) >= 30
MalwareScore(st) == MalwareUdp(st) + Signal(MalwareLoop(st), 20)
MalwareReasons(st) == Says(MalwareUdp(st) > 0, "udp on tcp") \cup Says(MalwareLoop(st), "loop")

-----------------------------------------------------------------------------
(* The choice *)

Named == {"p2p", "ntp", "dns", "dos", "scan", "botnet", "band", "flood", "malware"}
Categories == Named \cup {"unknown"}

Score(st, c, below) ==
    CASE c = "p2p" -> AtMost(P2PScore(st))
      [] c = "ntp" -> NtpScore(st)
      [] c = "dns" -> DnsScore(st)
      [] c = "dos" -> DosScore(st)
      [] c = "scan" -> ScanScore(st)
      [] c = "botnet" -> BotScore(st)
      [] c = "band" -> BandScore(st, below)
      [] c = "flood" -> FloodScore(st)
      [] c = "malware" -> MalwareScore(st)
      [] OTHER -> 30

Reasons(st, c) ==
    CASE c = "p2p" -> P2PReasons(st)
      [] c = "ntp" -> NtpReasons(st)
      [] c = "dns" -> DnsReasons(st)
      [] c = "dos" -> DosReasons(st)
      [] c = "scan" -> ScanReasons(st)
      [] c = "botnet" -> BotReasons(st)
      [] c = "band" -> BandReasons(st)
      [] c = "flood" -> {"repeated"}
      [] c = "malware" -> MalwareReasons(st)
      [] OTHER -> {"unclear"}

\* The first of the best scores, none of which is worse than the limit of 0.30.
Best(st, c, below) == \A o \in Categories : Score(st, o, below) <= Score(st, c, below)

Verdict(st, c, below) ==
    [category |-> c, score |-> Score(st, c, below), reasons |-> Reasons(st, c)]

\* classify_traffic: the verdicts that rounding leaves open.
Verdicts(st) ==
    {Verdict(st, cb[1], cb[2]) : cb \in {p \in Categories \X BOOLEAN : Best(st, p[1], p[2])}}

-----------------------------------------------------------------------------
(* Properties of a verdict *)

\* classify_traffic weighs nine categories against each other: whatever else is in the day,
\* one flow that is repeated 500 000 times is reported as such, or as one of the
\* two categories that concentrated traffic has.
LoopNamed(st, v) == st.maxFlow >= 500000 => v.category \in {"flood", "dos", "botnet"}

\* An alert's list of reasons: the verdict gives one, and only P2P may be found by three
\* weak signs, none of which is worth a sentence, when a tenth to a half is web.
VerdictExplained(st, v) ==
    v.reasons = {} => /\ v.category = "p2p" /\ v.score = 33
                      /\ st.httpPct < 5000 /\ (st.httpPct >= 1000 \/ st.dnsPct >= 2000)
=============================================================================
