------------------------------ MODULE Analyzer ------------------------------
(***************************************************************************)
(* collect_stats and analyze_day of megalog/analytics/anomaly_analyzer.py: *)
(* the figures of one day, the verdict, and what the narrative points out. *)
(*                                                                         *)
(* A day is a function from flows to the number of their rows.  src and    *)
(* dst are address ids, which no writer leaves NULL; port is dst_port,     *)
(* which can be NULL only in days from old databases, and those rows are   *)
(* left out; proto is the id in the day's dictionary, and `names` lists    *)
(* the protocols by id.                                                    *)
(***************************************************************************)
EXTENDS Classifier, FiniteSets, FiniteSetsExt, Functions, Sequences

\* services.py
TcpOnlyPorts == {21, 22, 23, 25, 110, 143, 465, 587, 993, 995}

WellKnown(p) == p <= 1023
Registered(p) == p \in 1024 .. 49151
Ephemeral(p) == p >= 49152

Flows == [src : Nat, dst : Nat, port : 0 .. 65535, proto : Nat]
IsDay(day) ==
    DOMAIN day \subseteq Flows /\ IsFiniteSet(DOMAIN day) /\ \A f \in DOMAIN day : day[f] \in Nat \ {0}

\* COUNT(*) FILTER: the rows of the flows that satisfy a condition, summed by their number.
Rows(day, flows) ==
    SumFunction([n \in {day[f] : f \in flows} |-> n * Cardinality({f \in flows : day[f] = n})])
Total(day) == Rows(day, DOMAIN day)
OnPorts(day, ports) == {f \in DOMAIN day : f.port \in ports}
From(day, s) == {f \in DOMAIN day : f.src = s}

\* COUNT(DISTINCT ...)
Srcs(flows) == {f.src : f \in flows}
Dsts(flows) == {f.dst : f \in flows}
Ports(flows) == {f.port : f \in flows}

\* round(n / d, k) in units of the last place; long division, as TLC's numbers are short.
\* A tie goes up here: round() and the float may take it either way.
Share(n, d, k) ==
    LET long[i \in 0 .. k] ==
          IF i = 0 THEN <<n \div d, n % d>>
          ELSE LET r == 10 * long[i - 1][2] IN <<10 * long[i - 1][1] + r \div d, r % d>>
    IN  long[k][1] + (IF 2 * long[k][2] >= d THEN 1 ELSE 0)

-----------------------------------------------------------------------------

\* The clients that ORDER BY cnt DESC may put first.
TopTalkers(day) ==
    {s \in Srcs(DOMAIN day) :
        \A t \in Srcs(DOMAIN day) : Rows(day, From(day, t)) <= Rows(day, From(day, s))}

Suspects(day) == {s \in Srcs(DOMAIN day) : Cardinality(Ports(From(day, s))) > 50}

\* AVG over the clients of their distinct ports, in tenths.
AvgPorts(day) ==
    Share(SumFunction([s \in Srcs(DOMAIN day) |-> Cardinality(Ports(From(day, s)))]),
          Cardinality(Srcs(DOMAIN day)), 1)

\* The clients and servers of a port are only counted from `least` rows on.
Detail(day, port, least) ==
    LET flows == OnPorts(day, {port}) IN
    IF Rows(day, flows) >= least
    THEN [clients |-> Cardinality(Srcs(flows)), servers |-> Cardinality(Dsts(flows))]
    ELSE [clients |-> 0, servers |-> 0]

\* Mutant: the clients are counted from a number of rows on that the classifier does not know.
NtpDetailLate(day) == Detail(day, 123, 500000)

NtpDetail(day) == Detail(day, 123, 50000)

DnsDetail(day) == Detail(day, 53, 200000)

\* The rows of the first of the five flows with the most.
MaxFlow(day) == Max(Range(day))

\* Mutant: the protocol is not looked at.
AllOnTcpPorts(day) == OnPorts(day, TcpOnlyPorts)

\* proto_id_udp = 2, whatever the day's dictionary says.
UdpOnTcp(day) == {f \in OnPorts(day, TcpOnlyPorts) : f.proto = 2}

\* collect_stats, with t as the top client.
StatsWith(day, t) ==
    LET all == Total(day)
        rows(ports) == Rows(day, OnPorts(day, ports))
        range(InRange(_)) == Rows(day, {f \in DOMAIN day : InRange(f.port)})
        own == From(day, t)
        topRows == Rows(day, own)
    IN  [ srcIps |-> Cardinality(Srcs(DOMAIN day)), dstIps |-> Cardinality(Dsts(DOMAIN day)),
          dstPorts |-> Cardinality(Ports(DOMAIN day)), avgPorts |-> AvgPorts(day),
          topPct |-> Share(topRows, all, 3), suspects |-> Cardinality(Suspects(day)),
          wkPct |-> Share(range(WellKnown), all, 3),
          regPct |-> Share(range(Registered), all, 3),
          ephPct |-> Share(range(Ephemeral), all, 3),
          ntpConns |-> rows({123}), ntpPct |-> Share(rows({123}), all, 4),
          ntpClients |-> NtpDetail(day).clients, ntpServers |-> NtpDetail(day).servers,
          dnsConns |-> rows({53}), dnsPct |-> Share(rows({53}), all, 4),
          dnsClients |-> DnsDetail(day).clients, dnsServers |-> DnsDetail(day).servers,
          httpPct |-> Share(rows({80, 443}), all, 4),
          topPorts |-> Cardinality(Ports(own)), topDips |-> Cardinality(Dsts(own)),
          topWkPct |-> Share(Rows(day, {f \in own : WellKnown(f.port)}), topRows, 3),
          maxFlow |-> MaxFlow(day), udpOnTcp |-> Rows(day, UdpOnTcp(day)),
          udpOnTcpPct |-> Share(Rows(day, UdpOnTcp(day)), all, 4) ]

CollectStats(day) ==
    IF DOMAIN day = {} THEN {NoStats} ELSE {StatsWith(day, t) : t \in TopTalkers(day)}

\* analyze_day: what the narrative points out, besides the verdict.
Narrative(st) ==
    Says(st.ntpPct >= 50, "ntp") \cup Says(st.dnsPct >= 100, "dns")
    \cup Says(st.maxFlow >= 1000, "flow") \cup Says(st.udpOnTcp >= 100, "udp on tcp")

\* The clients of a port, counted or not.
Clients(day, port) == Cardinality(Srcs(OnPorts(day, {port})))

-----------------------------------------------------------------------------
(* Properties of the analysis of a day *)

\* collect_stats counts the clients of NTP and DNS only on days with many such rows, and
\* the classifier takes what is missing for zero clients, which are few: the abuse of a
\* protocol is reported only where few clients, but some, are behind it, or, for
\* DNS, where all of many clients ask the same few servers.
AbuseWasCounted(day, v) ==
    /\ v.category = "ntp" => Clients(day, 123) \in 1 .. 10
    /\ v.category = "dns" =>
          \/ Clients(day, 53) \in 1 .. 5
          \/ /\ Clients(day, 53) >= 20
             /\ Cardinality(Dsts(OnPorts(day, {53}))) \in 1 .. 3

\* collect_stats takes id 2 for UDP: where the day's dictionary says so as well, malware is
\* reported only for a day with a thousand UDP rows on ports that are TCP's alone.
MalwareIsUdp(day, names, v) ==
    v.category = "malware" /\ 2 \in DOMAIN names /\ names[2] = "UDP" =>
        Rows(day, {f \in OnPorts(day, TcpOnlyPorts) :
                      f.proto \in DOMAIN names /\ names[f.proto] = "UDP"}) >= 1000

\* analyze_day writes its narrative from limits of its own: a verdict that rests on a flow,
\* on NTP, on DNS or on UDP comes with a line that shows it.
NarrativeFits(v, narrative) ==
    /\ v.category = "flood" => "flow" \in narrative
    /\ v.category = "malware" => "udp on tcp" \in narrative
    /\ v.category \in {"ntp", "dns"} => v.category \in narrative
=============================================================================
