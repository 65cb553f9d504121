--------------------------- MODULE MCAlgorithms ---------------------------
(***************************************************************************)
(* Arguments for Algorithms: small sets around the limits in the code.     *)
(***************************************************************************)
EXTENDS Algorithms

-----------------------------------------------------------------------------
(* classify_traffic: figures at the limits that go together *)

Quiet ==
    [NoStats EXCEPT !.srcIps = 12, !.dstIps = 30, !.dstPorts = 100, !.topPct = 300,
                    !.httpPct = 1000]

Meshes ==
    { [Quiet EXCEPT !.topPorts = mesh, !.topDips = mesh, !.suspects = sus[1], !.avgPorts = sus[2],
                    !.regPct = ports[1], !.ephPct = ports[2], !.dstPorts = ports[3],
                    !.dstIps = ips, !.httpPct = web, !.wkPct = wk, !.maxFlow = flow,
                    !.topPct = top] :
        mesh \in {0, 500, 2000}, sus \in {<<0, 0>>, <<5, 500>>, <<20, 1000>>},
        ports \in {<<0, 0, 100>>, <<500, 200, 1500>>, <<200, 300, 3000>>},
        ips \in {30, 3000, 10000}, web \in {0, 1000, 5000}, wk \in {0, 700},
        flow \in {0, 5000, 500000}, top \in {100, 500} }

Bursts ==
    { [Quiet EXCEPT !.srcIps = srcs, !.dstIps = dsts, !.dstPorts = ports, !.topPct = top,
                    !.udpOnTcp = udp, !.udpOnTcpPct = 100, !.maxFlow = flow,
                    !.suspects = sus, !.topWkPct = wk] :
        srcs \in {5, 10, 20, 30}, dsts \in {5, 10, 15, 20, 500, 1000},
        ports \in {5, 8, 500, 1000}, top \in {150, 600, 800}, udp \in {0, 1000, 5000, 10000},
        flow \in {0, 1000, 10000, 500000}, sus \in {0, 10}, wk \in {0, 300} }

Abuses ==
    { [Quiet EXCEPT !.ntpConns = ntp[1], !.ntpPct = ntp[2], !.ntpClients = clients,
                    !.ntpServers = servers, !.dnsConns = dns[1], !.dnsPct = 1500,
                    !.dnsClients = dns[2], !.dnsServers = dns[3], !.maxFlow = flow] :
        ntp \in {<<99999, 200>>, <<100000, 199>>, <<100000, 200>>}, clients \in {0, 1, 3, 4, 10, 11},
        servers \in {3, 50}, flow \in {0, 100000, 500000},
        dns \in {<<499999, 5, 3>>, <<500000, 5, 100>>, <<500000, 6, 3>>, <<500000, 20, 3>>} }

MCFigures == Meshes \cup Bursts \cup Abuses

-----------------------------------------------------------------------------
(* analyze_day: days of up to three kinds of traffic *)

Traffic(srcs, dsts, ports, proto, n) ==
    [f \in [src : srcs, dst : dsts, port : ports, proto : {proto}] |-> n]

Kinds ==
    { Traffic({1}, {50}, {123}, 2, 120000), Traffic({1}, 100 .. 149, {123}, 2, 2400),
      Traffic(1 .. 20, 100 .. 105, {123}, 2, 1000), Traffic(1 .. 3, 100 .. 199, {53}, 2, 2000),
      Traffic(1 .. 100, {51, 52}, {53}, 2, 2500), Traffic({1}, {60}, {22}, 2, 1500),
      Traffic({2}, {60}, {22}, 1, 12000), Traffic(1 .. 4, {70, 71}, {80, 443}, 1, 100),
      Traffic({9}, {61}, {5000}, 2, 500000), Traffic({1}, {62}, 2000 .. 2059, 1, 1),
      Traffic({5}, 300 .. 549, {443}, 1, 900), Traffic(1 .. 30, {90}, {6667}, 1, 100) }

Merged(kinds) ==
    [f \in UNION {DOMAIN k : k \in kinds} |->
        SumFunction([k \in kinds |-> IF f \in DOMAIN k THEN k[f] ELSE 0])]

MCDays == {Merged(kinds) : kinds \in {K \in SUBSET Kinds : Cardinality(K) <= 3}}
MCDictionaries == {<<"TCP", "UDP">>, <<"UDP", "TCP">>}

-----------------------------------------------------------------------------
(* parse_ts: around New Year, the end of February and midnight *)

MCTimes ==
    [year : {2023, 2024, 2025}, month : {1}, day : {1, 2}, hour : {0, 2}]
    \cup [year : {2023, 2024, 2025}, month : {12}, day : {30, 31}, hour : {0, 23}]
    \cup [year : {2023, 2024, 2025}, month : {2}, day : {28}, hour : {23}]
    \cup [year : {2024}, month : {2}, day : {29}, hour : {0, 23}]
    \cup [year : {2023, 2024, 2025}, month : {3}, day : {1}, hour : {0, 1, 2}]

-----------------------------------------------------------------------------
(* import_legacy: a database of each schema, with addresses of two bits *)

RowsOver(values) ==
    LET row == [src : values, dst : values, nat : values]
    IN  {<<r>> : r \in row} \cup {<<r, [src |-> r.nat, dst |-> r.src, nat |-> Null]>> : r \in row}

Signed == -2 .. 3
Ips == {<<>>} \cup {<<a>> : a \in Signed} \cup {s \in Signed \X Signed : s[1] # s[2]}

MCDatabases ==
    [tables : {{"logs", "ip_addresses", "interfaces", "protocols", "conn_states"}},
     ips : Ips, rows : RowsOver({1, 2, Null})]
    \cup [tables : {{"logs", "d_interfaces", "d_protocols", "d_states"},
                    {"logs", "db_meta", "interfaces", "protocols", "conn_states"}},
          ips : {<<>>}, rows : RowsOver(Signed \cup {Null})]
    \cup [tables : {{"logs"}}, ips : {<<>>}, rows : RowsOver((0 .. 3) \cup {Null})]

MCRegistries == {<<>>, <<3>>, <<2, 1>>}
=============================================================================
