------------------------------ MODULE MCSearch ------------------------------
(***************************************************************************)
(* Search for TLC: one date, two raw files, an old database and a hot      *)
(* file, whose protocols came in different orders.                         *)
(***************************************************************************)
EXTENDS SearchInv

CONSTANTS a1, a2, l1, h1

MCDateOf == [f \in Sources |-> 1]
MCProtocols ==
    [f \in Sources |-> CASE f = a1 -> <<"TCP", "UDP">>
                         [] f = a2 -> <<"UDP">>
                         [] f = l1 -> <<"UDP", "TCP">>
                         [] f = h1 -> <<"UDP", "ICMP", "TCP">>]
=============================================================================
