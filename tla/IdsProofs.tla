------------------------------ MODULE IdsProofs ------------------------------
(***************************************************************************)
(* Proofs about Ids: its inductive invariant, that both stores of ids      *)
(* implement IdMap, the bounds of counters and caches, and the account of  *)
(* the hits.                                                               *)
(***************************************************************************)
EXTENDS Ids, Sums, SequenceTheorems, FiniteSetTheorems, TLAPS

-----------------------------------------------------------------------------
(* The ids of the table *)

LEMMA IdOfFacts ==
    ASSUME \A m, n \in DOMAIN table : table[m] = table[n] => m = n
    PROVE  /\ \A a \in Known : IdOf(a) \in DOMAIN table /\ table[IdOf(a)] = a
           /\ \A n \in DOMAIN table : table[n] \in Known /\ IdOf(table[n]) = n
<1>1. ASSUME NEW a \in Known
      PROVE  IdOf(a) \in DOMAIN table /\ table[IdOf(a)] = a
  <2>1. \E n \in DOMAIN table : table[n] = a
    BY <1>1 DEF Known, Range
  <2> QED
    BY <2>1 DEF IdOf
<1>2. ASSUME NEW n \in DOMAIN table
      PROVE  table[n] \in Known /\ IdOf(table[n]) = n
  <2>1. table[n] \in Known
    BY <1>2 DEF Known, Range
  <2> QED
    BY <2>1, <1>1
<1> QED
  BY <1>1, <1>2

LEMMA AppendFacts ==
    ASSUME table \in Seq(Ips), NEW a \in Ips, table' = Append(table, a)
    PROVE  /\ DOMAIN table \subseteq DOMAIN table'
           /\ LastRow \in Nat \ {0}
           /\ DOMAIN table' = DOMAIN table \cup {LastRow}
           /\ table'[LastRow] = a
           /\ \A n \in DOMAIN table : table'[n] = table[n]
           /\ table' \in Seq(Ips)
BY AppendProperties, LenProperties DEF LastRow

LEMMA TableIndices ==
    ASSUME table \in Seq(Ips)
    PROVE  DOMAIN table \subseteq Nat \ {0}
BY LenProperties

-----------------------------------------------------------------------------
(* What the steps of the registry do to table, caches and issued ids *)

Grows ==
    /\ table' \in Seq(Ips)
    /\ DOMAIN table \subseteq DOMAIN table'
    /\ \A n \in DOMAIN table : table'[n] = table[n]
    /\ \A m, n \in DOMAIN table' : table'[m] = table'[n] => m = n

LEMMA RememberFacts ==
    ASSUME NEW p \in Processes, NEW a \in Ips, NEW n,
           DOMAIN cache = Processes,
           Remember(p, a, n)
    PROVE  /\ DOMAIN cache' = Processes
           /\ \A q \in Processes : q # p => cache'[q] = cache[q]
           /\ DOMAIN cache'[p] \subseteq DOMAIN cache[p] \cup {a}
           /\ \A b \in DOMAIN cache'[p] :
                 cache'[p][b] = IF b = a THEN n ELSE cache[p][b]
<1>1. PICK c \in Survivors(cache[p]) : cache' = [cache EXCEPT ![p] = Put(c, a, n)]
  BY DEF Remember
<1>2. DOMAIN c \subseteq DOMAIN cache[p] /\ \A b \in DOMAIN c : c[b] = cache[p][b]
  BY <1>1 DEF Survivors, Restrict
<1>3. /\ DOMAIN Put(c, a, n) = DOMAIN c \cup {a}
      /\ \A b \in DOMAIN Put(c, a, n) : Put(c, a, n)[b] = IF b = a THEN n ELSE c[b]
  BY DEF Put
<1>4. cache'[p] = Put(c, a, n) /\ DOMAIN cache' = Processes
      /\ \A q \in Processes : q # p => cache'[q] = cache[q]
  BY <1>1
<1> QED
  BY <1>2, <1>3, <1>4

LEMMA ReturnFacts ==
    ASSUME NEW p \in Processes, NEW a \in Ips, NEW n \in Nat \ {0}, NEW D,
           n \in D, DOMAIN pending[p] \subseteq D,
           DOMAIN pending = Processes,
           \A m \in DOMAIN pending[p] : pending[p][m] \in Nat \ {0},
           uses \in [Ips -> Nat],
           Return(p, a, n)
    PROVE  /\ uses' \in [Ips -> Nat]
           /\ issued' = issued \cup {<<a, n>>}
           /\ DOMAIN pending' = Processes
           /\ \A q \in Processes : q # p => pending'[q] = pending[q]
           /\ DOMAIN pending'[p] \subseteq D
           /\ \A m \in DOMAIN pending'[p] : pending'[p][m] \in Nat \ {0}
<1> DEFINE counts == Counted(p, n)
<1>1. /\ DOMAIN counts \subseteq D
      /\ \A m \in DOMAIN counts : counts[m] \in Nat \ {0}
  <2>1. CASE n \in DOMAIN pending[p]
    <3>1. counts = Put(pending[p], n, pending[p][n] + 1)
      BY <2>1 DEF Counted
    <3>2. pending[p][n] + 1 \in Nat \ {0}
      BY <2>1
    <3> QED
      BY <3>1, <3>2 DEF Put
  <2>2. CASE n \notin DOMAIN pending[p]
    <3>1. counts = Put(pending[p], n, 1)
      BY <2>2 DEF Counted
    <3> QED
      BY <3>1 DEF Put
  <2> QED
    BY <2>1, <2>2
<1>2. pending' = [pending EXCEPT ![p] = counts]
  BY DEF Return
<1> HIDE DEF counts
<1>3. pending'[p] = counts
  BY <1>2
<1> QED
  BY <1>1, <1>2, <1>3 DEF Return

\* An address is used: it is in the table afterwards, the cache may learn it, a count is added.
LEMMA UseStep ==
    ASSUME RegistryTypeOK, RegistryInv, Grows,
           NEW p \in Processes, NEW a \in Ips, NEW n \in Nat \ {0},
           Holds(a, n)', hits' \in [DOMAIN table' -> Nat],
           Remember(p, a, n) \/ (cache' = cache /\ a \in DOMAIN cache[p]),
           Return(p, a, n),
           open' = open, lost' = lost, lives' = lives,
           missed' \in [Processes -> Ips \cup {NoIp}], calls' \in Nat
    PROVE  RegistryTypeOK' /\ RegistryInv'
<1>1. /\ uses' \in [Ips -> Nat]
      /\ issued' = issued \cup {<<a, n>>}
      /\ DOMAIN pending' = Processes
      /\ \A q \in Processes : q # p => pending'[q] = pending[q]
      /\ DOMAIN pending'[p] \subseteq DOMAIN table'
      /\ \A m \in DOMAIN pending'[p] : pending'[p][m] \in Nat \ {0}
  BY ReturnFacts DEF RegistryTypeOK, Holds, Grows
<1>2. /\ DOMAIN cache' = Processes
      /\ \A q \in Processes : q # p => cache'[q] = cache[q]
      /\ DOMAIN cache'[p] \subseteq DOMAIN cache[p] \cup {a}
      /\ \A b \in DOMAIN cache'[p] :
            (b = a /\ cache'[p][b] = n) \/ (b \in DOMAIN cache[p] /\ cache'[p][b] = cache[p][b])
  <2>1. CASE Remember(p, a, n)
    <3>1. DOMAIN cache = Processes
      BY DEF RegistryTypeOK
    <3>2. /\ DOMAIN cache' = Processes
          /\ \A q \in Processes : q # p => cache'[q] = cache[q]
          /\ DOMAIN cache'[p] \subseteq DOMAIN cache[p] \cup {a}
          /\ \A b \in DOMAIN cache'[p] :
                cache'[p][b] = IF b = a THEN n ELSE cache[p][b]
      BY <2>1, <3>1, RememberFacts
    <3> QED
      BY <3>2
  <2>2. CASE cache' = cache /\ a \in DOMAIN cache[p]
    BY <2>2 DEF RegistryTypeOK
  <2> QED
    BY <2>1, <2>2
<1>3. ASSUME NEW q \in Processes
      PROVE  /\ DOMAIN cache'[q] \subseteq Ips
             /\ \A b \in DOMAIN cache'[q] : Holds(b, cache[q][b])'
             /\ DOMAIN pending'[q] \subseteq DOMAIN table'
             /\ \A m \in DOMAIN pending'[q] : pending'[q][m] \in Nat \ {0}
  <2>1. CASE q = p
    <3>1. /\ DOMAIN cache[p] \subseteq Ips
          /\ \A b \in DOMAIN cache[p] : cache[p][b] \in DOMAIN table /\ table[cache[p][b]] = b
      BY DEF RegistryTypeOK, RegistryInv, Holds
    <3>2. ASSUME NEW b \in DOMAIN cache'[p]
          PROVE  cache'[p][b] \in DOMAIN table' /\ table'[cache'[p][b]] = b
      <4>1. CASE b = a /\ cache'[p][b] = n
        BY <4>1 DEF Holds
      <4>2. CASE b \in DOMAIN cache[p] /\ cache'[p][b] = cache[p][b]
        BY <4>2, <3>1 DEF Grows
      <4> QED
        BY <1>2, <3>2, <4>1, <4>2
    <3>3. DOMAIN cache'[p] \subseteq Ips
      BY <1>2, <3>1
    <3> QED
      BY <1>1, <2>1, <3>2, <3>3 DEF Holds
  <2>2. CASE q # p
    <3>1. cache'[q] = cache[q] /\ pending'[q] = pending[q]
      BY <1>1, <1>2, <2>2
    <3>2. /\ DOMAIN cache[q] \subseteq Ips
          /\ DOMAIN pending[q] \subseteq DOMAIN table
          /\ \A m \in DOMAIN pending[q] : pending[q][m] \in Nat \ {0}
          /\ \A b \in DOMAIN cache[q] : cache[q][b] \in DOMAIN table /\ table[cache[q][b]] = b
      BY DEF RegistryTypeOK, RegistryInv, Holds
    <3>3. ASSUME NEW b \in DOMAIN cache[q]
          PROVE  cache[q][b] \in DOMAIN table' /\ table'[cache[q][b]] = b
      BY <3>2 DEF Grows
    <3>4. DOMAIN pending[q] \subseteq DOMAIN table'
      BY <3>2 DEF Grows
    <3> QED
      BY <3>1, <3>2, <3>3, <3>4 DEF Holds
  <2> QED
    BY <2>1, <2>2
<1>4. issued' \subseteq Ips \X Nat
  BY <1>1 DEF RegistryTypeOK
<1>5. RegistryTypeOK'
  BY <1>1, <1>2, <1>3, <1>4 DEF RegistryTypeOK, Holds, Grows
<1>6. ASSUME NEW pair \in issued'
      PROVE  Holds(pair[1], pair[2])'
  <2>1. CASE pair \in issued
    BY <2>1 DEF RegistryInv, Holds, Grows
  <2>2. CASE pair = <<a, n>>
    BY <2>2 DEF Holds
  <2> QED
    BY <1>1, <2>1, <2>2
<1>7. \A pair \in issued' : Holds(pair[1], pair[2])'
  BY <1>6
<1>8. \A q \in Processes : \A b \in DOMAIN cache'[q] : Holds(b, cache[q][b])'
  BY <1>3
<1> QED
  BY <1>5, <1>7, <1>8 DEF RegistryInv, Grows

\* A process ends.
LEMMA LeaveStep ==
    ASSUME RegistryTypeOK, RegistryInv, NEW p \in Processes, Gone(p),
           hits' \in [DOMAIN table -> Nat], lost' \in [Ips -> Nat],
           UNCHANGED <<table, calls, lives, issued, uses>>
    PROVE  RegistryTypeOK' /\ RegistryInv'
<1>1. /\ open' \subseteq Processes
      /\ DOMAIN cache' = Processes /\ DOMAIN pending' = Processes
      /\ missed' \in [Processes -> Ips \cup {NoIp}]
      /\ \A q \in Processes : cache'[q] = cache[q] \/ DOMAIN cache'[q] = {}
      /\ \A q \in Processes : pending'[q] = pending[q] \/ DOMAIN pending'[q] = {}
  BY DEF RegistryTypeOK, Gone, Empty
<1>2. RegistryTypeOK'
  BY <1>1 DEF RegistryTypeOK
<1> QED
  BY <1>1, <1>2 DEF RegistryInv, Holds

LEMMA AddedType ==
    ASSUME RegistryTypeOK, NEW p \in Processes
    PROVE  Added(hits, pending[p]) \in [DOMAIN table -> Nat]
BY DEF RegistryTypeOK, Added

LEMMA LostType ==
    ASSUME RegistryTypeOK, NEW p \in Processes, Lose(p)
    PROVE  lost' \in [Ips -> Nat]
<1>1. ASSUME NEW a \in Ips
      PROVE  lost[a] + (IF a \in Known /\ IdOf(a) \in DOMAIN pending[p]
                        THEN pending[p][IdOf(a)] ELSE 0) \in Nat
  BY DEF RegistryTypeOK
<1> QED
  BY <1>1 DEF Lose

LEMMA HitsGrow ==
    ASSUME table \in Seq(Ips), NEW a \in Ips, table' = Append(table, a),
           hits \in [DOMAIN table -> Nat]
    PROVE  Append(hits, 0) \in [DOMAIN table' -> Nat]
<1>1. DOMAIN table = 1 .. Len(table) /\ Len(table) \in Nat
  BY LenProperties
<1>2. hits \in Seq(Nat)
  BY <1>1, SeqDef
<1>3. Len(hits) = Len(table)
  BY <1>1, <1>2, LenProperties
<1>4. Append(hits, 0) \in Seq(Nat) /\ Len(Append(hits, 0)) = Len(table) + 1
  BY <1>2, <1>3, AppendProperties
<1>5. DOMAIN table' = 1 .. Len(table) + 1
  BY AppendProperties, LenProperties
<1> QED
  BY <1>4, <1>5, LenProperties

\* The registry's steps keep its part of the invariant, number new addresses after the old
\* ones, and withdraw no id.
LEMMA RegistryStep ==
    ASSUME RegistryTypeOK, RegistryInv, RegistryNext
    PROVE  RegistryTypeOK' /\ RegistryInv' /\ Grows /\ issued \subseteq issued'
<1> USE DEF registryVars, processVars
<1>0. table' = table => Grows
  BY DEF RegistryTypeOK, RegistryInv, Grows
<1>1. ASSUME NEW p \in Processes, Open(p)
      PROVE  RegistryTypeOK' /\ RegistryInv' /\ Grows /\ issued \subseteq issued'
  <2>1. PICK top \in HotSets : cache' = [cache EXCEPT ![p] = Preloaded(top)]
    BY <1>1 DEF Open
  <2>2. top \subseteq DOMAIN table
    BY DEF HotSets
  <2>3. /\ DOMAIN Preloaded(top) \subseteq Known
        /\ DOMAIN Preloaded(top) \subseteq Ips
        /\ \A a \in DOMAIN Preloaded(top) :
              Preloaded(top)[a] \in DOMAIN table /\ table[Preloaded(top)[a]] = a
    <3>1. DOMAIN Preloaded(top) \subseteq Known /\ DOMAIN Preloaded(top) \subseteq Ips
      BY <2>2 DEF Preloaded, Known, Range, RegistryTypeOK
    <3>2. \A a \in DOMAIN Preloaded(top) : Preloaded(top)[a] = IdOf(a)
      BY DEF Preloaded
    <3> QED
      BY <3>1, <3>2, IdOfFacts DEF RegistryInv
  <2>4. cache'[p] = Preloaded(top) /\ DOMAIN cache' = Processes
        /\ \A q \in Processes : q # p => cache'[q] = cache[q]
    BY <2>1 DEF RegistryTypeOK
  <2>5. ASSUME NEW q \in Processes
        PROVE  /\ DOMAIN cache'[q] \subseteq Ips
               /\ \A a \in DOMAIN cache'[q] : cache'[q][a] \in DOMAIN table /\ table[cache'[q][a]] = a
    <3>1. CASE q = p
      BY <2>3, <2>4, <3>1
    <3>2. CASE q # p
      BY <2>4, <3>2 DEF RegistryTypeOK, RegistryInv, Holds
    <3> QED
      BY <3>1, <3>2
  <2>6. RegistryTypeOK'
    BY <1>1, <2>4, <2>5 DEF RegistryTypeOK, Open
  <2> QED
    BY <1>0, <1>1, <2>5, <2>6 DEF RegistryInv, Holds, Open
<1>2. ASSUME NEW p \in Processes, Close(p)
      PROVE  RegistryTypeOK' /\ RegistryInv' /\ Grows /\ issued \subseteq issued'
  <2>1. hits' \in [DOMAIN table -> Nat] /\ lost' \in [Ips -> Nat]
    BY <1>2, AddedType, LostType DEF Close, Closes, Lose, RegistryTypeOK
  <2> QED
    BY <1>0, <1>2, <2>1, LeaveStep DEF Close, Closes
<1>3. ASSUME NEW p \in Processes, Kill(p)
      PROVE  RegistryTypeOK' /\ RegistryInv' /\ Grows /\ issued \subseteq issued'
  <2>1. hits' \in [DOMAIN table -> Nat] /\ lost' \in [Ips -> Nat]
    BY <1>3, LostType DEF Kill, Lose, RegistryTypeOK
  <2> QED
    BY <1>0, <1>3, <2>1, LeaveStep DEF Kill
<1>4. ASSUME NEW p \in Writers, NEW a \in Ips, UseCached(p, a)
      PROVE  RegistryTypeOK' /\ RegistryInv' /\ Grows /\ issued \subseteq issued'
  <2>1. p \in Processes /\ table' = table /\ Grows
    BY <1>0, <1>4 DEF UseCached, Processes
  <2>2. Holds(a, cache[p][a]) /\ cache[p][a] \in Nat \ {0}
    BY <1>4, <2>1, TableIndices DEF UseCached, RegistryTypeOK, RegistryInv
  <2>3. missed' \in [Processes -> Ips \cup {NoIp}] /\ calls' \in Nat
    BY <1>4 DEF UseCached, Call, RegistryTypeOK
  <2> DEFINE n == cache[p][a]
  <2>4. Holds(a, n)'
    BY <1>4, <2>1, <2>2 DEF Holds, UseCached
  <2>5. hits' \in [DOMAIN table' -> Nat]
    BY <1>4, <2>1 DEF UseCached, RegistryTypeOK
  <2>6. /\ cache' = cache /\ a \in DOMAIN cache[p]
        /\ Return(p, a, n)
        /\ open' = open /\ lost' = lost /\ lives' = lives
    BY <1>4 DEF UseCached
  <2>7. issued \subseteq issued'
    BY <2>6 DEF Return
  <2> QED
    BY <2>1, <2>2, <2>3, <2>4, <2>5, <2>6, <2>7, UseStep
<1>5. ASSUME NEW p \in Writers, NEW a \in Ips, UseStored(p, a)
      PROVE  RegistryTypeOK' /\ RegistryInv' /\ Grows /\ issued \subseteq issued'
  <2>1. p \in Processes /\ table' = table /\ Grows
    BY <1>0, <1>5 DEF UseStored, Processes
  <2>2. Holds(a, IdOf(a)) /\ IdOf(a) \in Nat \ {0}
    BY <1>5, IdOfFacts, TableIndices DEF UseStored, RegistryTypeOK, RegistryInv, Holds
  <2>3. missed' \in [Processes -> Ips \cup {NoIp}] /\ calls' \in Nat
    BY <1>5 DEF UseStored, Call, RegistryTypeOK
  <2>4. PICK n \in Nat \ {0} : n = IdOf(a)
    BY <2>2
  <2>5. Holds(a, n)'
    BY <2>1, <2>2, <2>4 DEF Holds
  <2>6. hits' \in [DOMAIN table' -> Nat]
    BY <1>5, <2>1 DEF UseStored, RegistryTypeOK
  <2>7. /\ Remember(p, a, n)
        /\ Return(p, a, n)
        /\ open' = open /\ lost' = lost /\ lives' = lives
    BY <1>5, <2>4 DEF UseStored
  <2>8. issued \subseteq issued'
    BY <2>7 DEF Return
  <2> QED
    BY <2>1, <2>3, <2>5, <2>6, <2>7, <2>8, UseStep
<1>6. ASSUME NEW p \in Writers, NEW a \in Ips, Miss(p, a)
      PROVE  RegistryTypeOK' /\ RegistryInv' /\ Grows /\ issued \subseteq issued'
  <2>1. RegistryTypeOK'
    BY <1>6 DEF Miss, Call, RegistryTypeOK
  <2> QED
    BY <1>0, <1>6, <2>1 DEF Miss, RegistryInv, Holds
<1>7. ASSUME NEW p \in Writers, Insert(p)
      PROVE  RegistryTypeOK' /\ RegistryInv' /\ Grows /\ issued \subseteq issued'
  <2>1. PICK a \in Ips : a = missed[p] /\ a \notin Known
    BY <1>7 DEF Insert, RegistryTypeOK, Processes
  <2>2. table' = Append(table, a) /\ table \in Seq(Ips)
    BY <1>7, <2>1 DEF Insert, RegistryTypeOK
  <2>3. /\ DOMAIN table' = DOMAIN table \cup {LastRow} /\ LastRow \in Nat \ {0}
        /\ table'[LastRow] = a
        /\ \A n \in DOMAIN table : table'[n] = table[n]
        /\ table' \in Seq(Ips)
    BY <2>2, AppendFacts
  <2>4. \A n \in DOMAIN table : table[n] # a
    BY <2>1 DEF Known, Range
  <2>5. Grows
    BY <2>3, <2>4 DEF Grows, RegistryInv
  <2>6. PICK n \in Nat \ {0} : n = LastRow
    BY <2>3
  <2>7. Holds(a, n)'
    BY <2>3, <2>6 DEF Holds
  <2>8. hits' \in [DOMAIN table' -> Nat]
    BY <1>7, <2>2, HitsGrow DEF Insert, RegistryTypeOK
  <2>9. /\ Remember(p, a, n)
        /\ Return(p, a, n)
        /\ open' = open /\ lost' = lost /\ lives' = lives
        /\ missed' \in [Processes -> Ips \cup {NoIp}] /\ calls' \in Nat
    BY <1>7, <2>1, <2>6 DEF Insert, RegistryTypeOK
  <2>10. issued \subseteq issued'
    BY <2>9 DEF Return
  <2>11. p \in Processes
    BY DEF Processes
  <2> QED
    BY <2>5, <2>7, <2>8, <2>9, <2>10, <2>11, UseStep
<1>8. ASSUME NEW p \in Writers, Refused(p)
      PROVE  RegistryTypeOK' /\ RegistryInv' /\ Grows /\ issued \subseteq issued'
  <2>0. p \in Processes /\ UNCHANGED <<table, calls, lives, issued, uses>>
    BY <1>8 DEF Refused, Processes
  <2>1. CASE Gone(p) /\ (Closes(p) \/ Lose(p))
    <3>1. hits' \in [DOMAIN table -> Nat] /\ lost' \in [Ips -> Nat]
      BY <2>0, <2>1, AddedType, LostType DEF Closes, Lose, RegistryTypeOK
    <3> QED
      BY <1>0, <2>0, <2>1, <3>1, LeaveStep
  <2>2. CASE missed' = [missed EXCEPT ![p] = NoIp] /\ UNCHANGED <<hits, open, cache, pending, lost>>
    <3>1. RegistryTypeOK'
      BY <2>0, <2>2 DEF RegistryTypeOK
    <3> QED
      BY <1>0, <2>0, <2>2, <3>1 DEF RegistryInv, Holds
  <2> QED
    BY <1>8, <2>1, <2>2 DEF Refused, Closes
<1>9. ASSUME NEW p \in Writers, FlushHits(p)
      PROVE  RegistryTypeOK' /\ RegistryInv' /\ Grows /\ issued \subseteq issued'
  <2>1. hits' \in [DOMAIN table -> Nat]
    BY <1>9, AddedType DEF FlushHits, Processes
  <2>2. /\ DOMAIN pending' = Processes
        /\ \A q \in Processes : pending'[q] = pending[q] \/ DOMAIN pending'[q] = {}
    BY <1>9 DEF FlushHits, CountsAfterFlush, Empty, RegistryTypeOK
  <2>3. RegistryTypeOK'
    BY <1>9, <2>1, <2>2 DEF FlushHits, Flush, RegistryTypeOK
  <2> QED
    BY <1>0, <1>9, <2>3 DEF FlushHits, Flush, RegistryInv, Holds
<1>11. ASSUME NEW p \in Writers, FlushFails(p)
       PROVE  RegistryTypeOK' /\ RegistryInv' /\ Grows /\ issued \subseteq issued'
  <2>0. p \in Processes /\ UNCHANGED <<table, calls, lives, issued, uses>>
    BY <1>11 DEF FlushFails, Flush, Processes
  <2>1. hits' = hits /\ lost' \in [Ips -> Nat]
    BY <1>11, <2>0, LostType DEF FlushFails, Lose
  <2>2. CASE Gone(p)
    <3>1. hits' \in [DOMAIN table -> Nat]
      BY <2>1 DEF RegistryTypeOK
    <3> QED
      BY <1>0, <2>0, <2>1, <2>2, <3>1, LeaveStep
  <2>3. CASE pending' = [pending EXCEPT ![p] = Empty] /\ UNCHANGED <<open, cache, missed>>
    <3>1. /\ DOMAIN pending' = Processes
          /\ \A q \in Processes : pending'[q] = pending[q] \/ DOMAIN pending'[q] = {}
      BY <2>3 DEF Empty, RegistryTypeOK
    <3>2. RegistryTypeOK'
      BY <2>0, <2>1, <2>3, <3>1 DEF RegistryTypeOK
    <3> QED
      BY <1>0, <2>0, <2>3, <3>2 DEF RegistryInv, Holds
  <2> QED
    BY <1>11, <2>2, <2>3 DEF FlushFails, CountsAfterFlush
<1>10. ASSUME NEW w \in Webs, NEW a \in Ips, Lookup(w, a)
       PROVE  RegistryTypeOK' /\ RegistryInv' /\ Grows /\ issued \subseteq issued'
  <2>1. ASSUME NEW pair \in issued' \ issued
        PROVE  \E b \in Ips : \E n \in DOMAIN table : pair = <<b, n>> /\ table[n] = b
    <3>1. CASE a \in DOMAIN cache[w]
      <4>1. pair = <<a, cache[w][a]>>
        BY <1>10, <2>1, <3>1 DEF Lookup
      <4> QED
        BY <4>1, <3>1 DEF Processes, RegistryInv, Holds
    <3>2. CASE a \notin DOMAIN cache[w]
      <4>1. a \in Known /\ pair = <<a, IdOf(a)>>
        BY <1>10, <2>1, <3>2 DEF Lookup
      <4> QED
        BY <4>1, IdOfFacts DEF RegistryInv
    <3> QED
      BY <3>1, <3>2
  <2>2. DOMAIN table \subseteq Nat \ {0}
    BY TableIndices DEF RegistryTypeOK
  <2>3. issued' \subseteq Ips \X Nat
    BY <2>1, <2>2 DEF RegistryTypeOK
  <2>4. ASSUME NEW pair \in issued'
        PROVE  Holds(pair[1], pair[2])
    <3>1. CASE pair \in issued
      BY <3>1 DEF RegistryInv
    <3>2. CASE pair \notin issued
      BY <2>1, <3>2 DEF Holds
    <3> QED
      BY <3>1, <3>2
  <2>5. RegistryTypeOK'
    BY <1>10, <2>3 DEF Lookup, RegistryTypeOK
  <2> QED
    BY <1>0, <1>10, <2>4, <2>5 DEF Lookup, RegistryInv, Holds
<1> QED
  BY <1>1, <1>2, <1>3, <1>4, <1>5, <1>6, <1>7, <1>8, <1>9, <1>10, <1>11 DEF RegistryNext

-----------------------------------------------------------------------------
(* The steps of the dictionary *)

\* No name that has an id loses or changes it.
NamesKept ==
    /\ DOMAIN stored \subseteq DOMAIN stored'
    /\ \A x \in DOMAIN stored : stored'[x] = stored[x]

LEMMA NextAfterFacts ==
    ASSUME DictTypeOK, DictInv
    PROVE  NextAfter(stored) \in Nat \ {0} /\ Range(stored) = 1 .. NextAfter(stored) - 1
<1>1. CASE stored = None
  <2>1. NextAfter(stored) = 1
    BY <1>1 DEF NextAfter
  <2>2. Range(stored) = {}
    BY <1>1 DEF None, Range
  <2> QED
    BY <2>1, <2>2
<1>2. CASE stored # None
  <2>1. PICK k \in Range(stored) : Range(stored) = 1 .. k
    BY <1>2 DEF DictInv
  <2>2. k \in Nat \ {0}
    BY <2>1 DEF DictTypeOK, Range
  <2>3. (CHOOSE m \in Range(stored) : \A n \in Range(stored) : n <= m) = k
    BY <2>1, <2>2
  <2>4. NextAfter(stored) = 1 + k
    BY <1>2, <2>3 DEF NextAfter
  <2> QED
    BY <2>1, <2>2, <2>4
<1> QED
  BY <1>1, <1>2

\* One more row in the dictionary's table.
LEMMA StoredGrows ==
    ASSUME DictTypeOK, DictInv, dictOpen, NEW x \in Names, Insertable(x),
           stored' = WithName(stored, x, nextId)
    PROVE  /\ DOMAIN stored' \subseteq Names /\ \A y \in DOMAIN stored' : stored'[y] \in Nat \ {0}
           /\ \A y, z \in DOMAIN stored' : stored'[y] = stored'[z] => y = z
           /\ nextId \in Range(stored') /\ Range(stored') = 1 .. nextId
           /\ NamesKept
           /\ x \in DOMAIN stored' /\ stored'[x] = nextId
<1>1. /\ DOMAIN stored' = DOMAIN stored \cup {x}
      /\ stored'[x] = nextId
      /\ \A y \in DOMAIN stored : stored'[y] = stored[y]
      /\ Range(stored') = Range(stored) \cup {nextId}
  <2>1. x \notin DOMAIN stored
    BY DEF Insertable
  <2> DEFINE g == WithName(stored, x, nextId)
  <2>2. /\ DOMAIN g = DOMAIN stored \cup {x}
        /\ g[x] = nextId
        /\ \A y \in DOMAIN stored : g[y] = stored[y]
        /\ Range(g) = Range(stored) \cup {nextId}
    <3>1. g = [y \in DOMAIN stored \cup {x} |-> IF y = x THEN nextId ELSE stored[y]]
      BY DEF WithName
    <3> HIDE DEF g
    <3>2. DOMAIN g = DOMAIN stored \cup {x} /\ g[x] = nextId
      BY <3>1
    <3>3. \A y \in DOMAIN stored : g[y] = stored[y]
      BY <2>1, <3>1
    <3> QED
      BY <3>2, <3>3 DEF Range
  <2>3. stored' = g
    OBVIOUS
  <2> HIDE DEF g
  <2> QED
    BY <2>2, <2>3, Zenon
<1>2. \A y \in DOMAIN stored : stored[y] # nextId
  BY DEF Insertable, Range
<1>3. Range(stored') = 1 .. nextId /\ nextId \in Range(stored')
  BY <1>1 DEF DictInv, DictTypeOK
<1>4. \A y \in DOMAIN stored' : stored'[y] \in Nat \ {0}
  BY <1>1 DEF DictTypeOK
<1>5. \A y, z \in DOMAIN stored' : stored'[y] = stored'[z] => y = z
  BY <1>1, <1>2 DEF DictInv
<1> QED
  BY <1>1, <1>3, <1>4, <1>5 DEF DictTypeOK, NamesKept

\* The dictionary's steps keep its part of the invariant, and IdMap's promise.
LEMMA DictStep ==
    ASSUME DictTypeOK, DictInv, DictNext
    PROVE  /\ DictTypeOK' /\ DictInv'
           /\ NamesKept
           /\ told \subseteq told' /\ told' \subseteq told \cup NamePairs'
<1>0. stored' = stored => NamesKept
  BY DEF NamesKept
<1>1. CASE LoadDict
  <2>1. /\ NextAfter(stored) \in Nat \ {0}
        /\ Range(stored) = 1 .. NextAfter(stored) - 1
    BY NextAfterFacts
  <2>2. DictTypeOK'
    BY <1>1, <2>1 DEF LoadDict, DictTypeOK
  <2>3. /\ byName' = stored' /\ stored' = stored
        /\ Range(stored') = 1 .. nextId' - 1
    BY <1>1, <2>1 DEF LoadDict
  <2>4. DictInv'
    BY <2>3 DEF DictInv
  <2> QED
    BY <1>0, <1>1, <2>2, <2>4 DEF LoadDict
<1>2. CASE DropDict
  <2>0. DOMAIN byName' = {} /\ nextId' \in Nat \ {0} /\ dictOpen' \in BOOLEAN /\ ~dictOpen'
    <3>1. byName' = None /\ nextId' = 1 /\ dictOpen' = FALSE
      BY <1>2 DEF DropDict
    <3>2. DOMAIN None = {}
      BY DEF None
    <3>3. dictOpen' \in BOOLEAN /\ ~dictOpen'
      BY <3>1, Zenon
    <3> QED
      BY <3>1, <3>2, <3>3
  <2>1. CASE UNCHANGED stored
    <3>1. DictTypeOK'
      BY <1>2, <2>0, <2>1 DEF DropDict, DictTypeOK
    <3> QED
      BY <1>0, <1>2, <2>1, <3>1 DEF DropDict, DictInv
  <2>2. ASSUME NEW x \in Names, Insertable(x), stored' = WithName(stored, x, nextId)
        PROVE  DictTypeOK' /\ DictInv' /\ NamesKept
    <3>1. DictTypeOK'
      BY <1>2, <2>0, <2>2, StoredGrows DEF DropDict, DictTypeOK
    <3> QED
      BY <1>2, <2>2, <3>1, StoredGrows DEF DropDict, DictInv
  <2> QED
    BY <1>2, <2>1, <2>2 DEF DropDict
<1>3. ASSUME NEW x \in Names, KnownName(x)
      PROVE  /\ DictTypeOK' /\ DictInv'
             /\ NamesKept
             /\ told \subseteq told' /\ told' \subseteq told \cup NamePairs'
  <2>1. x \in DOMAIN stored /\ told' = told \cup {<<x, stored[x]>>} /\ stored' = stored
    BY <1>3 DEF KnownName, DictInv
  <2>2. DictTypeOK'
    BY <1>3, <2>1 DEF KnownName, DictTypeOK
  <2>3. told' \subseteq told \cup NamePairs'
    BY <2>1 DEF NamePairs
  <2> QED
    BY <1>0, <1>3, <2>1, <2>2, <2>3 DEF KnownName, DictInv
<1>4. ASSUME NEW x \in Names, NewName(x)
      PROVE  /\ DictTypeOK' /\ DictInv'
             /\ NamesKept
             /\ told \subseteq told' /\ told' \subseteq told \cup NamePairs'
  <2>1. dictOpen /\ Insertable(x) /\ stored' = WithName(stored, x, nextId)
    BY <1>4 DEF NewName
  <2>2. byName' = stored' /\ nextId' = nextId + 1 /\ dictOpen'
    BY <1>4 DEF NewName, Learned, DictInv
  <2>3. told' = told \cup {<<x, nextId>>}
    BY <1>4 DEF NewName
  <2>4. /\ DOMAIN stored' \subseteq Names /\ \A y \in DOMAIN stored' : stored'[y] \in Nat \ {0}
        /\ \A y, z \in DOMAIN stored' : stored'[y] = stored'[z] => y = z
        /\ nextId \in Range(stored') /\ Range(stored') = 1 .. nextId
        /\ NamesKept
        /\ x \in DOMAIN stored' /\ stored'[x] = nextId
    BY <2>1, StoredGrows
  <2>5. DictTypeOK'
    BY <1>4, <2>2, <2>3, <2>4 DEF NewName, DictTypeOK
  <2>6. DictInv'
    BY <2>2, <2>4, <2>5 DEF DictInv, DictTypeOK
  <2> QED
    BY <2>3, <2>4, <2>5, <2>6 DEF NamePairs
<1> QED
  BY <1>1, <1>2, <1>3, <1>4 DEF DictNext, LoadDict, DropDict

-----------------------------------------------------------------------------
(* The invariant *)

LEMMA InitInvariant == Init => IdsIInv
<1> SUFFICES ASSUME Init PROVE IdsIInv
  OBVIOUS
<1>1. RegistryTypeOK /\ RegistryInv
  <2>1. table = <<>> /\ table \in Seq(Ips) /\ DOMAIN table = {}
    BY DEF Init, RegistryInit
  <2>2. hits \in [DOMAIN table -> Nat]
    BY <2>1 DEF Init, RegistryInit
  <2>3. \A p \in Processes : DOMAIN cache[p] = {} /\ DOMAIN pending[p] = {}
    BY DEF Init, RegistryInit, Empty
  <2> QED
    BY <2>1, <2>2, <2>3 DEF Init, RegistryInit, RegistryTypeOK, RegistryInv
<1>2. DictTypeOK /\ DictInv
  <2>1. DOMAIN None = {}
    BY DEF None
  <2>2. dictOpen \in BOOLEAN /\ ~dictOpen
    BY Zenon DEF Init, DictInit
  <2>3. DictTypeOK
    BY <2>1, <2>2 DEF Init, DictInit, DictTypeOK
  <2> QED
    BY <2>1, <2>2, <2>3 DEF Init, DictInit, DictInv
<1> QED
  BY <1>1, <1>2 DEF IdsIInv, TypeOK

\* What a step of the system, or a stutter, does: to the invariant, and to the two maps.
LEMMA NextStep ==
    ASSUME IdsIInv, [Next]_vars
    PROVE  /\ IdsIInv'
           /\ Grows /\ issued \subseteq issued'
           /\ NamesKept
           /\ told \subseteq told' /\ told' \subseteq told \cup NamePairs'
<1>1. RegistryTypeOK /\ RegistryInv /\ DictTypeOK /\ DictInv
  BY DEF IdsIInv, TypeOK
<1>2. RegistryNext \/ UNCHANGED registryVars
  BY DEF Next, vars
<1>3. DictNext \/ UNCHANGED dictVars
  BY DEF Next, vars, DictEnds, DictNext
<1>4. RegistryTypeOK' /\ RegistryInv' /\ Grows /\ issued \subseteq issued'
  <2>1. CASE RegistryNext
    BY <1>1, <2>1, RegistryStep
  <2>2. CASE UNCHANGED registryVars
    <3>1. RegistryTypeOK' /\ RegistryInv'
      BY <1>1, <2>2 DEF registryVars, processVars, RegistryTypeOK, RegistryInv, Holds
    <3> QED
      BY <1>1, <2>2, <3>1 DEF registryVars, Grows, RegistryTypeOK, RegistryInv
  <2> QED
    BY <1>2, <2>1, <2>2
<1>5. /\ DictTypeOK' /\ DictInv'
      /\ NamesKept
      /\ told \subseteq told' /\ told' \subseteq told \cup NamePairs'
  <2>1. CASE DictNext
    BY <1>1, <2>1, DictStep
  <2>2. CASE UNCHANGED dictVars
    <3>1. DictTypeOK' /\ DictInv'
      BY <1>1, <2>2 DEF dictVars, DictTypeOK, DictInv
    <3> QED
      BY <2>2, <3>1 DEF dictVars, NamesKept
  <2> QED
    BY <1>3, <2>1, <2>2
<1> QED
  BY <1>4, <1>5 DEF IdsIInv, TypeOK

\* The inductive invariant holds, for every number of processes and every size of cache.
THEOREM IdsInvariantHolds == Spec => []IdsIInv
<1>1. IdsIInv /\ [Next]_vars => IdsIInv'
  BY NextStep
<1> QED
  BY InitInvariant, <1>1, PTL DEF Spec

\* Type correctness of the registry and the dictionary.
THEOREM IdsTypeCorrect == Spec => []TypeOK
<1>1. IdsIInv => TypeOK
  BY DEF IdsIInv
<1> QED
  BY IdsInvariantHolds, <1>1, PTL

\* Every entry of every cache agrees with the table.
THEOREM CachesAgree == Spec => []CacheAgrees
<1>1. IdsIInv => CacheAgrees
  BY DEF IdsIInv, RegistryInv, Holds, CacheAgrees
<1> QED
  BY IdsInvariantHolds, <1>1, PTL

\* The INSERT of DictCache.get_or_create repeats neither a name nor an id.
THEOREM NamesAreInsertable == Spec => []NamesInsertable
<1>1. IdsIInv => NamesInsertable
  BY DEF IdsIInv, TypeOK, DictTypeOK, DictInv, NamesInsertable, Insertable
<1> QED
  BY IdsInvariantHolds, <1>1, PTL

-----------------------------------------------------------------------------
(* The two implementations of IdMap *)

\* Under the invariant the registry's pairs are one to one, and hold what was issued.
LEMMA IpMapFacts ==
    ASSUME RegistryTypeOK, RegistryInv
    PROVE  IpIds!OneToOne(IpPairs) /\ issued \subseteq IpPairs
<1>1. ASSUME NEW x \in IpPairs, NEW y \in IpPairs
      PROVE  x[1] = y[1] <=> x[2] = y[2]
  <2>1. PICK m \in DOMAIN table : x = <<table[m], m>>
    BY DEF IpPairs
  <2>2. PICK n \in DOMAIN table : y = <<table[n], n>>
    BY DEF IpPairs
  <2>3. table[m] = table[n] <=> m = n
    BY DEF RegistryInv
  <2> QED
    BY <2>1, <2>2, <2>3
<1>2. ASSUME NEW pair \in issued
      PROVE  pair \in IpPairs
  <2>1. PICK a \in Ips, n \in Nat : pair = <<a, n>>
    BY DEF RegistryTypeOK
  <2>2. n \in DOMAIN table /\ table[n] = a
    BY <2>1 DEF RegistryInv, Holds
  <2> QED
    BY <2>1, <2>2 DEF IpPairs
<1> QED
  BY <1>1, <1>2 DEF IpIds!OneToOne

\* get_or_create and get_id_no_create of the registry implement IdMap.
THEOREM IpIdsImplemented == Spec => IpIdsSpec
<1>0. RegistryTypeOK /\ RegistryInv => IpIds!OneToOne(IpPairs) /\ issued \subseteq IpPairs
  BY IpMapFacts
<1>1. Init => IpIds!Init
  <2> SUFFICES ASSUME Init PROVE IpIds!Init
    OBVIOUS
  <2>1. RegistryTypeOK /\ RegistryInv
    BY InitInvariant DEF IdsIInv, TypeOK
  <2>2. IpIds!OneToOne(IpPairs)
    BY <2>1, IpMapFacts
  <2> QED
    BY <2>2 DEF Init, RegistryInit, IpIds!Init
<1>2. IdsIInv /\ [Next]_vars => [IpIds!Next]_<<IpPairs, issued>>
  <2> SUFFICES ASSUME IdsIInv, [Next]_vars PROVE IpIds!Next
    OBVIOUS
  <2>1. RegistryTypeOK' /\ RegistryInv'
    BY NextStep DEF IdsIInv, TypeOK
  <2>2. Grows /\ issued \subseteq issued'
    BY NextStep
  <2>3. IpIds!OneToOne(IpPairs)' /\ (issued \subseteq IpPairs)'
    BY <1>0, <2>1, PTL
  <2>4. IpPairs \subseteq IpPairs'
    BY <2>2 DEF Grows, IpPairs
  <2> QED
    BY <2>2, <2>3, <2>4 DEF IpIds!Next
<1>3. IpIdsSpec <=> IpIds!Init /\ [][IpIds!Next]_<<IpPairs, issued>>
  BY DEF IpIdsSpec, IpIds!Spec
<1> QED
  BY <1>1, <1>2, <1>3, IdsInvariantHolds, PTL DEF Spec

\* DictCache.get_or_create implements IdMap.
THEOREM NameIdsImplemented == Spec => NameIdsSpec
<1>0. DictInv => NameIds!OneToOne(NamePairs)
  <2> SUFFICES ASSUME DictInv, NEW p \in NamePairs, NEW q \in NamePairs
               PROVE  p[1] = q[1] <=> p[2] = q[2]
    BY DEF NameIds!OneToOne
  <2>1. PICK x \in DOMAIN stored : p = <<x, stored[x]>>
    BY DEF NamePairs
  <2>2. PICK y \in DOMAIN stored : q = <<y, stored[y]>>
    BY DEF NamePairs
  <2>3. x = y <=> stored[x] = stored[y]
    BY DEF DictInv
  <2> QED
    BY <2>1, <2>2, <2>3
<1>1. Init => NameIds!Init
  <2> SUFFICES ASSUME Init PROVE NameIds!Init
    OBVIOUS
  <2>1. NamePairs = {}
    BY DEF Init, DictInit, None, NamePairs
  <2> QED
    BY <2>1 DEF Init, DictInit, NameIds!Init, NameIds!OneToOne
<1>2. IdsIInv /\ [Next]_vars => [NameIds!Next]_<<NamePairs, told>>
  <2> SUFFICES ASSUME IdsIInv, [Next]_vars PROVE NameIds!Next
    OBVIOUS
  <2>1. DictInv'
    BY NextStep DEF IdsIInv
  <2>2. NameIds!OneToOne(NamePairs)'
    BY <1>0, <2>1, PTL
  <2>3. NamesKept /\ told \subseteq told' /\ told' \subseteq told \cup NamePairs'
    BY NextStep
  <2>4. NamePairs \subseteq NamePairs'
    BY <2>3 DEF NamesKept, NamePairs
  <2> QED
    BY <2>2, <2>3, <2>4 DEF NameIds!Next
<1>3. NameIdsSpec <=> NameIds!Init /\ [][NameIds!Next]_<<NamePairs, told>>
  BY DEF NameIdsSpec, NameIds!Spec
<1> QED
  BY <1>1, <1>2, <1>3, IdsInvariantHolds, PTL DEF Spec

-----------------------------------------------------------------------------
(* The bounds of the counters and of the cache *)

\* And nothing but a call's own end brings the counters to their limit.
PendingInv ==
    /\ PendingBounded
    /\ \A p \in Processes : missed[p] # NoIp => ~PendingFull(pending[p])

\* A use adds at most one counter to those below the limit.
LEMMA ReturnBounded ==
    ASSUME RegistryTypeOK, PendingInv, NEW p \in Processes, NEW a, NEW n,
           Return(p, a, n), ~PendingFull(pending[p]),
           missed'[p] = NoIp, \A q \in Processes : q # p => missed'[q] = missed[q]
    PROVE  PendingInv'
<1>1. pending'[p] = Counted(p, n) /\ \A q \in Processes : q # p => pending'[q] = pending[q]
  BY DEF RegistryTypeOK, Return
<1>2. DOMAIN Counted(p, n) = DOMAIN pending[p] \cup {n}
  BY DEF Counted, Put
<1>3. IsFiniteSet(DOMAIN pending[p])
  <2>1. DOMAIN table = 1 .. Len(table) /\ Len(table) \in Nat
    BY LenProperties DEF RegistryTypeOK
  <2>2. IsFiniteSet(1 .. Len(table))
    BY <2>1, FS_Interval
  <2>3. DOMAIN pending[p] \subseteq 1 .. Len(table)
    BY <2>1 DEF RegistryTypeOK
  <2> QED
    BY <2>2, <2>3, FS_Subset
<1>4. Cardinality(DOMAIN pending[p]) \in Nat
  BY <1>3, FS_CardinalityType
<1>5. \/ Cardinality(DOMAIN pending[p] \cup {n}) = Cardinality(DOMAIN pending[p])
      \/ Cardinality(DOMAIN pending[p] \cup {n}) = Cardinality(DOMAIN pending[p]) + 1
  BY <1>3, FS_AddElement
<1>6. Cardinality(DOMAIN pending[p]) < MaxPending /\ MaxPending \in Nat
  BY <1>4, RegistryAssumption DEF PendingFull, RegistryAssumption
<1>7. Cardinality(DOMAIN pending'[p]) <= MaxPending
  BY <1>1, <1>2, <1>4, <1>5, <1>6
<1>8. \A q \in Processes : Cardinality(DOMAIN pending'[q]) <= MaxPending
  BY <1>1, <1>7 DEF PendingInv, PendingBounded
<1>9. \A q \in Processes : missed'[q] # NoIp => ~PendingFull(pending'[q])
  BY <1>1 DEF PendingInv
<1> QED
  BY <1>8, <1>9 DEF PendingInv, PendingBounded, PendingFull

\* A process has at most max_pending_hits addresses in its counters.
THEOREM PendingIsBounded == Spec => []PendingBounded
<1>0. Cardinality(DOMAIN Empty) = 0 /\ 0 < MaxPending /\ MaxPending \in Nat
  BY FS_EmptySet, RegistryAssumption DEF Empty, RegistryAssumption
<1>1. Init => PendingInv
  BY <1>0 DEF Init, RegistryInit, PendingInv, PendingBounded
<1>2. IdsIInv /\ PendingInv /\ [Next]_vars => PendingInv'
  <2> SUFFICES ASSUME IdsIInv, PendingInv, [Next]_vars
               PROVE  PendingInv'
    OBVIOUS
  <2>0. RegistryTypeOK
    BY DEF IdsIInv, TypeOK
  <2>1. CASE RegistryNext
    <3>1. CASE pending' = pending /\ missed' = missed
      BY <3>1 DEF PendingInv, PendingBounded, PendingFull
    <3>2. ASSUME NEW p \in Processes, pending' = pending, missed' = [missed EXCEPT ![p] = NoIp]
          PROVE  PendingInv'
      <4>1. \A q \in Processes : missed'[q] # NoIp => missed[q] # NoIp
        BY <2>0, <3>2 DEF RegistryTypeOK
      <4> QED
        BY <3>2, <4>1 DEF PendingInv, PendingBounded, PendingFull
    <3>3. ASSUME NEW p \in Processes, pending' = [pending EXCEPT ![p] = Empty],
                 missed' = missed \/ missed' = [missed EXCEPT ![p] = NoIp]
          PROVE  PendingInv'
      <4>1. \A q \in Processes : missed'[q] # NoIp => missed[q] # NoIp
        BY <2>0, <3>3 DEF RegistryTypeOK
      <4>2. \A q \in Processes : pending'[q] = pending[q] \/ pending'[q] = Empty
        BY <2>0, <3>3 DEF RegistryTypeOK
      <4>3. ~PendingFull(Empty)
        BY <1>0 DEF PendingFull
      <4>4. Cardinality(DOMAIN Empty) <= MaxPending
        BY <1>0
      <4>5. \A q \in Processes : Cardinality(DOMAIN pending'[q]) <= MaxPending
        BY <4>2, <4>4 DEF PendingInv, PendingBounded
      <4>6. \A q \in Processes : missed'[q] # NoIp => ~PendingFull(pending'[q])
        BY <4>1, <4>2, <4>3 DEF PendingInv
      <4> QED
        BY <4>5, <4>6 DEF PendingInv, PendingBounded, PendingFull
    <3>4. ASSUME NEW p \in Processes, Open(p) \/ Close(p) \/ Kill(p)
          PROVE  PendingInv'
      BY <3>1, <3>3, <3>4 DEF Open, Close, Closes, Kill, Gone
    <3>5. ASSUME NEW p \in Writers, NEW a \in Ips,
                 UseCached(p, a) \/ UseStored(p, a) \/ Miss(p, a)
          PROVE  PendingInv'
      <4>0. p \in Processes
        BY DEF Processes
      <4>1. CASE UseCached(p, a)
        BY <2>0, <4>0, <4>1, ReturnBounded DEF UseCached, Call, Idle
      <4>2. CASE UseStored(p, a)
        BY <2>0, <4>0, <4>2, ReturnBounded DEF UseStored, Call, Idle
      <4>3. CASE Miss(p, a)
        <5>1. pending' = pending /\ ~PendingFull(pending[p])
              /\ \A q \in Processes : q # p => missed'[q] = missed[q]
          BY <2>0, <4>0, <4>3 DEF Miss, Call, Idle, RegistryTypeOK
        <5> QED
          BY <5>1 DEF PendingInv, PendingBounded, PendingFull
      <4> QED
        BY <3>5, <4>1, <4>2, <4>3
    <3>6. ASSUME NEW p \in Writers, Insert(p) \/ Refused(p) \/ FlushHits(p) \/ FlushFails(p)
          PROVE  PendingInv'
      <4>0. p \in Processes
        BY DEF Processes
      <4>1. CASE Insert(p)
        <5>1. ~PendingFull(pending[p])
          BY <4>0, <4>1 DEF Insert, PendingInv
        <5>2. missed'[p] = NoIp /\ \A q \in Processes : q # p => missed'[q] = missed[q]
          BY <2>0, <4>0, <4>1 DEF Insert, RegistryTypeOK
        <5> QED
          BY <2>0, <4>0, <4>1, <5>1, <5>2, ReturnBounded DEF Insert
      <4>2. CASE Refused(p)
        BY <3>2, <3>3, <4>0, <4>2 DEF Refused, Closes, Gone
      <4>3. CASE FlushHits(p)
        BY <3>3, <4>0, <4>3 DEF FlushHits, CountsAfterFlush
      <4>4. CASE FlushFails(p)
        BY <3>3, <4>0, <4>4 DEF FlushFails, CountsAfterFlush, Gone
      <4> QED
        BY <3>6, <4>1, <4>2, <4>3, <4>4
    <3>7. ASSUME NEW w \in Webs, NEW a \in Ips, Lookup(w, a)
          PROVE  PendingInv'
      BY <3>1, <3>7 DEF Lookup, processVars
    <3> QED
      BY <2>1, <3>4, <3>5, <3>6, <3>7 DEF RegistryNext
  <2>2. CASE UNCHANGED registryVars
    BY <2>2 DEF registryVars, processVars, PendingInv, PendingBounded, PendingFull
  <2> QED
    BY <2>1, <2>2 DEF Next, vars
<1>3. PendingInv => PendingBounded
  BY DEF PendingInv
<1> QED
  BY <1>1, <1>2, <1>3, IdsInvariantHolds, PTL DEF Spec

-----------------------------------------------------------------------------

\* The caches are finite, and within their bound.
CacheInv ==
    /\ \A p \in Processes : IsFiniteSet(DOMAIN cache[p])
    /\ CacheBounded

\* What an eviction leaves has room for one more address.
LEMMA RememberBounded ==
    ASSUME RegistryTypeOK, RegistryTypeOK', CacheInv, MaxCache > 1,
           NEW p \in Processes, NEW a, NEW n, Remember(p, a, n)
    PROVE  CacheInv'
<1>0. MaxCache \in Nat
  BY RegistryAssumption DEF RegistryAssumption
<1>1. PICK c \in Survivors(cache[p]) : cache' = [cache EXCEPT ![p] = Put(c, a, n)]
  BY DEF Remember
<1>2. IsFiniteSet(DOMAIN cache[p]) /\ Cardinality(DOMAIN cache[p]) \in Nat
  BY FS_CardinalityType DEF CacheInv
<1>3. IsFiniteSet(DOMAIN c) /\ Cardinality(DOMAIN c) \in Nat /\ Cardinality(DOMAIN c) < MaxCache
  <2>1. CASE CacheFull(cache[p]) /\ Cutoff > 0
    <3>1. PICK S \in SUBSET DOMAIN cache[p] : Cardinality(S) = Cutoff /\ c = Restrict(cache[p], S)
      BY <1>1, <2>1 DEF Survivors
    <3>2. DOMAIN c = S
      BY <3>1 DEF Restrict
    <3>3. IsFiniteSet(S)
      BY <1>2, FS_Subset
    <3>4. Cutoff \in Nat /\ Cutoff < MaxCache
      BY <1>0, <2>1 DEF Cutoff
    <3> QED
      BY <3>1, <3>2, <3>3, <3>4
  <2>2. CASE ~CacheFull(cache[p])
    <3>1. c = cache[p]
      BY <1>1, <2>2 DEF Survivors
    <3> QED
      BY <1>0, <1>2, <2>2, <3>1 DEF CacheFull
  <2>3. Cutoff > 0
    BY <1>0 DEF Cutoff
  <2> QED
    BY <2>1, <2>2, <2>3
<1>4. DOMAIN cache'[p] = DOMAIN c \cup {a} /\ \A q \in Processes : q # p => cache'[q] = cache[q]
  <2>1. cache'[p] = Put(c, a, n) /\ \A q \in Processes : q # p => cache'[q] = cache[q]
    BY <1>1 DEF RegistryTypeOK
  <2>2. DOMAIN Put(c, a, n) = DOMAIN c \cup {a}
    BY DEF Put
  <2> QED
    BY <2>1, <2>2
<1>5. /\ IsFiniteSet(DOMAIN c \cup {a})
      /\ Cardinality(DOMAIN c \cup {a}) = Cardinality(DOMAIN c)
           \/ Cardinality(DOMAIN c \cup {a}) = Cardinality(DOMAIN c) + 1
  BY <1>3, FS_AddElement
<1>6. IsFiniteSet(DOMAIN cache'[p]) /\ Cardinality(DOMAIN cache'[p]) <= MaxCache
  BY <1>0, <1>3, <1>4, <1>5
<1> QED
  BY <1>4, <1>6 DEF CacheInv, CacheBounded

\* The preload brings at most ip_cache_hot_top_n addresses.
LEMMA PreloadBounded ==
    ASSUME RegistryTypeOK, NEW top \in HotSets
    PROVE  /\ IsFiniteSet(DOMAIN Preloaded(top))
           /\ Cardinality(DOMAIN Preloaded(top)) <= HotTopN
<1> DEFINE hot == {n \in DOMAIN table : hits[n] > 0}
           loaded == {table[n] : n \in top}
<1>1. IsFiniteSet(DOMAIN table)
  <2>1. DOMAIN table = 1 .. Len(table) /\ Len(table) \in Nat
    BY LenProperties DEF RegistryTypeOK
  <2> QED
    BY <2>1, FS_Interval
<1>2. IsFiniteSet(hot) /\ Cardinality(hot) \in Nat
  <2>1. hot \subseteq DOMAIN table
    OBVIOUS
  <2> QED
    BY <1>1, <2>1, FS_Subset, FS_CardinalityType
<1>3. top \subseteq hot
      /\ Cardinality(top) = IF Cardinality(hot) < HotTopN THEN Cardinality(hot) ELSE HotTopN
  BY DEF HotSets
<1>4. HotTopN \in Nat
  BY RegistryAssumption DEF RegistryAssumption
<1> HIDE DEF hot
<1>5. Cardinality(top) \in Nat /\ Cardinality(top) <= HotTopN /\ IsFiniteSet(top)
  BY <1>2, <1>3, <1>4, FS_Subset
<1>6. IsFiniteSet(loaded) /\ Cardinality(loaded) <= Cardinality(top)
  <2> DEFINE f == [n \in top |-> table[n]]
  <2>1. f \in Surjection(top, loaded)
    BY DEF Surjection
  <2> HIDE DEF f, loaded
  <2> QED
    BY <1>5, <2>1, FS_Surjection
<1>7. DOMAIN Preloaded(top) = loaded
  BY DEF Preloaded
<1>8. Cardinality(loaded) \in Nat
  BY <1>6, FS_CardinalityType
<1> HIDE DEF loaded
<1> QED
  BY <1>4, <1>5, <1>6, <1>7, <1>8

\* The cache holds at most ip_cache_max addresses, or as many as were preloaded.
THEOREM CacheIsBounded == Spec => []CacheBounded
<1>0. IsFiniteSet(DOMAIN Empty) /\ Cardinality(DOMAIN Empty) = 0 /\ MaxCache \in Nat
  BY FS_EmptySet, RegistryAssumption DEF Empty, RegistryAssumption
<1>1. Init => (MaxCache > 1 => CacheInv)
  BY <1>0 DEF Init, RegistryInit, CacheInv, CacheBounded
<1>2. IdsIInv /\ IdsIInv' /\ (MaxCache > 1 => CacheInv) /\ [Next]_vars => (MaxCache > 1 => CacheInv')
  <2> SUFFICES ASSUME IdsIInv, IdsIInv', CacheInv, [Next]_vars, MaxCache > 1
               PROVE  CacheInv'
    OBVIOUS
  <2>0. RegistryTypeOK /\ RegistryTypeOK'
    BY DEF IdsIInv, TypeOK
  <2>1. CASE RegistryNext
    <3>1. CASE cache' = cache
      BY <3>1 DEF CacheInv, CacheBounded
    <3>2. ASSUME NEW p \in Processes, NEW a, NEW n, Remember(p, a, n)
          PROVE  CacheInv'
      BY <2>0, <3>2, RememberBounded
    <3>3. ASSUME NEW p \in Processes, NEW c, cache' = [cache EXCEPT ![p] = c],
                 IsFiniteSet(DOMAIN c), Cardinality(DOMAIN c) <= HotTopN \/ Cardinality(DOMAIN c) <= MaxCache
          PROVE  CacheInv'
      <4>1. \A q \in Processes : cache'[q] = cache[q] \/ cache'[q] = c
        BY <2>0, <3>3 DEF RegistryTypeOK
      <4> QED
        BY <3>3, <4>1 DEF CacheInv, CacheBounded
    <3>4. ASSUME NEW p \in Processes, Gone(p)
          PROVE  CacheInv'
      <4>1. cache' = [cache EXCEPT ![p] = Empty]
        BY <3>4 DEF Gone
      <4>2. Cardinality(DOMAIN Empty) <= MaxCache
        BY <1>0
      <4> QED
        BY <1>0, <3>3, <4>1, <4>2
    <3>5. ASSUME NEW p \in Processes, Open(p)
          PROVE  CacheInv'
      <4>1. PICK top \in HotSets : cache' = [cache EXCEPT ![p] = Preloaded(top)]
        BY <3>5 DEF Open
      <4>2. IsFiniteSet(DOMAIN Preloaded(top)) /\ Cardinality(DOMAIN Preloaded(top)) <= HotTopN
        BY <2>0, PreloadBounded
      <4> QED
        BY <3>3, <4>1, <4>2
    <3>6. ASSUME NEW p \in Processes, Close(p) \/ Kill(p)
          PROVE  CacheInv'
      BY <3>4, <3>6 DEF Close, Closes, Kill
    <3>7. ASSUME NEW p \in Writers, NEW a \in Ips,
                 UseCached(p, a) \/ UseStored(p, a) \/ Miss(p, a)
          PROVE  CacheInv'
      <4>1. p \in Processes
        BY DEF Processes
      <4> QED
        BY <3>1, <3>2, <3>7, <4>1 DEF UseCached, UseStored, Miss
    <3>8. ASSUME NEW p \in Writers, Insert(p) \/ Refused(p) \/ FlushHits(p) \/ FlushFails(p)
          PROVE  CacheInv'
      <4>1. p \in Processes
        BY DEF Processes
      <4> QED
        BY <3>1, <3>2, <3>4, <3>8, <4>1 DEF Insert, Refused, Closes, FlushHits, FlushFails
    <3>9. ASSUME NEW w \in Webs, NEW a \in Ips, Lookup(w, a)
          PROVE  CacheInv'
      BY <3>1, <3>9 DEF Lookup, processVars
    <3> QED
      BY <2>1, <3>5, <3>6, <3>7, <3>8, <3>9 DEF RegistryNext
  <2>2. CASE UNCHANGED registryVars
    BY <2>2 DEF registryVars, processVars, CacheInv, CacheBounded
  <2> QED
    BY <2>1, <2>2 DEF Next, vars
<1>3. (MaxCache > 1 => CacheInv) => CacheBounded
  BY DEF CacheInv, CacheBounded
<1>4. Init /\ [][Next]_vars /\ []IdsIInv => [](MaxCache > 1 => CacheInv)
  <2>1. (MaxCache > 1 => CacheInv') => (MaxCache > 1 => CacheInv)'
    OBVIOUS
  <2> QED
    BY <1>1, <1>2, <2>1, PTL
<1> QED
  BY <1>3, <1>4, IdsInvariantHolds, PTL DEF Spec

-----------------------------------------------------------------------------
(* The account of the hits *)

\* An address without a row has neither uses nor losses.
HitsInv ==
    /\ HitsAccounted
    /\ \A a \in Ips \ Known : uses[a] = 0 /\ lost[a] = 0

\* A step of process p changes what waits in the counters by what waits in its own.
LEMMA WaitingSum ==
    ASSUME RegistryTypeOK, RegistryTypeOK', NEW p \in Processes,
           \A q \in Processes : q # p => pending'[q] = pending[q],
           NEW n
    PROVE  /\ Waiting(n)[p] \in Nat /\ Waiting(n)'[p] \in Nat
           /\ SumFunction(Waiting(n)) \in Int
           /\ SumFunction(Waiting(n))' = SumFunction(Waiting(n)) + Waiting(n)'[p] - Waiting(n)[p]
<1>1. IsFiniteSet(Processes)
  BY RegistryAssumption DEF RegistryAssumption, Processes, Writers
<1>2. Waiting(n) \in [Processes -> Nat] /\ Waiting(n)' \in [Processes -> Nat]
  BY DEF RegistryTypeOK, Waiting
<1>3. \A q \in Processes \ {p} : Waiting(n)'[q] = Waiting(n)[q]
  BY DEF Waiting
<1> DEFINE f == Waiting(n)
           g == Waiting(n)'
<1>4. f \in [Processes -> Int] /\ g \in [Processes -> Int]
  BY <1>2
<1>5. f[p] \in Nat /\ g[p] \in Nat
  BY <1>2
<1>6. \A q \in Processes \ {p} : g[q] = f[q]
  BY <1>3
<1> HIDE DEF f, g
<1>7. SumFunction(f) \in Int /\ SumFunction(g) = SumFunction(f) + g[p] - f[p]
  BY <1>1, <1>4, <1>6, SumType, SumChange
<1> QED
  BY <1>5, <1>7 DEF f, g

\* A step of one process keeps the account, when it does so row by row with its own counters.
LEMMA AccountStep ==
    ASSUME RegistryTypeOK, RegistryTypeOK', Grows, HitsInv, NEW p \in Processes,
           \A q \in Processes : q # p => pending'[q] = pending[q],
           \A n \in DOMAIN table :
              uses'[table[n]] - uses[table[n]]
              = (hits'[n] + Waiting(n)'[p] + lost'[table[n]]) - (hits[n] + Waiting(n)[p] + lost[table[n]]),
           \A n \in DOMAIN table' \ DOMAIN table :
              uses'[table'[n]] = hits'[n] + Waiting(n)'[p] + lost'[table'[n]],
           \A a \in Ips \ Known' : uses'[a] = uses[a] /\ lost'[a] = lost[a]
    PROVE  HitsInv'
<1>1. ASSUME NEW n \in DOMAIN table'
      PROVE  uses'[table'[n]] = hits'[n] + SumFunction(Waiting(n))' + lost'[table'[n]]
  <2>0. /\ Waiting(n)[p] \in Nat /\ Waiting(n)'[p] \in Nat
        /\ SumFunction(Waiting(n)) \in Int
        /\ SumFunction(Waiting(n))' = SumFunction(Waiting(n)) + Waiting(n)'[p] - Waiting(n)[p]
    BY WaitingSum
  <2>1. CASE n \in DOMAIN table
    <3>1. table'[n] = table[n] /\ table[n] \in Ips
      BY <2>1 DEF Grows, RegistryTypeOK
    <3>2. uses[table[n]] = hits[n] + SumFunction(Waiting(n)) + lost[table[n]]
      BY <2>1 DEF HitsInv, HitsAccounted
    <3>3. /\ uses[table[n]] \in Nat /\ lost[table[n]] \in Nat /\ hits[n] \in Nat
          /\ uses'[table[n]] \in Nat /\ lost'[table[n]] \in Nat /\ hits'[n] \in Nat
      BY <2>1, <3>1 DEF RegistryTypeOK
    <3> QED
      BY <2>0, <2>1, <3>1, <3>2, <3>3
  <2>2. CASE n \notin DOMAIN table
    <3>1. \A q \in Processes : Waiting(n)[q] = 0
      BY <2>2 DEF RegistryTypeOK, Waiting
    <3>2. SumFunction(Waiting(n)) = 0
      <4>1. Waiting(n) \in [Processes -> Int]
        BY DEF RegistryTypeOK, Waiting
      <4>2. IsFiniteSet(Processes)
        BY RegistryAssumption DEF RegistryAssumption, Processes, Writers
      <4> QED
        BY <3>1, <4>1, <4>2, SumOfZeros
    <3> QED
      BY <2>0, <2>2, <3>1, <3>2
  <2> QED
    BY <2>1, <2>2
<1>2. Known \subseteq Known'
  BY DEF Grows, Known, Range
<1>3. \A a \in Ips \ Known' : uses'[a] = 0 /\ lost'[a] = 0
  BY <1>2 DEF HitsInv
<1> QED
  BY <1>1, <1>3 DEF HitsInv, HitsAccounted

\* What the rows gain is what leaves the counters of p.
LEMMA FlushMoves ==
    ASSUME RegistryTypeOK, NEW p \in Processes, DOMAIN pending' = Processes,
           hits' = Added(hits, pending[p]), pending'[p] = Empty
    PROVE  \A n \in DOMAIN table : hits'[n] + Waiting(n)'[p] = hits[n] + Waiting(n)[p]
BY DEF RegistryTypeOK, Added, Waiting, Empty

\* Those that go with p are counted as lost.
LEMMA LoseMoves ==
    ASSUME RegistryTypeOK, RegistryInv, NEW p \in Processes, DOMAIN pending' = Processes,
           Lose(p), pending'[p] = Empty
    PROVE  /\ \A n \in DOMAIN table :
                lost'[table[n]] + Waiting(n)'[p] = lost[table[n]] + Waiting(n)[p]
           /\ \A a \in Ips \ Known : lost'[a] = lost[a]
<1>1. ASSUME NEW n \in DOMAIN table
      PROVE  lost'[table[n]] + Waiting(n)'[p] = lost[table[n]] + Waiting(n)[p]
  <2>1. table[n] \in Ips /\ table[n] \in Known /\ IdOf(table[n]) = n
    BY IdOfFacts DEF RegistryTypeOK, RegistryInv
  <2>2. lost'[table[n]] = lost[table[n]] + Waiting(n)[p]
    BY <2>1 DEF Lose, Waiting
  <2>3. Waiting(n)'[p] = 0
    BY DEF Waiting, Empty
  <2>4. lost[table[n]] \in Nat /\ Waiting(n)[p] \in Nat
    BY <2>1 DEF RegistryTypeOK, Waiting
  <2> QED
    BY <2>2, <2>3, <2>4
<1>2. ASSUME NEW a \in Ips \ Known
      PROVE  lost'[a] = lost[a]
  BY <1>2 DEF Lose, RegistryTypeOK
<1> QED
  BY <1>1, <1>2

\* A use is in the counters of p.
LEMMA ReturnMoves ==
    ASSUME RegistryTypeOK, NEW p \in Processes, NEW a \in Ips, NEW n \in Nat \ {0},
           Return(p, a, n)
    PROVE  /\ \A q \in Processes : q # p => pending'[q] = pending[q]
           /\ \A m : Waiting(m)'[p] = Waiting(m)[p] + IF m = n THEN 1 ELSE 0
<1> DEFINE counts == Counted(p, n)
<1>1. pending'[p] = counts /\ \A q \in Processes : q # p => pending'[q] = pending[q]
  BY DEF RegistryTypeOK, Return
<1>2. /\ DOMAIN counts = DOMAIN pending[p] \cup {n}
      /\ \A m \in DOMAIN counts : counts[m] = Waiting(m)[p] + IF m = n THEN 1 ELSE 0
      /\ \A m : Waiting(m)[p] \in Nat
  BY DEF RegistryTypeOK, Counted, Put, Waiting
<1>3. \A m : m \notin DOMAIN counts => Waiting(m)[p] = 0 /\ m # n
  BY <1>2 DEF Waiting
<1> HIDE DEF counts
<1>4. \A m : Waiting(m)'[p] = IF m \in DOMAIN counts THEN counts[m] ELSE 0
  BY <1>1 DEF Waiting
<1> QED
  BY <1>1, <1>2, <1>3, <1>4

\* A row that exists is used.
LEMMA UseAccounted ==
    ASSUME RegistryTypeOK, RegistryTypeOK', RegistryInv, Grows, HitsInv,
           NEW p \in Processes, NEW a \in Ips, NEW n \in Nat \ {0}, Holds(a, n),
           table' = table, hits' = hits, lost' = lost, Return(p, a, n)
    PROVE  HitsInv'
<1>1. n \in DOMAIN table /\ table[n] = a
  BY DEF Holds
<1>2. /\ \A q \in Processes : q # p => pending'[q] = pending[q]
      /\ \A m : Waiting(m)'[p] = Waiting(m)[p] + IF m = n THEN 1 ELSE 0
  BY ReturnMoves
<1>3. uses' = [uses EXCEPT ![a] = @ + 1]
  BY DEF Return
<1>4. ASSUME NEW m \in DOMAIN table
      PROVE  uses'[table[m]] - uses[table[m]]
              = (hits'[m] + Waiting(m)'[p] + lost'[table[m]]) - (hits[m] + Waiting(m)[p] + lost[table[m]])
  <2>1. table[m] \in Ips /\ (table[m] = a <=> m = n)
    <3>1. table[m] \in Ips
      BY DEF RegistryTypeOK
    <3> QED
      BY <1>1, <3>1 DEF RegistryInv
  <2>2. uses'[table[m]] = uses[table[m]] + IF m = n THEN 1 ELSE 0
    BY <1>3, <2>1 DEF RegistryTypeOK
  <2>3. Waiting(m)[p] \in Nat /\ Waiting(m)'[p] \in Nat
    BY <1>2, WaitingSum
  <2>4. /\ uses[table[m]] \in Nat /\ lost[table[m]] \in Nat /\ lost'[table[m]] = lost[table[m]]
        /\ hits[m] \in Nat /\ hits'[m] = hits[m]
    BY <2>1 DEF RegistryTypeOK
  <2>5. Waiting(m)'[p] = Waiting(m)[p] + IF m = n THEN 1 ELSE 0
    BY <1>2
  <2> QED
    BY <2>2, <2>3, <2>4, <2>5
<1>5. \A b \in Ips \ Known' : uses'[b] = uses[b] /\ lost'[b] = lost[b]
  <2>1. a \in Known'
    BY <1>1 DEF Known, Range
  <2> QED
    BY <1>3, <2>1 DEF RegistryTypeOK
<1> QED
  BY <1>2, <1>4, <1>5, AccountStep

\* A new row starts with the use that made it.
LEMMA InsertAccounted ==
    ASSUME RegistryTypeOK, RegistryTypeOK', RegistryInv, Grows, HitsInv,
           NEW p \in Processes, Insert(p)
    PROVE  HitsInv'
<1> DEFINE a == missed[p]
           h == Append(hits, 0)
<1>1. /\ a \in Ips /\ a \notin Known /\ table' = Append(table, a) /\ lost' = lost
      /\ Return(p, a, LastRow) /\ hits' = h
  BY DEF Insert, RegistryTypeOK
<1>2. /\ LastRow \in Nat \ {0} /\ LastRow \notin DOMAIN table
      /\ DOMAIN table' = DOMAIN table \cup {LastRow} /\ table'[LastRow] = a
      /\ \A m \in DOMAIN table : table'[m] = table[m]
  BY <1>1, AppendFacts, LenProperties DEF RegistryTypeOK, LastRow
<1>3. h \in [DOMAIN table' -> Nat]
  BY <1>1, HitsGrow DEF RegistryTypeOK
<1>4. h[LastRow] = 0 /\ \A m \in DOMAIN table : h[m] = hits[m]
  <2>1. DOMAIN table = 1 .. Len(table) /\ Len(table) \in Nat
    BY LenProperties DEF RegistryTypeOK
  <2>2. hits \in Seq(Nat) /\ Len(hits) = Len(table)
    <3>1. hits \in [1 .. Len(table) -> Nat]
      BY <2>1 DEF RegistryTypeOK
    <3> QED
      BY <2>1, <3>1, IsASeq, LenProperties
  <2> QED
    BY <2>1, <2>2, AppendProperties DEF LastRow
<1> HIDE DEF a, h
<1>5. /\ \A q \in Processes : q # p => pending'[q] = pending[q]
      /\ \A m : Waiting(m)'[p] = Waiting(m)[p] + IF m = LastRow THEN 1 ELSE 0
  BY <1>1, <1>2, ReturnMoves
<1>6. uses' = [uses EXCEPT ![a] = @ + 1] /\ uses[a] = 0 /\ lost[a] = 0
  BY <1>1 DEF Return, HitsInv
<1>7. ASSUME NEW m \in DOMAIN table
      PROVE  uses'[table[m]] - uses[table[m]]
              = (hits'[m] + Waiting(m)'[p] + lost'[table[m]]) - (hits[m] + Waiting(m)[p] + lost[table[m]])
  <2>1. table[m] \in Ips /\ table[m] # a /\ m # LastRow
    BY <1>1, <1>2 DEF RegistryTypeOK, Known, Range
  <2>2. uses'[table[m]] = uses[table[m]]
    BY <1>6, <2>1 DEF RegistryTypeOK
  <2>3. Waiting(m)[p] \in Nat /\ Waiting(m)'[p] \in Nat
    BY <1>5, WaitingSum
  <2>4. /\ uses[table[m]] \in Nat /\ lost[table[m]] \in Nat /\ lost'[table[m]] = lost[table[m]]
        /\ hits[m] \in Nat /\ hits'[m] \in Nat
    BY <1>1, <1>2, <2>1 DEF RegistryTypeOK
  <2>5. hits'[m] = hits[m] /\ Waiting(m)'[p] = Waiting(m)[p]
    BY <1>1, <1>4, <1>5, <2>1, <2>3
  <2> QED
    BY <2>2, <2>3, <2>4, <2>5
<1>8. ASSUME NEW m \in DOMAIN table' \ DOMAIN table
      PROVE  uses'[table'[m]] = hits'[m] + Waiting(m)'[p] + lost'[table'[m]]
  <2>1. m = LastRow /\ table'[m] = a
    BY <1>2
  <2>2. Waiting(m)[p] = 0
    BY <1>8 DEF Waiting, RegistryTypeOK
  <2>3. hits'[m] + Waiting(m)'[p] = 1
    BY <1>1, <1>4, <1>5, <2>1, <2>2
  <2>4. uses'[a] = 1 /\ lost'[a] = 0
    BY <1>1, <1>6 DEF RegistryTypeOK
  <2>5. hits'[m] \in Nat /\ Waiting(m)'[p] \in Nat
    BY <1>5, WaitingSum DEF RegistryTypeOK
  <2> QED
    BY <2>1, <2>3, <2>4, <2>5
<1>9. \A b \in Ips \ Known' : uses'[b] = uses[b] /\ lost'[b] = lost[b]
  <2>1. a \in Known'
    BY <1>2 DEF Known, Range
  <2> QED
    BY <1>1, <1>6, <2>1 DEF RegistryTypeOK
<1> QED
  BY <1>5, <1>7, <1>8, <1>9, AccountStep

\* The counters of p are emptied into the rows, or lost.
LEMMA EmptiedAccounted ==
    ASSUME RegistryTypeOK, RegistryTypeOK', RegistryInv, Grows, HitsInv, NEW p \in Processes,
           table' = table, uses' = uses, pending' = [pending EXCEPT ![p] = Empty],
           \/ hits' = Added(hits, pending[p]) /\ lost' = lost
           \/ Lose(p)
    PROVE  HitsInv'
<1>1. DOMAIN pending' = Processes /\ pending'[p] = Empty /\ \A q \in Processes : q # p => pending'[q] = pending[q]
  BY DEF RegistryTypeOK
<1>2. Known' = Known
  BY DEF Known, Range
<1>3. /\ \A n \in DOMAIN table : hits'[n] + Waiting(n)'[p] + lost'[table[n]]
                                 = hits[n] + Waiting(n)[p] + lost[table[n]]
      /\ \A b \in Ips \ Known : lost'[b] = lost[b]
  <2>0. \A n \in DOMAIN table :
          /\ Waiting(n)[p] \in Nat /\ Waiting(n)'[p] \in Nat /\ hits[n] \in Nat /\ hits'[n] \in Nat
          /\ table[n] \in Ips /\ lost[table[n]] \in Nat /\ lost'[table[n]] \in Nat
    <3>1. \A n : Waiting(n)[p] \in Nat /\ Waiting(n)'[p] \in Nat
      BY <1>1, WaitingSum
    <3>2. \A n \in DOMAIN table : table[n] \in Ips
      BY DEF RegistryTypeOK
    <3> QED
      BY <3>1, <3>2 DEF RegistryTypeOK
  <2>1. CASE hits' = Added(hits, pending[p]) /\ lost' = lost
    <3>1. \A n \in DOMAIN table : hits'[n] + Waiting(n)'[p] = hits[n] + Waiting(n)[p]
      BY <1>1, <2>1, FlushMoves
    <3> QED
      BY <2>0, <2>1, <3>1
  <2>2. CASE Lose(p)
    <3>1. /\ \A n \in DOMAIN table :
                lost'[table[n]] + Waiting(n)'[p] = lost[table[n]] + Waiting(n)[p]
          /\ \A b \in Ips \ Known : lost'[b] = lost[b]
      BY <1>1, <2>2, LoseMoves
    <3>2. ASSUME NEW n \in DOMAIN table
          PROVE  hits'[n] + Waiting(n)'[p] + lost'[table[n]] = hits[n] + Waiting(n)[p] + lost[table[n]]
      <4>1. lost'[table[n]] + Waiting(n)'[p] = lost[table[n]] + Waiting(n)[p] /\ hits'[n] = hits[n]
        BY <2>2, <3>1 DEF Lose
      <4>2. /\ Waiting(n)[p] \in Nat /\ Waiting(n)'[p] \in Nat /\ hits[n] \in Nat
            /\ lost[table[n]] \in Nat /\ lost'[table[n]] \in Nat
        BY <2>0
      <4> QED
        BY <4>1, <4>2
    <3> QED
      BY <3>1, <3>2
  <2> QED
    BY <2>1, <2>2
<1>4. ASSUME NEW n \in DOMAIN table
      PROVE  uses'[table[n]] - uses[table[n]]
              = (hits'[n] + Waiting(n)'[p] + lost'[table[n]]) - (hits[n] + Waiting(n)[p] + lost[table[n]])
  <2>1. /\ Waiting(n)[p] \in Nat /\ Waiting(n)'[p] \in Nat /\ hits[n] \in Nat /\ hits'[n] \in Nat
        /\ table[n] \in Ips /\ lost[table[n]] \in Nat /\ lost'[table[n]] \in Nat /\ uses[table[n]] \in Nat
    <3>1. Waiting(n)[p] \in Nat /\ Waiting(n)'[p] \in Nat
      BY <1>1, WaitingSum
    <3>2. table[n] \in Ips
      BY DEF RegistryTypeOK
    <3> QED
      BY <3>1, <3>2 DEF RegistryTypeOK
  <2> QED
    BY <1>3, <2>1
<1> QED
  BY <1>1, <1>2, <1>3, <1>4, AccountStep

\* What get_or_create counted is stored once, waits in the counters of one process, or was lost
\* with a process that ended without storing it, or with a flush that failed, whether the
\* process ended with it or lives on, as import_legacy does.
THEOREM HitsAreAccounted == Spec => []HitsAccounted
<1>1. Init => HitsInv
  BY DEF Init, RegistryInit, HitsInv, HitsAccounted, Known, Range
<1>2. IdsIInv /\ IdsIInv' /\ HitsInv /\ [Next]_vars => HitsInv'
  <2> SUFFICES ASSUME IdsIInv, IdsIInv', HitsInv, [Next]_vars
               PROVE  HitsInv'
    OBVIOUS
  <2>0. RegistryTypeOK /\ RegistryTypeOK' /\ RegistryInv
    BY DEF IdsIInv, TypeOK
  <2>1. CASE RegistryNext
    <3>0. Grows
      BY <2>0, <2>1, RegistryStep
    <3>1. CASE UNCHANGED <<table, hits, pending, uses, lost>>
      BY <3>1 DEF HitsInv, HitsAccounted, Waiting, Known, Range
    <3>2. ASSUME NEW p \in Processes, Open(p) \/ Close(p) \/ Kill(p)
          PROVE  HitsInv'
      <4>1. CASE Open(p)
        BY <3>1, <4>1 DEF Open
      <4>2. CASE Close(p)
        BY <2>0, <3>0, <4>2, EmptiedAccounted DEF Close, Closes, Gone
      <4>3. CASE Kill(p)
        BY <2>0, <3>0, <4>3, EmptiedAccounted DEF Kill, Gone
      <4> QED
        BY <3>2, <4>1, <4>2, <4>3
    <3>3. ASSUME NEW p \in Writers, NEW a \in Ips,
                 UseCached(p, a) \/ UseStored(p, a) \/ Miss(p, a)
          PROVE  HitsInv'
      <4>0. p \in Processes
        BY DEF Processes
      <4>1. CASE UseCached(p, a)
        <5>1. Holds(a, cache[p][a]) /\ cache[p][a] \in Nat \ {0}
          BY <2>0, <4>0, <4>1, TableIndices DEF RegistryTypeOK, RegistryInv, UseCached, Holds
        <5> QED
          BY <2>0, <3>0, <4>0, <4>1, <5>1, UseAccounted DEF UseCached
      <4>2. CASE UseStored(p, a)
        <5>1. Holds(a, IdOf(a)) /\ IdOf(a) \in Nat \ {0}
          BY <2>0, <4>2, IdOfFacts, TableIndices DEF RegistryTypeOK, RegistryInv, UseStored, Holds
        <5> QED
          BY <2>0, <3>0, <4>0, <4>2, <5>1, UseAccounted DEF UseStored
      <4>3. CASE Miss(p, a)
        BY <3>1, <4>3 DEF Miss
      <4> QED
        BY <3>3, <4>1, <4>2, <4>3
    <3>4. ASSUME NEW p \in Writers, Insert(p) \/ Refused(p) \/ FlushHits(p) \/ FlushFails(p)
          PROVE  HitsInv'
      <4>0. p \in Processes
        BY DEF Processes
      <4>1. CASE Insert(p)
        BY <2>0, <3>0, <4>0, <4>1, InsertAccounted
      <4>2. CASE Refused(p)
        <5>1. CASE p \in Importers /\ Closes(p)
          BY <2>0, <3>0, <4>0, <4>2, <5>1, EmptiedAccounted DEF Refused, Closes, Gone
        <5>2. CASE Lose(p) /\ Gone(p)
          BY <2>0, <3>0, <4>0, <4>2, <5>2, EmptiedAccounted DEF Refused, Gone
        <5>3. CASE UNCHANGED <<hits, open, cache, pending, lost>>
          BY <3>1, <4>2, <5>3 DEF Refused
        <5> QED
          BY <4>2, <5>1, <5>2, <5>3 DEF Refused
      <4>3. CASE FlushHits(p)
        BY <2>0, <3>0, <4>0, <4>3, EmptiedAccounted DEF FlushHits, Flush, CountsAfterFlush
      <4>4. CASE FlushFails(p)
        BY <2>0, <3>0, <4>0, <4>4, EmptiedAccounted DEF FlushFails, Flush, CountsAfterFlush, Gone
      <4> QED
        BY <3>4, <4>1, <4>2, <4>3, <4>4
    <3>5. ASSUME NEW w \in Webs, NEW a \in Ips, Lookup(w, a)
          PROVE  HitsInv'
      BY <3>1, <3>5 DEF Lookup, processVars
    <3> QED
      BY <2>1, <3>2, <3>3, <3>4, <3>5 DEF RegistryNext
  <2>2. CASE UNCHANGED registryVars
    BY <2>2 DEF registryVars, processVars, HitsInv, HitsAccounted, Waiting, Known, Range
  <2> QED
    BY <2>1, <2>2 DEF Next, vars
<1>3. HitsInv => HitsAccounted
  BY DEF HitsInv
<1> QED
  BY <1>1, <1>2, <1>3, IdsInvariantHolds, PTL DEF Spec
=============================================================================
