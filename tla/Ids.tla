-------------------------------- MODULE Ids --------------------------------
(***************************************************************************)
(* The two places from which _to_entry takes the ids of a row: the global  *)
(* registry of addresses, and a dictionary of the row's day, which lives   *)
(* in the processor and ends with it.                                      *)
(***************************************************************************)
EXTENDS IpRegistry, DictCache

vars == <<registryVars, dictVars>>

TypeOK == RegistryTypeOK /\ DictTypeOK

Init == RegistryInit /\ DictInit

ProcessorRuns == open \cap Processors # {}

DictEnds == IF dictOpen THEN DropDict ELSE UNCHANGED dictVars

Next ==
    \/ RegistryNext /\ (ProcessorRuns => ProcessorRuns') /\ UNCHANGED dictVars
    \/ RegistryNext /\ ProcessorRuns /\ ~ProcessorRuns' /\ DictEnds
    \/ ProcessorRuns /\ DictNext /\ UNCHANGED registryVars

Spec == Init /\ [][Next]_vars

-----------------------------------------------------------------------------
(* Properties *)

\* The inductive invariant: UNIQUE holds, caches and issued ids agree with the table; the ids
\* of a dictionary are consecutive, and what the open connection knows of it is all of it.
Holds(a, n) == n \in DOMAIN table /\ table[n] = a

RegistryInv ==
    /\ \A m, n \in DOMAIN table : table[m] = table[n] => m = n
    /\ \A p \in Processes : \A a \in DOMAIN cache[p] : Holds(a, cache[p][a])
    /\ \A pair \in issued : Holds(pair[1], pair[2])

DictInv ==
    /\ \A x, y \in DOMAIN stored : stored[x] = stored[y] => x = y
    /\ stored = None \/ \E n \in Range(stored) : Range(stored) = 1 .. n
    /\ dictOpen => byName = stored /\ Range(stored) = 1 .. nextId - 1

IdsIInv == TypeOK /\ RegistryInv /\ DictInv

IpPairs == {<<table[n], n>> : n \in DOMAIN table}
NamePairs == {<<x, stored[x]>> : x \in DOMAIN stored}

\* get_or_create and get_id_no_create keep the promise of IdMap: an ip_id returned to any
\* process, over evictions, preloads, races of two writers and restarts, stands for one
\* address for ever.
IpIds == INSTANCE IdMap WITH ids <- IpPairs, issued <- issued
IpIdsSpec == IpIds!Spec

\* DictCache.get_or_create keeps it for the names of a day, although ids are counted in
\* memory and each connection counts from the table anew.
NameIds == INSTANCE IdMap WITH ids <- NamePairs, issued <- told
NameIdsSpec == NameIds!Spec

\* The cache of every process, also the web application's, which loads it once and never
\* refreshes it, agrees with the table.
CacheAgrees ==
    \A p \in Processes : \A a \in DOMAIN cache[p] : table[cache[p][a]] = a

\* What __init__ read from the dictionary's table stays all that it holds, so that an INSERT
\* never repeats a name or an id.
NamesInsertable == dictOpen => \A x \in Names \ DOMAIN byName : Insertable(x)

Waiting(n) == [p \in Processes |-> IF n \in DOMAIN pending[p] THEN pending[p][n] ELSE 0]

\* flush_hits, eviction, close and the races lose no hit and count none twice: what
\* get_or_create counted is in total_hits, in the counters of some process, or went with a
\* process that ended without storing it or with a flush that failed.  The last may happen to
\* a process that lives on: import_legacy catches the exception, and what it counts for the
\* next files is accounted as before.
HitsAccounted ==
    \A n \in DOMAIN table :
        uses[table[n]] = hits[n] + SumFunction(Waiting(n)) + lost[table[n]]

\* A process never has more than max_pending_hits ids in its counters: no call begins while
\* they are at the limit.
PendingBounded == \A p \in Processes : Cardinality(DOMAIN pending[p]) <= MaxPending

\* The cache holds no more than ip_cache_max addresses, or than were preloaded; the
\* arithmetic of the eviction needs room for two.
CacheBounded ==
    MaxCache > 1 => \A p \in Processes : \/ Cardinality(DOMAIN cache[p]) <= MaxCache
                                         \/ Cardinality(DOMAIN cache[p]) <= HotTopN
=============================================================================
