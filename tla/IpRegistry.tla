----------------------------- MODULE IpRegistry -----------------------------
(***************************************************************************)
(* The registry of addresses: one SQLite table in WAL mode, and in front   *)
(* of it an IpRegistry object in each process that has it open, with a     *)
(* cache and counters of its own.  The class assumes one writer, the       *)
(* processor, but every worker of import_raw writes too, and so does       *)
(* import_legacy; the web application only reads.                          *)
(*                                                                         *)
(* An ip_id is the number of a row in order of insertion (AUTOINCREMENT,   *)
(* nothing is deleted), so the table is a sequence.  A SELECT and the      *)
(* INSERT after it are two statements, and other processes come between;   *)
(* so is the flush that ends a call when the counters are at their limit.  *)
(* SQLite may refuse an INSERT and a flush.  That exception ends the       *)
(* processor and the worker of import_raw, but import_legacy reports the   *)
(* file as failed and goes on to the next with the same registry object.   *)
(* Which entries an eviction keeps is left open: no property depends on    *)
(* their order.  is_hot is never set, as nothing calls mark_hot.           *)
(***************************************************************************)
EXTENDS Integers, Sequences, FiniteSets, Functions

CONSTANTS
    Ips,            \* addresses
    NoIp,
    Processors,     \* processes that end by an exception they do not catch
    Importers,      \* processes that close the registry in a finally clause
    LegacyImporters, \* processes that catch the exception and keep the registry
    Webs,           \* processes that open it read-only
    HotTopN,        \* ip_cache_hot_top_n
    MaxCache,       \* ip_cache_max
    MaxPending,     \* max_pending_hits
    MaxUses,        \* bound: calls of get_or_create in a behaviour
    MaxLives        \* bound: lives of writing processes

ASSUME RegistryAssumption ==
    /\ NoIp \notin Ips
    /\ Processors \cap Importers = {} /\ Webs \cap (Processors \cup Importers) = {}
    /\ LegacyImporters \cap (Processors \cup Importers \cup Webs) = {}
    /\ HotTopN \in Nat /\ MaxCache \in Nat
    /\ MaxPending \in Nat \ {0}
    /\ MaxUses \in Nat /\ MaxLives \in Nat
    /\ IsFiniteSet(Processors \cup Importers \cup LegacyImporters \cup Webs)

Writers == Processors \cup Importers \cup LegacyImporters
Processes == Writers \cup Webs

VARIABLES
    table,      \* table[n]: the address whose ip_id is n
    hits,       \* hits[n]: its total_hits
    open,       \* processes that have the registry open
    cache,      \* _cache of each: from addresses to ids
    pending,    \* _pending_hits of each: from ids to counts
    missed,     \* the address that a process is about to insert, or NoIp
    calls,      \* number of calls of get_or_create so far
    lives,      \* number of lives of writers so far
    \* history, for the properties
    issued,     \* pairs <<address, id>> that calls came to
    uses,       \* uses[a]: calls that counted a
    lost        \* lost[a]: those whose count went with a process or a failed flush

processVars == <<open, cache, pending, missed, lives>>
registryVars == <<table, hits, processVars, calls, issued, uses, lost>>

Empty == [x \in {} |-> 0]
Put(f, x, y) == [z \in DOMAIN f \cup {x} |-> IF z = x THEN y ELSE f[z]]

Known == Range(table)
IdOf(a) == CHOOSE n \in DOMAIN table : table[n] = a

RegistryTypeOK ==
    /\ table \in Seq(Ips)
    /\ hits \in [DOMAIN table -> Nat]
    /\ open \subseteq Processes
    /\ DOMAIN cache = Processes /\ DOMAIN pending = Processes
    /\ \A p \in Processes :
          /\ DOMAIN cache[p] \subseteq Ips
          /\ \A a \in DOMAIN cache[p] : cache[p][a] \in DOMAIN table
          /\ DOMAIN pending[p] \subseteq DOMAIN table
          /\ \A n \in DOMAIN pending[p] : pending[p][n] \in Nat \ {0}
    /\ missed \in [Processes -> Ips \cup {NoIp}]
    /\ calls \in Nat /\ lives \in Nat
    /\ issued \subseteq Ips \X Nat
    /\ uses \in [Ips -> Nat] /\ lost \in [Ips -> Nat]

RegistryInit ==
    /\ table = <<>> /\ hits = <<>>
    /\ open = {}
    /\ cache = [p \in Processes |-> Empty] /\ pending = [p \in Processes |-> Empty]
    /\ missed = [p \in Processes |-> NoIp]
    /\ calls = 0 /\ lives = 0
    /\ issued = {} /\ uses = [a \in Ips |-> 0] /\ lost = [a \in Ips |-> 0]

-----------------------------------------------------------------------------
(* Opening: the addresses with most hits are loaded *)

HotSets ==
    LET hot == {n \in DOMAIN table : hits[n] > 0} IN
    {top \in SUBSET hot :
        /\ Cardinality(top) = IF Cardinality(hot) < HotTopN THEN Cardinality(hot) ELSE HotTopN
        /\ \A m \in top : \A n \in hot \ top : hits[m] >= hits[n]}

Preloaded(top) == [a \in {table[n] : n \in top} |-> IdOf(a)]

Open(p) ==
    /\ p \notin open
    /\ p \in Writers => lives < MaxLives
    /\ open' = open \cup {p}
    /\ \E top \in HotSets : cache' = [cache EXCEPT ![p] = Preloaded(top)]
    /\ lives' = IF p \in Writers THEN lives + 1 ELSE lives
    /\ UNCHANGED <<table, hits, pending, missed, calls, issued, uses, lost>>

-----------------------------------------------------------------------------
(* Counting *)

Counted(p, n) ==
    Put(pending[p], n, IF n \in DOMAIN pending[p] THEN pending[p][n] + 1 ELSE 1)

PendingFull(counts) == Cardinality(DOMAIN counts) >= MaxPending

\* UPDATE ... SET total_hits = total_hits + ?
Added(h, counts) == [n \in DOMAIN h |-> IF n \in DOMAIN counts THEN h[n] + counts[n] ELSE h[n]]

\* Mutant: the counts that were stored are counted on.
KeptCounts(counts) == counts

CountsAfterFlush(counts) == Empty

\* The call of p comes to id n of address a, and counts it.  It returns at once, unless the
\* counters are now at their limit: then p stores them first.
Return(p, a, n) ==
    /\ issued' = issued \cup {<<a, n>>}
    /\ uses' = [uses EXCEPT ![a] = @ + 1]
    /\ pending' = [pending EXCEPT ![p] = Counted(p, n)]

-----------------------------------------------------------------------------
(* get_or_create *)

Idle(p) == missed[p] = NoIp /\ ~PendingFull(pending[p])

Call(p) ==
    /\ p \in open \cap Writers /\ Idle(p)
    /\ calls < MaxUses /\ calls' = calls + 1

UseCached(p, a) ==
    /\ Call(p)
    /\ a \in DOMAIN cache[p]
    /\ Return(p, a, cache[p][a])
    /\ UNCHANGED <<table, hits, open, cache, missed, lives, lost>>

\* int(max_cache * 0.8), and then the slice [-cutoff:], which is everything when it is 0
Cutoff == (4 * MaxCache) \div 5

CacheFull(c) == Cardinality(DOMAIN c) >= MaxCache

Survivors(c) ==
    IF CacheFull(c) /\ Cutoff > 0
    THEN {Restrict(c, S) : S \in {T \in SUBSET DOMAIN c : Cardinality(T) = Cutoff}}
    ELSE {c}

Remember(p, a, n) == \E c \in Survivors(cache[p]) : cache' = [cache EXCEPT ![p] = Put(c, a, n)]

\* SELECT finds the address.
UseStored(p, a) ==
    /\ Call(p)
    /\ a \notin DOMAIN cache[p]
    /\ a \in Known
    /\ Remember(p, a, IdOf(a))
    /\ Return(p, a, IdOf(a))
    /\ UNCHANGED <<table, hits, open, missed, lives, lost>>

\* SELECT finds nothing.
Miss(p, a) ==
    /\ Call(p)
    /\ a \notin DOMAIN cache[p]
    /\ a \notin Known
    /\ missed' = [missed EXCEPT ![p] = a]
    /\ UNCHANGED <<table, hits, open, cache, pending, lives, issued, uses, lost>>

\* Mutant: lastrowid is taken before the row is there.
LastRowBefore == Len(table)

LastRow == Len(table) + 1

\* INSERT, with total_hits 0
Insert(p) ==
    LET a == missed[p] IN
    /\ a # NoIp /\ a \notin Known
    /\ table' = Append(table, a) /\ hits' = Append(hits, 0)
    /\ missed' = [missed EXCEPT ![p] = NoIp]
    /\ Remember(p, a, LastRow)
    /\ Return(p, a, LastRow)
    /\ UNCHANGED <<open, calls, lives, lost>>

-----------------------------------------------------------------------------
(* Storing the counters, and the end of a process *)

\* At the end of a call that reached the limit; every minute, if the processor has inserted
\* rows; in the import tools, after the last address of a file.
Flush(p) ==
    /\ p \in open \cap Writers /\ missed[p] = NoIp
    /\ pending[p] # Empty
    /\ UNCHANGED <<table, calls, lives, issued, uses>>

FlushHits(p) ==
    /\ Flush(p)
    /\ hits' = Added(hits, pending[p])
    /\ pending' = [pending EXCEPT ![p] = CountsAfterFlush(@)]
    /\ UNCHANGED <<open, cache, missed, lost>>

Gone(p) ==
    /\ open' = open \ {p}
    /\ cache' = [cache EXCEPT ![p] = Empty]
    /\ pending' = [pending EXCEPT ![p] = Empty]
    /\ missed' = [missed EXCEPT ![p] = NoIp]

\* The counts that p holds are stored nowhere.
Lose(p) ==
    /\ lost' = [a \in Ips |-> lost[a] + IF a \in Known /\ IdOf(a) \in DOMAIN pending[p]
                                        THEN pending[p][IdOf(a)] ELSE 0]
    /\ UNCHANGED hits

\* The counters are taken away before the transaction, and a roll-back does not bring them
\* back.  A worker's finally clause then finds nothing to store.
FlushFails(p) ==
    /\ Flush(p)
    /\ Lose(p)
    /\ \/ /\ p \in LegacyImporters
          /\ pending' = [pending EXCEPT ![p] = CountsAfterFlush(@)]
          /\ UNCHANGED <<open, cache, missed>>
       \/ p \notin LegacyImporters /\ Gone(p)

\* close() stores the counters, or goes with them if that fails; a reader has none.
Closes(p) ==
    /\ Gone(p)
    /\ \/ hits' = Added(hits, pending[p]) /\ UNCHANGED lost
       \/ Lose(p)

Close(p) ==
    /\ p \in open /\ Idle(p)
    /\ Closes(p)
    /\ UNCHANGED <<table, calls, lives, issued, uses>>

Kill(p) ==
    /\ p \in open
    /\ Lose(p)
    /\ Gone(p)
    /\ UNCHANGED <<table, calls, lives, issued, uses>>

\* INSERT raises: another process has inserted the address since the SELECT, and UNIQUE fails,
\* or the database stays locked.  An importer closes the registry and its worker's exception
\* ends the import; the processor just ends; import_legacy keeps its cache and its counters.
Refused(p) ==
    /\ missed[p] # NoIp
    /\ \/ p \in Importers /\ Closes(p)
       \/ p \in Processors /\ Lose(p) /\ Gone(p)
       \/ /\ p \in LegacyImporters
          /\ missed' = [missed EXCEPT ![p] = NoIp]
          /\ UNCHANGED <<hits, open, cache, pending, lost>>
    /\ UNCHANGED <<table, calls, lives, issued, uses>>

-----------------------------------------------------------------------------
(* get_id_no_create *)

Lookup(w, a) ==
    /\ w \in open \cap Webs
    /\ issued' = issued \cup IF a \in DOMAIN cache[w] THEN {<<a, cache[w][a]>>}
                             ELSE {<<b, IdOf(b)>> : b \in {a} \cap Known}
    /\ UNCHANGED <<table, hits, processVars, calls, uses, lost>>

-----------------------------------------------------------------------------

RegistryNext ==
    \/ \E p \in Processes : Open(p) \/ Close(p) \/ Kill(p)
    \/ \E p \in Writers, a \in Ips : UseCached(p, a) \/ UseStored(p, a) \/ Miss(p, a)
    \/ \E p \in Writers : Insert(p) \/ Refused(p) \/ FlushHits(p) \/ FlushFails(p)
    \/ \E w \in Webs, a \in Ips : Lookup(w, a)
=============================================================================
