------------------------------ MODULE DictCache ------------------------------
(***************************************************************************)
(* A small dictionary (interfaces, protocols, conn_states) in the DuckDB   *)
(* file of a day, and the DictCache in front of it.  Only the connection   *)
(* that writes the file has one, and it is made anew with each connection. *)
(***************************************************************************)
EXTENDS Integers, FiniteSets, Functions

CONSTANT Names

VARIABLES
    stored,     \* the table: from names to ids
    dictOpen,   \* the day's connection is open
    byName,     \* _by_name
    nextId,     \* _next_id
    told        \* history: pairs <<name, id>> returned

dictVars == <<stored, dictOpen, byName, nextId, told>>

None == [x \in {} |-> 0]
WithName(f, x, n) == [y \in DOMAIN f \cup {x} |-> IF y = x THEN n ELSE f[y]]

DictTypeOK ==
    /\ DOMAIN stored \subseteq Names /\ \A x \in DOMAIN stored : stored[x] \in Nat \ {0}
    /\ dictOpen \in BOOLEAN
    /\ DOMAIN byName \subseteq Names /\ \A x \in DOMAIN byName : byName[x] \in Nat \ {0}
    /\ nextId \in Nat \ {0}
    /\ told \subseteq Names \X (Nat \ {0})

DictInit ==
    /\ stored = None /\ dictOpen = FALSE /\ byName = None /\ nextId = 1 /\ told = {}

NextAfter(f) == IF f = None THEN 1
                ELSE 1 + CHOOSE m \in Range(f) : \A n \in Range(f) : n <= m

\* DictCache.__init__
LoadDict ==
    /\ ~dictOpen /\ dictOpen' = TRUE
    /\ byName' = stored
    /\ nextId' = NextAfter(stored)
    /\ UNCHANGED <<stored, told>>

\* Mutant: the cache learns the id after the counter has gone on.
LearnedLate(x) == WithName(byName, x, nextId + 1)

Learned(x) == WithName(byName, x, nextId)

KnownName(x) ==
    /\ dictOpen /\ x \in DOMAIN byName
    /\ told' = told \cup {<<x, byName[x]>>}
    /\ UNCHANGED <<stored, dictOpen, byName, nextId>>

\* id and name are unique: an INSERT that repeats one of them raises.
Insertable(x) == x \notin DOMAIN stored /\ nextId \notin Range(stored)

NewName(x) ==
    /\ dictOpen /\ x \notin DOMAIN byName
    /\ Insertable(x)
    /\ stored' = WithName(stored, x, nextId)
    /\ byName' = Learned(x)
    /\ nextId' = nextId + 1
    /\ told' = told \cup {<<x, nextId>>}
    /\ UNCHANGED dictOpen

\* close_day, or the end of the processor, also of one that is killed after an INSERT and
\* before the cache has learned the name
DropDict ==
    /\ dictOpen /\ dictOpen' = FALSE
    /\ byName' = None /\ nextId' = 1
    /\ \/ UNCHANGED stored
       \/ \E x \in Names \ DOMAIN byName :
             /\ Insertable(x)
             /\ stored' = WithName(stored, x, nextId)
    /\ UNCHANGED told

DictNext ==
    \/ LoadDict \/ DropDict
    \/ \E x \in Names : KnownName(x) \/ NewName(x)
=============================================================================
