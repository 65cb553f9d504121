----------------------------- MODULE LegacyRows -----------------------------
(***************************************************************************)
(* What import_legacy makes of the rows of an old database: detect_schema, *)
(* the four importers, and the map from old to new address ids.            *)
(*                                                                         *)
(* A row has the values of its three address columns.  In schema v2 they   *)
(* are ids of ip_addresses, in B and C the addresses as integers, in A the *)
(* addresses as text, which stand here for the integer they spell.  An     *)
(* address has Bits bits; SQLite's integers are signed, and a program that *)
(* wrote an address as a signed one left a negative value.                 *)
(***************************************************************************)
EXTENDS Integers, SequencesExt

CONSTANTS
    Bits,       \* bits of an address
    Null

ASSUME LegacyRowsAssumption == Bits \in Nat \ {0} /\ Null \notin Int

Addresses == 0 .. 2 ^ Bits - 1

\* ip & 0xFFFFFFFF
Unsigned(v) == v % 2 ^ Bits

\* detect_schema
Schema(tables) ==
    IF "ip_addresses" \in tables THEN "v2"
    ELSE IF tables \cap {"d_interfaces", "d_protocols"} # {} THEN "B"
    ELSE IF {"db_meta", "interfaces", "protocols", "conn_states"} \subseteq tables THEN "C"
    ELSE "A"

-----------------------------------------------------------------------------
(* Old databases *)

Columns == {"src", "dst", "nat"}

\* The values of an address column: ids in v2, text in A, and in B and C integers, which
\* SQLite may have made negative.
OldValues(schema) ==
    IF schema = "v2" THEN Int ELSE IF schema = "A" THEN Addresses ELSE {v \in Int : v < 2 ^ Bits}

IsDatabase(db) ==
    /\ db.ips \in Seq(Int)
    /\ db.rows \in Seq([Columns -> OldValues(Schema(db.tables)) \cup {Null}])

\* A registry gives each address one id.
IsRegistry(known) == known \in Seq(Int) /\ IsInjective(known)

-----------------------------------------------------------------------------
(* Addresses and ids *)

\* get_or_create for a set of addresses, in any order: known is the registry, a sequence
\* whose places are the ids.
Enrolled(known, addresses) == known \o SetToSeq(addresses \ Range(known))

IdOf(registry, a) == CHOOSE i \in DOMAIN registry : registry[i] = a

Values(rows) == {rows[i][c] : i \in DOMAIN rows, c \in Columns} \ {Null}

\* The addresses that an importer registers.
AddressesOf(schema, db) ==
    CASE schema = "v2" -> {Unsigned(db.ips[i]) : i \in DOMAIN db.ips}
      [] schema = "B" -> {Unsigned(v) : v \in Values(db.rows)}
      [] schema = "C" -> {Unsigned(v) : v \in Values(db.rows) \ {0}}
      [] schema = "A" -> (Values(db.rows) \ {0})
                         \cup {0 : i \in {j \in DOMAIN db.rows : db.rows[j].src \in {0, Null}
                                                              \/ db.rows[j].dst \in {0, Null}}}

\* Mutant: the ids of an old database are taken as they come out of its table.
MapInPlace(schema, db, registry) ==
    IF schema = "v2" THEN [i \in DOMAIN db.ips |-> i]
    ELSE [a \in AddressesOf(schema, db) |-> IdOf(registry, a)]

\* ip_map: from what the rows should hold to the id in the registry.
IpMap(schema, db, registry) ==
    IF schema = "v2" THEN [i \in DOMAIN db.ips |-> IdOf(registry, Unsigned(db.ips[i]))]
    ELSE [a \in AddressesOf(schema, db) |-> IdOf(registry, a)]

\* LEFT JOIN ip_map, then COALESCE(..., 0) for the two columns that have no NULL.
Joined(map, v) == IF v \in DOMAIN map THEN map[v] ELSE Null
OrZero(v) == IF v = Null THEN 0 ELSE v

JoinedRow(map, row) ==
    [src |-> OrZero(Joined(map, row.src)), dst |-> OrZero(Joined(map, row.dst)),
     nat |-> Joined(map, row.nat)]

\* Schema A: no address is address 0, and a NAT address of 0 is none.
TextRow(registry, row) ==
    [src |-> IdOf(registry, OrZero(row.src)), dst |-> IdOf(registry, OrZero(row.dst)),
     nat |-> IF row.nat \in {0, Null} THEN Null ELSE IdOf(registry, row.nat)]

\* _import_v2, _import_b, _import_c, _import_a: the registry and the rows of the Parquet file.
Imported(known, db) ==
    LET schema == Schema(db.tables)
        registry == Enrolled(known, AddressesOf(schema, db))
        map == IpMap(schema, db, registry)
    IN  [ registry |-> registry,
          rows |-> [i \in DOMAIN db.rows |->
                       IF schema = "A" THEN TextRow(registry, db.rows[i])
                       ELSE JoinedRow(map, db.rows[i])] ]

-----------------------------------------------------------------------------

\* The address that a value of an old database stands for, and that of an imported id.
OldAddress(db, v) ==
    IF Schema(db.tables) # "v2" THEN IF v = Null THEN Null ELSE Unsigned(v)
    ELSE IF v \in DOMAIN db.ips THEN Unsigned(db.ips[v]) ELSE Null

NewAddress(registry, id) == IF id \in DOMAIN registry THEN registry[id] ELSE Null

\* The values that the importer of their schema loses: negative ones in B and C, which the
\* map holds as unsigned, 0 in C, which stands for none, and a NAT address of 0 in A.
\* A row of A without a source or destination gets address 0.
Lost(db, c, v) ==
    \/ Schema(db.tables) \in {"B", "C"} /\ v # Null /\ v < 0
    \/ Schema(db.tables) = "C" /\ v = 0
    \/ Schema(db.tables) = "A" /\ v = 0 /\ c = "nat"

\* import_legacy maps local ids and addresses to the ids of the registry that all days
\* share: every row comes through with its addresses, whatever ids they had, and the
\* ids that were given before keep their addresses.
AddressesKept(known, db, new) ==
    /\ \A i \in DOMAIN known : new.registry[i] = known[i]
    /\ \A i, j \in DOMAIN new.registry : new.registry[i] = new.registry[j] => i = j
    /\ \A i \in DOMAIN db.rows, c \in Columns :
          LET v == db.rows[i][c] IN
          ~Lost(db, c, v) /\ (v # Null \/ Schema(db.tables) # "A") =>
             NewAddress(new.registry, new.rows[i][c]) = OldAddress(db, v)
=============================================================================
