----------------------------- MODULE ArrayColumns -----------------------------
(***************************************************************************)
(* Where a statement's array columns get their shapes from                 *)
(* (array_meta.go resolveArrayMeta and queryArrayMeta, array_sdl.go): two  *)
(* queries to the system tables, each for all columns at once.             *)
(*                                                                         *)
(* The system tables are the domain of each <<relation, field>>, the       *)
(* [blr, scale, bytes, chars] of each domain (chars is <<>> when it is     *)
(* NULL), and the rows [source, dim, low, up] of the dimensions.           *)
(***************************************************************************)
EXTENDS Integers, Sequences, FiniteSets, SequencesExt

CONSTANTS Upper,           \* strings.ToUpper on the names there are
          Domains,         \* RDB$FIELDS
          FieldDimensions  \* RDB$FIELD_DIMENSIONS

\* arrayTypeFromBlr: the type of an element by its BLR code, "" for none.
ArrayTypeFromBlr(blr) ==
  CASE blr \in {37, 38}         -> "VARYING"
    [] blr \in {14, 15, 40, 41} -> "TEXT"
    [] blr = 7  -> "SHORT"    [] blr = 8  -> "LONG"    [] blr = 9  -> "QUAD"
    [] blr = 16 -> "INT64"    [] blr = 27 -> "DOUBLE"  [] blr = 10 -> "FLOAT"
    [] blr = 11 -> "D_FLOAT"  [] blr = 12 -> "DATE"    [] blr = 13 -> "TIME"
    [] blr = 28 -> "TIME_TZ"  [] blr = 35 -> "TIMESTAMP"
    [] blr = 29 -> "TIMESTAMP_TZ"  [] blr = 23 -> "BOOLEAN"
    [] blr = 24 -> "DEC64"    [] blr = 25 -> "DEC128"  [] blr = 26 -> "INT128"
    [] OTHER -> ""

\* The column a described variable is, if it is an array and its names are known.
Key(x) == <<Upper[x.rel], Upper[x.field]>>
Named(x) == x.type = "ARRAY" /\ x.rel # "" /\ x.field # ""
Pairs(xsqlda) == {Key(x) : x \in {y \in ToSet(xsqlda) : Named(y)}}

\* The first query: every relation asked for with every field asked for.
FieldRows(pairs, columns) ==
  {k \in DOMAIN columns : /\ k[1] \in {p[1] : p \in pairs}
                          /\ k[2] \in {p[2] : p \in pairs}}

\* The second: the dimensions of the domains of the first, in order.
DimensionRows(keys, columns) ==
  {d \in FieldDimensions : d.source \in {columns[k] : k \in keys}}
Dimensions(source, rows) ==
  LET own   == {d \in rows : d.source = source}
      at(i) == CHOOSE d \in own : Cardinality({e \in own : e.dim < d.dim}) = i - 1 IN
  [i \in 1 .. Cardinality(own) |-> [low |-> at(i).low, len |-> at(i).up - at(i).low + 1]]

\* An ArrayMeta: the length of a text in characters, unless there is none.
MetaOf(domain, dims) ==
  [type |-> ArrayTypeFromBlr(domain.blr), scale |-> domain.scale, bytes |-> domain.bytes,
   length |-> IF domain.blr \in {14, 37} /\ domain.chars # <<>> /\ domain.chars[1] > 0
              THEN domain.chars[1] ELSE domain.bytes,
   dims |-> dims]

\* What each variable gets, <<>> for none; one row that cannot be read fails the
\* whole statement.
ResolveArrayMeta(xsqlda, columns) ==
  LET keys == FieldRows(Pairs(xsqlda), columns)
      rows == DimensionRows(keys, columns)
      bad  == \/ \E k \in keys : ArrayTypeFromBlr(Domains[columns[k]].blr) = ""
              \/ \E d \in rows : d.up < d.low
      of(x) == IF ~Named(x) \/ Key(x) \notin keys THEN <<>>
               ELSE LET source == columns[Key(x)] IN
                    <<MetaOf(Domains[source], Dimensions(source, rows))>> IN
  IF bad THEN [ok |-> FALSE, metas |-> <<>>]
  ELSE [ok |-> TRUE, metas |-> [i \in DOMAIN xsqlda |-> of(xsqlda[i])]]
=============================================================================
