------------------------------- MODULE MCCodecs -------------------------------
(* Inputs for TLC: small shapes, every type, the boundaries of each field.  *)
EXTENDS Codecs

\* Arrays.
Meta(type, length, bytes, dims) ==
  [type |-> type, length |-> length, bytes |-> bytes, scale |-> 0,
   dims |-> [i \in DOMAIN dims |-> [low |-> dims[i][1], len |-> dims[i][2]]]]
NumberTypes == {<<"SHORT", 2>>, <<"LONG", 4>>, <<"INT64", 8>>, <<"FLOAT", 4>>, <<"DOUBLE", 8>>, <<"DATE", 4>>,
                <<"TIME", 4>>, <<"TIMESTAMP", 8>>, <<"BOOLEAN", 1>>}
Case(meta, depth, value, answered) == [meta |-> meta, depth |-> depth, value |-> value, answered |-> answered]
Numbers1 == {[i \in 1 .. n |-> i] : n \in 0 .. 4}
Numbers2 == {<<<<1, 2, 3>>, <<4, 5, 6>>>>, <<<<1, 2, 3>>>>, <<<<1, 2, 3>>, <<4, 5>>>>, <<<<1>>, <<2, 3>>>>,
             <<<<1, 2>>, <<3, 4>>>>, <<<<1, 2, 3>>, <<4, 5, 6>>, <<7, 8, 9>>>>}
Numbers3 == {<<<<<<1, 2>>>>, <<<<3, 4>>>>>>, <<<<<<1, 2>>>>, <<<<3>>>>>>, <<<<<<1>>, <<2>>>>, <<<<3>>>>>>}
Texts1 == {<<>>, <<<<97>>>>, <<<<97, 98>>, <<>>>>, <<<<>>, <<97, 98, 99>>>>, <<<<97, 98, 99, 100, 101, 102>>>>,
           <<<<97>>, <<98>>, <<99>>>>, <<<<233>>, <<97, 233>>>>, <<<<233, 233, 97>>>>}
Lows == {-200, -1, 0, 1, 100, 126, 127, 200, 40000}
MCArrayCases ==
  {Case(Meta(t[1], t[2], t[2], <<<<low, 3>>>>), 1, v, n) :
     t \in NumberTypes, low \in Lows, v \in Numbers1, n \in {0, 2, 3}}
  \union {Case(Meta(t[1], t[2], t[2], <<<<low, 2>>, <<1, 3>>>>), 2, v, n) :
     t \in NumberTypes, low \in {-1, 1}, v \in Numbers2, n \in {0, 4, 6}}
  \union {Case(Meta("LONG", 4, 4, <<<<1, 2>>, <<1, 3>>>>), 1, [i \in 1 .. k |-> i], 6) : k \in {3, 6}}
  \union {Case(Meta("INT64", 8, 8, <<<<1, 2>>, <<5, 1>>, <<1, 2>>>>), 3, v, n) : v \in Numbers3, n \in {3, 4}}
  \union {Case(Meta(t[1], t[2], t[3], <<<<1, 2>>>>), 1, v, n) : v \in Texts1, n \in {0, 1, 2},
     t \in {<<"TEXT", 4, 4>>, <<"TEXT", 3, 3>>, <<"TEXT", 10, 10>>, <<"TEXT", 3, 12>>,
            <<"VARYING", 5, 5>>, <<"VARYING", 3, 12>>}}
  \union {Case([Meta(t[1], t[2], t[2], <<<<1, 2>>>>) EXCEPT !.scale = -2], 1, v, 2) :
     t \in {<<"SHORT", 2>>, <<"LONG", 4>>, <<"INT64", 8>>}, v \in {<<1, 8>>, <<9, 10>>, <<12, 13>>}}
Stored(meta, cells) == [meta |-> meta, cells |-> cells]
Cells(type, n) == [i \in 1 .. n |-> CASE type \in {"TIMESTAMP_TZ"} -> [k \in 1 .. 12 |-> i]
                                     [] type \in {"DEC128", "INT128"} -> [k \in 1 .. 16 |-> i]
                                     [] type \in {"SHORT", "LONG"} -> [k \in 1 .. 4 |-> i]
                                     [] type = "VARYING" -> [k \in 1 .. i |-> 96 + i]
                                     [] OTHER -> [k \in 1 .. 8 |-> i]]
MCStoredCases ==
  {Stored(Meta(t[1], t[2], t[3], <<<<1, 3>>>>), Cells(t[1], n)) : n \in 0 .. 4,
     t \in {<<"LONG", 4, 4>>, <<"INT64", 8, 8>>, <<"VARYING", 2, 2>>, <<"VARYING", 3, 3>>}}
  \union {Stored(Meta(t[1], t[2], t[2], <<<<1, 3>>>>), Cells(t[1], n)) : n \in 1 .. 3,
     t \in {<<"TIME_TZ", 8>>, <<"TIMESTAMP_TZ", 12>>, <<"DEC64", 8>>, <<"DEC128", 16>>, <<"INT128", 16>>}}

\* Messages and rows.
Param(kind, len, bind, yearZero) == [kind |-> kind, len |-> len, bind |-> bind, yearZero |-> yearZero]
Params == {Param(k, 0, "none", FALSE) : k \in {"nil", "nullArray", "int", "int32", "int64", "float64", "bool", "array"}}
  \union {Param("string", n, "none", FALSE) : n \in {0, 3, 300}} \union {Param("bytes", 40000, "none", FALSE)}
  \union {Param("time", 0, b, z) : b \in {"TIME", "DATE", "TIMESTAMP", "TIME_TZ", "TIMESTAMP_TZ", "none"}, z \in BOOLEAN}
Mixed(n, m) == [i \in 1 .. n |-> IF i % m = 0 THEN Param("nil", 0, "none", FALSE)
                                 ELSE Param("string", i % 4, "none", FALSE)]
MCParamCases == {[params |-> ps, version |-> v] : v \in {12, 13, 16},
                 ps \in {<<p>> : p \in Params} \union {<<p, q>> : p, q \in Params}
                        \union {Mixed(n, m) : n \in {8, 9, 33, 130}, m \in {2, 8, 9}}}
Column(type, len) == [type |-> type, len |-> len, scale |-> 0]
Columns == {Column(t, V!IoLength(Column(t, 0))) : t \in {"SHORT", "LONG", "INT64", "FLOAT", "DOUBLE", "DATE", "TIME",
                                                         "TIMESTAMP", "BOOLEAN", "BLOB"}}
  \union {Column("TEXT", 3), Column("TEXT", 260), Column("VARYING", 5)}
Lengths(x) == {-1} \union IF x.type \in {"VARYING", "TEXT"} THEN {0, 2, x.len, x.len + 1} ELSE {V!IoLength(x)}
MCBatchCases == UNION {{[columns |-> <<x, y>>, args |-> <<m, n>>] : m \in Lengths(x), n \in Lengths(y)} : x, y \in Columns}
RowColumns == Columns \union {Column(t, V!IoLength(Column(t, 0))) : t \in {"INT128", "DEC64", "DEC128", "TIME_TZ",
                                                                          "TIMESTAMP_TZ", "ARRAY"}}
RowLengths(x) == {-1} \union IF x.type = "VARYING" THEN {0, 2, 5} ELSE {V!IoLength(x)}
Wide(n, m) == [columns |-> [i \in 1 .. n |-> Column("VARYING", 5)],
               lens |-> [i \in 1 .. n |-> IF i % m = 0 THEN -1 ELSE i % 5]]
MCRowCases ==
  UNION {{[columns |-> <<x, y>>, lens |-> <<m, n>>, version |-> v] :
            m \in RowLengths(x), n \in RowLengths(y), v \in {12, 13}} : x, y \in RowColumns}
  \union {[columns |-> w.columns, lens |-> w.lens, version |-> v] :
            w \in {Wide(n, m) : n \in {8, 9, 33, 130}, m \in {2, 9}}, v \in {12, 13}}

\* Times and decimals.
MCTimeZones == {[winter |-> w[1], summer |-> w[2]] :
                w \in {<<0, 0>>, <<3600, 7200>>, <<-18000, -14400>>, <<20700, 20700>>, <<46800, 43200>>}}
MCExponents == {-9, -4, 0, 3}
MCDays == 1 .. 31

\* What the managers are asked.
Db == <<100>>
LongDb == [i \in 1 .. 300 |-> 100]
Each(names, f) == [i \in DOMAIN names |-> <<names[i], f[names[i]]>>]
AllOf(names) == {Each(names, f) : f \in [ToSet(names) -> BOOLEAN]}
BackupOpts == AllOf(<<"IgnoreChecksums", "IgnoreLimboTransactions", "MetadataOnly", "GarbageCollect",
                      "Transportable", "Convert", "Zip">>)
  \union {<<>>, <<<<"Zip", TRUE>>, <<"ParallelWorkers", 4>>, <<"Zip", FALSE>>>>, <<<<"ParallelWorkers", 4>>, <<"ParallelWorkers", 0>>>>}
RestoreOpts == AllOf(<<"Replace", "DeactivateIndexes", "RestoreShadows", "EnforceConstraints",
                       "CommitAfterEachTable", "UseAllPageSpace">>)
  \union {<<<<"PageSize", p>>, <<"CacheBuffers", b>>, <<"Replace", TRUE>>>> : p \in {0, 8192}, b \in {0, 70000}}
NBackupOpts == {s \o g \o l : s \in AllOf(<<"NoDBTriggers", "InPlaceRestore", "PreserveSequence">>),
                              g \in {<<>>, <<<<"Guid", <<103, 104>>>>>>}, l \in {<<>>, <<<<"Level", 2>>>>}}
User(name, p, f, id, admin) == [Username |-> <<name>>, Password |-> p, FirstName |-> f, MiddleName |-> <<>>,
                                LastName |-> f, UserId |-> id, GroupId |-> -1, Admin |-> admin]
Users == {User(n, p, f, id, a) : n \in {<<117>>, LongDb}, p \in {<<>>, <<<<112, 119>>>>}, f \in {<<>>, <<<<7>>>>},
                                 id \in {-1, 7}, a \in {<<>>, <<TRUE>>, <<FALSE>>}}
Properties == DOMAIN P!ByteProperties \union DOMAIN P!IntProperties \union DOMAIN P!OptionProperties
Ids == {<<5, 0, 0, 0>>, <<0, 32767, 0, 0>>, <<0, 0, 1, 0>>, <<65535, 65535, 65535, 32767>>}
MCOrders ==
  {[op |-> "backup", db |-> d, file |-> f, opts |-> o, verbose |-> v] :
     d \in {Db, LongDb}, f \in {<<102>>, <<>>}, o \in BackupOpts, v \in BOOLEAN}
  \union {[op |-> "restore", db |-> Db, file |-> <<102>>, opts |-> o, verbose |-> v] : o \in RestoreOpts, v \in BOOLEAN}
  \union {[op |-> "nbackup", db |-> Db, file |-> <<102>>, opts |-> o] : o \in NBackupOpts}
  \union {[op |-> "nrestore", db |-> Db, files |-> f, opts |-> o] : f \in {<<<<102>>>>, <<<<102>>, <<6, 8>>>>}, o \in NBackupOpts}
  \union {[op |-> "nfixup", db |-> Db, opts |-> o] : o \in NBackupOpts}
  \union {[op |-> "stats", db |-> Db, opts |-> o, tables |-> t] : t \in {<<>>, <<<<65>>, <<66>>>>},
          o \in AllOf(<<"UserDataPages", "UserIndexPages", "OnlyHeaderPages", "SystemRelationsAndIndexes", "RecordVersions">>)}
  \union {[op |-> "user", action |-> a, user |-> u, db |-> d] : a \in {4, 6}, u \in Users, d \in {<<>>, Db}}
  \union {[op |-> "delete", user |-> u, db |-> d] : u \in Users, d \in {<<>>, Db}}
  \union {[op |-> "mapping", set |-> s, db |-> d] : s \in BOOLEAN, d \in {<<>>, Db}}
  \union {[op |-> "property", name |-> p, db |-> Db, arg |-> n] : p \in Properties, n \in {0, 3, 70000}}
  \union {[op |-> "property", name |-> p, db |-> Db, arg |-> n] : p \in DOMAIN P!ModeProperties, n \in 0 .. 3}
  \union {[op |-> "shutdown", db |-> Db, mode |-> m, how |-> h, arg |-> 70000] : m \in 0 .. 3, h \in {41, 42, 43}}
  \union {[op |-> "repair", name |-> r, db |-> Db] : r \in DOMAIN P!Repairs}
  \union {[op |-> "end", commit |-> c, db |-> Db, id |-> i] : c \in BOOLEAN, i \in Ids}

\* Streams, and where they are cut.
Cuts == {{}} \union {{k} : k \in 1 .. 30} \union {{4, 9}, {1, 2, 3}, {5, 6, 13}}
SomeUsers == {User(<<117>>, <<>>, <<>>, -1, <<>>), User(<<7, 8>>, <<>>, <<<<10, 7>>>>, 7, <<TRUE>>),
              User(<<>>, <<>>, <<<<>>>>, 0, <<FALSE>>)}
UpTo2(S) == {<<>>} \union {<<x>> : x \in S} \union {<<x, y>> : x, y \in S}
MCStreams == {[kind |-> "users", records |-> r, cuts |-> c] : r \in UpTo2(SomeUsers), c \in Cuts}
  \union {[kind |-> "limbo", records |-> r, cuts |-> c] : r \in UpTo2(Ids \ {<<65535, 65535, 65535, 32767>>}), c \in Cuts}
  \union {[kind |-> "dbs", records |-> r, cuts |-> {}] : r \in UpTo2({<<>>, <<100>>, <<127, 5>>})}

\* Status vectors.
Word(w) == [at |-> 0, word |-> w]
Place(n) == [at |-> n, word |-> ""]
MCTables ==
  [msg   |-> 335544321 :> <<Word("arithmetic exception")>>
             @@ 335544323 :> <<Word("file"), Place(1), Word("is not a valid database")>>
             @@ 335544436 :> <<Word("SQL error code ="), Place(1)>>
             @@ 335544665 :> <<Word("violation of constraint"), Place(1), Word("on table"), Place(2)>>,
   state |-> 335544321 :> "22000" @@ 335544436 :> "00000" @@ 335544665 :> "23000",
   code  |-> 335544321 :> -802 @@ 335544665 :> -803]
Str(w) == [arg |-> "string", num |-> 0, text |-> <<Word(w)>>]
Num(n, w) == [arg |-> "number", num |-> n, text |-> <<Word(w)>>]
Errors == {[code |-> 335544321, params |-> <<>>], [code |-> 335544323, params |-> <<Str("x.fdb")>>],
           [code |-> 335544436, params |-> <<Num(-803, "-803")>>],
           [code |-> 335544665, params |-> <<Str("PK"), Str("T")>>], [code |-> 1, params |-> <<Num(5, "5")>>]}
Warnings == {<<>>, <<[code |-> 335544323, params |-> <<Str("w.fdb")>>]>>,
             <<[code |-> 335544436, params |-> <<Num(100, "100")>>]>>}
MCStatusCases == {[errors |-> e, warnings |-> w, state |-> s] : w \in Warnings, s \in {"", "23000"},
                  e \in UpTo2(Errors) \union {<<x, y, z>> : x, y, z \in Errors}}

\* Descriptions: names of so many bytes.
Described(type, n, scale) == [x \in DOMAIN R!NoColumn |->
  CASE x = "type" -> type [] x = "scale" -> scale [] x = "null_ind" -> type % 2
    [] x \in {"sub_type", "length"} -> 4 [] OTHER -> n]
SomeColumns == {Described(497, 0, 0), Described(496, 90, 0), Described(452, 160, 0), Described(580, 230, -2)}
MCColumnCases == UNION {[1 .. k -> SomeColumns] : k \in 0 .. 4} \union {[i \in 1 .. 60 |-> Described(496, i % 7, i)]}

\* The system tables: any domain for any field of three relations, one of which has
\* the name of another in lower case.  The statement has two columns.
Domain(blr, bytes, chars, elem, axes) ==
  [blr |-> blr, scale |-> 0, bytes |-> bytes, chars |-> chars, elem |-> elem,
   axes |-> [i \in DOMAIN axes |-> [low |-> axes[i][1], len |-> axes[i][2]]]]
MCCatalogDomains ==
  "LONGS"  :> Domain(8, 4, <<>>, 4, <<<<1, 3>>, <<-1, 2>>, <<0, 4>>>>)
  @@ "CHARS" :> Domain(14, 12, <<3>>, 3, <<<<0, 2>>>>)
  @@ "STRINGS" :> Domain(37, 20, <<5>>, 5, <<<<1, 4>>, <<1, 2>>>>)
  @@ "NUMBER" :> Domain(16, 8, <<>>, 8, <<>>)
  @@ "BLOB" :> Domain(261, 8, <<>>, 8, <<>>)
Fields == {<<"T", "A">>, <<"T", "B">>, <<"U", "A">>, <<"U", "B">>, <<"t", "A">>}
MCCatalogs == [Fields \ {<<"t", "A">>} -> {"LONGS", "CHARS", "NUMBER"}]
              \union [Fields \ {<<"t", "A">>} -> {"LONGS", "CHARS", "BLOB"}]
              \union [Fields \ {<<"U", "B">>} -> {"LONGS", "STRINGS", "NUMBER"}]
MCUpperNames == [n \in {"", "T", "U", "A", "B", "t"} |-> IF n = "t" THEN "T" ELSE n]

\* Names.
Abs == {<<"/", "a", "/", "b">>, <<"/", "a", "/", "b", "/", "b">>}
Rel == {<<"a">>, <<"a", "b">>, <<"C", ":", "/", "a">>, <<"C", ":", "/", "a", "/", "b">>, <<"C", ":", "\\", "a">>}
Queries == {<<>>, "blob_cache_size" :> <<"1">>, "max_blob_cache_size" :> <<"2">>,
            "blob_cache_size" :> <<"1">> @@ "max_blob_cache_size" :> <<"2">>, "role" :> <<"r", "s">>,
            "auth_plugin_name" :> <<"Srp">> @@ "auth_plugin_list" :> <<<<"Srp">>>>,
            "auth_plugin_list" :> <<<<"Srp">>>>, "wire_crypt" :> <<"on">>}
MCDsns == {[target |-> t, via |-> "absolute", query |-> q] : t \in Abs, q \in Queries}
  \union {[target |-> t, via |-> "relative", query |-> q] : t \in Rel, q \in Queries}
MCZoneIds == "UTC" :> 64909 @@ "GMT" :> 65535 @@ "ACT" :> 65534
MCEncodings == "WIN1250" :> ("a" :> "x" @@ "b" :> "y") @@ "KOI8R" :> ("a" :> "b" @@ "b" :> "a")
MCVersions == {<<2, 5, 9>>, <<3, 0, 0>>, <<3, 0, 10>>, <<3, 1, 0>>, <<4, 0, 2>>, <<5, 0, 1>>}
=============================================================================
