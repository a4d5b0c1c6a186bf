-------------------------------- MODULE Codecs --------------------------------
(***************************************************************************)
(* The driver's conversions put to work one at a time: each action picks   *)
(* an input, takes it through the driver's operators and through those of  *)
(* the server or of the server's other end, and keeps both ends in done.   *)
(* The properties say that what one end meant is what the other got.       *)
(***************************************************************************)
EXTENDS Integers, Sequences, FiniteSets, SequencesExt

CONSTANTS
  ArrayCases,    \* [meta, depth, value, answered]: an argument for a column, and
                 \* how many elements the server answers a later request with
  StoredCases,   \* [meta, cells]: what another program stored in a column, in bytes
  ParamCases,    \* [params, version]
  BatchCases,    \* [columns, args]
  RowCases,      \* [columns, lens, version]
  Years, Days,   \* the days of each month of each year that are converted
  Seconds,       \* seconds of a day
  TimeZones,     \* [winter, summer]: offsets of a zone, in seconds
  Todays,        \* the months in which a TIME WITH TIME ZONE is sent
  Exponents,     \* of decimals, unbiased
  Orders,        \* what the managers are asked: [op, ...]
  Streams,       \* [kind, records, cuts]: a server's stream, cut into chunks
  StatusCases,   \* [errors, warnings, state]
  Tables,        \* [msg, state, code]: errmsgs, gdsToSQLState, gdsToSQLCode
  ColumnCases,   \* statements, each a sequence of described columns
  Catalogs,      \* databases: the domain of each <<relation, field>>
  CatalogDomains,   \* the domains, each with its elements' length and its axes
  UpperNames,    \* strings.ToUpper on the database's names
  BufferLength,  \* bytes of the answer to an information request
  Dsns,          \* [target, via, query]: a database and how it is written in a URL
  ZoneIds, Encodings,
  Versions       \* versions of a server: <<major, minor, patch>>

VARIABLE done

A == INSTANCE ArraySlices
M == INSTANCE ArrayColumns WITH Upper <- UpperNames, Domains <- CatalogDomains,
       FieldDimensions <- UNION {{[source |-> n, dim |-> i - 1, low |-> CatalogDomains[n].axes[i].low,
                                   up |-> CatalogDomains[n].axes[i].low + CatalogDomains[n].axes[i].len - 1] :
                                    i \in DOMAIN CatalogDomains[n].axes} : n \in DOMAIN CatalogDomains}
V == INSTANCE WireValues
P == INSTANCE ServiceParams
R == INSTANCE StatementReplies WITH errmsgs <- Tables.msg, gdsToSQLState <- Tables.state,
                                    gdsToSQLCode <- Tables.code, HeaderBytes <- 8
N == INSTANCE Names WITH Zones <- ZoneIds

Idle == [codec |-> "idle"]
Init == done = Idle
Run(codec, in, out) == done = Idle /\ done' = [codec |-> codec, in |-> in, out |-> out]
Rest == done # Idle /\ done' = Idle

-----------------------------------------------------------------------------
(* One action for each conversion.                                         *)

\* Bind an array, let the server store it, and read it back.
SliceTrip(meta, cells, n) ==
  LET slice  == A!Slice(meta, cells, n)
      answer == A!SliceResponse(meta, slice.length, slice.wire)
      back   == A!DecodeSliceElements(meta, answer.data) IN
  [taken |-> answer.ok, aligned |-> answer.pos = Len(slice.wire) + 1, decoded |-> back.ok, back |-> back.elems]
ArrayTrip(c) ==
  LET elems  == A!ElementsFromGetter(c.value, c.depth)
      put    == A!PutSlice(c.meta, elems)
      cells  == A!Store(c.meta, put)
      trip   == SliceTrip(c.meta, cells.cells, c.answered)
      ragged == A!IsRagged(c.value, c.depth) IN
  IF ragged \/ ~put.sent THEN [ragged |-> ragged, sent |-> FALSE]
  ELSE [ragged |-> FALSE, sent |-> TRUE,
        aligned |-> cells.pos = Len(put.wire) + 1 /\ trip.aligned,
        taken |-> trip.taken /\ trip.decoded,
        back |-> trip.back, target |-> A!FillArraySetter(c.meta, trip.back),
        sdls |-> {A!ParseSDL(A!GenerateSDL(c.meta, get)) : get \in BOOLEAN}]
StoreArray == \E c \in ArrayCases : Run("array", c, ArrayTrip(c))

\* Read an array that another program stored.
ReadArray == \E c \in StoredCases : Run("stored", c, SliceTrip(c.meta, c.cells, Len(c.cells)))

BindParams == \E c \in ParamCases :
  LET sent == V!ParamsToBlr(c.params, c.version) IN
  Run("params", c, [length |-> Len(sent.values), got |-> V!Message(sent.blr, sent.values, c.version)])
BindRow == \E c \in BatchCases :
  LET sent == V!EncodeBatchRow(c.columns, c.args) IN
  Run("batch", c, [length |-> Len(sent), room |-> V!BatchMessageLength(c.columns),
                   got |-> V!Message(V!CalcBlr(c.columns), sent, 16)])
ReadARow == \E c \in RowCases :
  LET sent == V!RowOf(c.columns, c.lens, c.version) IN
  Run("row", c, [length |-> Len(sent), got |-> V!ReadRow(c.columns, sent, c.version)])

SendDate == \E y \in Years, m \in 1 .. 12, d \in Days :
  Run("date", <<y, m, d>>, [n |-> V!ConvertDate(y, m, d), back |-> V!ParseDate(V!ConvertDate(y, m, d))])
SendTime == \E s \in Seconds, f \in {0, 1, 9999} :
  Run("time", <<s, f>>, V!ParseTime(V!ConvertTime(s \div 3600, (s \div 60) % 60, s % 60, f)))
SendTimestampTz == \E y \in Years, m \in 1 .. 12, s \in Seconds, z \in TimeZones :
  Run("timestamp_tz", <<<<y, m, 15>>, s>>, V!ParseTimestampTz(V!ConvertTimestampTz(<<y, m, 15>>, s, z), z))
SendTimeTz == \E s \in Seconds, z \in TimeZones, today \in Todays :
  Run("time_tz", [sec |-> s, zone |-> z, today |-> today], V!ParseTimeTz(V!ConvertTimeTz(s, z, today), z))

\* A decimal as IEEE 754 packs it: the combination field, the exponent's
\* continuation of eight bits, one declet.
Declet(n) ==
  LET d(i) == (n \div 10 ^ i) % 10
      hi(i) == d(i) > 7
      top(i) == IF hi(i) THEN 0 ELSE (d(i) \div 2) * 2
      low(i) == d(i) % 2
      of(x, y, flag, z) == x * 128 + y * 16 + flag * 8 + z IN
  CASE ~hi(2) /\ ~hi(1) /\ ~hi(0) -> of(d(2), d(1), 0, d(0))
    [] ~hi(2) /\ ~hi(1) /\  hi(0) -> of(d(2), d(1), 1, low(0))
    [] ~hi(2) /\  hi(1) /\ ~hi(0) -> of(d(2), top(0) + low(1), 1, 2 + low(0))
    [] ~hi(2) /\  hi(1) /\  hi(0) -> of(d(2), 4 + low(1), 1, 6 + low(0))
    []  hi(2) /\ ~hi(1) /\ ~hi(0) -> of(top(0) + low(2), d(1), 1, 4 + low(0))
    []  hi(2) /\ ~hi(1) /\  hi(0) -> of(top(1) + low(2), 2 + low(1), 1, 6 + low(0))
    []  hi(2) /\  hi(1) /\ ~hi(0) -> of(top(0) + low(2), low(1), 1, 6 + low(0))
    []  hi(2) /\  hi(1) /\  hi(0) -> of(low(2), 6 + low(1), 1, 6 + low(0))
Bias == 398
Five(digit, biased) ==
  LET top == biased \div 256 IN
  IF digit < 8 THEN top * 8 + digit ELSE 24 + top * 2 + digit - 8
ReadDecimal == \E n \in (0 .. 999) \union {1234, 7999, 8000, 9999}, e \in Exponents :
  LET got == V!DecimalOf(Five(n \div 1000, e + Bias), (e + Bias) % 256, 8, Declet(n % 1000), Bias) IN
  Run("decimal", <<n, e>>, [got |-> got, text |-> V!FormatDecimalGDA(got.coefficient, got.exponent)])

\* A manager's request as the server reads it.
Request(o) ==
  CASE o.op = "backup"   -> P!Backup(o.db, o.file, P!NewOptions(P!DefaultBackupOptions, o.opts), o.verbose)
    [] o.op = "restore"  -> P!Restore(o.file, o.db, P!NewOptions(P!DefaultRestoreOptions, o.opts), o.verbose)
    [] o.op = "nbackup"  -> P!NBackup(o.db, o.file, P!NewOptions(P!DefaultNBackupOptions, o.opts))
    [] o.op = "nrestore" -> P!NRestore(o.files, o.db, P!NewOptions(P!DefaultNBackupOptions, o.opts))
    [] o.op = "nfixup"   -> P!NFixup(o.db, P!NewOptions(P!DefaultNBackupOptions, o.opts))
    [] o.op = "stats"    -> P!DbStats(o.db, P!NewOptions(P!DefaultStatisticsOptions, o.opts), o.tables)
    [] o.op = "user"     -> P!UserAction(o.action, o.user, o.db)
    [] o.op = "delete"   -> P!DeleteUser(o.user, o.db)
    [] o.op = "mapping"  -> P!AdminRoleMapping(o.set, o.db)
    [] o.op = "property" -> P!SetProperty(o.name, o.db, o.arg)
    [] o.op = "shutdown" -> P!ShutdownEx(o.db, o.mode, o.how, o.arg)
    [] o.op = "repair"   -> P!Repair(o.name, o.db)
    [] o.op = "end"      -> P!EndTransaction(o.commit, o.db, o.id)
AskService == \E o \in Orders : Run("spb", o, P!Understood(Request(o)))

\* A server's stream: the records of each kind, then cut at the given places.
StreamOf(s) ==
  LET user(u) == P!PutString(7, u.Username[1])
                    \o P!GetSpb([u EXCEPT !.Username = <<>>, !.Password = <<>>])
      limbo(t) == (IF P!FitsUint32(t) THEN <<19>> \o P!Limbs(<<t[1], t[2]>>) ELSE P!PutInt64(47, t))
                    \o <<21, 22>> \o P!PutString(26, <<104>>)
      bytes == FlattenSeq([i \in DOMAIN s.records |->
                 CASE s.kind = "users" -> user(s.records[i])
                   [] s.kind = "limbo" -> limbo(s.records[i])
                   [] s.kind = "dbs"   -> P!PutString(106, s.records[i])]) IN
  IF s.kind = "dbs"
  THEN <<50>> \o P!PutInt32(5, 3) \o P!PutInt32(6, Len(s.records)) \o bytes \o <<127, 1>>
  ELSE bytes
Chunks(s) ==
  LET b == StreamOf(s)
      ends == SetToSortSeq({k \in s.cuts : k < Len(b)} \union {Len(b)}, <) IN
  [i \in DOMAIN ends |-> SubSeq(b, IF i = 1 THEN 1 ELSE ends[i - 1] + 1, ends[i])]
ReadStream == \E s \in Streams :
  Run("stream", s, CASE s.kind = "users" -> P!GetUsers(Chunks(s))
                     [] s.kind = "limbo" -> P!GetLimboTransactions(Chunks(s))
                     [] s.kind = "dbs"   -> P!GetSvrDbInfo(StreamOf(s)))

\* A response's status vector: its errors, then the warnings.
VectorOf(c) ==
  LET of(arg, num, text) == [arg |-> arg, num |-> num, text |-> text]
      params(ps) == [i \in DOMAIN ps |-> of(ps[i].arg, ps[i].num, ps[i].text)] IN
  (IF c.errors = <<>> THEN <<of("gds", 0, <<>>)>>
   ELSE FlattenSeq([i \in DOMAIN c.errors |-> <<of("gds", c.errors[i].code, <<>>)>> \o params(c.errors[i].params)]))
    \o (IF c.state = "" THEN <<>> ELSE <<of("sql_state", 0, <<[at |-> 0, word |-> c.state]>>)>>)
    \o FlattenSeq([i \in DOMAIN c.warnings |-> <<of("warning", c.warnings[i].code, <<>>)>>
                                                \o params(c.warnings[i].params)])
ReadStatus == \E c \in StatusCases : Run("status", c, R!FbError(VectorOf(c)))

Describe == \E columns \in ColumnCases : Run("describe", columns, R!ParseXsqlda(columns))

\* How the server describes the columns a statement can have, an expression among them.
Describable(tables) ==
  {[type |-> IF CatalogDomains[tables[k]].axes = <<>> THEN "OTHER" ELSE "ARRAY", rel |-> k[1], field |-> k[2]] :
     k \in DOMAIN tables} \union {[type |-> "ARRAY", rel |-> "", field |-> ""]}
Resolve == \E t \in Catalogs : \E x, y \in Describable(t) :
  Run("catalog", [columns |-> <<x, y>>, tables |-> t], M!ResolveArrayMeta(<<x, y>>, t))

\* net/url: what is left of a database's name between the host and the query.
UrlOf(d) == [user |-> <<"u">>, host |-> "h", port |-> "", query |-> d.query,
             path |-> <<"/">> \o (IF d.via = "absolute" THEN Tail(d.target) ELSE d.target)]
OpenName == \E d \in Dsns : Run("dsn", d, N!ParseDSN(UrlOf(d)))
NameZone == \E z, s \in DOMAIN ZoneIds \union {"", "Local"} : Run("zone", <<z, s>>, N!ResolveTimezone(z, s))
SendText == \E cs \in DOMAIN Encodings \union {"UTF8"} : \E t \in [1 .. 2 -> {"a", "b"}] :
  Run("text", t, N!DecodeCharset(N!EncodeCharset(t, cs), cs))
CompareVersion == \E v, w \in Versions :
  LET got == N!ParseFirebirdVersion(<<"LI", "V">> \o v \o <<1>>) IN
  Run("version", <<v, w>>, [patch |-> N!EqualOrGreaterPatch(got, w[1], w[2], w[3]),
                            minor |-> N!EqualOrGreater(got, w[1], w[2])])

Next == \/ StoreArray \/ ReadArray \/ BindParams \/ BindRow \/ ReadARow
        \/ SendDate \/ SendTime \/ SendTimestampTz \/ SendTimeTz \/ ReadDecimal
        \/ AskService \/ ReadStream \/ ReadStatus \/ Describe \/ Resolve
        \/ OpenName \/ NameZone \/ SendText \/ CompareVersion
        \/ Rest
Spec == Init /\ [][Next]_done

-----------------------------------------------------------------------------
(* What the two ends agree on.                                             *)

Is(codec) == done.codec = codec

\* The elements of a rectangular value of any depth, one after the other.
Flat(value, depth) == CASE depth = 1 -> value
                        [] depth = 2 -> FlattenSeq(value)
                        [] depth = 3 -> FlattenSeq(FlattenSeq(value))
Rectangular(value, depth) ==
  depth = 1 \/ \E n \in 0 .. 4 : \A i \in DOMAIN value :
     Len(value[i]) = n /\ (depth = 2 \/ \E k \in 0 .. 4 : \A j \in DOMAIN value : \A l \in DOMAIN value[j] : Len(value[j][l]) = k)
Empty(meta) == IF meta.type \in {"TEXT", "VARYING"} THEN <<>> ELSE 0

\* An array argument is refused when it is ragged, when it has more elements than
\* the column, a number beyond its type or a text of more bytes than the column
\* has characters, and otherwise arrives: server and driver keep their place on
\* the wire, the descriptor names the column's bounds and its elements' size, and
\* what is read back is whole, the elements not bound empty.  Whole is said of a
\* value of one axis, or of the column's own shape; of a scaled number a float64
\* holds; of a CHAR element that fills its slot or whose slot is a whole number of
\* words.  A reply of more elements than the column has, or of a text longer than
\* the column's, is given up; any other reply of a type that can be written is
\* read to its end (array.go, opPutSlice, opSliceResponse, decodeSliceElements).
ArraysSurvive ==
  LET c == done.in   o == done.out IN
  /\ Is("array") =>
       LET flat == Flat(c.value, c.depth)
           size == A!AllElementsCount(c.meta.dims)
           text == c.meta.type \in {"TEXT", "VARYING"}
           good(e) == IF text THEN Len(A!EncodeString(e)) <= c.meta.length
                              ELSE c.meta.type \in {"SHORT", "LONG"} => A!ToScaledInt64(e, c.meta.scale) <= 12
           fits == Len(flat) <= size /\ \A i \in DOMAIN flat : good(flat[i])
           returns(e) ==
             /\ c.meta.scale # 0 => e <= 2 ^ A!FloatBits
             /\ c.meta.type = "TEXT" => c.meta.bytes % 4 = 0 \/ Len(A!EncodeString(e)) = c.meta.bytes
           lengths(dims) == [i \in DOMAIN dims |-> dims[i].len]
           shaped == c.depth = 1 \/ lengths(A!DimensionsOf(c.value, c.depth)) = lengths(c.meta.dims)
           whole == [i \in 1 .. size |-> IF i <= Len(flat) THEN flat[i] ELSE Empty(c.meta)] IN
       /\ o.ragged <=> ~Rectangular(c.value, c.depth)
       /\ ~o.ragged => (o.sent <=> fits)
       /\ o.sent =>
            /\ o.aligned /\ o.taken
            /\ \A s \in o.sdls : s.dims = c.meta.dims
            /\ {s.size : s \in o.sdls} = CASE text -> {c.meta.length, c.meta.bytes}
                                           [] OTHER -> {c.meta.scale}
            /\ Len(o.back) = c.answered
            /\ shaped => \A i \in 1 .. c.answered :
                 i > Len(flat) \/ returns(flat[i]) => o.back[i] = whole[i]
            /\ c.answered = size => o.target = [ok |-> TRUE, dims |-> c.meta.dims, elems |-> o.back]
            /\ o.target.ok <=> (c.answered = size \/ Len(c.meta.dims) = 1 \/ c.answered = 0)
  /\ Is("stored") /\ c.meta.type \in A!Written =>
       /\ o.taken <=> /\ Len(c.cells) <= A!AllElementsCount(c.meta.dims)
                      /\ \A i \in DOMAIN c.cells : Len(c.cells[i]) <= c.meta.bytes
       /\ o.taken => o.aligned /\ o.decoded /\ Len(o.back) = Len(c.cells)

\* An element of a CHAR array comes back without the spaces that pad it
\* (array_live_test.go:141: "CHAR(n) elements come back space-trimmed like scalar
\* CHAR columns").
CharsTrimmed == Is("array") /\ done.in.meta.type = "TEXT" /\ done.out.sent =>
  \A i \in DOMAIN done.out.back :
    LET e == done.out.back[i] IN e # <<>> => e[Len(e)] # A!Space

\* An element of a value of several axes comes back at the place it had (array.go:98:
\* "Array is an array value that keeps its dimensions, so multi-dimensional arrays
\* survive a round trip").
ShapesSurvive ==
  LET c == done.in   o == done.out IN
  Is("array") /\ o.sent /\ c.depth = Len(c.meta.dims) /\ c.answered = A!AllElementsCount(c.meta.dims) =>
    LET own == A!DimensionsOf(c.value, c.depth)
        at(n) == FoldLeft(LAMBDA s, i : s + A!Coordinate(own, n, i) * A!Trailing(c.meta.dims, i),
                          1, [i \in DOMAIN own |-> i]) IN
    \A n \in 0 .. A!AllElementsCount(own) - 1 : o.target.elems[at(n)] = A!ElementAt(c.value, own, n)

\* A reply to a slice request is read to its end, whatever the element's type
\* (wireprotocol.go:1605: "each element is read in its wire form").
SlicesAligned == Is("stored") /\ done.out.taken => done.out.aligned

\* A message read by its own description ends where it was sent to end, and holds
\* each value in its place, nulls included, whatever the server's version; so does
\* a row read by its columns' (paramsToBlr, encodeBatchRow, calcBlr, readRow).
MessagesParse ==
  LET inPlace(i, v, n) == v = [k \in 1 .. n |-> i] IN
  (Is("params") \/ Is("batch") \/ Is("row")) =>
    LET c == done.in   o == done.out
        vals == IF Is("row") THEN o.got.row ELSE o.got.vals IN
    /\ o.got.pos = o.length + 1
    /\ CASE Is("params") -> /\ Len(vals) = Len(c.params)
                            /\ \A i \in DOMAIN vals :
                                 IF V!IsNull(c.params[i]) THEN vals[i] = <<-1>>
                                 ELSE \E n \in {c.params[i].len, 1, 4, 8, 12} : inPlace(i, vals[i], n)
         [] Is("batch") -> /\ Len(vals) = Len(c.columns)
                           /\ \A i \in DOMAIN vals :
                                CASE c.args[i] = -1 -> vals[i] = <<-1>>
                                  [] c.args[i] # -1 /\ c.columns[i].type = "TEXT" ->
                                       Len(vals[i]) = c.columns[i].len /\ ToSet(vals[i]) \subseteq {i, 32}
                                  [] c.args[i] # -1 /\ c.columns[i].type = "VARYING" ->
                                       inPlace(i, vals[i], IF c.args[i] < c.columns[i].len THEN c.args[i]
                                                           ELSE c.columns[i].len)
                                  [] OTHER -> inPlace(i, vals[i], c.columns[i].len)
         [] Is("row")   -> /\ Len(vals) = Len(c.columns)
                           /\ \A i \in DOMAIN vals :
                                IF c.lens[i] = -1 THEN vals[i] = <<-1>> ELSE inPlace(i, vals[i], c.lens[i])

\* The Gregorian calendar.
Leap(y) == y % 4 = 0 /\ (y % 100 # 0 \/ y % 400 = 0)
MonthDays(y, m) == <<31, IF Leap(y) THEN 29 ELSE 28, 31, 30, 31, 30, 31, 31, 30, 31, 30, 31>>[m]
DayBefore(y, m, d) == CASE d > 1 -> <<y, m, d - 1>>
                        [] d = 1 /\ m > 1 -> <<y, m - 1, MonthDays(y, m - 1)>>
                        [] OTHER -> <<y - 1, 12, 31>>
NumberOf(digits) == FoldLeft(LAMBDA n, k : n * 10 + k, 0, digits)

\* A date, a time, a date and time with its zone, and a decimal are the same on
\* both ends; the days follow one another from day 0, 17 November 1858
\* (_convert_date, dpdToInt, formatDecimalGDA).  A time with its zone is, when it
\* is sent on a day on which the zone has January's offset, at which it is read
\* (_convert_time_tz, parseTimeTz).
ValuesSurvive ==
  LET i == done.in   o == done.out IN
  /\ (Is("date") /\ i[3] <= MonthDays(i[1], i[2])) =>
        LET before == DayBefore(i[1], i[2], i[3]) IN
        /\ o.back = i
        /\ o.n = V!ConvertDate(before[1], before[2], before[3]) + 1
        /\ (i = <<1858, 11, 17>>) <=> (o.n = 0)
  /\ Is("time") => o = <<i[1] \div 3600, (i[1] \div 60) % 60, i[1] % 60, i[2]>>
  /\ Is("timestamp_tz") => o = i
  /\ Is("time_tz") /\ V!Offset(i.zone, i.today) = V!Offset(i.zone, 1) => o = i.sec
  /\ Is("decimal") =>
        /\ o.got = [special |-> "", coefficient |-> i[1], exponent |-> i[2]]
        /\ NumberOf(o.text.before \o o.text.after) = i[1]
        /\ o.text.power - Len(o.text.after) = i[2]

\* A TIME WITH TIME ZONE is read back as the time that was sent, whatever the day
\* (utils.go:247: "Re-anchor to today's date so the location's offset reflects current
\* rules -- symmetric with parseTimeTz which uses time.Now() on read").
TimeTzSymmetric == Is("time_tz") => done.out = done.in.sec

\* The value a sequence of options leaves for a field: that of the last one.
Given(opts, default, f) ==
  LET of == SelectSeq(opts, LAMBDA opt : opt[1] = f) IN
  IF of = <<>> THEN default[f] ELSE of[Len(of)][2]
SetOf(items) == {items[k] : k \in DOMAIN items}

\* What the server takes from a request is what the caller asked for: every option
\* in its last given value, no option for another (but "expand", whose bit is that
\* of "no garbage collection" and which the requests here leave out), each name and
\* number under its own tag, and one of "create" and "replace" (backup_manager.go,
\* nbackup_manager.go, maintenance_manager.go, user_manager.go, doGetDbStats).
SpbMeans == Is("spb") =>
  LET o == done.in   items == done.out
      one(tag) == P!ValuesOf(items, tag)
      maybe(b, v) == IF b THEN <<v>> ELSE <<>>
      ints(t, d) == \A f \in DOMAIN t : LET n == Given(o.opts, d, f) IN one(t[f]) = maybe(n > 0, n)
      mask == IF one(108) = <<>> THEN 0 ELSE one(108)[1]
      switches(bits, neg, d) == \A f \in DOMAIN bits \ {"Expand"} :
                                  P!Switches(mask, bits, neg)[f] = Given(o.opts, d, f) IN
  /\ \A k \in DOMAIN items : items[k][1] # -1
  /\ one(106) = maybe(~(o.op \in {"user", "delete", "mapping"} /\ o.db = <<>>), o.db)
  /\ CASE o.op = "backup" ->
            /\ switches(P!BackupBits, P!BackupNegated, P!DefaultBackupOptions)
            /\ ints([ParallelWorkers |-> 21], P!DefaultBackupOptions)
            /\ one(5) = <<o.file>> /\ one(107) = maybe(o.verbose, 0)
       [] o.op = "restore" ->
            /\ switches(P!RestoreBits, P!RestoreNegated, P!DefaultRestoreOptions)
            /\ (4096 \in P!BitsOf(mask)) # (8192 \in P!BitsOf(mask))
            /\ ints([ParallelWorkers |-> 21, PageSize |-> 10, CacheBuffers |-> 9], P!DefaultRestoreOptions)
            /\ one(5) = <<o.file>> /\ one(107) = maybe(o.verbose, 0)
       [] o.op \in {"nbackup", "nrestore", "nfixup"} ->
            /\ switches(P!NBackupBits, {}, P!DefaultNBackupOptions)
            /\ o.op = "nrestore" => one(6) = o.files
            /\ o.op = "nbackup" =>
                 LET guid == Given(o.opts, P!DefaultNBackupOptions, "Guid")
                     level == Given(o.opts, P!DefaultNBackupOptions, "Level") IN
                 /\ one(6) = <<o.file>> /\ one(8) = maybe(guid # <<>>, guid)
                 /\ one(5) = <<IF guid = <<>> /\ level = -1 THEN 0 ELSE level>>
       [] o.op = "stats" ->
            LET header == Given(o.opts, P!DefaultStatisticsOptions, "OnlyHeaderPages") IN
            /\ header => P!BitsOf(mask) \ {64} = {4}
            /\ ~header => switches(P!StatisticsBits, {}, P!DefaultStatisticsOptions)
            /\ (64 \in P!BitsOf(mask)) <=> (o.tables # <<>>)
            /\ o.tables # <<>> => Len(one(105)) = 1
       [] o.op \in {"user", "delete"} ->
            /\ one(7) = o.user.Username
            /\ o.op = "user" => /\ one(8) = o.user.Password /\ one(10) = o.user.FirstName
                                /\ one(12) = o.user.LastName
                                /\ one(5) = maybe(o.user.UserId # -1, o.user.UserId)
                                /\ one(13) = [k \in DOMAIN o.user.Admin |-> IF o.user.Admin[k] THEN 1 ELSE 0]
            /\ o.op = "delete" => \A k \in DOMAIN items : items[k][1] \in {7, 106}
       [] o.op = "mapping"  -> SetOf(items) = {<<106, o.db>> : k \in 1 .. IF o.db = <<>> THEN 0 ELSE 1}
       [] o.op = "property" -> Cardinality(SetOf(items)) = 2
       [] o.op = "shutdown" -> one(44) = <<o.mode>> /\ one(o.how) = <<o.arg>>
       [] o.op = "repair"   -> P!BitsOf(mask) = {P!Repairs[o.name]}
       [] o.op = "end"      ->
            SetOf(items) = {<<106, o.db>>,
              IF P!FitsUint32(o.id) THEN <<IF o.commit THEN 15 ELSE 34, P!Limbs(<<o.id[1], o.id[2]>>)>>
              ELSE <<IF o.commit THEN 49 ELSE 50, o.id>>}

\* However the server cuts its stream into chunks, the records read are the records
\* sent, in order: users with the fields they have, transactions in limbo by number,
\* databases by name (GetUsers, GetLimboTransactions, GetSvrDbInfo).
StreamsParse == Is("stream") =>
  LET s == done.in   o == done.out IN
  /\ ~o.err
  /\ CASE s.kind = "users" -> o.users = [k \in DOMAIN s.records |-> [s.records[k] EXCEPT !.Password = <<>>]]
       [] s.kind = "limbo" -> o.tids = s.records
       [] s.kind = "dbs"   -> o.names = s.records /\ o.dbs = Len(s.records) /\ o.atts = 3

\* An error is told in the words of its own template and parameters; warnings and
\* their parameters stay apart from it, and the server's SQLSTATE and SQLCODE go
\* before the tables' (_parse_status_vector, _parse_op_response).
StatusParses == Is("status") =>
  LET c == done.in   o == done.out
      text(e) == IF e.code \notin DOMAIN Tables.msg THEN <<R!Word("unknown gds_code")>>
                 ELSE FlattenSeq([k \in DOMAIN Tables.msg[e.code] |->
                        LET t == Tables.msg[e.code][k] IN
                        IF t.at = 0 THEN <<t>> ELSE e.params[t.at].text])
      sqlerr == SelectSeq(c.errors, LAMBDA e : e.code = R!IscSqlerr) IN
  IF c.errors = <<>> THEN o = <<>>
  ELSE /\ o[1].Message = FlattenSeq([k \in DOMAIN c.errors |-> text(c.errors[k])])
       /\ o[1].GDSCodes = [k \in DOMAIN c.errors |-> c.errors[k].code]
       /\ o[1].Params = [k \in DOMAIN c.errors |->
                           [j \in DOMAIN c.errors[k].params |-> c.errors[k].params[j].text]]
       /\ o[1].Warnings = [k \in DOMAIN c.warnings |-> c.warnings[k].code]
       /\ c.state # "" => o[1].SQLState = c.state
       /\ sqlerr # <<>> => o[1].SQLCode = sqlerr[Len(sqlerr)].params[1].num

\* Another relation of the statement has a field of the same name as one of its
\* arrays, of a type no array has.
Crossed(c) ==
  \E i, j \in DOMAIN c.columns :
     LET k == <<UpperNames[c.columns[i].rel], UpperNames[c.columns[j].field]>> IN
     k \in DOMAIN c.tables /\ CatalogDomains[c.tables[k]].blr = 261

\* However many answers it takes to describe a statement's columns, and wherever
\* each breaks off, all columns end up described, each by its own items
\* (parse_xsqlda, _fetchBindXsqlda, _parse_select_items); and, of all the rows the
\* system tables answer for all its relations and fields, each array column gets
\* its own element, in characters, and its own axes in order, unless its relation
\* was named in lower case (resolveArrayMeta).
DescribeComplete ==
  /\ Is("describe") =>
       /\ ~done.out.err /\ ~done.out.endless
       /\ done.out.xsqlda = [k \in DOMAIN done.in |-> [done.in[k] EXCEPT !["type"] = 2 * (@ \div 2)]]
  /\ Is("catalog") =>
       LET c == done.in   o == done.out
           own(x) == CatalogDomains[c.tables[<<x.rel, x.field>>]] IN
       /\ o.ok \/ Crossed(c)
       /\ o.ok => \A i \in DOMAIN c.columns :
                    LET x == c.columns[i] IN
                    CASE x.type # "ARRAY" \/ x.rel = "" -> o.metas[i] = <<>>
                      [] x.type = "ARRAY" /\ <<x.rel, x.field>> \in DOMAIN c.tables
                         /\ UpperNames[x.rel] = x.rel ->
                           /\ Len(o.metas[i]) = 1
                           /\ o.metas[i][1].length = own(x).elem /\ o.metas[i][1].dims = own(x).axes
                      [] OTHER -> TRUE

\* The name that reaches the server is the one the program meant, whichever way it
\* was written; an unusable option is refused before anything is dialled; an option
\* given under its short name is the one that counts; a zone is the time's own if
\* the table has it; a text comes back from its character set; versions compare
\* part by part from the left (dsn.go, timezone_resolve.go, charset.go,
\* firebird_version.go).
NamesResolve ==
  LET i == done.in   o == done.out IN
  /\ Is("dsn") =>
       LET sound == "auth_plugin_list" \in DOMAIN i.query => "auth_plugin_name" \in DOMAIN i.query IN
       IF ~sound \/ "wire_crypt" \in DOMAIN i.query THEN o.err # ""
       ELSE /\ o.err = "" /\ o.dbName = i.target /\ o.addr = <<"h", "3050">>
            /\ "blob_cache_size" \in DOMAIN i.query =>
                 o.options.max_blob_cache_size = i.query.blob_cache_size[1]
            /\ "role" \notin DOMAIN i.query => o.options.role = ""
  /\ Is("zone") => /\ o # 0
                   /\ i[1] \in DOMAIN ZoneIds => o = ZoneIds[i[1]]
                   /\ i[1] \notin DOMAIN ZoneIds /\ i[2] \in DOMAIN ZoneIds => o = ZoneIds[i[2]]
  /\ Is("text") => o = i
  /\ Is("version") =>
       LET v == i[1]   w == i[2]
           first(n) == {k \in 1 .. n : v[k] # w[k]}
           after(n) == first(n) = {} \/ \E k \in first(n) : v[k] > w[k] /\ \A j \in first(n) : j >= k IN
       o.patch = after(3) /\ o.minor = after(2)
=============================================================================
