------------------------------- MODULE WireValues -------------------------------
(***************************************************************************)
(* Values on the wire: the messages parameters are sent in (paramsToBlr,   *)
(* encodeBatchRow), the rows results come in (readRow), their descriptions *)
(* in BLR (calcBlr), dates and times, and decimal floating point.          *)
(*                                                                         *)
(* A message is a sequence of bytes.  Of a value only its length matters:  *)
(* its bytes all name the parameter or column they belong to, so a reader  *)
(* that loses its place reads another's.                                   *)
(***************************************************************************)
EXTENDS Integers, Sequences, SequencesExt

Repeat(b, n) == [i \in 1 .. n |-> b]
Pad4(n) == (4 - (n % 4)) % 4
Aligned(bytes) == bytes \o Repeat(0, Pad4(Len(bytes)))
Int32(n) == <<0, 0, n \div 256, n % 256>>          \* a length, big end first
Ones == <<255, 255, 255, 255>>

-----------------------------------------------------------------------------
(* Parameters: [kind, len] as database/sql hands them over.                *)

MaxCharLength == 32767

IsNull(p) == p.kind \in {"nil", "nullArray"}

\* One bit for each parameter, in as many bytes as there are words for.
NullBytes(nulls, n) ==
  [b \in 1 .. n |-> FoldLeft(LAMBDA s, k : IF 8 * (b - 1) + k \in nulls THEN s + 2 ^ (k - 1) ELSE s,
                             0, [k \in 1 .. 8 |-> k])]

BitmapLength(n) == LET b == (n + 7) \div 8 IN b + Pad4(b)
Bitmap(nulls, n) == NullBytes(nulls, BitmapLength(n))

\* The type a time.Time is sent as: that of the column when it is known, and
\* without its zone to a server before protocol 16 that must guess.
TimeBlr(bind, yearZero, version) ==
  CASE bind = "TIME"      -> 13
    [] bind = "DATE"      -> 12
    [] bind = "TIMESTAMP" -> 35
    [] bind = "TIME_TZ" \/ (bind = "none" /\ yearZero) -> IF version >= 16 THEN 28 ELSE 13
    [] OTHER              -> IF version >= 16 THEN 29 ELSE 35

SizeOf == [t \in {8, 9, 10, 12, 13, 16, 23, 24, 25, 26, 27, 28, 29, 35, 7} |->
  CASE t \in {8, 10, 12, 13, 7} -> 4
    [] t \in {9, 16, 24, 27, 28, 35} -> 8
    [] t = 23 -> 1
    [] t = 29 -> 12
    [] OTHER  -> 16]

Text(len) == <<14, len % 256, len \div 256>>

\* The BLR item of parameter p.  A long string goes as the id of a BLOB.
ParamBlr(p, version) ==
  CASE p.kind \in {"string", "bytes", "other"} -> IF p.len < MaxCharLength THEN Text(p.len) ELSE <<9, 0>>
    [] p.kind \in {"int", "int32"} -> <<8, 0>>
    [] p.kind = "int64"   -> <<16, 0>>
    [] p.kind = "float64" -> <<27>>
    [] p.kind = "bool"    -> <<23>>
    [] p.kind = "array"   -> <<9, 0>>
    [] p.kind = "time"    -> <<TimeBlr(p.bind, p.yearZero, version)>>
    [] IsNull(p)          -> Text(0)

ParamBytes(p, i, version) ==
  LET blr == ParamBlr(p, version) IN
  Aligned(Repeat(i, IF Head(blr) = 14 THEN blr[2] + 256 * blr[3] ELSE SizeOf[Head(blr)]))

\* The header counts the items and their null indicators; each value is followed
\* by the item of its indicator.
Blr(items) ==
  LET n == 2 * Len(items) IN
  <<5, 2, 4, 0, n % 256, n \div 256>>
    \o FlattenSeq([i \in DOMAIN items |-> items[i] \o <<7, 0>>]) \o <<255, 76>>

ParamsToBlr(params, version) ==
  LET nulls == {i \in DOMAIN params : IsNull(params[i])}
      flag(i) == IF version >= 13 THEN <<>> ELSE IF i \in nulls THEN Ones ELSE Repeat(0, 4) IN
  [blr |-> Blr([i \in DOMAIN params |-> ParamBlr(params[i], version)]),
   values |-> (IF version >= 13 THEN Bitmap(nulls, Len(params)) ELSE <<>>)
              \o FlattenSeq([i \in DOMAIN params |-> ParamBytes(params[i], i, version) \o flag(i)])]

-----------------------------------------------------------------------------
(* Columns: [type, len, scale] as the server described them.               *)

\* Types of one length and no other attribute, with their BLR codes.
Plain == [FLOAT |-> 10, DATE |-> 12, TIME |-> 13, TIMESTAMP |-> 35, DOUBLE |-> 27, BOOLEAN |-> 23,
          DEC64 |-> 24, DEC128 |-> 25, TIME_TZ |-> 28, TIMESTAMP_TZ |-> 29]
Exact == [SHORT |-> 7, LONG |-> 8, INT64 |-> 16, INT128 |-> 26, QUAD |-> 9, DEC_FIXED |-> 26]

ColumnBlr(x) ==
  CASE x.type = "VARYING" -> <<37, x.len % 256, x.len \div 256>>
    [] x.type = "TEXT"    -> Text(x.len)
    [] x.type = "NULL"    -> Text(0)
    [] x.type \in {"BLOB", "ARRAY"} -> <<9, 0>>
    [] x.type \in DOMAIN Exact -> <<Exact[x.type], x.scale % 256>>
    [] x.type \in DOMAIN Plain -> <<Plain[x.type]>>

CalcBlr(columns) == Blr([i \in DOMAIN columns |-> ColumnBlr(columns[i])])

\* The bytes a column takes in a row, a VARYING one those of its value.
IoLength(x) ==
  CASE x.type = "VARYING" -> -1
    [] x.type = "TEXT"    -> x.len
    [] x.type = "NULL"    -> 0
    [] x.type \in {"BLOB", "ARRAY"} -> 8
    [] x.type \in DOMAIN Exact -> SizeOf[Exact[x.type]]
    [] x.type \in DOMAIN Plain -> SizeOf[Plain[x.type]]

IntAt(b, p) == b[p + 2] * 256 + b[p + 3]
BitSet(bytes, i) == (bytes[((i - 1) \div 8) + 1] \div (2 ^ ((i - 1) % 8))) % 2 = 1

\* Mutant: the values of null columns are expected too.
ReadRow_ReadsNulls(columns, b, version) ==
  LET one(st, i) ==
        LET x == columns[i]
            n == IF IoLength(x) < 0 THEN IntAt(b, st.pos) ELSE IoLength(x)
            p == IF IoLength(x) < 0 THEN st.pos + 4 ELSE st.pos IN
        [pos |-> p + n + Pad4(n), row |-> Append(st.row, SubSeq(b, p, p + n - 1))] IN
  FoldLeftDomain(one, [pos |-> 1 + BitmapLength(Len(columns)), row |-> <<>>], columns)

\* readRow: the value of each column, <<-1>> for a null one, and the place where
\* the next packet begins.
ReadRow(columns, b, version) ==
  LET n0 == IF version >= 13 THEN BitmapLength(Len(columns)) ELSE 0
      one(st, i) ==
        IF version >= 13 /\ BitSet(b, i) THEN [st EXCEPT !.row = Append(@, <<-1>>)]
        ELSE LET x == columns[i]
                 n == IF IoLength(x) < 0 THEN IntAt(b, st.pos) ELSE IoLength(x)
                 p == IF IoLength(x) < 0 THEN st.pos + 4 ELSE st.pos
                 next == p + n + Pad4(n)
                 null == version < 13 /\ SubSeq(b, next, next + 3) # Repeat(0, 4) IN
             [pos |-> IF version < 13 THEN next + 4 ELSE next,
              row |-> Append(st.row, IF null THEN <<-1>> ELSE SubSeq(b, p, p + n - 1))] IN
  FoldLeftDomain(one, [pos |-> 1 + n0, row |-> <<>>], columns)

-----------------------------------------------------------------------------
(* Batch rows.                                                             *)

Alignment(x) ==
  CASE x.type \in {"TEXT", "NULL", "BOOLEAN"} -> 1
    [] x.type \in {"SHORT", "VARYING"} -> 2
    [] x.type \in {"DOUBLE", "INT64", "DEC64", "DEC128", "INT128"} -> 8
    [] OTHER -> 4

\* calculateBatchMessageLength: the message in the server's memory, each value at
\* its alignment and followed by its indicator.
BatchMessageLength(columns) ==
  LET up(n, a) == ((n + a - 1) \div a) * a
      one(n, x) == up(up(n, Alignment(x)) + x.len + (IF x.type = "VARYING" THEN 2 ELSE 0), 2) + 2 IN
  FoldLeft(one, 0, columns)

\* encodeBatchField: text is cut to the column, a number takes the column's size.
\* The types that have no case of their own are sent as unaligned text.
Cut(x, len) == IF x.len > 0 /\ len > x.len THEN x.len ELSE len

BatchField(x, len, i) ==
  CASE x.type = "VARYING" -> Int32(Cut(x, len)) \o Aligned(Repeat(i, Cut(x, len)))
    [] x.type = "TEXT"    -> Aligned(Repeat(i, Cut(x, len)) \o Repeat(32, x.len - Cut(x, len)))
    [] OTHER              -> Aligned(Repeat(i, IoLength(x)))

\* encodeBatchRow: args holds the length of each value, -1 for a nil.
EncodeBatchRow(columns, args) ==
  LET nulls == {i \in DOMAIN args : args[i] = -1} IN
  Bitmap(nulls, Len(args))
    \o FlattenSeq([i \in DOMAIN args |-> IF i \in nulls \/ columns[i].type = "NULL" THEN <<>>
                                  ELSE BatchField(columns[i], args[i], i)])

-----------------------------------------------------------------------------
(* The server: a message as its BLR describes it.                          *)

\* The items of a BLR message without their indicators, or <<>> when its header,
\* its indicators or its end are not where they belong.
ItemsOf(blr) ==
  LET width(t) == CASE t \in {14, 37} -> 3 [] t \in {7, 8, 9, 16, 26} -> 2 [] OTHER -> 1
      one(st) ==
        LET w == width(blr[st.pos]) IN
        IF st.pos + w + 1 <= Len(blr) /\ blr[st.pos + w] = 7
        THEN [pos |-> st.pos + w + 2, items |-> Append(st.items, SubSeq(blr, st.pos, st.pos + w - 1))]
        ELSE [st EXCEPT !.pos = Len(blr) + 9]
      count == (blr[5] + 256 * blr[6]) \div 2
      all == FoldLeft(LAMBDA st, i : IF st.pos > Len(blr) THEN st ELSE one(st),
                      [pos |-> 7, items |-> <<>>], [i \in 1 .. count |-> i]) IN
  IF SubSeq(blr, all.pos, Len(blr)) = <<255, 76>> THEN all.items ELSE <<>>

\* The values of a message, <<-1>> for a null one, and the place after it.
Message(blr, b, version) ==
  LET items == ItemsOf(blr)
      n0 == IF version >= 13 THEN BitmapLength(Len(items)) ELSE 0
      one(st, i) ==
        IF version >= 13 /\ BitSet(b, i) THEN [st EXCEPT !.vals = Append(@, <<-1>>)]
        ELSE LET t == items[i]
                 p == IF t[1] = 37 THEN st.pos + 4 ELSE st.pos
                 n == CASE t[1] = 14 -> t[2] + 256 * t[3]
                        [] t[1] = 37 -> IntAt(b, st.pos)
                        [] OTHER -> SizeOf[t[1]]
                 next == p + n + Pad4(n)
                 null == version < 13 /\ SubSeq(b, next, next + 3) # Repeat(0, 4) IN
             [pos |-> IF version < 13 THEN next + 4 ELSE next,
              vals |-> Append(st.vals, IF null THEN <<-1>> ELSE SubSeq(b, p, p + n - 1))] IN
  FoldLeftDomain(one, [pos |-> 1 + n0, vals |-> <<>>], items)

\* A row of the given columns: lens holds the length of each value, -1 for null.
RowOf(columns, lens, version) ==
  LET nulls == {i \in DOMAIN lens : lens[i] = -1}
      size(i) == IF IoLength(columns[i]) >= 0 THEN IoLength(columns[i])
                 ELSE IF i \in nulls THEN 0 ELSE lens[i]
      field(i) == (IF IoLength(columns[i]) < 0 THEN Int32(size(i)) ELSE <<>>) \o Aligned(Repeat(i, size(i))) IN
  IF version >= 13
  THEN Bitmap(nulls, Len(lens)) \o FlattenSeq([i \in DOMAIN lens |-> IF i \in nulls THEN <<>> ELSE field(i)])
  ELSE FlattenSeq([i \in DOMAIN lens |-> field(i) \o (IF i \in nulls THEN Ones ELSE Repeat(0, 4))])

-----------------------------------------------------------------------------
(* Dates and times.                                                        *)

\* Mutant: the century is not taken out of the year.
ConvertDate_Julian(y, m, d) ==
  LET i  == m + 9
      jy == y + (i \div 12) - 1 IN
  (1461 * jy) \div 4 + (153 * (i % 12) + 2) \div 5 + d - 678882

\* _convert_date: days since 17 November 1858.
ConvertDate(y, m, d) ==
  LET i  == m + 9
      jy == y + (i \div 12) - 1
      c  == jy \div 100 IN
  (146097 * c) \div 4 + (1461 * (jy - 100 * c)) \div 4 + (153 * (i % 12) + 2) \div 5 + d - 678882

\* _parseDate.
ParseDate(n) ==
  LET a  == 4 * (n + 678882) - 1
      c  == a \div 146097
      b  == 4 * ((a - 146097 * c) \div 4) + 3
      yy == b \div 1461
      e  == 5 * (((b - 1461 * yy) + 4) \div 4) - 3
      mm == e \div 153
      dd == ((e - 153 * mm) + 5) \div 5 IN
  IF mm < 10 THEN <<100 * c + yy, mm + 3, dd>> ELSE <<100 * c + yy + 1, mm - 9, dd>>

\* _convert_time and _parseTime, in units of 100 microseconds.
ConvertTime(h, m, s, f) == (h * 3600 + m * 60 + s) * 10000 + f
ParseTime(n) ==
  LET s == n \div 10000 IN <<s \div 3600, (s \div 60) % 60, s % 60, n % 10000>>

Day == 86400
\* A zone: its offsets in seconds, of which summer's holds from April to October.
Offset(zone, month) == IF month \in 4 .. 10 THEN zone.summer ELSE zone.winter

\* _convert_timestamp_tz and parseTimestampTz: the instant goes in UTC, with the
\* zone's id, as a day number and the second of that day.
ConvertTimestampTz(date, sec, zone) ==
  LET utc == sec - Offset(zone, date[2]) IN
  <<ConvertDate(date[1], date[2], date[3]) + utc \div Day, utc % Day>>
ParseTimestampTz(v, zone) ==
  LET at(off) == <<ParseDate(v[1] + (v[2] + off) \div Day), (v[2] + off) % Day>>
      winter  == at(zone.winter) IN
  IF Offset(zone, winter[1][2]) = zone.winter THEN winter ELSE at(zone.summer)

\* _convert_time_tz: the time of day is that of today's date in its zone.
ConvertTimeTz(sec, zone, today) == (sec - Offset(zone, today)) % Day
\* parseTimeTz: it is read as of 1 January 2020.
ParseTimeTz(v, zone) == (v + Offset(zone, 1)) % Day

-----------------------------------------------------------------------------
(* Decimal floating point.                                                 *)

Bit(n, k) == (n \div 2 ^ k) % 2

\* dpdToInt: the three digits of a declet of ten bits.
DpdToInt(n) ==
  LET b(k) == Bit(n, k)
      hi   == b(9) * 4 + b(8) * 2
      mid  == b(6) * 4 + b(5) * 2
      of(x, y, z) == x * 100 + y * 10 + z IN
  CASE b(3) = 0 -> of(hi + b(7), mid + b(4), b(2) * 4 + b(1) * 2 + b(0))
    [] b(3) = 1 /\ <<b(2), b(1)>> = <<0, 0>> -> of(hi + b(7), mid + b(4), 8 + b(0))
    [] b(3) = 1 /\ <<b(2), b(1)>> = <<0, 1>> -> of(hi + b(7), 8 + b(4), mid + b(0))
    [] b(3) = 1 /\ <<b(2), b(1)>> = <<1, 0>> -> of(8 + b(7), mid + b(4), hi + b(0))
    [] b(3) = 1 /\ <<b(2), b(1)>> = <<1, 1>> ->
         CASE <<b(6), b(5)>> = <<0, 0>> -> of(8 + b(7), 8 + b(4), hi + b(0))
           [] <<b(6), b(5)>> = <<0, 1>> -> of(8 + b(7), hi + b(4), 8 + b(0))
           [] <<b(6), b(5)>> = <<1, 0>> -> of(hi + b(7), 8 + b(4), 8 + b(0))
           [] OTHER                     -> of(8 + b(7), 8 + b(4), 8 + b(0))

\* The combination field and the exponent's continuation, of width bits: the
\* first digit and the exponent, or the special value.
CombinationField(five, continuation, width) ==
  LET top == five \div 8
      exp(hi) == hi * 2 ^ width + continuation IN
  CASE five = 31 -> [special |-> "NaN", digit |-> 0, exp |-> 0]
    [] five = 30 -> [special |-> "Infinity", digit |-> 0, exp |-> 0]
    [] top < 3   -> [special |-> "", digit |-> five % 8, exp |-> exp(top)]
    [] OTHER     -> [special |-> "", digit |-> 8 + (five % 2), exp |-> exp((five % 8) \div 2)]

\* A decimal of one digit and one declet.
DecimalOf(five, continuation, width, declet, bias) ==
  LET cf == CombinationField(five, continuation, width) IN
  [special |-> cf.special, coefficient |-> cf.digit * 1000 + DpdToInt(declet), exponent |-> cf.exp - bias]

DigitsOf(n) ==
  LET width == CHOOSE w \in 1 .. 9 : n < 10 ^ w /\ (w = 1 \/ n >= 10 ^ (w - 1)) IN
  [i \in 1 .. width |-> (n \div 10 ^ (width - i)) % 10]

\* formatDecimalGDA: the digits before the point, those after it, and the power
\* of ten written behind them.
FormatDecimalGDA(coefficient, exponent) ==
  LET digits == DigitsOf(coefficient)
      n      == Len(digits)
      adjexp == exponent + n - 1
      frac   == -exponent IN
  IF exponent <= 0 /\ adjexp >= -6
  THEN [before |-> IF n > frac THEN SubSeq(digits, 1, n - frac) ELSE <<0>>,
        after |-> IF n > frac THEN SubSeq(digits, n - frac + 1, n) ELSE Repeat(0, frac - n) \o digits,
        power |-> 0]
  ELSE [before |-> <<digits[1]>>, after |-> Tail(digits), power |-> adjexp]
=============================================================================
