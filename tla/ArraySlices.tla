------------------------------ MODULE ArraySlices ------------------------------
(***************************************************************************)
(* Array columns (array.go, array_sdl.go, array_meta.go and the slice      *)
(* operations of wireprotocol.go): what a Go value becomes on its way into *)
(* a column, what the server stores, and what a scan target receives.      *)
(*                                                                         *)
(* A datum of a fixed type is a number, 0 for one never written, and its   *)
(* wire form a sequence of bytes; a datum of a text type is a sequence of  *)
(* characters below 2048, which UTF8 writes in one byte or two (a column   *)
(* of OCTETS, whose elements are not trimmed, is left out).  A Go value is *)
(* a slice, or slices nested in slices to the depth it is said to have.    *)
(***************************************************************************)
EXTENDS Integers, Sequences, FiniteSets, SequencesExt

MaxInt == 2147483647     \* the code's is that of a 64-bit int

Space == 32
Zeros(n) == [i \in 1 .. n |-> 0]
RoundUp4(n) == ((n + 3) \div 4) * 4

-----------------------------------------------------------------------------
(* Shapes: a dimension is [low, len], its lower bound and its length.      *)

\* The elements of a shape, 0 for an empty one and on overflow.
AllElementsCount(dims) ==
  IF dims = <<>> THEN 0
  ELSE FoldLeft(LAMBDA n, d : IF d.len <= 0 \/ n > MaxInt \div d.len THEN 0 ELSE n * d.len,
                1, dims)

Trailing(dims, i) == FoldLeft(LAMBDA n, d : n * d.len, 1, SubSeq(dims, i + 1, Len(dims)))

\* The declared shape less the elements missing at its end, the slow axes first.
ShrinkDimensions(declared, actual) ==
  LET missing == AllElementsCount(declared) - actual
      left(i) == IF i = 1 THEN missing ELSE missing % Trailing(declared, i - 1) IN
  [i \in DOMAIN declared |->
     [declared[i] EXCEPT !.len = @ - left(i) \div Trailing(declared, i)]]

\* The index along axis i of the element at linear index n, both from 0.
Coordinate(dims, n, i) == (n \div Trailing(dims, i)) % dims[i].len

\* The linear indices, in the declared shape, of the elements of the actual one.
PresentIndexes(declared, actual) ==
  LET here(n) == \A i \in DOMAIN declared : Coordinate(declared, n, i) < actual[i].len IN
  SelectSeq([n \in 1 .. AllElementsCount(declared) |-> n - 1], here)

-----------------------------------------------------------------------------
(* Go values as arguments.                                                 *)

\* The slices nested d levels deep in v, v itself at level 0.
Level(v, d) ==
  CASE d = 0 -> {v}
    [] d = 1 -> ToSet(v)
    [] d = 2 -> UNION {ToSet(s) : s \in ToSet(v)}

\* Two slices of one level differ in length.
IsRagged(v, depth) == \E d \in 1 .. depth - 1 : Cardinality({Len(s) : s \in Level(v, d)}) > 1

\* The value's own axes, down to the first that is empty.
DimensionsOf(v, depth) ==
  LET first(d) == CASE d = 1 -> v [] d = 2 -> v[1] [] d = 3 -> v[1][1]
      axis(s)  == [low |-> 1, len |-> Len(s)]
      stop     == CHOOSE d \in 1 .. depth : /\ d = depth \/ Len(first(d)) = 0
                                            /\ \A e \in 1 .. d - 1 : Len(first(e)) > 0 IN
  [d \in 1 .. stop |-> axis(first(d))]

\* Mutant: the axes are read in the wrong order.
ElementAt_ColumnMajor(v, dims, n) ==
  CASE Len(dims) = 1 -> v[n + 1]
    [] Len(dims) = 2 -> v[(n % dims[1].len) + 1][n \div dims[1].len + 1]
    [] Len(dims) = 3 -> v[1][1][1]

\* The element at linear index n of a rectangular value.
ElementAt(v, dims, n) ==
  LET c(i) == Coordinate(dims, n, i) + 1 IN
  CASE Len(dims) = 1 -> v[c(1)]
    [] Len(dims) = 2 -> v[c(1)][c(2)]
    [] Len(dims) = 3 -> v[c(1)][c(2)][c(3)]

\* getArrayEncodeType and elementsFromGetter: the elements in row-major order.
\* The shape is dropped: the column's is not known when a value is checked.
ElementsFromGetter(v, depth) ==
  LET dims == DimensionsOf(v, depth) IN
  [n \in 1 .. AllElementsCount(dims) |-> ElementAt(v, dims, n - 1)]

-----------------------------------------------------------------------------
(* Element layouts.  A column's meta is [type, length, bytes, scale, dims]:*)
(* length in characters for text, bytes in the column's character set.     *)

Fixed4  == {"SHORT", "LONG", "FLOAT", "DATE", "TIME"}
Fixed8  == {"INT64", "DOUBLE", "TIMESTAMP"}
Scaled  == {"SHORT", "LONG", "INT64"}
Texts   == {"TEXT", "VARYING"}
Written == Fixed4 \union Fixed8 \union Texts \union {"BOOLEAN"}

\* An element in the buffer the server derives from the descriptor of a put.
Stride(meta) ==
  CASE meta.type = "SHORT"    -> 2
    [] meta.type \in Fixed4   -> 4
    [] meta.type \in Fixed8   -> 8
    [] meta.type = "BOOLEAN"  -> 1
    [] meta.type = "VARYING"  -> 2 + meta.length
    [] OTHER                  -> meta.length

\* The same for a get, whose descriptor carries bytes.
GetStride(meta) ==
  CASE meta.type = "TEXT"    -> meta.bytes
    [] meta.type = "VARYING" -> 2 + meta.bytes
    [] OTHER                 -> Stride(meta)

SliceAppLength(meta) == AllElementsCount(meta.dims) * Stride(meta)

\* An element in an op_slice response; a VARYING one brings its own length.
WireElementSize(meta) ==
  CASE meta.type \in Fixed8 -> 8
    [] meta.type = "TEXT"   -> RoundUp4(meta.bytes)
    [] OTHER                -> 4

PutWireElementSize(meta) ==
  IF meta.type = "TEXT" THEN RoundUp4(meta.length) ELSE WireElementSize(meta)

-----------------------------------------------------------------------------
(* Elements on the wire.                                                   *)

Xdr(bytes) == bytes \o Zeros(RoundUp4(Len(bytes)) - Len(bytes))
Word(n) == <<0, 0, n \div 256, n % 256>>       \* the lengths here are short
WordAt(b, p) == b[p + 2] * 256 + b[p + 3]

\* The n bytes of a datum of a fixed type, and the datum they are.
BytesOf(e, n) == [i \in 1 .. n |-> IF e = 0 THEN 0 ELSE e * 16 + i]
DatumOf(b) == b[1] \div 16

\* encodeCharset and decodeCharset: the bytes of a text and the text they are.
EncodeString(s) ==
  FlattenSeq([i \in DOMAIN s |-> IF s[i] < 128 THEN <<s[i]>>
                                ELSE <<192 + s[i] \div 64, 128 + (s[i] % 64)>>])
ParseString(b) ==
  FoldLeft(LAMBDA s, i : CASE b[i] < 128  -> Append(s, b[i])
                           [] b[i] >= 192 -> Append(s, (b[i] - 192) * 64 + b[i + 1] - 128)
                           [] OTHER       -> s,
           <<>>, [i \in DOMAIN b |-> i])

\* The stored form of a number of a scaled type.  It goes through a float64, which
\* keeps the first FloatBits bits; the code's float64 keeps 53, its numbers have 63.
FloatBits == 3
ToScaledInt64(e, scale) ==
  LET fits(u) == e < u * 2 ^ FloatBits
      unit == CHOOSE u \in {1, 2, 4} : fits(u) /\ \A w \in {1, 2, 4} : w < u => ~fits(w) IN
  IF scale = 0 THEN e ELSE ((2 * e + unit) \div (2 * unit)) * unit

\* The largest number of a type, in the numbers that stand for them here.
Largest(type) == IF type \in {"SHORT", "LONG"} THEN 12 ELSE 15

Refused == <<-1>>

EncodeText(meta, enc) ==
  CASE Len(enc) > meta.length -> Refused
    [] meta.type = "TEXT" /\ Len(enc) <= meta.length -> enc \o [i \in 1 .. RoundUp4(meta.length) - Len(enc) |-> Space]
    [] OTHER -> Word(Len(enc)) \o Xdr(enc)
EncodeScaled(meta, v) == IF v > Largest(meta.type) THEN Refused ELSE BytesOf(v, WireElementSize(meta))

EncodeArrayElement(meta, e) ==
  CASE meta.type = "BOOLEAN" -> BytesOf(e, 1) \o Zeros(3)
    [] meta.type \in Scaled  -> EncodeScaled(meta, ToScaledInt64(e, meta.scale))
    [] meta.type \in Texts   -> EncodeText(meta, EncodeString(e))
    [] meta.type \in Written \ (Scaled \union Texts \union {"BOOLEAN"}) -> BytesOf(e, WireElementSize(meta))
    [] OTHER -> Refused

PadSliceWire(meta, data, actual) ==
  LET missing == AllElementsCount(meta.dims) - actual IN
  IF missing <= 0 THEN data ELSE data \o Zeros(missing * PutWireElementSize(meta))

\* encodeSliceElements and opPutSlice: the slice lengths and the slice sent, or
\* no request when the argument is refused.
PutSlice(meta, elems) ==
  LET forms == [i \in DOMAIN elems |-> EncodeArrayElement(meta, elems[i])] IN
  IF Len(elems) > AllElementsCount(meta.dims) \/ Refused \in ToSet(forms)
  THEN [sent |-> FALSE, length |-> 0, wire |-> <<>>]
  ELSE [sent |-> TRUE, length |-> SliceAppLength(meta),
        wire |-> PadSliceWire(meta, FlattenSeq(forms), Len(elems))]

\* opSliceResponse: no more elements than the column has and no text longer than
\* its bytes, or the connection is given up.  recvPacketsAlignment reads whole
\* words of which the bytes asked for are kept, a VARYING's after its length.
SliceResponse(meta, length, wire) ==
  LET count == length \div GetStride(meta)
      one(st) ==
        LET n == IF meta.type = "VARYING" THEN WordAt(wire, st.pos) ELSE WireElementSize(meta)
            p == IF meta.type = "VARYING" THEN st.pos + 4 ELSE st.pos IN
        IF meta.type = "VARYING" /\ n > meta.bytes THEN [st EXCEPT !.ok = FALSE]
        ELSE [ok |-> TRUE, pos |-> p + RoundUp4(n), data |-> st.data \o SubSeq(wire, st.pos, p + n - 1)]
      none == [ok |-> TRUE, pos |-> 1, data |-> <<>>] IN
  CASE length = 0 -> none
    [] length > 0 /\ AllElementsCount(meta.dims) > 0 /\ count > AllElementsCount(meta.dims) -> [none EXCEPT !.ok = FALSE]
    [] OTHER -> FoldLeft(LAMBDA st, i : IF st.ok THEN one(st) ELSE st, none, [i \in 1 .. count |-> i])

TrimRight(s, c) == SubSeq(s, 1, SelectLastInSeq(s, LAMBDA x : x # c))

\* xSQLVAR.value on one element: a CHAR loses its spaces, then its zero bytes.
ElementValue(meta, raw) ==
  CASE meta.type = "TEXT"    -> TrimRight(TrimRight(ParseString(raw), Space), 0)
    [] meta.type = "VARYING" -> ParseString(raw)
    [] OTHER                 -> DatumOf(raw)

\* Where each element of a fetched slice begins, and whether the last one is whole
\* (sliceElementCount).
Elements(meta, data) ==
  LET size(p) == IF meta.type = "VARYING" THEN IF p + 3 <= Len(data) THEN 4 + WordAt(data, p) ELSE 4
                                          ELSE WireElementSize(meta)
      one(st) == IF st.pos + size(st.pos) - 1 > Len(data) THEN [st EXCEPT !.ok = FALSE]
                 ELSE [st EXCEPT !.pos = @ + size(@), !.at = Append(@, st.pos)]
      walk == FoldLeft(LAMBDA st, i : IF st.ok /\ st.pos <= Len(data) THEN one(st) ELSE st,
                       [ok |-> TRUE, pos |-> 1, at |-> <<>>], data) IN
  [walk EXCEPT !.ok = @ \/ meta.type # "VARYING"]

DecodeSliceElements(meta, data) ==
  LET es == Elements(meta, data)
      raw(p) == IF meta.type = "VARYING" THEN SubSeq(data, p + 4, p + 3 + WordAt(data, p))
                                         ELSE SubSeq(data, p, p + WireElementSize(meta) - 1)
      nothing(ok) == [ok |-> ok, elems |-> <<>>] IN
  CASE data = <<>> -> nothing(TRUE)
    [] data # <<>> /\ (meta.type \in {"TIME_TZ", "TIMESTAMP_TZ"} \/ ~es.ok) -> nothing(FALSE)
    [] OTHER -> [ok |-> TRUE, elems |-> [i \in DOMAIN es.at |-> ElementValue(meta, raw(es.at[i]))]]

\* fillArraySetter: what a scan target holds, or the refusal of a truncated
\* array of several dimensions.
FillArraySetter(meta, elems) ==
  LET dims == ShrinkDimensions(meta.dims, Len(elems)) IN
  CASE elems = <<>> -> [ok |-> TRUE, dims |-> <<>>, elems |-> <<>>]
    [] elems # <<>> /\ Len(meta.dims) > 1 /\ Len(elems) # AllElementsCount(meta.dims) ->
         [ok |-> FALSE, dims |-> <<>>, elems |-> <<>>]
    [] OTHER -> LET at == PresentIndexes(meta.dims, dims) IN
         [ok |-> TRUE, dims |-> dims, elems |-> [i \in DOMAIN at |-> elems[at[i] + 1]]]

-----------------------------------------------------------------------------
(* The slice descriptor.                                                   *)

Tags == [tiny |-> 9, short |-> 10, long |-> 11, do1 |-> 35, do2 |-> 34]
Byte(v, k) == (v \div (256 ^ k)) % 256

\* A bound in the smallest form that holds it, little end first.
AppendDimensionBound(v) ==
  IF v \in -128 .. 127 THEN <<Tags.tiny, Byte(v, 0)>>
  ELSE IF v \in -32768 .. 32767 THEN <<Tags.short, Byte(v, 0), Byte(v, 1)>>
  ELSE <<Tags.long, Byte(v, 0), Byte(v, 1), Byte(v, 2), Byte(v, 3)>>

\* generateSDL: the element's type with its scale or length, then each axis.
\* The names of the relation and the field, one of each, are left out.
GenerateSDL(meta, forGet) ==
  LET head == CASE meta.type \in Scaled -> <<Byte(meta.scale, 0)>>
                [] meta.type \in Texts  ->
                     LET n == IF forGet THEN meta.bytes ELSE meta.length IN <<n % 256, n \div 256>>
                [] OTHER -> <<>>
      axis(i) == LET d == meta.dims[i] IN
        (IF d.low = 1 THEN <<Tags.do1, i - 1>>
                      ELSE <<Tags.do2, i - 1>> \o AppendDimensionBound(d.low))
        \o AppendDimensionBound(d.low + d.len - 1) IN
  [type |-> meta.type, head |-> head, loops |-> FlattenSeq([i \in DOMAIN meta.dims |-> axis(i)])]

-----------------------------------------------------------------------------
(* The server.                                                             *)

Signed(b) ==
  LET n == Len(b)
      low == FoldLeft(LAMBDA s, k : s + b[k] * (256 ^ (k - 1)), 0, [k \in 1 .. n - 1 |-> k]) IN
  low + (IF b[n] > 127 THEN b[n] - 256 ELSE b[n]) * (256 ^ (n - 1))

Width(tag) == CASE tag = Tags.tiny -> 1 [] tag = Tags.short -> 2 [] tag = Tags.long -> 4

\* The descriptor as the server's parser reads it: the size or the scale of an
\* element and the bounds of each axis.
ParseSDL(sdl) ==
  LET bound(p) == [val |-> Signed(SubSeq(sdl.loops, p + 1, p + Width(sdl.loops[p]))),
                   next |-> p + 1 + Width(sdl.loops[p])]
      axis(st) ==
        LET low == IF sdl.loops[st.pos] = Tags.do1 THEN [val |-> 1, next |-> st.pos + 2]
                                                   ELSE bound(st.pos + 2)
            up  == bound(low.next) IN
        [pos |-> up.next, dims |-> Append(st.dims, [low |-> low.val, len |-> up.val - low.val + 1])]
      axes == FoldLeft(LAMBDA st, i : IF st.pos > Len(sdl.loops) THEN st ELSE axis(st),
                       [pos |-> 1, dims |-> <<>>], [i \in 1 .. 16 |-> i]) IN
  [dims |-> axes.dims,
   size |-> CASE sdl.type \in Texts  -> sdl.head[1] + 256 * sdl.head[2]
              [] sdl.type \in Scaled -> Signed(sdl.head)
              [] OTHER               -> 0]

\* The bytes of one element as xdr_datum reads and writes it.
Datum(type) == CASE type \in Fixed4 \union {"BOOLEAN"} -> 4
                 [] type \in Fixed8 \union {"DEC64", "TIME_TZ"} -> 8
                 [] type = "TIMESTAMP_TZ" -> 12
                 [] type \in {"DEC128", "INT128"} -> 16

\* A CHAR is kept in as many bytes as the column's character set may need.
Slot(meta, s) == IF ToSet(s) \subseteq {0} THEN Zeros(meta.bytes)
                 ELSE s \o [i \in 1 .. meta.bytes - Len(s) |-> Space]

\* op_put_slice: the cells stored and where the next request begins.
Store(meta, put) ==
  LET count == put.length \div Stride(meta)
      one(st) ==
        LET n == CASE meta.type = "VARYING" -> IF st.pos + 3 <= Len(put.wire) THEN WordAt(put.wire, st.pos) ELSE 0
                   [] meta.type = "TEXT" -> meta.length
                   [] OTHER -> Datum(meta.type)
            p == IF meta.type = "VARYING" THEN st.pos + 4 ELSE st.pos
            b == SubSeq(put.wire, p, p + n - 1) IN
        [pos |-> p + RoundUp4(n),
         cells |-> Append(st.cells, IF meta.type = "TEXT" THEN Slot(meta, b) ELSE b)] IN
  FoldLeft(LAMBDA st, i : one(st), [pos |-> 1, cells |-> <<>>], [i \in 1 .. count |-> i])

\* op_slice: the first n cells.
Slice(meta, cells, n) ==
  [length |-> n * GetStride(meta),
   wire |-> FlattenSeq([i \in 1 .. n |-> IF meta.type = "VARYING" THEN Word(Len(cells[i])) \o Xdr(cells[i])
                                                           ELSE Xdr(cells[i])])]
=============================================================================
