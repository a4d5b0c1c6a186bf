--------------------------- MODULE FbWire_proofs ---------------------------
(***************************************************************************)
(* What every operation of FbWire preserves, whoever calls it: its types,  *)
(* and the agreement of positions and requests (StreamAligned).            *)
(***************************************************************************)
EXTENDS FbWire, TLAPS

\* A new socket starts out aligned.
LEMMA WireInitInv == WireInit => WireInv
<1> SUFFICES ASSUME WireInit PROVE WireInv
  OBVIOUS
<1>1. WireTypeOK
  <2>1. pend \in Seq(Request) /\ expect \in Seq(Ops)  BY DEF WireInit
  <2>2. lazy \in Nat /\ reply \in Nat  BY DEF WireInit
  <2>3. /\ skipped \in BOOLEAN /\ torn \in BOOLEAN
        /\ lost \in BOOLEAN /\ misread \in BOOLEAN
    BY DEF WireInit
  <2>4. /\ armed \in Deadline /\ writer \in {"ok", "sticky"}
        /\ sock \in {"up", "dead"} /\ res \in Outcome
    BY DEF WireInit, Deadline, Outcome
  <2> QED  BY <2>1, <2>2, <2>3, <2>4 DEF WireTypeOK
<1>2. Len(expect) = 0 /\ Len(pend) = 0 /\ lazy = 0 /\ torn = FALSE
  BY DEF WireInit
<1>3. Aligned
  BY <1>2 DEF Aligned
<1>4. TimeoutLost
  BY DEF WireInit, TimeoutLost
<1> QED  BY <1>1, <1>3, <1>4 DEF WireInv, StreamAligned

LEMMA WireResetInv == WireReset => WireInv'
<1> SUFFICES ASSUME WireReset PROVE WireInv'
  OBVIOUS
<1>1. WireTypeOK'
  <2>1. pend' \in Seq(Request) /\ expect' \in Seq(Ops)  BY DEF WireReset
  <2>2. lazy' \in Nat /\ reply' \in Nat  BY DEF WireReset
  <2>3. /\ skipped' \in BOOLEAN /\ torn' \in BOOLEAN
        /\ lost' \in BOOLEAN /\ misread' \in BOOLEAN
    BY DEF WireReset
  <2>4. /\ armed' \in Deadline /\ writer' \in {"ok", "sticky"}
        /\ sock' \in {"up", "dead"} /\ res' \in Outcome
    BY DEF WireReset, Deadline, Outcome
  <2> QED  BY <2>1, <2>2, <2>3, <2>4 DEF WireTypeOK
<1>2. Len(expect') = 0 /\ Len(pend') = 0 /\ lazy' = 0 /\ torn' = FALSE
  BY DEF WireReset
<1>3. Aligned'
  BY <1>2 DEF Aligned
<1>4. TimeoutLost'
  BY DEF WireReset, TimeoutLost
<1> QED  BY <1>1, <1>3, <1>4 DEF WireInv, StreamAligned

LEMMA WireStutter == WireInv /\ UNCHANGED wireVars => WireInv'
  BY DEF wireVars, WireInv, WireTypeOK, StreamAligned, Aligned, TimeoutLost

LEMMA SetDeadlineInv ==
  ASSUME WireInv, NEW d \in Deadline, SetDeadline(d)
  PROVE  WireInv'
  BY DEF SetDeadline, WireInv, WireTypeOK, StreamAligned, Aligned, TimeoutLost

LEMMA WatcherCancelInv == WireInv /\ WatcherCancel => WireInv'
  BY DEF WatcherCancel, CancelWritten, WireInv, WireTypeOK, StreamAligned, Aligned,
         TimeoutLost

-----------------------------------------------------------------------------
(***************************************************************************)
(* Writing.                                                                *)
(***************************************************************************)
LEMMA Appended ==
  ASSUME NEW s \in Seq(Request), NEW t \in Seq(Request)
  PROVE  /\ s \o t \in Seq(Request)
         /\ Len(s \o t) = Len(s) + Len(t)
         /\ \A i \in 1..Len(s) : (s \o t)[i] = s[i]
         /\ \A i \in 1..Len(t) : (s \o t)[Len(s) + i] = t[i]
<1>1. s \o t \in Seq(Request) /\ Len(s \o t) = Len(s) + Len(t)  OBVIOUS
<1>2. ASSUME NEW i \in 1..Len(s) PROVE (s \o t)[i] = s[i]  OBVIOUS
<1>3. ASSUME NEW i \in 1..Len(t) PROVE (s \o t)[Len(s) + i] = t[i]  OBVIOUS
<1> QED  BY <1>1, <1>2, <1>3

LEMMA WriteType ==
  ASSUME WireTypeOK, NEW rs \in Seq(Request), NEW awaited \in Seq(Ops),
         NEW counted \in Int, NEW d \in Deadline, NEW checked \in BOOLEAN,
         lazy + counted \in Nat,
         Write(rs, awaited, counted, d, checked)
  PROVE  WireTypeOK'
<1>1. pend' \in Seq(Request)
  <2>1. pend' = pend \/ pend' = pend \o rs  BY DEF Write
  <2>2. pend \in Seq(Request)  BY DEF WireTypeOK
  <2>3. pend \o rs \in Seq(Request)  BY <2>2
  <2> QED  BY <2>1, <2>2, <2>3
<1>2. lazy' \in Nat /\ expect' \in Seq(Ops) /\ armed' \in Deadline
  BY DEF Write, WireTypeOK
<1>3. /\ skipped' \in BOOLEAN /\ writer' \in {"ok", "sticky"}
      /\ sock' \in {"up", "dead"} /\ torn' \in BOOLEAN
      /\ reply' \in Nat /\ lost' \in BOOLEAN /\ misread' \in BOOLEAN
  BY DEF Write, WireTypeOK
<1>4. res' \in Outcome
  BY DEF Write, Outcome
<1> QED  BY <1>1, <1>2, <1>3, <1>4 DEF WireTypeOK

\* Every other write answers for what it appends: counted responses first, then
\* the awaited ones.
LEMMA WriteInv ==
  ASSUME WireInv, NEW rs \in Seq(Request), NEW awaited \in Seq(Ops),
         NEW counted \in Nat, NEW d \in Deadline, NEW checked \in BOOLEAN,
         counted = 0 \/ awaited = <<>>,
         Len(rs) = counted + Len(awaited),
         \A i \in 1..counted : rs[i].op \in Uncollected,
         \A i \in 1..Len(awaited) : rs[i].op = awaited[i],
         Write(rs, awaited, counted, d, checked)
  PROVE  WireInv'
<1>1. WireTypeOK /\ StreamAligned /\ TimeoutLost  BY DEF WireInv
<1>2. WireTypeOK'
  <2>1. lazy + counted \in Nat  BY <1>1 DEF WireTypeOK
  <2> QED  BY <1>1, <2>1, WriteType
<1>3. TimeoutLost'  BY <1>1 DEF Write, TimeoutLost
<1>4. CASE writer = "sticky" /\ checked
  BY <1>1, <1>2, <1>3, <1>4 DEF Write, WireInv, StreamAligned, Aligned
<1>5. CASE ~(writer = "sticky" /\ checked)
  <2>1. CASE writer = "ok" /\ CanWrite
    <3> SUFFICES ASSUME ~lost', ~misread' PROVE Aligned'
      BY <1>2, <1>3 DEF WireInv, StreamAligned
    <3>1. /\ expect = <<>> /\ expect' = awaited
          /\ lazy' = lazy + counted /\ pend' = pend \o rs
          /\ UNCHANGED <<torn, misread, lost>>
      BY <1>5, <2>1 DEF Write
    <3>2. Aligned  BY <1>1, <3>1 DEF StreamAligned
    <3>3. pend \in Seq(Request) /\ lazy \in Nat /\ Len(pend) = lazy /\ ~torn
      BY <1>1, <3>1, <3>2 DEF Aligned, WireTypeOK
    <3>a. /\ Len(pend') = lazy + Len(rs)
          /\ \A i \in 1..lazy : pend'[i] = pend[i]
          /\ \A i \in 1..Len(rs) : pend'[lazy + i] = rs[i]
      BY <3>1, <3>3, Appended
    <3>4. Len(pend') = lazy' + Len(expect')  BY <3>1, <3>3, <3>a
    <3>5. ASSUME NEW i \in 1..lazy' PROVE pend'[i].op \in Uncollected
      <4>1. CASE i <= lazy
        BY <3>2, <3>3, <3>a, <4>1 DEF Aligned
      <4>2. CASE i > lazy
        <5>1. i - lazy \in 1..counted /\ i - lazy \in 1..Len(rs)
          BY <3>1, <3>3, <4>2
        <5>2. pend'[lazy + (i - lazy)] = rs[i - lazy]  BY <3>a, <5>1
        <5>3. lazy + (i - lazy) = i  BY <3>3
        <5> QED  BY <5>1, <5>2, <5>3
      <4> QED  BY <3>3, <4>1, <4>2
    <3>6. ASSUME NEW i \in 1..Len(expect') PROVE pend'[lazy' + i].op = expect'[i]
      <4>1. counted = 0 /\ lazy' = lazy  BY <3>1, <3>3
      <4>2. pend'[lazy' + i] = rs[i]  BY <3>1, <3>3, <4>1
      <4> QED  BY <3>1, <4>2
    <3> QED  BY <3>1, <3>3, <3>4, <3>5, <3>6 DEF Aligned
  <2>2. CASE ~(writer = "ok" /\ CanWrite)
    BY <1>2, <1>3, <1>5, <2>2 DEF Write, WireInv, StreamAligned
  <2> QED  BY <2>1, <2>2
<1> QED  BY <1>4, <1>5

LEMMA AskedRequest ==
  ASSUME NEW op \in Ops, NEW h \in Nat, NEW w \in Nat
  PROVE  Asked(op, h, w) \in Request /\ Asked(op, h, w).op = op
  BY DEF Asked, Request, Status

LEMMA AskInv ==
  ASSUME WireInv, NEW op \in Ops, NEW h \in Nat, NEW w \in Nat,
         NEW d \in Deadline, Ask(op, h, w, d)
  PROVE  WireInv'
<1> DEFINE rs == <<Asked(op, h, w)>>
           awaited == <<op>>
<1>1. rs \in Seq(Request) /\ Len(rs) = 1 /\ rs[1].op = op  BY AskedRequest
<1>2. awaited \in Seq(Ops) /\ Len(awaited) = 1 /\ awaited[1] = op  OBVIOUS
<1>3. Write(rs, awaited, 0, d, TRUE)  BY DEF Ask
<1> HIDE DEF rs, awaited
<1>4. Len(rs) = 0 + Len(awaited)  BY <1>1, <1>2
<1>5. \A i \in 1..0 : rs[i].op \in Uncollected  OBVIOUS
<1>6. \A i \in 1..Len(awaited) : rs[i].op = awaited[i]  BY <1>1, <1>2
<1> QED  BY <1>1, <1>2, <1>3, <1>4, <1>5, <1>6, WriteInv

LEMMA AskBlindlyInv ==
  ASSUME WireInv, NEW op \in Ops, NEW h \in Nat, AskBlindly(op, h)
  PROVE  WireInv'
<1> DEFINE rs == <<Asked(op, h, 0)>>
           awaited == <<op>>
<1>1. rs \in Seq(Request) /\ Len(rs) = 1 /\ rs[1].op = op  BY AskedRequest
<1>2. awaited \in Seq(Ops) /\ Len(awaited) = 1 /\ awaited[1] = op  OBVIOUS
<1>3. Write(rs, awaited, 0, armed, FALSE) /\ armed \in Deadline
  BY DEF AskBlindly, WireInv, WireTypeOK
<1> HIDE DEF rs, awaited
<1>4. Len(rs) = 0 + Len(awaited)  BY <1>1, <1>2
<1>5. \A i \in 1..0 : rs[i].op \in Uncollected  OBVIOUS
<1>6. \A i \in 1..Len(awaited) : rs[i].op = awaited[i]  BY <1>1, <1>2
<1> QED  BY <1>1, <1>2, <1>3, <1>4, <1>5, <1>6, WriteInv

LEMMA AskLazilyInv ==
  ASSUME WireInv, NEW op \in Uncollected, NEW checked \in BOOLEAN,
         AskLazily(op, checked)
  PROVE  WireInv'
<1> DEFINE rs == <<Asked(op, 0, 0)>>
           awaited == <<>>
<1>0. op \in Ops  BY DEF Uncollected, Ops
<1>1. rs \in Seq(Request) /\ Len(rs) = 1 /\ rs[1].op = op  BY <1>0, AskedRequest
<1>2. awaited \in Seq(Ops) /\ Len(awaited) = 0 /\ awaited = <<>>  OBVIOUS
<1>3. Write(rs, awaited, 1, armed, checked) /\ armed \in Deadline
  BY DEF AskLazily, WireInv, WireTypeOK
<1> HIDE DEF rs, awaited
<1>4. Len(rs) = 1 + Len(awaited)  BY <1>1, <1>2
<1>5. \A i \in 1..1 : rs[i].op \in Uncollected  BY <1>1
<1>6. \A i \in 1..Len(awaited) : rs[i].op = awaited[i]  BY <1>2
<1> QED  BY <1>1, <1>2, <1>3, <1>4, <1>5, <1>6, WriteInv

LEMMA AskTwoInv ==
  ASSUME WireInv, NEW op \in Ops, NEW w \in Nat, NEW second \in Ops,
         AskTwo(op, w, second)
  PROVE  WireInv'
<1>1. CASE writer = "ok" /\ ~CanWrite
  <2>1. /\ expect = <<>> /\ res' = "unsent" /\ writer' = "sticky"
        /\ lost' = TRUE /\ skipped' = FALSE
        /\ UNCHANGED <<pend, lazy, expect, armed, sock, torn, reply, misread>>
    BY <1>1 DEF AskTwo
  <2>2. WireTypeOK'  BY <2>1 DEF WireInv, WireTypeOK, Outcome
  <2> QED  BY <2>1, <2>2 DEF WireInv, StreamAligned, TimeoutLost
<1>2. CASE ~(writer = "ok" /\ ~CanWrite)
  <2> DEFINE rs == <<Asked(op, 0, w), Asked(second, 0, 0)>>
             awaited == <<op, second>>
  <2>0. /\ Asked(op, 0, w) \in Request /\ Asked(op, 0, w).op = op
        /\ Asked(second, 0, 0) \in Request /\ Asked(second, 0, 0).op = second
    BY AskedRequest
  <2>1. rs \in Seq(Request) /\ Len(rs) = 2 /\ rs[1].op = op /\ rs[2].op = second
    BY <2>0
  <2>2. awaited \in Seq(Ops) /\ Len(awaited) = 2 /\ awaited[1] = op /\ awaited[2] = second
    OBVIOUS
  <2>3. Write(rs, awaited, 0, armed, TRUE) /\ armed \in Deadline
    BY <1>2 DEF AskTwo, WireInv, WireTypeOK
  <2> HIDE DEF rs, awaited
  <2>4. Len(rs) = 0 + Len(awaited)  BY <2>1, <2>2
  <2>5. \A i \in 1..0 : rs[i].op \in Uncollected  OBVIOUS
  <2>6. \A i \in 1..Len(awaited) : rs[i].op = awaited[i]
    <3> TAKE i \in 1..Len(awaited)
    <3>1. i = 1 \/ i = 2  BY <2>2
    <3> QED  BY <2>1, <2>2, <3>1
  <2> QED  BY <2>1, <2>2, <2>3, <2>4, <2>5, <2>6, WriteInv
<1> QED  BY <1>1, <1>2

\* The counted response taken back is the youngest, so it is the first of the
\* two awaited.
LEMMA AskReclaimingInv ==
  ASSUME WireInv, NEW earlier \in Ops, NEW op \in Ops, NEW h \in Nat,
         AskReclaiming(earlier, op, h),
         lost \/ misread \/ (pend # <<>> /\ pend[Len(pend)].op = earlier)
  PROVE  WireInv'
<1> DEFINE rs == <<Asked(op, h, 0)>>
           awaited == <<earlier, op>>
           counted == 0 - 1
<1>0. counted \in Int /\ counted = -1  OBVIOUS
<1>1. rs \in Seq(Request) /\ Len(rs) = 1 /\ rs[1].op = op  BY AskedRequest
<1>2. /\ awaited \in Seq(Ops) /\ Len(awaited) = 2
      /\ awaited[1] = earlier /\ awaited[2] = op
  OBVIOUS
<1>3. Write(rs, awaited, counted, armed, TRUE) /\ lazy > 0  BY DEF AskReclaiming
<1> HIDE DEF rs, awaited, counted
<1>4. /\ WireTypeOK /\ StreamAligned /\ TimeoutLost
      /\ lazy \in Nat /\ armed \in Deadline /\ pend \in Seq(Request)
  BY DEF WireInv, WireTypeOK
<1>5. WireTypeOK'
  <2>1. lazy + counted \in Nat  BY <1>0, <1>3, <1>4
  <2> QED  BY <1>0, <1>1, <1>2, <1>3, <1>4, <2>1, WriteType
<1>6. TimeoutLost'  BY <1>3, <1>4 DEF Write, TimeoutLost
<1>7. CASE writer = "sticky"
  BY <1>3, <1>4, <1>5, <1>6, <1>7 DEF Write, WireInv, StreamAligned, Aligned
<1>8. CASE writer # "sticky" /\ ~(writer = "ok" /\ CanWrite)
  BY <1>3, <1>5, <1>6, <1>8 DEF Write, WireInv, StreamAligned
<1>9. CASE writer = "ok" /\ CanWrite
  <2> SUFFICES ASSUME ~lost', ~misread' PROVE Aligned'
    BY <1>5, <1>6 DEF WireInv, StreamAligned
  <2>1. /\ expect = <<>> /\ expect' = awaited
        /\ lazy' = lazy + counted /\ pend' = pend \o rs
        /\ UNCHANGED <<torn, misread, lost>>
    BY <1>3, <1>9 DEF Write
  <2>0. lazy' = lazy - 1  BY <1>0, <1>4, <2>1
  <2>2. Aligned /\ pend[Len(pend)].op = earlier  BY <1>4, <2>1 DEF StreamAligned
  <2>3. /\ Len(pend) = lazy /\ ~torn
        /\ \A i \in 1..lazy : pend[i].op \in Uncollected
    BY <1>4, <2>1, <2>2 DEF Aligned
  <2>4. /\ Len(pend') = lazy + 1
        /\ \A i \in 1..lazy : pend'[i] = pend[i]
        /\ pend'[lazy + 1] = rs[1]
    <3>1. /\ Len(pend \o rs) = Len(pend) + Len(rs)
          /\ \A i \in 1..Len(pend) : (pend \o rs)[i] = pend[i]
          /\ \A i \in 1..Len(rs) : (pend \o rs)[Len(pend) + i] = rs[i]
      BY <1>1, <1>4, Appended
    <3>2. 1 \in 1..Len(rs)  BY <1>1
    <3> QED  BY <1>1, <2>1, <2>3, <3>1, <3>2
  <2>5. Len(pend') = lazy' + Len(expect')
    <3>1. Len(expect') = 2  BY <1>2, <2>1
    <3> QED  BY <1>4, <2>0, <2>4, <3>1
  <2>6. \A i \in 1..lazy' : pend'[i].op \in Uncollected
    BY <1>4, <2>0, <2>3, <2>4
  <2>7. pend'[lazy' + 1].op = earlier
    <3>1. lazy' + 1 = lazy /\ lazy \in 1..lazy  BY <1>3, <1>4, <2>0
    <3> QED  BY <2>2, <2>3, <2>4, <3>1
  <2>8. pend'[lazy' + 2].op = op
    <3>1. lazy' + 2 = lazy + 1  BY <1>4, <2>0
    <3> QED  BY <1>1, <2>4, <3>1
  <2>9. \A i \in 1..Len(expect') : pend'[lazy' + i].op = expect'[i]
    <3>0. Len(expect') = 2  BY <1>2, <2>1
    <3>1. ASSUME NEW i \in 1..Len(expect') PROVE i = 1 \/ i = 2
      BY <3>0
    <3> QED  BY <1>2, <2>1, <2>7, <2>8, <3>1
  <2> QED  BY <2>1, <2>3, <2>5, <2>6, <2>9 DEF Aligned
<1> QED  BY <1>4, <1>7, <1>8, <1>9

-----------------------------------------------------------------------------
(***************************************************************************)
(* Reading.                                                                *)
(***************************************************************************)
LEMMA Shortened ==
  ASSUME NEW S, NEW s \in Seq(S), s # <<>>
  PROVE  /\ Head(s) \in S /\ Head(s) = s[1]
         /\ Tail(s) \in Seq(S) /\ Len(s) \in Nat \ {0} /\ Len(Tail(s)) = Len(s) - 1
         /\ \A i \in 1..Len(Tail(s)) : Tail(s)[i] = s[i + 1]
<1>1. /\ Head(s) \in S /\ Head(s) = s[1]
      /\ Tail(s) \in Seq(S) /\ Len(s) \in Nat \ {0} /\ Len(Tail(s)) = Len(s) - 1
  OBVIOUS
<1>2. ASSUME NEW i \in 1..Len(Tail(s)) PROVE Tail(s)[i] = s[i + 1]  OBVIOUS
<1> QED  BY <1>1, <1>2

\* A turn of the skip loop takes a counted response off the stream.
LEMMA RecvSkipInv == WireInv /\ RecvSkip => WireInv'
<1> SUFFICES ASSUME WireInv, RecvSkip PROVE WireInv'
  OBVIOUS
<1>1. /\ WireTypeOK /\ StreamAligned /\ TimeoutLost
      /\ lazy \in Nat /\ pend \in Seq(Request)
  BY DEF WireInv, WireTypeOK
<1>2. /\ pend # <<>> /\ lazy > 0
      /\ pend' = Tail(pend) /\ lazy' = lazy - 1 /\ skipped' = TRUE
      /\ UNCHANGED <<expect, armed, writer, sock, torn, res, reply, lost, misread>>
  BY DEF RecvSkip, ToSkip, Arrived
<1>3. /\ pend' \in Seq(Request) /\ Len(pend') = Len(pend) - 1 /\ Len(pend) \in Nat
      /\ \A i \in 1..Len(pend') : pend'[i] = pend[i + 1]
  BY <1>1, <1>2, Shortened
<1>4. WireTypeOK'
  <2>1. lazy' \in Nat  BY <1>1, <1>2
  <2> QED  BY <1>1, <1>2, <1>3, <2>1 DEF WireTypeOK
<1>5. TimeoutLost'  BY <1>1, <1>2 DEF TimeoutLost
<1>6. ASSUME Aligned PROVE Aligned'
  <2>1. /\ ~torn /\ Len(pend) = lazy + Len(expect)
        /\ \A i \in 1..lazy : pend[i].op \in Uncollected
        /\ \A i \in 1..Len(expect) : pend[lazy + i].op = expect[i]
    BY <1>6 DEF Aligned
  <2>2. Len(expect) \in Nat  BY <1>1 DEF WireTypeOK
  <2>3. Len(pend') = lazy' + Len(expect')  BY <1>1, <1>2, <1>3, <2>1, <2>2
  <2>4. \A i \in 1..lazy' : pend'[i].op \in Uncollected
    <3> TAKE i \in 1..lazy'
    <3>1. i \in 1..Len(pend') /\ i + 1 \in 1..lazy  BY <1>1, <1>2, <2>2, <2>3
    <3> QED  BY <1>3, <2>1, <3>1
  <2>5. \A i \in 1..Len(expect') : pend'[lazy' + i].op = expect'[i]
    <3> TAKE i \in 1..Len(expect')
    <3>1. /\ lazy' + i \in 1..Len(pend') /\ (lazy' + i) + 1 = lazy + i
          /\ i \in 1..Len(expect)
      BY <1>1, <1>2, <2>2, <2>3
    <3>2. pend'[lazy' + i] = pend[(lazy' + i) + 1]  BY <1>3, <3>1
    <3> QED  BY <1>2, <2>1, <3>1, <3>2
  <2> QED  BY <1>2, <2>1, <2>3, <2>4, <2>5 DEF Aligned
<1> QED  BY <1>1, <1>2, <1>4, <1>5, <1>6 DEF WireInv, StreamAligned

\* How a read leaves the driver's side.
LEMMA ReadEndsType ==
  ASSUME WireTypeOK, expect # <<>>, NEW o \in Outcome, ReadEnds(o)
  PROVE  /\ res' = o /\ res' \in Outcome /\ expect' \in Seq(Ops) /\ skipped' \in BOOLEAN
         /\ UNCHANGED <<lazy, armed, writer, sock>>
         /\ expect' = Tail(expect) \/ (o # "nil" /\ Head(expect) \in StopsAtError)
<1>1. expect \in Seq(Ops)  BY DEF WireTypeOK
<1>2. Tail(expect) \in Seq(Ops)  BY <1>1, Shortened
<1>3. expect' = Tail(expect) \/ (expect' = <<>> /\ o # "nil" /\ Head(expect) \in StopsAtError)
  BY DEF ReadEnds
<1>4. expect' \in Seq(Ops)
  <2>1. <<>> \in Seq(Ops)  OBVIOUS
  <2> QED  BY <1>2, <1>3, <2>1
<1> QED  BY <1>3, <1>4 DEF ReadEnds

\* A read given up marks the response lost.
LEMMA GiveUpInv ==
  ASSUME WireInv, NEW o \in Outcome, GiveUp(o)
  PROVE  WireInv'
<1>1. WireTypeOK /\ expect # <<>>  BY DEF WireInv, GiveUp
<1>2. PICK p \in Outcome : ReadEnds(p)
  BY DEF GiveUp, Outcome
<1>3. /\ res' \in Outcome /\ expect' \in Seq(Ops) /\ skipped' \in BOOLEAN
      /\ UNCHANGED <<lazy, armed, writer, sock>>
  BY <1>1, <1>2, ReadEndsType
<1>4. lost' = TRUE /\ UNCHANGED <<pend, reply, misread>> /\ torn' \in BOOLEAN
  BY <1>1 DEF GiveUp, WireTypeOK
<1>5. WireTypeOK'  BY <1>1, <1>3, <1>4 DEF WireTypeOK
<1> QED  BY <1>4, <1>5 DEF WireInv, StreamAligned, TimeoutLost

LEMMA RecvTimeoutInv == WireInv /\ RecvTimeout => WireInv'
  BY GiveUpInv DEF RecvTimeout, Outcome

LEMMA RecvGarbageInv == WireInv /\ RecvGarbage => WireInv'
  BY GiveUpInv DEF RecvGarbage, Outcome

LEMMA RecvMalformedInv == WireInv /\ RecvMalformed => WireInv'
<1> SUFFICES ASSUME WireInv, RecvMalformed PROVE WireInv'
  OBVIOUS
<1>1. WireTypeOK /\ expect # <<>> /\ pend # <<>> /\ ReadEnds("bad") /\ pend' = Tail(pend)
  BY DEF WireInv, RecvMalformed, Arrived
<1>2. /\ res' \in Outcome /\ expect' \in Seq(Ops) /\ skipped' \in BOOLEAN
      /\ UNCHANGED <<lazy, armed, writer, sock>>
  BY <1>1, ReadEndsType DEF Outcome
<1>3. pend' \in Seq(Request)
  <2>1. pend \in Seq(Request)  BY <1>1 DEF WireTypeOK
  <2> QED  BY <1>1, <2>1, Shortened
<1>4. lost' = TRUE /\ torn' = TRUE /\ reply' = 0  BY DEF RecvMalformed
<1>5. misread' \in BOOLEAN  BY <1>1 DEF RecvMalformed, WireTypeOK
<1>6. WireTypeOK'
  <2>1. reply' \in Nat  BY <1>4
  <2> QED  BY <1>1, <1>2, <1>3, <1>4, <1>5, <2>1 DEF WireTypeOK
<1> QED  BY <1>4, <1>6 DEF WireInv, StreamAligned, TimeoutLost

\* The reader that takes a packet for its own: if nothing was lost or misread
\* before, either the packet answers its request, or it is a counted response
\* and misread records it.
LEMMA RecvOwnInv == WireInv /\ RecvOwn => WireInv'
<1> SUFFICES ASSUME WireInv, RecvOwn PROVE WireInv'
  OBVIOUS
<1> DEFINE t == Head(pend)
           e == Head(expect)
           o == OutcomeOf(e, t)
<1>1. /\ WireTypeOK /\ StreamAligned /\ TimeoutLost
      /\ lazy \in Nat /\ pend \in Seq(Request) /\ expect \in Seq(Ops)
  BY DEF WireInv, WireTypeOK
<1>2. /\ expect # <<>> /\ pend # <<>> /\ Arrived /\ ~ToSkip
      /\ ReadEnds(o) /\ pend' = Tail(pend)
      /\ torn' = (Packet(t) \notin Parses(e))
      /\ misread' = (misread \/ t.op # e)
      /\ reply' = t.h
      /\ lost' = (lost \/ (o # "nil" /\ e \in StopsAtError))
  BY DEF RecvOwn, Arrived
<1>3. /\ t \in Request /\ t = pend[1] /\ pend' \in Seq(Request)
      /\ Len(pend) \in Nat \ {0} /\ Len(pend') = Len(pend) - 1
      /\ \A i \in 1..Len(pend') : pend'[i] = pend[i + 1]
  BY <1>1, <1>2, Shortened
<1>4. /\ e \in Ops /\ e = expect[1] /\ Len(expect) \in Nat \ {0}
      /\ Len(Tail(expect)) = Len(expect) - 1
      /\ \A i \in 1..Len(Tail(expect)) : Tail(expect)[i] = expect[i + 1]
  BY <1>1, <1>2, Shortened
<1>5. o \in {"other", "server", "nil"}  BY DEF OutcomeOf
<1>6. o \in Outcome  BY <1>5 DEF Outcome
<1> HIDE DEF o
<1>7. /\ res' = o /\ res' \in Outcome /\ expect' \in Seq(Ops) /\ skipped' \in BOOLEAN
      /\ UNCHANGED <<lazy, armed, writer, sock>>
      /\ expect' = Tail(expect) \/ (o # "nil" /\ e \in StopsAtError)
  BY <1>1, <1>2, <1>6, ReadEndsType
<1>8. t.h \in Nat  BY <1>3 DEF Request
<1> HIDE DEF t, e
<1>9. WireTypeOK'
  <2>1. torn' \in BOOLEAN /\ misread' \in BOOLEAN /\ lost' \in BOOLEAN
    BY <1>2
  <2>2. reply' \in Nat  BY <1>2, <1>8
  <2> QED  BY <1>1, <1>3, <1>7, <2>1, <2>2 DEF WireTypeOK
<1>10. TimeoutLost'  BY <1>5, <1>7 DEF TimeoutLost
<1>11. ASSUME ~lost', ~misread' PROVE Aligned'
  <2>1. ~lost /\ ~misread /\ t.op = e /\ expect' = Tail(expect)
    BY <1>2, <1>7, <1>11
  <2>2. /\ ~torn /\ Len(pend) = lazy + Len(expect)
        /\ \A i \in 1..lazy : pend[i].op \in Uncollected
        /\ \A i \in 1..Len(expect) : pend[lazy + i].op = expect[i]
    BY <1>1, <2>1 DEF StreamAligned, Aligned
  <2>3. lazy = 0
    <3> SUFFICES ASSUME lazy > 0 PROVE FALSE
      BY <1>1
    <3>1. t.op \in Uncollected  BY <1>1, <1>3, <2>2
    <3>2. Packet(t) = "response" /\ Skips(e)
      BY <2>1, <3>1 DEF Packet, Uncollected, Typed, Skips
    <3> QED  BY <1>2, <3>2 DEF ToSkip, t, e
  <2>4. torn' = FALSE
    <3>1. Packet(t) \in Parses(e)  BY <2>1 DEF Packet, Parses, Typed
    <3> QED  BY <1>2, <3>1
  <2>5. Len(pend') = lazy' + Len(expect')
    BY <1>3, <1>4, <1>7, <2>1, <2>2, <2>3
  <2>6. \A i \in 1..lazy' : pend'[i].op \in Uncollected  BY <1>7, <2>3
  <2>7. \A i \in 1..Len(expect') : pend'[lazy' + i].op = expect'[i]
    <3> TAKE i \in 1..Len(expect')
    <3>1. lazy' + i = i /\ i \in 1..Len(pend') /\ i \in 1..Len(Tail(expect))
      BY <1>3, <1>4, <1>7, <2>1, <2>2, <2>3
    <3>2. pend'[i] = pend[i + 1] /\ expect'[i] = expect[i + 1]
      BY <1>3, <1>4, <2>1, <3>1
    <3>3. i + 1 \in 1..Len(expect) /\ lazy + (i + 1) = i + 1
      BY <1>4, <2>3, <3>1
    <3>4. pend[i + 1].op = expect[i + 1]  BY <2>2, <3>3
    <3> QED  BY <3>1, <3>2, <3>4
  <2> QED  BY <2>4, <2>5, <2>6, <2>7 DEF Aligned
<1> QED  BY <1>9, <1>10, <1>11 DEF WireInv, StreamAligned

-----------------------------------------------------------------------------
(***************************************************************************)
(* Giving up, the failure of the socket, the server.                       *)
(***************************************************************************)
LEMMA CancelAndDrainInv ==
  ASSUME WireInv, res = "timeout", NEW op \in Ops, CancelAndDrain(op)
  PROVE  WireInv'
<1>1. /\ expect' = <<op>> /\ armed' = "fixed" /\ skipped' = FALSE
      /\ writer' \in {writer, "sticky"}
      /\ UNCHANGED <<pend, lazy, sock, torn, res, reply, lost, misread>>
  BY DEF CancelAndDrain
<1>2. WireTypeOK /\ lost = TRUE  BY DEF WireInv, TimeoutLost, WireTypeOK
<1>3. expect' \in Seq(Ops)
  <2>1. <<op>> \in Seq(Ops)  OBVIOUS
  <2> QED  BY <1>1, <2>1
<1>4. WireTypeOK'  BY <1>1, <1>2, <1>3 DEF WireTypeOK, Deadline
<1> QED  BY <1>1, <1>2, <1>4 DEF WireInv, StreamAligned, TimeoutLost

LEMMA SocketDiesInv == WireInv /\ SocketDies => WireInv'
<1> SUFFICES ASSUME WireInv, SocketDies PROVE WireInv'
  OBVIOUS
<1>1. WireTypeOK /\ pend \in Seq(Request)  BY DEF WireInv, WireTypeOK
<1>2. PICK n \in 0..Len(pend) : pend' = SubSeq(pend, 1, n)
  BY DEF SocketDies
<1>3. pend' \in Seq(Request)  BY <1>1, <1>2
<1>4. /\ sock' = "dead" /\ lost' = TRUE
      /\ UNCHANGED <<lazy, expect, skipped, armed, writer, torn, res, reply, misread>>
  BY DEF SocketDies
<1>5. WireTypeOK'  BY <1>1, <1>3, <1>4 DEF WireTypeOK
<1> QED  BY <1>4, <1>5 DEF WireInv, StreamAligned, TimeoutLost

\* An answer fills in a packet and moves none.
LEMMA AnswerInv ==
  ASSUME WireInv, NEW i \in 1..Len(pend), NEW st \in Status, NEW h \in Nat,
         Answer(i, st, h)
  PROVE  /\ WireInv' /\ Len(pend') = Len(pend)
         /\ \A j \in 1..Len(pend) : /\ pend'[j].op = pend[j].op
                                    /\ pend'[j].w = pend[j].w
<1>1. WireTypeOK /\ StreamAligned /\ TimeoutLost /\ pend \in Seq(Request)
  BY DEF WireInv, WireTypeOK
<1>2. /\ pend' = [pend EXCEPT ![i].st = st, ![i].h = h]
      /\ UNCHANGED <<lazy, expect, skipped, armed, writer, sock, torn, res, reply,
                     lost, misread>>
  BY DEF Answer
<1>3. pend[i] \in Request  BY <1>1
<1> DEFINE new == [pend[i] EXCEPT !.st = st, !.h = h]
<1>4. new \in Request /\ new.op = pend[i].op /\ new.w = pend[i].w
  BY <1>3 DEF Request
<1>5. pend' = [pend EXCEPT ![i] = new]  BY <1>1, <1>2
<1> HIDE DEF new
<1>6. pend' \in Seq(Request) /\ Len(pend') = Len(pend)  BY <1>1, <1>4, <1>5
<1>7. ASSUME NEW j \in 1..Len(pend)
      PROVE  pend'[j].op = pend[j].op /\ pend'[j].w = pend[j].w
  <2>1. CASE j = i
    <3>1. pend'[j] = new  BY <1>1, <1>5, <2>1
    <3> QED  BY <1>4, <2>1, <3>1
  <2>2. CASE j # i
    BY <1>1, <1>5, <2>2
  <2> QED  BY <2>1, <2>2
<1>8. WireTypeOK'  BY <1>1, <1>2, <1>6 DEF WireTypeOK
<1>9. ASSUME Aligned PROVE Aligned'
  <2>1. /\ ~torn /\ Len(pend) = lazy + Len(expect)
        /\ \A j \in 1..lazy : pend[j].op \in Uncollected
        /\ \A j \in 1..Len(expect) : pend[lazy + j].op = expect[j]
    BY <1>9 DEF Aligned
  <2>2. lazy \in Nat /\ Len(expect) \in Nat  BY <1>1 DEF WireTypeOK
  <2>3. \A j \in 1..lazy : pend'[j].op \in Uncollected
    <3> TAKE j \in 1..lazy
    <3>1. j \in 1..Len(pend)  BY <2>1, <2>2
    <3> QED  BY <1>7, <2>1, <3>1
  <2>4. \A j \in 1..Len(expect) : pend'[lazy + j].op = expect[j]
    <3> TAKE j \in 1..Len(expect)
    <3>1. lazy + j \in 1..Len(pend)  BY <2>1, <2>2
    <3> QED  BY <1>7, <2>1, <3>1
  <2> QED  BY <1>2, <1>6, <2>1, <2>3, <2>4 DEF Aligned
<1> QED  BY <1>1, <1>2, <1>6, <1>7, <1>8, <1>9 DEF WireInv, StreamAligned, TimeoutLost
=============================================================================
