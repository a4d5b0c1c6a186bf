------------------------ MODULE PreparedBatch_proofs ------------------------
(***************************************************************************)
(* Theorems about a PreparedBatch, for any number of rows and calls, any   *)
(* size at which Add flushes, and every combination of faults.             *)
(***************************************************************************)
EXTENDS PreparedBatch, FbWire_proofs, FiniteSetTheorems

\* Each row is in one place of the driver: the queue, a message, or the hands of
\* an Add that flushes; and no row that Add has yet to give out is in any.
Spread ==
  /\ \A i, j \in 1..Len(queue) : queue[i] = queue[j] => i = j
  /\ \A f \in 1..Len(flushes) : \A i, j \in 1..Len(flushes[f]) :
       flushes[f][i] = flushes[f][j] => i = j
  /\ \A f, g \in 1..Len(flushes) : \A i \in 1..Len(flushes[f]), j \in 1..Len(flushes[g]) :
       flushes[f][i] = flushes[g][j] => f = g
  /\ \A f \in 1..Len(flushes) : \A i \in 1..Len(flushes[f]) :
       /\ flushes[f][i] <= added /\ flushes[f][i] # adding
       /\ \A k \in 1..Len(queue) : queue[k] # flushes[f][i]
  /\ \A k \in 1..Len(queue) : queue[k] <= added /\ queue[k] # adding

\* The message of a flush is sent once.
Message(i) == pend[i].op = "batch_msg"
Sent ==
  /\ \A i \in 1..Len(pend) : Message(i) => pend[i].w \in 1..Len(flushes)
  /\ \A i, j \in 1..Len(pend) : Message(i) /\ Message(j) /\ pend[i].w = pend[j].w => i = j

\* The server has yet to see the message of flush f.
Under(f) == \E i \in 1..Len(pend) : Message(i) /\ pend[i].st = "asked" /\ pend[i].w = f

\* What the server holds of a row, it has from one message.
Held(r) == batch.rows[r] + tx.rows[r] + applied[r]
From(f, r) == \E i \in 1..Len(flushes[f]) : flushes[f][i] = r
Stored ==
  \A r \in Rows :
    /\ Held(r) <= 1
    /\ Held(r) > 0 => \E f \in 1..Len(flushes) : From(f, r) /\ ~Under(f)

IInv == TypeOK /\ WireInv /\ Spread /\ Sent /\ Stored

-----------------------------------------------------------------------------
(* The wire: what a step may do to the messages on their way.              *)

\* Every message there is afterwards was there before, in the same order.
Moved ==
  \E k \in Nat : \A i \in 1..Len(pend') :
    pend'[i].op = "batch_msg" => i + k \in 1..Len(pend) /\ pend'[i] = pend[i + k]

Other == Ops \ {"batch_msg"}

\* What the driver does on the wire but for the message and the server's answers.
WireStep ==
  \/ UNCHANGED wireVars
  \/ \E d \in Deadline : SetDeadline(d)
  \/ \E op \in Other, h \in {0, 1}, d \in Deadline : Ask(op, h, 0, d)
  \/ \E op \in Other, second \in Other : AskTwo(op, 0, second)
  \/ AskLazily("free", TRUE)
  \/ WatcherCancel \/ SocketDies
  \/ RecvSkip \/ RecvOwn \/ RecvMalformed \/ RecvTimeout \/ RecvGarbage

LEMMA MovedSent ==
  ASSUME Sent, Moved, flushes' = flushes
  PROVE  Sent' /\ \A f : Under(f)' => Under(f)
<1>1. PICK k \in Nat : \A i \in 1..Len(pend') :
        pend'[i].op = "batch_msg" => i + k \in 1..Len(pend) /\ pend'[i] = pend[i + k]
  BY DEF Moved
<1>2. Sent'
  <2>1. ASSUME NEW i \in 1..Len(pend'), Message(i)' PROVE pend'[i].w \in 1..Len(flushes')
    BY <1>1, <2>1 DEF Sent, Message
  <2>2. ASSUME NEW i \in 1..Len(pend'), NEW j \in 1..Len(pend'), Message(i)', Message(j)',
               pend'[i].w = pend'[j].w
        PROVE  i = j
    <3>1. i + k \in 1..Len(pend) /\ pend'[i] = pend[i + k] /\ Message(i + k)
      BY <1>1, <2>2 DEF Message
    <3>2. j + k \in 1..Len(pend) /\ pend'[j] = pend[j + k] /\ Message(j + k)
      BY <1>1, <2>2 DEF Message
    <3>3. i + k = j + k
      BY <2>2, <3>1, <3>2 DEF Sent
    <3> QED
      BY <3>3
  <2> QED
    BY <2>1, <2>2 DEF Sent
<1>3. ASSUME NEW f, Under(f)' PROVE Under(f)
  BY <1>1, <1>3 DEF Under, Message
<1> QED
  BY <1>2, <1>3

LEMMA WriteMoves ==
  ASSUME WireTypeOK, NEW rs \in Seq(Request), \A i \in 1..Len(rs) : rs[i].op # "batch_msg",
         NEW awaited, NEW counted, NEW d, NEW checked,
         Write(rs, awaited, counted, d, checked)
  PROVE  Moved
<1>1. pend \in Seq(Request)
  BY DEF WireTypeOK
<1>2. CASE pend' = pend
  BY <1>2 DEF Moved
<1>3. CASE pend' = pend \o rs
  <2>1. /\ Len(pend') = Len(pend) + Len(rs) /\ Len(pend) \in Nat /\ Len(rs) \in Nat
        /\ \A i \in 1..Len(pend) : pend'[i] = pend[i]
        /\ \A i \in 1..Len(rs) : pend'[Len(pend) + i] = rs[i]
    BY <1>1, <1>3, Appended
  <2>2. ASSUME NEW i \in 1..Len(pend'), pend'[i].op = "batch_msg"
        PROVE  i + 0 \in 1..Len(pend) /\ pend'[i] = pend[i + 0]
    <3>1. CASE i \in 1..Len(pend)
      BY <2>1, <3>1
    <3>2. CASE i \notin 1..Len(pend)
      <4>1. i - Len(pend) \in 1..Len(rs) /\ i = Len(pend) + (i - Len(pend))
        BY <2>1, <3>2
      <4> QED
        BY <2>1, <2>2, <4>1
    <3> QED
      BY <3>1, <3>2
  <2> QED
    BY <2>2 DEF Moved
<1> QED
  BY <1>2, <1>3 DEF Write

LEMMA TailMoves ==
  ASSUME WireTypeOK, pend # <<>>, pend' = Tail(pend)
  PROVE  Moved
<1>1. /\ Len(pend) \in Nat \ {0} /\ Len(pend') = Len(pend) - 1
      /\ \A i \in 1..Len(pend') : pend'[i] = pend[i + 1]
  BY Shortened DEF WireTypeOK
<1>2. \A i \in 1..Len(pend') : i + 1 \in 1..Len(pend) /\ pend'[i] = pend[i + 1]
  BY <1>1
<1> QED
  BY <1>2 DEF Moved

LEMMA SameMoves ==
  ASSUME WireTypeOK, pend' = pend
  PROVE  Moved
BY DEF Moved, WireTypeOK

LEMMA WireStepInv ==
  ASSUME WireInv, WireStep
  PROVE  WireInv' /\ Moved
<1>0. WireTypeOK /\ pend \in Seq(Request)
  BY DEF WireInv, WireTypeOK
<1>1. CASE UNCHANGED wireVars
  BY <1>0, <1>1, WireStutter, SameMoves DEF wireVars
<1>2. ASSUME NEW d \in Deadline, SetDeadline(d) PROVE WireInv' /\ Moved
  BY <1>0, <1>2, SetDeadlineInv, SameMoves DEF SetDeadline
<1>3. ASSUME NEW op \in Other, NEW h \in {0, 1}, NEW d \in Deadline, Ask(op, h, 0, d)
      PROVE  WireInv' /\ Moved
  <2> DEFINE rs == <<Asked(op, h, 0)>>
  <2>1. Asked(op, h, 0) \in Request /\ Asked(op, h, 0).op # "batch_msg"
    BY AskedRequest DEF Other
  <2>2. rs \in Seq(Request) /\ \A i \in 1..Len(rs) : rs[i].op # "batch_msg"
    BY <2>1
  <2>3. Write(rs, <<op>>, 0, d, TRUE)
    BY <1>3 DEF Ask
  <2>4. Moved
    BY <1>0, <2>2, <2>3, WriteMoves
  <2> QED
    BY <1>3, <2>4, AskInv DEF Other
<1>4. ASSUME NEW op \in Other, NEW second \in Other, AskTwo(op, 0, second)
      PROVE  WireInv' /\ Moved
  <2> DEFINE rs == <<Asked(op, 0, 0), Asked(second, 0, 0)>>
  <2>1. /\ Asked(op, 0, 0) \in Request /\ Asked(op, 0, 0).op # "batch_msg"
        /\ Asked(second, 0, 0) \in Request /\ Asked(second, 0, 0).op # "batch_msg"
    BY AskedRequest DEF Other
  <2>2. rs \in Seq(Request) /\ \A i \in 1..Len(rs) : rs[i].op # "batch_msg"
    BY <2>1
  <2>3. pend' = pend \/ Write(rs, <<op, second>>, 0, armed, TRUE)
    BY <1>4 DEF AskTwo
  <2>4. Moved
    BY <1>0, <2>2, <2>3, WriteMoves, SameMoves
  <2> QED
    BY <1>4, <2>4, AskTwoInv DEF Other
<1>5. CASE AskLazily("free", TRUE)
  <2> DEFINE rs == <<Asked("free", 0, 0)>>
  <2>1. Asked("free", 0, 0) \in Request /\ Asked("free", 0, 0).op # "batch_msg"
    BY AskedRequest DEF Ops
  <2>2. rs \in Seq(Request) /\ \A i \in 1..Len(rs) : rs[i].op # "batch_msg"
    BY <2>1
  <2>3. Write(rs, <<>>, 1, armed, TRUE)
    BY <1>5 DEF AskLazily
  <2>4. Moved
    BY <1>0, <2>2, <2>3, WriteMoves
  <2> QED
    BY <1>5, <2>4, AskLazilyInv DEF Uncollected
<1>6. CASE WatcherCancel
  BY <1>0, <1>6, WatcherCancelInv, SameMoves DEF WatcherCancel
<1>7. CASE SocketDies
  <2>1. PICK n \in 0..Len(pend) : pend' = SubSeq(pend, 1, n)
    BY <1>7 DEF SocketDies
  <2>2. Len(pend') = n /\ Len(pend) \in Nat /\ \A i \in 1..n : pend'[i] = pend[i]
    BY <1>0, <2>1
  <2>3. \A i \in 1..Len(pend') : i + 0 \in 1..Len(pend) /\ pend'[i] = pend[i + 0]
    BY <2>2
  <2>4. Moved
    BY <2>3 DEF Moved
  <2> QED
    BY <1>7, <2>4, SocketDiesInv
<1>8. CASE RecvSkip
  BY <1>0, <1>8, RecvSkipInv, TailMoves DEF RecvSkip, ToSkip, Arrived
<1>9. CASE RecvOwn \/ RecvMalformed
  <2>1. pend # <<>> /\ pend' = Tail(pend)
    BY <1>9 DEF RecvOwn, RecvMalformed, Arrived
  <2> QED
    BY <1>0, <1>9, <2>1, RecvOwnInv, RecvMalformedInv, TailMoves
<1>10. CASE RecvTimeout \/ RecvGarbage
  <2>1. pend' = pend
    BY <1>10 DEF RecvTimeout, RecvGarbage, GiveUp
  <2> QED
    BY <1>0, <1>10, <2>1, RecvTimeoutInv, RecvGarbageInv, SameMoves
<1> QED
  BY <1>1, <1>2, <1>3, <1>4, <1>5, <1>6, <1>7, <1>8, <1>9, <1>10 DEF WireStep

\* Only BatchMsg sends a message, and only the server changes what it holds.
Elsewhere == WireStep /\ UNCHANGED <<flushes, server>>

LEMMA LeavesWire ==
  ASSUME NEW e, Leaves(e)
  PROVE  WireStep /\ UNCHANGED server
<1>1. SetDeadline("none") /\ UNCHANGED server
  BY DEF Leaves
<1> QED
  BY <1>1 DEF WireStep, Deadline

LEMMA AskWire ==
  ASSUME NEW op \in Other, NEW h \in {0, 1}, NEW d \in Deadline, Ask(op, h, 0, d)
  PROVE  WireStep
BY DEF WireStep

LEMMA AskTwoWire ==
  ASSUME NEW op \in Other, NEW second \in Other, AskTwo(op, 0, second)
  PROVE  WireStep
BY DEF WireStep

LEMMA StepKinds ==
  ASSUME WireInv, [Next]_vars
  PROVE  BatchMsg \/ Server \/ Elsewhere
<1>0. armed \in Deadline
  BY DEF WireInv, WireTypeOK
<1>1. CASE Application
  <2>1. UNCHANGED <<wireVars, flushes, server>>
    BY <1>1 DEF Application, Add, Flush, Exec, Cancel, Close, Starts, local
  <2> QED
    BY <2>1 DEF Elsewhere, WireStep
<1>2. CASE BatchCreate
  <2>1. UNCHANGED wireVars \/ AskTwo("batch_create", 0, "ping")
    BY <1>2 DEF BatchCreate
  <2>2. "batch_create" \in Other /\ "ping" \in Other
    BY DEF Other, Ops
  <2>3. WireStep
    BY <2>1, <2>2, AskTwoWire DEF WireStep
  <2> QED
    BY <1>2, <2>3 DEF BatchCreate, Elsewhere, local
<1>3. CASE BatchCreated
  BY <1>3, LeavesWire DEF BatchCreated, Elsewhere, WireStep
<1>4. CASE Flushed
  <2>1. UNCHANGED <<flushes, server>>
    BY <1>4, LeavesWire DEF Flushed
  <2>2. UNCHANGED wireVars \/ SetDeadline("none")
    BY <1>4 DEF Flushed, Leaves
  <2> QED
    BY <2>1, <2>2 DEF Elsewhere, WireStep, Deadline
<1>5. CASE BatchExec
  <2>1. Ask("batch_exec", 1, 0, IF ctx = "deadline" THEN "ctx" ELSE armed)
    BY <1>5 DEF BatchExec
  <2>2. "batch_exec" \in Other /\ (IF ctx = "deadline" THEN "ctx" ELSE armed) \in Deadline
    BY <1>0 DEF Other, Ops, Deadline
  <2>3. WireStep
    BY <2>1, <2>2, AskWire
  <2> QED
    BY <1>5, <2>3 DEF BatchExec, Elsewhere, local
<1>6. CASE Completion
  BY <1>6, LeavesWire DEF Completion, Elsewhere, WireStep, local
<1>7. CASE Release
  <2>1. AskTwo("batch_release", 0, "ping")
    BY <1>7 DEF Release
  <2>2. "batch_release" \in Other /\ "ping" \in Other
    BY DEF Other, Ops
  <2>3. WireStep
    BY <2>1, <2>2, AskTwoWire
  <2> QED
    BY <1>7, <2>3 DEF Release, Elsewhere, local
<1>8. CASE Released
  BY <1>8, LeavesWire DEF Released, Elsewhere, WireStep
<1>9. CASE CommitRetaining \/ Rollback
  <2>1. Ask("commit_retaining", 1, 0, "fixed") \/ Ask("rollback", 1, 0, "fixed")
    BY <1>9 DEF CommitRetaining, Rollback
  <2>2. "commit_retaining" \in Other /\ "rollback" \in Other /\ "fixed" \in Deadline
    BY DEF Other, Ops, Deadline
  <2>3. WireStep
    BY <2>1, <2>2, AskWire
  <2> QED
    BY <1>9, <2>3 DEF CommitRetaining, Rollback, Elsewhere, local
<1>10. CASE Committed \/ RolledBack
  BY <1>10, LeavesWire DEF Committed, RolledBack, Elsewhere, local
<1>11. CASE Free
  <2>1. AskLazily("free", TRUE) \/ Ask("free", 0, 0, "fixed")
    BY <1>11 DEF Free
  <2>2. "free" \in Other /\ "fixed" \in Deadline
    BY DEF Other, Ops, Deadline
  <2>3. WireStep
    BY <2>1, <2>2, AskWire DEF WireStep
  <2> QED
    BY <1>11, <2>3 DEF Free, Elsewhere, local
<1>12. CASE Freed
  <2>1. UNCHANGED <<flushes, server>> /\ SetDeadline("none")
    BY <1>12 DEF Freed, Leaves, local
  <2> QED
    BY <2>1 DEF Elsewhere, WireStep, Deadline
<1>13. CASE Receive
  BY <1>13 DEF Receive, DeadlineFires, Elsewhere, WireStep, local
<1>14. CASE CtxDone
  BY <1>14 DEF CtxDone, Elsewhere, WireStep, local
<1>15. CASE Overdue
  <2>1. UNCHANGED <<flushes, server>> /\ SetDeadline("past")
    BY <1>15 DEF Overdue, local
  <2> QED
    BY <2>1 DEF Elsewhere, WireStep, Deadline
<1>16. CASE Watcher \/ SocketDeath
  BY <1>16 DEF Watcher, SocketDeath, Elsewhere, WireStep, local
<1>17. CASE UNCHANGED vars
  BY <1>17 DEF vars, local, Elsewhere, WireStep
<1> QED
  BY <1>1, <1>2, <1>3, <1>4, <1>5, <1>6, <1>7, <1>8, <1>9, <1>10, <1>11, <1>12, <1>13,
     <1>14, <1>15, <1>16, <1>17 DEF Next, Driver

-----------------------------------------------------------------------------
(* Messages and the server.                                                *)

LEMMA AnswerSent ==
  ASSUME WireInv, Sent, NEW i \in 1..Len(pend), NEW st \in {"ok", "err"}, NEW h \in Nat,
         Answer(i, st, h), flushes' = flushes
  PROVE  /\ WireInv' /\ Sent' /\ \A f : Under(f)' => Under(f)
         /\ \A f : Message(i) /\ f = pend[i].w => ~Under(f)'
<1>1. /\ WireInv' /\ Len(pend') = Len(pend) /\ pend \in Seq(Request)
      /\ \A j \in 1..Len(pend) : pend'[j].op = pend[j].op /\ pend'[j].w = pend[j].w
  BY AnswerInv DEF WireInv, WireTypeOK, Status
<1>2. pend'[i].st = st /\ \A j \in 1..Len(pend) : j # i => pend'[j] = pend[j]
  <2> DEFINE new == [pend[i] EXCEPT !.st = st, !.h = h]
  <2>1. pend[i] \in Request
    BY <1>1
  <2>2. new.st = st
    BY <2>1 DEF Request
  <2>3. pend' = [pend EXCEPT ![i] = new]
    BY <1>1 DEF Answer
  <2> HIDE DEF new
  <2> QED
    BY <1>1, <2>2, <2>3
<1>3. Sent'
  BY <1>1 DEF Sent, Message
<1>4. ASSUME NEW f, Under(f)' PROVE Under(f)
  <2>1. PICK j \in 1..Len(pend) : pend'[j].op = "batch_msg" /\ pend'[j].st = "asked" /\ pend'[j].w = f
    BY <1>1, <1>4 DEF Under, Message
  <2>2. j # i
    BY <1>2, <2>1
  <2> QED
    BY <1>2, <2>1, <2>2 DEF Under, Message
<1>5. ASSUME NEW f, Message(i), f = pend[i].w, Under(f)' PROVE FALSE
  <2>1. PICK j \in 1..Len(pend) : /\ pend'[j].op = "batch_msg" /\ pend'[j].st = "asked"
                                  /\ pend'[j].w = pend[i].w
    BY <1>1, <1>5 DEF Under, Message
  <2>2. j # i
    BY <1>2, <2>1
  <2>3. j = i
    BY <1>1, <1>5, <2>1 DEF Sent, Message
  <2> QED
    BY <2>2, <2>3
<1> QED
  BY <1>1, <1>3, <1>4, <1>5

\* The server keeps of each row no more than it had of it.
LEMMA StoredStays ==
  ASSUME Stored, flushes' = flushes, \A f : Under(f)' => Under(f),
         \A r \in Rows : Held(r)' \in Nat /\ Held(r) \in Nat /\ Held(r)' <= Held(r)
  PROVE  Stored'
<1> SUFFICES ASSUME NEW r \in Rows
             PROVE  /\ Held(r)' <= 1
                    /\ Held(r)' > 0 => \E f \in 1..Len(flushes') : From(f, r)' /\ ~Under(f)'
  BY DEF Stored
<1>1. Held(r)' <= 1
  BY DEF Stored
<1>2. ASSUME Held(r)' > 0 PROVE \E f \in 1..Len(flushes') : From(f, r)' /\ ~Under(f)'
  <2>1. PICK f \in 1..Len(flushes) : From(f, r) /\ ~Under(f)
    BY <1>2 DEF Stored
  <2> QED
    BY <2>1 DEF From
<1> QED
  BY <1>1, <1>2

LEMMA OccursOnce ==
  ASSUME NEW rs \in Seq(Rows), \A i, j \in 1..Len(rs) : rs[i] = rs[j] => i = j, NEW r \in Rows
  PROVE  /\ Occurrences(rs)[r] \in {0, 1}
         /\ Occurrences(rs)[r] = 1 => \E i \in 1..Len(rs) : rs[i] = r
<1> DEFINE T == {i \in DOMAIN rs : rs[i] = r}
<1>1. Occurrences(rs)[r] = Cardinality(T)
  BY DEF Occurrences
<1>2. CASE T = {}
  <2>1. Cardinality(T) = 0
    BY <1>2, FS_EmptySet, Zenon
  <2>2. \A i \in 1..Len(rs) : rs[i] # r
    BY <1>2
  <2> QED
    BY <1>1, <2>1
<1>3. CASE T # {}
  <2>1. PICK i \in 1..Len(rs) : rs[i] = r
    BY <1>3
  <2>2. T = {i}
    BY <2>1
  <2>3. Cardinality(T) = 1
    BY <2>2, FS_Singleton
  <2> QED
    BY <1>1, <2>1, <2>3
<1> QED
  BY <1>2, <1>3

\* The two packets of flush n are written.
Pair(n) == <<Asked("batch_msg", 0, n), Asked("sync", 0, 0)>>
Longer(n) ==
  /\ Len(pend') = Len(pend) + 2
  /\ \A i \in 1..Len(pend) : pend'[i] = pend[i]
  /\ pend'[Len(pend) + 1].op = "batch_msg" /\ pend'[Len(pend) + 1].w = n
  /\ pend'[Len(pend) + 2].op = "sync"

LEMMA PairLonger ==
  ASSUME pend \in Seq(Request), NEW n \in Nat, pend' = pend \o Pair(n)
  PROVE  Longer(n)
<1>1. /\ Asked("batch_msg", 0, n) \in Request /\ Asked("sync", 0, 0) \in Request
      /\ Asked("batch_msg", 0, n).op = "batch_msg" /\ Asked("batch_msg", 0, n).w = n
      /\ Asked("sync", 0, 0).op = "sync"
  BY AskedRequest DEF Ops, Asked
<1>2. /\ Pair(n) \in Seq(Request) /\ Len(Pair(n)) = 2
      /\ Pair(n)[1] = Asked("batch_msg", 0, n) /\ Pair(n)[2] = Asked("sync", 0, 0)
  BY <1>1 DEF Pair
<1>3. /\ Len(pend') = Len(pend) + Len(Pair(n))
      /\ \A i \in 1..Len(pend) : pend'[i] = pend[i]
      /\ \A i \in 1..Len(Pair(n)) : pend'[Len(pend) + i] = Pair(n)[i]
  BY <1>2, Appended
<1>4. 1 \in 1..Len(Pair(n)) /\ 2 \in 1..Len(Pair(n))
  BY <1>2
<1> QED
  BY <1>1, <1>2, <1>3, <1>4 DEF Longer

\* The message of the rows in the queue: a new one.
LEMMA BatchMsgInv ==
  ASSUME TypeOK, WireInv, Spread, Sent, Stored, BatchMsg
  PROVE  WireInv' /\ Spread' /\ Sent' /\ Stored'
<1> DEFINE n == Len(flushes) + 1
<1>0. /\ queue \in Seq(Rows) /\ flushes \in Seq(Seq(Rows)) /\ pend \in Seq(Request)
      /\ Len(flushes) \in Nat /\ Len(pend) \in Nat /\ n \in Nat
  BY DEF TypeOK, LocalType, WireInv, WireTypeOK
<1>1. /\ queue' = <<>> /\ flushes' = Append(flushes, queue)
      /\ UNCHANGED <<adding, added, batch, tx, applied>>
      /\ Len(flushes') = n /\ flushes'[n] = queue
      /\ \A f \in 1..Len(flushes) : flushes'[f] = flushes[f]
  BY <1>0 DEF BatchMsg, server, history
<1>2. AskTwo("batch_msg", n, "sync")
  BY <1>1 DEF BatchMsg
<1>3. "batch_msg" \in Ops /\ "sync" \in Ops
  BY DEF Ops
<1>4. WireInv'
  BY <1>0, <1>2, <1>3, AskTwoInv
<1>5. Spread'
  <2>1. \A f \in 1..n : f = n \/ f \in 1..Len(flushes)
    BY <1>0
  <2>2. ASSUME NEW f \in 1..n, NEW i \in 1..Len(flushes'[f]), NEW j \in 1..Len(flushes'[f]),
               flushes'[f][i] = flushes'[f][j]
        PROVE  i = j
    BY <1>1, <2>1, <2>2 DEF Spread
  <2>3. ASSUME NEW f \in 1..n, NEW g \in 1..n,
               NEW i \in 1..Len(flushes'[f]), NEW j \in 1..Len(flushes'[g]),
               flushes'[f][i] = flushes'[g][j]
        PROVE  f = g
    BY <1>1, <2>1, <2>3 DEF Spread
  <2>4. ASSUME NEW f \in 1..n, NEW i \in 1..Len(flushes'[f])
        PROVE  flushes'[f][i] <= added /\ flushes'[f][i] # adding
    BY <1>1, <2>1, <2>4 DEF Spread
  <2>5. Len(queue') = 0
    BY <1>1
  <2> QED
    BY <1>1, <2>2, <2>3, <2>4, <2>5 DEF Spread
<1>6. pend' = pend \/ Longer(n)
  <2>1. pend' = pend \/ pend' = pend \o Pair(n)
    BY <1>2 DEF AskTwo, Write, Pair
  <2> QED
    BY <1>0, <2>1, PairLonger
<1>7. n = Len(flushes) + 1
  OBVIOUS
<1> HIDE DEF n
\* An old message is where it was; the new one has the new number.
<1>9. ASSUME NEW i \in 1..Len(pend'), Message(i)'
      PROVE  \/ i \in 1..Len(pend) /\ pend'[i] = pend[i] /\ Message(i)
                /\ pend[i].w \in 1..Len(flushes)
             \/ i = Len(pend) + 1 /\ pend'[i].w = n
  <2>1. CASE pend' = pend
    BY <1>9, <2>1 DEF Message, Sent
  <2>2. CASE Longer(n)
    <3>1. i \in 1..Len(pend) \/ i = Len(pend) + 1 \/ i = Len(pend) + 2
      BY <1>0, <2>2 DEF Longer
    <3>2. i # Len(pend) + 2
      BY <1>9, <2>2 DEF Longer, Message
    <3>3. CASE i \in 1..Len(pend)
      BY <1>9, <2>2, <3>3 DEF Longer, Message, Sent
    <3>4. CASE i = Len(pend) + 1
      BY <2>2, <3>4 DEF Longer
    <3> QED
      BY <3>1, <3>2, <3>3, <3>4
  <2> QED
    BY <1>6, <2>1, <2>2
<1>10. Sent'
  <2>1. ASSUME NEW i \in 1..Len(pend'), Message(i)' PROVE pend'[i].w \in 1..Len(flushes')
    BY SMTT(30), <1>0, <1>7, <1>1, <1>9, <2>1
  <2>2. ASSUME NEW i \in 1..Len(pend'), NEW j \in 1..Len(pend'), Message(i)', Message(j)',
               pend'[i].w = pend'[j].w
        PROVE  i = j
    <3> DEFINE Old(k) == /\ k \in 1..Len(pend) /\ pend'[k] = pend[k] /\ Message(k)
                         /\ pend[k].w \in 1..Len(flushes)
               New(k) == k = Len(pend) + 1 /\ pend'[k].w = n
    <3>1. (Old(i) \/ New(i)) /\ (Old(j) \/ New(j))
      BY <1>9, <2>2
    <3>2. \A k : Old(k) => pend'[k].w # n
      BY <1>0, <1>7
    <3>3. CASE Old(i) /\ Old(j)
      BY <2>2, <3>3 DEF Sent
    <3> QED
      BY <2>2, <3>1, <3>2, <3>3
  <2> QED
    BY <2>1, <2>2 DEF Sent
<1>11. \A f \in 1..Len(flushes) : Under(f)' => Under(f)
  <2> TAKE f \in 1..Len(flushes)
  <2>1. ASSUME Under(f)' PROVE Under(f)
    <3>1. PICK i \in 1..Len(pend') : Message(i)' /\ pend'[i].st = "asked" /\ pend'[i].w = f
      BY <2>1 DEF Under
    <3>2. i \in 1..Len(pend) /\ pend'[i] = pend[i] /\ Message(i)
      BY <1>0, <1>7, <1>9, <3>1
    <3> QED
      BY <3>1, <3>2 DEF Under
  <2> QED
    BY <2>1
<1>12. Stored'
  <2> SUFFICES ASSUME NEW r \in Rows
               PROVE  /\ Held(r)' <= 1
                      /\ Held(r)' > 0 => \E f \in 1..Len(flushes') : From(f, r)' /\ ~Under(f)'
    BY DEF Stored
  <2>1. Held(r)' = Held(r)
    BY <1>1 DEF Held
  <2>2. ASSUME Held(r) > 0 PROVE \E f \in 1..Len(flushes') : From(f, r)' /\ ~Under(f)'
    <3>1. PICK f \in 1..Len(flushes) : From(f, r) /\ ~Under(f)
      BY <2>2 DEF Stored
    <3>2. f \in 1..Len(flushes') /\ From(f, r)' /\ ~Under(f)'
      BY <1>0, <1>7, <1>1, <1>11, <3>1 DEF From
    <3> QED
      BY <3>2
  <2> QED
    BY <2>1, <2>2 DEF Stored
<1> QED
  BY <1>4, <1>5, <1>10, <1>12

LEMMA HeldType ==
  ASSUME ServerType, NEW r \in Rows
  PROVE  /\ Held(r) \in Nat
         /\ batch.rows[r] \in Nat /\ tx.rows[r] \in Nat /\ applied[r] \in Nat
BY DEF ServerType, Held, Count

\* What the server does with a request but for a message.
LEMMA EffectHolds ==
  ASSUME ServerType, NEW t \in Request, t.op # "batch_msg", Effect(t)
  PROVE  ServerType' /\ \A r \in Rows : Held(r)' <= Held(r)
<1>0. \A r \in Rows : NoRow[r] = 0
  BY DEF NoRow
<1>1. NoRow \in Count
  BY DEF NoRow, Count
<1>2. CASE t.op \in {"batch_create", "batch_release"}
  <2>0. PICK open \in BOOLEAN : batch' = [open |-> open, rows |-> NoRow]
    BY <1>2 DEF Effect
  <2>1. /\ batch'.rows = NoRow /\ batch' \in [open : BOOLEAN, rows : Count]
        /\ UNCHANGED <<tx, applied>>
    BY <1>1, <1>2, <2>0 DEF Effect
  <2> QED
    BY <1>0, <2>1, HeldType DEF ServerType, Held
<1>3. CASE t.op = "commit_retaining"
  <2>1. applied' = Sum(applied, tx.rows) /\ tx' = [tx EXCEPT !.rows = NoRow] /\ UNCHANGED batch
    BY <1>3 DEF Effect
  <2>2. tx' \in [open : BOOLEAN, rows : Count] /\ tx'.rows = NoRow
    BY <1>1, <2>1 DEF ServerType
  <2>3. applied' \in Count /\ \A r \in Rows : applied'[r] = applied[r] + tx.rows[r]
    BY <2>1 DEF ServerType, Sum, Count
  <2> QED
    BY <1>0, <2>1, <2>2, <2>3, HeldType DEF ServerType, Held
<1>4. CASE t.op = "rollback"
  <2>1. /\ tx' = [open |-> FALSE, rows |-> NoRow] /\ UNCHANGED <<batch, applied>>
    BY <1>4 DEF Effect
  <2>2. tx' \in [open : BOOLEAN, rows : Count] /\ tx'.rows = NoRow
    BY <1>1, <2>1
  <2> QED
    BY <1>0, <2>1, <2>2, HeldType DEF ServerType, Held
<1>5. CASE t.op \notin {"batch_create", "batch_release", "commit_retaining", "rollback"}
  <2>1. UNCHANGED <<batch, tx, applied>>
    BY <1>5 DEF Effect, server
  <2> QED
    BY <2>1, HeldType DEF ServerType, Held
<1> QED
  BY <1>2, <1>3, <1>4, <1>5

LEMMA ExecutesHolds ==
  ASSUME ServerType, NEW i, Executes(i)
  PROVE  ServerType' /\ \A r \in Rows : Held(r)' <= Held(r)
<1>1. PICK good \in SUBSET Rows :
        /\ tx' = [tx EXCEPT !.rows =
                    [r \in Rows |-> @[r] + IF r \in good THEN batch.rows[r] ELSE 0]]
        /\ batch' = [batch EXCEPT !.rows = NoRow]
        /\ UNCHANGED applied
  BY DEF Executes
<1>2. NoRow \in Count /\ \A r \in Rows : NoRow[r] = 0
  BY DEF NoRow, Count
<1>3. batch' \in [open : BOOLEAN, rows : Count] /\ batch'.rows = NoRow
  BY <1>1, <1>2 DEF ServerType
<1> DEFINE new == [r \in Rows |-> tx.rows[r] + IF r \in good THEN batch.rows[r] ELSE 0]
<1>4. new \in Count
  BY HeldType DEF Count
<1>5. tx' = [tx EXCEPT !.rows = new]
  BY <1>1
<1>6. \A r \in Rows : new[r] <= tx.rows[r] + batch.rows[r] /\ new[r] \in Nat
  BY HeldType
<1> HIDE DEF new
<1>7. tx' \in [open : BOOLEAN, rows : Count] /\ tx'.rows = new
  BY <1>4, <1>5 DEF ServerType
<1> QED
  BY <1>1, <1>2, <1>3, <1>6, <1>7, HeldType DEF ServerType, Held

\* A message brings rows that the server has from no other.
LEMMA MessageHolds ==
  ASSUME TypeOK, WireInv, Spread, Sent, Stored, NEW i \in 1..Len(pend), NextAsked(i),
         Message(i), Answer(i, "ok", 0), Effect(pend[i]), flushes' = flushes
  PROVE  ServerType' /\ Stored'
<1>f. PICK f : f = pend[i].w
  OBVIOUS
<1>0. ServerType /\ flushes \in Seq(Seq(Rows)) /\ f \in 1..Len(flushes) /\ flushes[f] \in Seq(Rows)
  BY <1>f DEF TypeOK, LocalType, Sent
<1>1. (\A g : Under(g)' => Under(g)) /\ ~Under(f)' /\ Under(f)
  <2>1. (\A g : Under(g)' => Under(g)) /\ (\A g : Message(i) /\ g = pend[i].w => ~Under(g)')
    BY AnswerSent
  <2>2. Under(f)
    BY <1>f DEF NextAsked, Under
  <2> QED
    BY <1>f, <2>1, <2>2
<1>2. /\ batch' = [batch EXCEPT !.rows = Sum(@, Occurrences(flushes[f]))]
      /\ UNCHANGED <<tx, applied>>
  BY <1>f DEF Effect, Message
<1> DEFINE occ == Occurrences(flushes[f])
<1>3. \A r \in Rows : occ[r] \in {0, 1} /\ (occ[r] = 1 => From(f, r))
  <2>1. \A k, l \in 1..Len(flushes[f]) : flushes[f][k] = flushes[f][l] => k = l
    BY <1>0 DEF Spread
  <2> QED
    BY <1>0, <2>1, OccursOnce DEF From
<1> HIDE DEF occ
<1>n. \A r \in Rows : Held(r) \in Nat /\ batch.rows[r] \in Nat /\ occ[r] \in Nat
  <2> TAKE r \in Rows
  <2>1. Held(r) \in Nat /\ batch.rows[r] \in Nat
    BY <1>0, HeldType
  <2>2. occ[r] \in Nat
    BY <1>3
  <2> QED
    BY <2>1, <2>2
<1> DEFINE new == Sum(batch.rows, occ)
<1>4. new \in Count /\ \A r \in Rows : new[r] = batch.rows[r] + occ[r]
  BY <1>n DEF Sum, Count
<1>5. batch' = [batch EXCEPT !.rows = new]
  BY <1>2 DEF occ
<1> HIDE DEF new
<1>6. batch' \in [open : BOOLEAN, rows : Count] /\ batch'.rows = new
  BY <1>0, <1>4, <1>5 DEF ServerType
<1>7. ServerType'
  BY <1>0, <1>2, <1>6 DEF ServerType
<1>8. \A r \in Rows : Held(r)' = Held(r) + occ[r]
  <2> TAKE r \in Rows
  <2>1. Held(r)' = batch.rows[r] + occ[r] + tx.rows[r] + applied[r]
    BY <1>2, <1>4, <1>6 DEF Held
  <2> QED
    BY SMTT(30), <1>0, <1>n, <2>1, HeldType DEF Held
<1>9. Stored'
  <2> SUFFICES ASSUME NEW r \in Rows
               PROVE  /\ Held(r)' <= 1
                      /\ Held(r)' > 0 => \E g \in 1..Len(flushes') : From(g, r)' /\ ~Under(g)'
    BY DEF Stored
  <2>1. CASE occ[r] = 1
    <3>1. From(f, r)
      BY <1>3, <2>1
    <3>2. \A g \in 1..Len(flushes) : From(g, r) => g = f
      BY <1>0, <3>1 DEF From, Spread
    <3>3. ~(Held(r) > 0)
      BY <1>1, <3>2 DEF Stored
    <3>4. Held(r)' = 1
      BY <1>n, <1>8, <2>1, <3>3
    <3>5. From(f, r)'
      BY <3>1 DEF From
    <3> QED
      BY <1>0, <1>1, <3>4, <3>5
  <2>2. CASE occ[r] = 0
    <3>1. Held(r)' = Held(r)
      BY <1>n, <1>8, <2>2
    <3>2. ASSUME Held(r) > 0 PROVE \E g \in 1..Len(flushes') : From(g, r)' /\ ~Under(g)'
      <4>1. PICK g \in 1..Len(flushes) : From(g, r) /\ ~Under(g)
        BY <3>2 DEF Stored
      <4> QED
        BY <1>1, <4>1 DEF From
    <3> QED
      BY <3>1, <3>2 DEF Stored
  <2> QED
    BY <1>3, <2>1, <2>2
<1> QED
  BY <1>7, <1>9

LEMMA ServerInv ==
  ASSUME TypeOK, WireInv, Spread, Sent, Stored, Server
  PROVE  WireInv' /\ Spread' /\ Sent' /\ Stored' /\ ServerType'
<1>0. UNCHANGED <<queue, flushes, adding, added>> /\ ServerType /\ pend \in Seq(Request)
  BY DEF Server, local, history, TypeOK, WireInv, WireTypeOK
<1>1. Spread'
  BY <1>0 DEF Spread
<1>2. PICK i \in 1..Len(pend) :
        /\ NextAsked(i)
        /\ \/ pend[i].op = "batch_exec" /\ Executes(i)
           \/ pend[i].op # "batch_exec" /\ Answer(i, "ok", 0) /\ Effect(pend[i])
           \/ Answer(i, "err", 0) /\ UNCHANGED server
  BY DEF Server
<1>3. \E st \in {"ok", "err"}, h \in Nat : Answer(i, st, h)
  BY <1>2 DEF Executes
<1>4. WireInv' /\ Sent' /\ \A f : Under(f)' => Under(f)
  BY <1>0, <1>3, AnswerSent
<1>5. pend[i] \in Request
  BY <1>0
<1>6. CASE /\ pend[i].op # "batch_exec" /\ Answer(i, "ok", 0) /\ Effect(pend[i])
           /\ Message(i)
  BY <1>0, <1>1, <1>2, <1>4, <1>6, MessageHolds
<1>7. CASE ~(/\ pend[i].op # "batch_exec" /\ Answer(i, "ok", 0) /\ Effect(pend[i])
             /\ Message(i))
  <2>1. ServerType' /\ \A r \in Rows : Held(r)' <= Held(r)
    <3>1. CASE pend[i].op = "batch_exec" /\ Executes(i)
      BY <1>0, <3>1, ExecutesHolds
    <3>2. CASE pend[i].op # "batch_msg" /\ Effect(pend[i])
      BY <1>0, <1>5, <3>2, EffectHolds
    <3>3. CASE UNCHANGED server
      BY <1>0, <3>3, HeldType DEF server, ServerType, Held
    <3> QED
      BY <1>2, <1>7, <3>1, <3>2, <3>3 DEF Message
  <2>2. \A r \in Rows : Held(r) \in Nat
    BY <1>0, HeldType
  <2>3. \A r \in Rows : Held(r)' \in Nat
    BY <2>1 DEF ServerType, Held, Count
  <2>4. Stored'
    BY <1>0, <1>4, <2>1, <2>2, <2>3, StoredStays
  <2> QED
    BY <1>1, <1>4, <2>1, <2>4
<1> QED
  BY <1>6, <1>7

-----------------------------------------------------------------------------
(* The calls.                                                              *)

\* What a step of the driver or the application may disturb.
Driven == ControlType /\ LocalType /\ HistoryType /\ Spread

\* What is queued or sent is a row, and no row is 0.
LEMMA RowsOf ==
  ASSUME LocalType
  PROVE  /\ \A k \in 1..Len(queue) : queue[k] \in Nat /\ queue[k] # 0 /\ queue[k] \in Rows
         /\ \A f \in 1..Len(flushes) : \A i \in 1..Len(flushes[f]) :
              flushes[f][i] \in Nat /\ flushes[f][i] # 0 /\ flushes[f][i] \in Rows
<1>0. \A r \in Rows : r \in Nat /\ r # 0
  BY BatchAssumption DEF Rows
<1>1. queue \in Seq(Rows) /\ flushes \in Seq(Seq(Rows))
  BY DEF LocalType
<1>2. \A k \in 1..Len(queue) : queue[k] \in Rows
  BY <1>1
<1>3. \A f \in 1..Len(flushes) : flushes[f] \in Seq(Rows)
  BY <1>1
<1>4. \A f \in 1..Len(flushes) : \A i \in 1..Len(flushes[f]) : flushes[f][i] \in Rows
  <2> TAKE f \in 1..Len(flushes)
  <2>1. flushes[f] \in Seq(Rows)
    BY <1>3
  <2> QED
    BY <2>1
<1> QED
  BY <1>0, <1>2, <1>4

\* A call goes on, with the rows where they are.
LEMMA GoesOn ==
  ASSUME Driven, call # "none", NEW l \in Places, l # "idle",
         pc' = l, UNCHANGED <<call, ctxVars, calls>>, failure' \in Outcome \union {"rows"},
         call \in {"add", "flush"} => l \in {"flush", "create", "msg", "flushed"},
         queue' = queue \/ queue' = <<>>,
         UNCHANGED <<adding, flushes, history>>,
         created' \in BOOLEAN, closed' \in BOOLEAN
  PROVE  Driven'
<1>1. ControlType'
  BY DEF Driven, ControlType, ctxVars
<1>2. LocalType' /\ HistoryType'
  <2>1. <<>> \in Seq(Rows)
    OBVIOUS
  <2> QED
    BY <2>1 DEF Driven, LocalType, HistoryType, history
<1>3. Spread'
  <2>1. UNCHANGED <<flushes, adding, added>> /\ Spread
    BY DEF Driven, history
  <2>2. CASE queue' = queue
    BY <2>1, <2>2 DEF Spread
  <2>3. CASE queue' = <<>>
    BY <2>1, <2>3 DEF Spread
  <2> QED
    BY <2>2, <2>3
<1> QED
  BY <1>1, <1>2, <1>3 DEF Driven

\* A call returns; a row that an Add has not queued is dropped with it.
LEMMA Returns ==
  ASSUME Driven, NEW e \in Outcome \union {"rows"}, Leaves(e), call # "none",
         adding' = 0 \/ (adding' = adding /\ call # "add"),
         UNCHANGED <<queue, flushes>>, created' \in BOOLEAN, closed' \in BOOLEAN
  PROVE  Driven'
<1>1. ControlType'
  BY DEF Driven, ControlType, Leaves, Places, Outcome
<1>2. UNCHANGED added /\ call' = "none" /\ adding' = 0
  BY DEF Leaves, Driven, LocalType
<1>3. LocalType'
  BY <1>2 DEF Driven, LocalType
<1>4. HistoryType'
  BY DEF Driven, HistoryType, Leaves
<1>5. \A k \in 1..Len(queue) : queue[k] # 0
  BY RowsOf DEF Driven
<1>6. \A f \in 1..Len(flushes) : \A i \in 1..Len(flushes[f]) : flushes[f][i] # 0
  BY RowsOf DEF Driven
<1>7. Spread'
  BY <1>2, <1>5, <1>6 DEF Driven, Spread
<1> QED
  BY <1>1, <1>3, <1>4, <1>7 DEF Driven

\* The wire, the context and the socket.
LEMMA Untouched ==
  ASSUME Driven, UNCHANGED <<pc, call, failure, calls, ctxVars, local, history>>
  PROVE  Driven'
<1>1. ControlType'
  BY DEF Driven, ControlType, ctxVars
<1>2. LocalType'
  BY DEF Driven, LocalType, local, history
<1>3. HistoryType'
  BY DEF Driven, HistoryType, history
<1>4. Spread'
  BY DEF Driven, Spread, local, history
<1> QED
  BY <1>1, <1>2, <1>3, <1>4 DEF Driven

\* A call begins, with the queue as it is or emptied.
LEMMA Begins ==
  ASSUME Driven, NEW c \in {"flush", "exec", "cancel", "close"}, NEW l \in Places \ {"idle"},
         c = "flush" => l = "flush",
         pc = "idle", calls < MaxCalls, calls' = calls + 1, pc' = l, call' = c,
         ctx' \in {"none", "cancel", "deadline"}, UNCHANGED <<expired, failure>>,
         queue' = queue \/ queue' = <<>>, UNCHANGED <<adding, flushes, history>>,
         created' \in BOOLEAN, closed' \in BOOLEAN
  PROVE  Driven'
<1>0. call = "none" /\ MaxCalls \in Nat
  BY BatchAssumption DEF Driven, ControlType
<1>1. ControlType'
  BY <1>0 DEF Driven, ControlType
<1>2. LocalType' /\ HistoryType'
  <2>1. <<>> \in Seq(Rows)
    OBVIOUS
  <2> QED
    BY <1>0, <2>1 DEF Driven, LocalType, HistoryType, history
<1>3. Spread'
  BY DEF Driven, Spread, history
<1> QED
  BY <1>1, <1>2, <1>3 DEF Driven

\* Add gives out the next row: to the queue, or to a call that flushes first.
LEMMA AddDriven ==
  ASSUME Driven, Add
  PROVE  Driven'
<1>0. /\ added < MaxRows /\ added' = added + 1 /\ added \in Nat /\ MaxRows \in Nat
      /\ queue \in Seq(Rows) /\ added' \in Rows /\ added' \in 0..MaxRows
  BY BatchAssumption DEF Add, Driven, LocalType, Rows
<1>1. CASE /\ queue' = Append(queue, added') /\ owed' = owed \union {added'} /\ pc = "idle"
           /\ UNCHANGED <<pc, call, ctxVars, failure, calls, adding, created, closed, flushes,
                          acked, rejected>>
  <2>1. ControlType' /\ HistoryType'
    BY <1>0, <1>1 DEF Driven, ControlType, HistoryType, ctxVars
  <2>2. call = "none" /\ adding = 0
    BY <1>1 DEF Driven, ControlType, LocalType
  <2>3. /\ queue' \in Seq(Rows) /\ Len(queue') = Len(queue) + 1 /\ Len(queue) \in Nat
        /\ \A k \in 1..Len(queue) : queue'[k] = queue[k]
        /\ queue'[Len(queue) + 1] = added'
    BY <1>0, <1>1
  <2>4. LocalType'
    BY <1>0, <1>1, <2>2, <2>3 DEF Driven, LocalType
  <2>5. \A k \in 1..Len(queue') : k \in 1..Len(queue) \/ k = Len(queue) + 1
    BY <2>3
  <2>6. \A k \in 1..Len(queue) : queue[k] \in Nat /\ queue[k] # 0 /\ queue[k] <= added
    BY RowsOf DEF Driven, Spread
  <2>7. \A f \in 1..Len(flushes) : \A i \in 1..Len(flushes[f]) :
          flushes[f][i] \in Nat /\ flushes[f][i] # 0 /\ flushes[f][i] <= added
    BY RowsOf DEF Driven, Spread
  <2>8. Spread'
    <3>1. ASSUME NEW k \in 1..Len(queue'), NEW l \in 1..Len(queue'), queue'[k] = queue'[l]
          PROVE  k = l
      <4>1. \A i, j \in 1..Len(queue) : queue[i] = queue[j] => i = j
        BY DEF Driven, Spread
      <4>2. \A i \in 1..Len(queue) : queue'[i] # added'
        BY <1>0, <2>3, <2>6
      <4> QED
        BY <2>3, <2>5, <3>1, <4>1, <4>2
    <3>2. ASSUME NEW f \in 1..Len(flushes), NEW i \in 1..Len(flushes[f])
          PROVE  /\ flushes[f][i] <= added' /\ flushes[f][i] # adding
                 /\ \A k \in 1..Len(queue') : queue'[k] # flushes[f][i]
      <4>1. flushes[f][i] \in Nat /\ flushes[f][i] # 0 /\ flushes[f][i] <= added
        BY <2>7
      <4>2. \A k \in 1..Len(queue) : queue[k] # flushes[f][i]
        BY DEF Driven, Spread
      <4> QED
        BY <1>0, <2>2, <2>3, <2>5, <4>1, <4>2
    <3>3. ASSUME NEW k \in 1..Len(queue') PROVE queue'[k] <= added' /\ queue'[k] # adding
      BY <1>0, <2>2, <2>3, <2>5, <2>6, <3>3
    <3> QED
      BY <1>1, <3>1, <3>2, <3>3 DEF Driven, Spread
  <2> QED
    BY <2>1, <2>4, <2>8 DEF Driven
<1>2. CASE /\ adding' = added' /\ pc = "idle" /\ calls < MaxCalls /\ calls' = calls + 1
           /\ pc' = "flush" /\ call' = "add"
           /\ UNCHANGED <<ctxVars, failure, queue, owed, created, closed, flushes, acked, rejected>>
  <2>1. ControlType' /\ HistoryType'
    BY <1>2, BatchAssumption DEF Driven, ControlType, HistoryType, ctxVars, Places
  <2>2. LocalType'
    BY <1>0, <1>2 DEF Driven, LocalType
  <2>3. \A k \in 1..Len(queue) : queue[k] \in Nat /\ queue[k] <= added
    BY RowsOf DEF Driven, Spread
  <2>4. \A f \in 1..Len(flushes) : \A i \in 1..Len(flushes[f]) :
          flushes[f][i] \in Nat /\ flushes[f][i] <= added
    BY RowsOf DEF Driven, Spread
  <2>5. Spread'
    BY <1>0, <1>2, <2>3, <2>4 DEF Driven, Spread
  <2> QED
    BY <2>1, <2>2, <2>5 DEF Driven
<1> QED
  BY <1>1, <1>2 DEF Add, At, Starts

\* A flush ends; the row of an Add is queued after it.
LEMMA FlushedDriven ==
  ASSUME Driven, res \in Outcome, Flushed
  PROVE  Driven'
<1>0. pc = "flushed" /\ call # "none" /\ adding' = 0 /\ UNCHANGED <<created, closed, flushes>>
  BY DEF Flushed, At, Driven, ControlType
<1>1. CASE call = "exec" /\ res = "nil"
  <2>1. pc' = "exec" /\ UNCHANGED <<call, ctxVars, failure, calls, queue, history>>
    BY <1>1 DEF Flushed, Goto
  <2>2. adding = 0
    BY <1>1 DEF Driven, LocalType
  <2>3. created' \in BOOLEAN /\ closed' \in BOOLEAN /\ failure' \in Outcome \union {"rows"}
    BY <1>0, <2>1 DEF Driven, LocalType, ControlType
  <2> QED
    BY <1>0, <1>1, <2>1, <2>2, <2>3, GoesOn DEF Places
<1>2. CASE call = "add" /\ res = "nil"
  <2>1. /\ pc' = "idle" /\ call' = "none" /\ queue' = <<adding>> /\ owed' = owed \union {adding}
        /\ UNCHANGED <<ctxVars, failure, calls, added, acked, rejected>>
    BY <1>2 DEF Flushed
  <2>2. adding \in Rows /\ adding # 0 /\ adding <= added
    BY <1>2, BatchAssumption DEF Driven, LocalType, Rows
  <2>3. ControlType' /\ HistoryType'
    BY <1>2, <2>1, <2>2 DEF Driven, ControlType, HistoryType, ctxVars, Places
  <2>4. queue' \in Seq(Rows) /\ Len(queue') = 1 /\ queue'[1] = adding
    BY <2>1, <2>2
  <2>5. LocalType'
    BY <1>0, <2>1, <2>4 DEF Driven, LocalType
  <2>6. \A k \in 1..Len(queue') : k = 1
    BY <2>4
  <2>7. \A f \in 1..Len(flushes) : \A i \in 1..Len(flushes[f]) :
          flushes[f][i] # 0 /\ flushes[f][i] <= added /\ flushes[f][i] # adding
    BY RowsOf DEF Driven, Spread
  <2>8. /\ \A f \in 1..Len(flushes) : \A i, j \in 1..Len(flushes[f]) :
             flushes[f][i] = flushes[f][j] => i = j
        /\ \A f, g \in 1..Len(flushes) :
             \A i \in 1..Len(flushes[f]), j \in 1..Len(flushes[g]) :
               flushes[f][i] = flushes[g][j] => f = g
    BY DEF Driven, Spread
  <2>9. Spread'
    BY <1>0, <2>1, <2>2, <2>4, <2>6, <2>7, <2>8 DEF Spread
  <2> QED
    BY <2>3, <2>5, <2>9 DEF Driven
<1>3. CASE call \notin {"exec", "add"} \/ res # "nil"
  <2>1. Leaves(res) /\ UNCHANGED queue
    BY <1>3 DEF Flushed
  <2>2. created' \in BOOLEAN /\ closed' \in BOOLEAN
    BY <1>0 DEF Driven, LocalType
  <2> QED
    BY <1>0, <2>1, <2>2, Returns
<1> QED
  BY <1>1, <1>2, <1>3

\* The application's other calls.
LEMMA CallsDriven ==
  ASSUME Driven, Flush \/ Exec \/ Cancel \/ Close
  PROVE  Driven'
<1>0. created \in BOOLEAN /\ closed \in BOOLEAN /\ ctx \in {"none", "cancel", "deadline"}
      /\ Contexts \subseteq {"none", "cancel", "deadline"}
  BY BatchAssumption DEF Driven, LocalType, ControlType
<1>1. CASE Flush
  BY <1>0, <1>1, Begins DEF Flush, Starts, At, local, ctxVars, history, Places
<1>2. CASE Exec
  BY <1>0, <1>2, Begins DEF Exec, At, local, history, Places
<1>3. CASE Cancel
  BY <1>0, <1>3, Begins DEF Cancel, Starts, At, ctxVars, history, Places
<1>4. CASE Close
  BY <1>0, <1>4, Begins DEF Close, Starts, At, ctxVars, history, Places
<1> QED
  BY <1>1, <1>2, <1>3, <1>4

\* The steps of a call that only go on.
LEMMA StepsDriven ==
  ASSUME Driven,
         BatchCreate \/ BatchExec \/ Release \/ CommitRetaining \/ Rollback \/ Free
  PROVE  Driven'
<1>0. /\ created \in BOOLEAN /\ closed \in BOOLEAN /\ failure \in Outcome \union {"rows"}
      /\ pc # "idle" => call # "none"
      /\ call \in {"add", "flush"} => pc \in {"flush", "create", "msg", "flushed"}
  BY DEF Driven, LocalType, ControlType
<1>1. \E l \in Places \ {"idle"} :
        /\ Goto(l) /\ UNCHANGED <<local, history>>
        /\ pc # "idle"
        /\ pc \in {"flush", "create", "msg", "flushed"} =>
             l \in {"flush", "create", "msg", "flushed"}
  <2>1. CASE BatchCreate
    BY <2>1 DEF BatchCreate, At, Places
  <2>2. CASE BatchExec
    BY <2>2 DEF BatchExec, At, Places
  <2>3. CASE Release
    BY <2>3 DEF Release, At, Places
  <2>4. CASE CommitRetaining
    BY <2>4 DEF CommitRetaining, At, Places
  <2>5. CASE Rollback
    BY <2>5 DEF Rollback, At, Places
  <2>6. CASE Free
    BY <2>6 DEF Free, At, Places
  <2> QED
    BY <2>1, <2>2, <2>3, <2>4, <2>5, <2>6
<1>2. PICK l \in Places \ {"idle"} :
        /\ Goto(l) /\ UNCHANGED <<local, history>>
        /\ pc # "idle"
        /\ pc \in {"flush", "create", "msg", "flushed"} =>
             l \in {"flush", "create", "msg", "flushed"}
  BY <1>1
<1> QED
  BY <1>0, <1>2, GoesOn DEF Goto, local

\* The steps that return, or go on.
LEMMA EndsDriven ==
  ASSUME Driven, res \in Outcome,
         BatchCreated \/ Completion \/ Released \/ Committed \/ RolledBack \/ Freed
  PROVE  Driven'
<1>0. /\ created \in BOOLEAN /\ closed \in BOOLEAN /\ failure \in Outcome \union {"rows"}
      /\ pc # "idle" => call # "none"
      /\ call \in {"add", "flush"} => pc \in {"flush", "create", "msg", "flushed"}
  BY DEF Driven, LocalType, ControlType
<1>1. CASE BatchCreated
  <2>1. CASE res = "nil"
    BY <1>0, <1>1, <2>1, GoesOn DEF BatchCreated, At, Goto, Places
  <2>2. CASE res # "nil"
    BY <1>0, <1>1, <2>2, Returns DEF BatchCreated, At
  <2> QED
    BY <2>1, <2>2
<1>2. CASE Completion
  <2>1. CASE res = "unsent"
    BY <1>0, <1>2, <2>1, Returns DEF Completion, At, local, Outcome
  <2>2. CASE res # "unsent"
    <3>1. /\ pc' = "release" /\ UNCHANGED <<call, ctxVars, calls, local, history>>
          /\ failure' \in Outcome \union {"rows"} /\ pc = "completion"
      BY <1>2, <2>2 DEF Completion, At
    <3> QED
      BY <1>0, <3>1, GoesOn DEF Places, local
  <2> QED
    BY <2>1, <2>2
<1>3. CASE Released
  <2>1. /\ pc = "released" /\ call # "none" /\ call # "add" /\ call # "flush"
        /\ UNCHANGED <<adding, queue, flushes>> /\ created' \in BOOLEAN /\ closed' \in BOOLEAN
    BY <1>0, <1>3 DEF Released, At
  <2>2. (\E e \in Outcome \union {"rows"} : Leaves(e))
        \/ \E l \in {"free", "rollback", "commitRetaining"} : Goto(l) /\ UNCHANGED history
    <3>1. CASE call = "cancel"
      BY <1>3, <3>1 DEF Released
    <3>2. CASE call # "cancel" /\ call = "exec" /\ (failure \notin {"nil", "rows"} \/ ~Autocommit)
      BY <1>0, <1>3, <3>2 DEF Released
    <3>3. CASE call # "cancel" /\ ~(call = "exec" /\ (failure \notin {"nil", "rows"} \/ ~Autocommit))
      <4>1. /\ Goto(CASE call = "close"     -> "free"
                      [] failure = "rows"   -> "rollback"
                      [] OTHER              -> "commitRetaining")
            /\ UNCHANGED history
        BY <1>3, <3>3 DEF Released
      <4> QED
        BY <4>1 DEF Goto
    <3> QED
      BY <3>1, <3>2, <3>3
  <2>3. CASE \E e \in Outcome \union {"rows"} : Leaves(e)
    BY <2>1, <2>3, Returns
  <2>4. CASE \E l \in {"free", "rollback", "commitRetaining"} : Goto(l) /\ UNCHANGED history
    BY <1>0, <2>1, <2>4, GoesOn DEF Goto, Places
  <2> QED
    BY <2>2, <2>3, <2>4
<1>4. CASE Committed
  <2>1. /\ pc = "committed" /\ UNCHANGED local
        /\ \E e \in Outcome \union {"rows"} : Leaves(e)
    BY <1>0, <1>4 DEF Committed, At
  <2> QED
    BY <1>0, <2>1, Returns DEF local
<1>5. CASE RolledBack
  BY <1>0, <1>5, Returns DEF RolledBack, At, local
<1>6. CASE Freed
  <2>1. CASE res = "unsent" \/ ~Autocommit
    BY <1>0, <1>6, <2>1, Returns DEF Freed, At, local
  <2>2. CASE ~(res = "unsent" \/ ~Autocommit)
    <3>1. /\ pc' = "commitRetaining" /\ UNCHANGED <<call, ctxVars, calls, local, history>>
          /\ failure' \in Outcome \union {"rows"} /\ pc = "freed"
      BY <1>6, <2>2 DEF Freed, At
    <3> QED
      BY <1>0, <3>1, GoesOn DEF Places, local
  <2> QED
    BY <2>1, <2>2
<1> QED
  BY <1>1, <1>2, <1>3, <1>4, <1>5, <1>6

\* A message takes the queue, and leaves it empty.
LEMMA BatchMsgTypes ==
  ASSUME Driven, BatchMsg
  PROVE  ControlType' /\ LocalType' /\ HistoryType'
<1>1. /\ pc = "msg" /\ pc' = "flushed" /\ queue' = <<>> /\ flushes' = Append(flushes, queue)
      /\ UNCHANGED <<call, ctxVars, failure, calls, adding, created, closed, history>>
  BY DEF BatchMsg, At, Goto
<1>2. <<>> \in Seq(Rows) /\ queue \in Seq(Rows) /\ flushes \in Seq(Seq(Rows))
  BY DEF Driven, LocalType
<1>3. flushes' \in Seq(Seq(Rows))
  BY <1>1, <1>2
<1>4. ControlType'
  BY <1>1 DEF Driven, ControlType, ctxVars, Places
<1>5. LocalType'
  BY <1>1, <1>2, <1>3 DEF Driven, LocalType, history
<1>6. HistoryType'
  BY <1>1 DEF Driven, HistoryType, history
<1> QED
  BY <1>4, <1>5, <1>6

\* The driver's own state after every step.
LEMMA NextDriven ==
  ASSUME Driven, res \in Outcome, [Next]_vars
  PROVE  Driven' \/ BatchMsg
<1>1. CASE Application
  BY <1>1, AddDriven, CallsDriven DEF Application
<1>2. CASE Receive
  <2>1. UNCHANGED <<pc, call, failure, calls, ctxVars, local, history>>
    BY <1>2 DEF Receive
  <2> QED
    BY <2>1, Untouched
<1>3. CASE Driver /\ ~Receive
  BY <1>3, StepsDriven, EndsDriven, FlushedDriven DEF Driver
<1>4. CASE Server
  <2>1. UNCHANGED <<pc, call, failure, calls, ctxVars, local, history>>
    BY <1>4 DEF Server
  <2> QED
    BY <2>1, Untouched
<1>5. CASE CtxDone
  <2>1. /\ expired' = TRUE
        /\ UNCHANGED <<pc, call, failure, calls, ctx, local, history>>
    BY <1>5 DEF CtxDone
  <2>2. ControlType'
    BY <2>1 DEF Driven, ControlType
  <2>3. LocalType'
    BY <2>1 DEF Driven, LocalType, local, history
  <2>4. HistoryType'
    BY <2>1 DEF Driven, HistoryType, history
  <2>5. Spread'
    BY <2>1 DEF Driven, Spread, local, history
  <2> QED
    BY <2>2, <2>3, <2>4, <2>5 DEF Driven
<1>6. CASE Overdue \/ Watcher \/ SocketDeath
  BY <1>6, Untouched DEF Overdue, Watcher, SocketDeath
<1>7. CASE UNCHANGED vars
  BY <1>7, Untouched DEF vars
<1> QED
  BY <1>1, <1>2, <1>3, <1>4, <1>5, <1>6, <1>7 DEF Next

-----------------------------------------------------------------------------
(* The invariant.                                                          *)

LEMMA InitInv == Init => IInv
<1> SUFFICES ASSUME Init PROVE IInv
  OBVIOUS
<1>1. WireInv /\ pend = <<>>
  BY WireInitInv DEF Init, WireInit
<1>2. queue = <<>> /\ flushes = <<>> /\ adding = 0 /\ added = 0 /\ calls = 0
  BY DEF Init
<1>3. ControlType
  <2>1. calls \in 0..MaxCalls
    BY <1>2, BatchAssumption
  <2>2. pc = "idle" /\ call = "none" /\ ctx = "none" /\ expired = FALSE /\ failure = "nil"
    BY DEF Init
  <2> QED
    BY <2>1, <2>2 DEF ControlType, Places, Outcome
<1>4. LocalType /\ HistoryType
  <2>1. <<>> \in Seq(Rows) /\ <<>> \in Seq(Seq(Rows))
    OBVIOUS
  <2>2. queue \in Seq(Rows) /\ flushes \in Seq(Seq(Rows))
    BY <1>2, <2>1
  <2>3. added \in 0..MaxRows /\ adding \in 0..added
    BY <1>2, BatchAssumption
  <2>4. call = "none" /\ created \in BOOLEAN /\ closed \in BOOLEAN
    BY DEF Init
  <2>5. HistoryType
    BY DEF Init, HistoryType
  <2>6. LocalType
    BY <1>2, <2>2, <2>3, <2>4 DEF LocalType
  <2> QED
    BY <2>5, <2>6
<1>5. NoRow \in Count
  BY DEF NoRow, Count
<1>6. ServerType
  BY <1>5 DEF Init, ServerType
<1>7. Spread /\ Sent
  BY <1>1, <1>2 DEF Spread, Sent
<1>8. Recorded
  BY <1>1 DEF Recorded
<1>9. \A r \in Rows : Held(r) = 0
  BY DEF Init, Held, NoRow
<1>10. Stored
  BY <1>9 DEF Stored
<1> QED
  BY <1>1, <1>3, <1>4, <1>6, <1>7, <1>8, <1>10 DEF IInv, TypeOK, WireInv

LEMMA StepInv == IInv /\ [Next]_vars => IInv'
<1> SUFFICES ASSUME IInv, [Next]_vars PROVE IInv'
  OBVIOUS
<1>0. /\ TypeOK /\ WireInv /\ Spread /\ Sent /\ Stored /\ Driven /\ ServerType
      /\ res \in Outcome
  BY DEF IInv, TypeOK, Driven, WireTypeOK
<1>1. WireInv' /\ Sent' /\ Stored' /\ ServerType' /\ (BatchMsg => Spread')
  <2>1. CASE BatchMsg
    <3>1. UNCHANGED <<batch, tx, applied>>
      BY <2>1 DEF BatchMsg, server
    <3>2. ServerType'
      BY <1>0, <3>1 DEF ServerType
    <3> QED
      BY <1>0, <2>1, <3>2, BatchMsgInv
  <2>2. CASE Server
    BY <1>0, <2>2, ServerInv
  <2>3. CASE Elsewhere /\ ~BatchMsg
    <3>1. WireInv' /\ Moved /\ flushes' = flushes /\ UNCHANGED <<batch, tx, applied>>
      BY <1>0, <2>3, WireStepInv DEF Elsewhere, server
    <3>2. Sent' /\ \A f : Under(f)' => Under(f)
      BY <1>0, <3>1, MovedSent
    <3>3. ServerType'
      BY <1>0, <3>1 DEF ServerType
    <3>4. \A r \in Rows : Held(r) \in Nat
      BY <1>0, HeldType
    <3>5. \A r \in Rows : Held(r)' = Held(r)
      BY <3>1 DEF Held
    <3>6. Stored'
      BY <1>0, <3>1, <3>2, <3>4, <3>5, StoredStays
    <3> QED
      BY <2>3, <3>1, <3>2, <3>3, <3>6
  <2> QED
    BY <1>0, <2>1, <2>2, <2>3, StepKinds
<1>2. ControlType' /\ LocalType' /\ HistoryType' /\ Spread'
  BY <1>0, <1>1, NextDriven, BatchMsgTypes DEF Driven
<1>3. WireTypeOK' /\ pend' \in Seq(Request) /\ flushes' \in Seq(Seq(Rows))
  BY <1>1, <1>2 DEF WireInv, WireTypeOK, LocalType
<1>4. Recorded'
  BY SMTT(30), <1>1, <1>3 DEF Sent, Message, Recorded
<1> QED
  BY <1>1, <1>2, <1>3, <1>4 DEF IInv, TypeOK

-----------------------------------------------------------------------------
(* What becomes of the rows of an Exec that reports row errors.            *)

\* Request i has yet to reach the server, and asks for op.
Waits(i, op) == pend[i].op = op /\ pend[i].st = "asked"

\* Request i comes before anything the server has, or will have, of row r.
Before(i, r) ==
  /\ Held(r) = 0
  /\ \A j \in 1..(i - 1) : Waits(j, "batch_msg") => ~From(pend[j].w, r)

\* No commit under way finds row r.
Safe(r) ==
  /\ applied[r] = 0
  /\ \A i \in 1..Len(pend) : Waits(i, "commit_retaining") => Before(i, r)

\* The transaction is rolled back, or will be; or nothing can be sent any more.
Over == ~tx.open \/ \E j \in 1..Len(pend) : Waits(j, "rollback")
Mute == writer = "sticky" \/ sock = "dead"

\* No commit under way, or yet to be sent, will find row r.
Undone(r) ==
  /\ applied[r] = 0
  /\ Mute \/ Over
  /\ \A i \in 1..Len(pend) : Waits(i, "commit_retaining") =>
       \/ ~tx.open
       \/ Before(i, r)
       \/ \E j \in 1..(i - 1) : Waits(j, "rollback")

\* Exec rolls back when it reports row errors, and before it reports them.
Reports ==
  /\ pc \in {"commitRetaining", "committed"} => failure # "rows"
  /\ pc = "rolledBack" => Mute \/ Over
Ended ==
  /\ Reports
  /\ pc # "committed" => \A r \in owed : Safe(r)
  /\ \A r \in rejected : Undone(r)

\* A step of the driver on the wire: the requests that wait stay, in their order,
\* but with the socket; and new ones, for one of ops, come last.
Keeps(k) == \A i \in 1..Len(pend) :
  pend[i].st = "asked" => i - k \in 1..Len(pend') /\ pend'[i - k] = pend[i]
Adds(k, ops) == \A i \in 1..Len(pend') :
  \/ i + k \in 1..Len(pend) /\ pend'[i] = pend[i + k]
  \/ i + k > Len(pend) /\ ~Mute /\ pend'[i].op \in ops
Sends(ops) ==
  /\ Mute => Mute'
  /\ \/ sock' = "dead" /\ \A i \in 1..Len(pend') : pend'[i].st # "asked"
     \/ \E k \in {0, 1} : Keeps(k) /\ Adds(k, ops)

LEMMA SameSends ==
  ASSUME WireTypeOK, pend' = pend, Mute => Mute', NEW ops
  PROVE  Sends(ops)
<1>0. Len(pend) \in Nat
  BY DEF WireTypeOK
<1>1. \A i \in 1..Len(pend) : i - 0 = i /\ i + 0 = i
  BY <1>0
<1>2. Keeps(0) /\ Adds(0, ops)
  BY <1>1 DEF Keeps, Adds
<1> QED
  BY <1>2 DEF Sends

LEMMA WriteSends ==
  ASSUME WireTypeOK, NEW rs \in Seq(Request), NEW ops, \A i \in 1..Len(rs) : rs[i].op \in ops,
         NEW awaited, NEW counted, NEW d, NEW checked,
         Write(rs, awaited, counted, d, checked)
  PROVE  /\ Sends(ops)
         /\ \/ Mute'
            \/ \A i \in 1..Len(rs) : Len(pend) + i \in 1..Len(pend') /\ pend'[Len(pend) + i] = rs[i]
<1>1. pend \in Seq(Request) /\ writer \in {"ok", "sticky"} /\ sock \in {"up", "dead"}
  BY DEF WireTypeOK
<1>2. Mute => Mute'
  BY <1>1 DEF Write, Mute
<1>3. CASE pend' = pend /\ writer' = "sticky"
  BY <1>2, <1>3, SameSends DEF Mute
<1>4. CASE pend' = pend \o rs /\ writer = "ok" /\ CanWrite
  <2>1. /\ Len(pend') = Len(pend) + Len(rs) /\ Len(pend) \in Nat /\ Len(rs) \in Nat
        /\ \A i \in 1..Len(pend) : pend'[i] = pend[i]
        /\ \A i \in 1..Len(rs) : pend'[Len(pend) + i] = rs[i]
    BY <1>1, <1>4, Appended
  <2>2. ~Mute
    BY <1>4 DEF CanWrite, Mute
  <2>3. Keeps(0)
    BY <2>1 DEF Keeps
  <2>4. ASSUME NEW i \in 1..Len(pend')
        PROVE  \/ i + 0 \in 1..Len(pend) /\ pend'[i] = pend[i + 0]
               \/ i + 0 > Len(pend) /\ ~Mute /\ pend'[i].op \in ops
    <3>1. CASE i \in 1..Len(pend)
      BY <2>1, <3>1
    <3>2. CASE i \notin 1..Len(pend)
      <4>1. PICK m \in 1..Len(rs) : i = Len(pend) + m
        <5>1. i - Len(pend) \in 1..Len(rs) /\ i = Len(pend) + (i - Len(pend))
          BY <2>1, <3>2
        <5> QED
          BY <5>1
      <4>2. pend'[i].op \in ops /\ i + 0 > Len(pend)
        BY <2>1, <4>1
      <4> QED
        BY <2>2, <4>2
    <3> QED
      BY <3>1, <3>2
  <2>5. Adds(0, ops)
    BY <2>4 DEF Adds
  <2>6. \A i \in 1..Len(rs) : Len(pend) + i \in 1..Len(pend')
    BY <2>1
  <2> QED
    BY <1>2, <2>1, <2>3, <2>5, <2>6 DEF Sends
<1> QED
  BY <1>1, <1>3, <1>4 DEF Write

LEMMA TailSends ==
  ASSUME WireTypeOK, Arrived, pend' = Tail(pend), UNCHANGED <<writer, sock>>, NEW ops
  PROVE  Sends(ops)
<1>1. /\ Len(pend) \in Nat \ {0} /\ Len(pend') = Len(pend) - 1
      /\ \A i \in 1..Len(pend') : pend'[i] = pend[i + 1]
  BY Shortened DEF WireTypeOK, Arrived
<1>2. pend[1].st # "asked"
  BY <1>1 DEF Arrived, WireTypeOK
<1>3. ASSUME NEW i \in 1..Len(pend), pend[i].st = "asked"
      PROVE  i - 1 \in 1..Len(pend') /\ pend'[i - 1] = pend[i]
  <2>1. PICK m \in Nat : i = m + 1
    BY <1>1
  <2>2. m \in 1..Len(pend')
    BY <1>1, <1>2, <1>3, <2>1
  <2> QED
    BY <1>1, <2>1, <2>2
<1>4. Keeps(1)
  BY <1>3 DEF Keeps
<1>5. Adds(1, ops)
  BY <1>1 DEF Adds
<1> QED
  BY <1>4, <1>5 DEF Sends, Mute

LEMMA AskSends ==
  ASSUME WireTypeOK, NEW op \in Ops, NEW h \in Nat, NEW d, NEW ops, op \in ops,
         Ask(op, h, 0, d)
  PROVE  Sends(ops) /\ (Mute' \/ \E i \in 1..Len(pend') : pend'[i] = Asked(op, h, 0))
<1> DEFINE rs == <<Asked(op, h, 0)>>
<1>1. Asked(op, h, 0) \in Request /\ Asked(op, h, 0).op = op
  BY AskedRequest DEF Asked
<1>2. rs \in Seq(Request) /\ Len(rs) = 1 /\ rs[1] = Asked(op, h, 0) /\ \A i \in 1..Len(rs) : i = 1
  BY <1>1
<1>3. Write(rs, <<op>>, 0, d, TRUE)
  BY DEF Ask
<1> HIDE DEF rs
<1>4. \A i \in 1..Len(rs) : rs[i].op \in ops
  BY <1>1, <1>2
<1>5. /\ Sends(ops)
      /\ \/ Mute'
         \/ \A i \in 1..Len(rs) : Len(pend) + i \in 1..Len(pend') /\ pend'[Len(pend) + i] = rs[i]
  BY <1>2, <1>3, <1>4, WriteSends
<1>6. 1 \in 1..Len(rs)
  BY <1>2
<1> QED
  BY <1>2, <1>5, <1>6

LEMMA AskTwoSends ==
  ASSUME WireTypeOK, NEW op \in Ops, NEW w \in Nat, NEW second \in Ops, NEW ops,
         op \in ops, second \in ops, AskTwo(op, w, second)
  PROVE  Sends(ops)
<1> DEFINE rs == <<Asked(op, 0, w), Asked(second, 0, 0)>>
<1>1. /\ Asked(op, 0, w) \in Request /\ Asked(op, 0, w).op = op
      /\ Asked(second, 0, 0) \in Request /\ Asked(second, 0, 0).op = second
  BY AskedRequest DEF Asked
<1>2. rs \in Seq(Request) /\ \A i \in 1..Len(rs) : rs[i].op \in ops
  BY <1>1
<1>3. (pend' = pend /\ writer' = "sticky") \/ Write(rs, <<op, second>>, 0, armed, TRUE)
  BY DEF AskTwo
<1> HIDE DEF rs
<1> QED
  BY <1>2, <1>3, WriteSends, SameSends DEF Mute

LEMMA LazilySends ==
  ASSUME WireTypeOK, NEW ops, "free" \in ops, AskLazily("free", TRUE)
  PROVE  Sends(ops)
<1> DEFINE rs == <<Asked("free", 0, 0)>>
<1>1. Asked("free", 0, 0) \in Request /\ Asked("free", 0, 0).op = "free"
  BY AskedRequest DEF Asked, Ops
<1>2. rs \in Seq(Request) /\ \A i \in 1..Len(rs) : rs[i].op \in ops
  BY <1>1
<1>3. Write(rs, <<>>, 1, armed, TRUE)
  BY DEF AskLazily
<1> HIDE DEF rs
<1> QED
  BY <1>2, <1>3, WriteSends

\* Reading, and what happens to the socket, send nothing.
LEMMA ReceiveSends ==
  ASSUME WireTypeOK, NEW ops,
         \/ WatcherCancel \/ SocketDies \/ RecvSkip \/ RecvOwn \/ RecvMalformed
         \/ RecvTimeout \/ RecvGarbage \/ UNCHANGED wireVars
         \/ \E d \in Deadline : SetDeadline(d)
  PROVE  Sends(ops)
<1>1. CASE WatcherCancel
  BY <1>1, SameSends DEF WatcherCancel, CancelWritten, CanWrite, Mute
<1>2. CASE SocketDies
  <2>1. PICK n \in 0..Len(pend) : /\ \A i \in 1..n : pend[i].st # "asked"
                                  /\ pend' = SubSeq(pend, 1, n)
    BY <1>2 DEF SocketDies
  <2>2. pend \in Seq(Request)
    BY DEF WireTypeOK
  <2>3. Len(pend') = n /\ \A i \in 1..n : pend'[i] = pend[i]
    BY <2>1, <2>2
  <2> QED
    BY <1>2, <2>1, <2>3 DEF SocketDies, Sends, Mute
<1>3. CASE RecvSkip \/ RecvOwn \/ RecvMalformed
  <2>1. Arrived /\ pend' = Tail(pend) /\ UNCHANGED <<writer, sock>>
    BY <1>3 DEF RecvSkip, ToSkip, RecvOwn, RecvMalformed, ReadEnds
  <2> QED
    BY <2>1, TailSends
<1>4. CASE RecvTimeout \/ RecvGarbage
  <2>1. UNCHANGED <<pend, writer, sock>>
    BY <1>4 DEF RecvTimeout, RecvGarbage, GiveUp, ReadEnds
  <2> QED
    BY <2>1, SameSends DEF Mute
<1>5. CASE UNCHANGED wireVars \/ \E d \in Deadline : SetDeadline(d)
  <2>1. UNCHANGED <<pend, writer, sock>>
    BY <1>5 DEF wireVars, SetDeadline
  <2> QED
    BY <2>1, SameSends DEF Mute
<1> QED
  BY <1>1, <1>2, <1>3, <1>4, <1>5

\* Only CommitRetaining sends a commit.
NotCommit == Ops \ {"commit_retaining"}

LEMMA NextSends ==
  ASSUME WireTypeOK, flushes \in Seq(Seq(Rows)), [Next]_vars, ~Server
  PROVE  /\ UNCHANGED server
         /\ flushes' = flushes \/ flushes' = Append(flushes, queue)
         /\ \/ Sends(NotCommit)
            \/ CommitRetaining /\ Sends(Ops)
<1>0. armed \in Deadline
  BY DEF WireTypeOK
<1>1. CASE Application
  <2>1. UNCHANGED <<wireVars, flushes, server>>
    BY <1>1 DEF Application, Add, Flush, Exec, Cancel, Close, Starts, local
  <2> QED
    BY <2>1, ReceiveSends
<1>2. CASE BatchCreate
  <2>1. UNCHANGED wireVars \/ AskTwo("batch_create", 0, "ping")
    BY <1>2 DEF BatchCreate
  <2>2. Sends(NotCommit)
    BY <2>1, ReceiveSends, AskTwoSends DEF NotCommit, Ops
  <2> QED
    BY <1>2, <2>2 DEF BatchCreate, local
<1>3. CASE BatchCreated \/ Flushed \/ Completion \/ Released \/ Committed \/ RolledBack \/ Freed
  <2>1. UNCHANGED wireVars \/ SetDeadline("none")
    BY <1>3 DEF BatchCreated, Flushed, Completion, Released, Committed, RolledBack, Freed, Leaves
  <2>2. UNCHANGED <<flushes, server>>
    BY <1>3 DEF BatchCreated, Flushed, Completion, Released, Committed, RolledBack, Freed, Leaves,
                local
  <2> QED
    BY <2>1, <2>2, ReceiveSends DEF Deadline
<1>4. CASE BatchMsg
  <2>1. /\ flushes' = Append(flushes, queue) /\ AskTwo("batch_msg", Len(flushes'), "sync")
        /\ UNCHANGED server
    BY <1>4 DEF BatchMsg
  <2>2. Len(flushes') \in Nat
    BY <2>1
  <2>3. Sends(NotCommit)
    BY <2>1, <2>2, AskTwoSends DEF NotCommit, Ops
  <2> QED
    BY <2>1, <2>3
<1>5. CASE BatchExec
  <2>1. Ask("batch_exec", 1, 0, IF ctx = "deadline" THEN "ctx" ELSE armed)
    BY <1>5 DEF BatchExec
  <2>2. Sends(NotCommit)
    BY <2>1, AskSends DEF NotCommit, Ops
  <2> QED
    BY <1>5, <2>2 DEF BatchExec, local
<1>6. CASE Release
  <2>1. AskTwo("batch_release", 0, "ping")
    BY <1>6 DEF Release
  <2>2. Sends(NotCommit)
    BY <2>1, AskTwoSends DEF NotCommit, Ops
  <2> QED
    BY <1>6, <2>2 DEF Release, local
<1>7. CASE CommitRetaining
  <2>1. Ask("commit_retaining", 1, 0, "fixed")
    BY <1>7 DEF CommitRetaining
  <2>2. Sends(Ops)
    BY <2>1, AskSends DEF Ops
  <2> QED
    BY <1>7, <2>2 DEF CommitRetaining, local
<1>8. CASE Rollback
  <2>1. Ask("rollback", 1, 0, "fixed")
    BY <1>8 DEF Rollback
  <2>2. Sends(NotCommit)
    BY <2>1, AskSends DEF NotCommit, Ops
  <2> QED
    BY <1>8, <2>2 DEF Rollback, local
<1>9. CASE Free
  <2>1. AskLazily("free", TRUE) \/ Ask("free", 0, 0, "fixed")
    BY <1>9 DEF Free
  <2>2. Sends(NotCommit)
    BY <2>1, AskSends, LazilySends DEF NotCommit, Ops
  <2> QED
    BY <1>9, <2>2 DEF Free, local
<1>10. CASE Receive
  BY <1>10, ReceiveSends DEF Receive, DeadlineFires, local
<1>11. CASE CtxDone \/ UNCHANGED vars
  BY <1>11, ReceiveSends DEF CtxDone, vars, local
<1>12. CASE Overdue
  <2>1. UNCHANGED <<flushes, server>> /\ SetDeadline("past")
    BY <1>12 DEF Overdue, local
  <2> QED
    BY <2>1, ReceiveSends DEF Deadline
<1>13. CASE Watcher \/ SocketDeath
  BY <1>13, ReceiveSends DEF Watcher, SocketDeath, local
<1> QED
  BY <1>1, <1>2, <1>3, <1>4, <1>5, <1>6, <1>7, <1>8, <1>9, <1>10, <1>11, <1>12, <1>13
     DEF Next, Driver

\* The rows of a message stay what they are.
LEMMA FromStays ==
  ASSUME flushes \in Seq(Seq(Rows)), flushes' = flushes \/ flushes' = Append(flushes, queue),
         queue \in Seq(Rows), NEW f \in 1..Len(flushes), NEW r, From(f, r)'
  PROVE  From(f, r)
<1>1. flushes'[f] = flushes[f]
  OBVIOUS
<1> QED
  BY <1>1 DEF From

\* What waits is still before what it was before, whatever is sent after it.
LEMMA BeforeStays ==
  ASSUME Sent, flushes \in Seq(Seq(Rows)), queue \in Seq(Rows), pend \in Seq(Request),
         flushes' = flushes \/ flushes' = Append(flushes, queue), UNCHANGED server,
         NEW ops, NEW k \in {0, 1}, Adds(k, ops),
         NEW i \in 1..Len(pend'), i + k \in 1..Len(pend), NEW r, Before(i + k, r)
  PROVE  Before(i, r)'
<1>1. Held(r)' = 0
  BY DEF Before, Held, server
<1>2. ASSUME NEW j \in 1..(i - 1), Waits(j, "batch_msg")', From(pend[j].w, r)' PROVE FALSE
  <2>1. j \in 1..Len(pend') /\ j + k \in 1..(i + k - 1) /\ j + k \in 1..Len(pend)
    <3>1. j \in Nat /\ i \in Nat /\ Len(pend) \in Nat /\ i + k <= Len(pend) /\ j <= i - 1 /\ j >= 1
      OBVIOUS
    <3>2. i \in 1..Len(pend')
      OBVIOUS
    <3> QED
      BY <3>1, <3>2
  <2>2. pend'[j] = pend[j + k]
    BY <2>1 DEF Adds
  <2>3. Waits(j + k, "batch_msg")
    BY <1>2, <2>2 DEF Waits
  <2>4. pend[j + k].w \in 1..Len(flushes)
    BY <2>1, <2>3 DEF Sent, Message, Waits
  <2>5. PICK f : f = pend[j + k].w
    OBVIOUS
  <2>6. From(f, r)'
    BY <1>2, <2>2, <2>5 DEF From
  <2>7. From(f, r)
    BY <2>4, <2>5, <2>6, FromStays
  <2>8. ~From(pend[j + k].w, r)
    BY <2>1, <2>3 DEF Before
  <2> QED
    BY <2>5, <2>7, <2>8
<1> QED
  BY <1>1, <1>2 DEF Before

LEMMA SafeStays ==
  ASSUME Sent, flushes \in Seq(Seq(Rows)), queue \in Seq(Rows), pend \in Seq(Request),
         flushes' = flushes \/ flushes' = Append(flushes, queue), UNCHANGED server,
         Sends(NotCommit), NEW r, Safe(r)
  PROVE  Safe(r)'
<1>1. applied'[r] = 0
  BY DEF Safe, server
<1>2. ASSUME NEW i \in 1..Len(pend'), Waits(i, "commit_retaining")' PROVE Before(i, r)'
  <2>1. pend'[i].st = "asked" /\ pend'[i].op = "commit_retaining"
    BY <1>2 DEF Waits
  <2>2. PICK k \in {0, 1} : Adds(k, NotCommit)
    BY <2>1 DEF Sends
  <2>3. i + k \in 1..Len(pend) /\ pend'[i] = pend[i + k]
    BY <2>1, <2>2 DEF Adds, NotCommit
  <2>4. Before(i + k, r)
    BY <2>1, <2>3 DEF Safe, Waits
  <2> QED
    BY <2>2, <2>3, <2>4, BeforeStays
<1> QED
  BY <1>1, <1>2 DEF Safe

LEMMA OverStays ==
  ASSUME UNCHANGED server, NEW ops, Sends(ops), Mute \/ Over
  PROVE  (Mute \/ Over)'
<1>1. CASE Mute \/ ~tx.open \/ sock' = "dead"
  BY <1>1 DEF Sends, Over, server, Mute
<1>2. CASE sock' # "dead" /\ \E j \in 1..Len(pend) : Waits(j, "rollback")
  <2>1. PICK j \in 1..Len(pend) : Waits(j, "rollback")
    BY <1>2
  <2>2. PICK k \in {0, 1} : Keeps(k)
    BY <1>2 DEF Sends
  <2>3. j - k \in 1..Len(pend') /\ pend'[j - k] = pend[j]
    BY <2>1, <2>2 DEF Keeps, Waits
  <2> QED
    BY <2>1, <2>3 DEF Over, Waits
<1> QED
  BY <1>1, <1>2 DEF Over

LEMMA UndoneStays ==
  ASSUME Sent, flushes \in Seq(Seq(Rows)), queue \in Seq(Rows), pend \in Seq(Request),
         flushes' = flushes \/ flushes' = Append(flushes, queue), UNCHANGED server,
         NEW ops, Sends(ops), NEW r, Undone(r)
  PROVE  Undone(r)'
<1>1. applied'[r] = 0 /\ tx' = tx
  BY DEF Undone, server
<1>2. (Mute \/ Over)'
  BY OverStays DEF Undone
<1>3. ASSUME NEW i \in 1..Len(pend'), Waits(i, "commit_retaining")', tx.open, ~Before(i, r)'
      PROVE  \E j \in 1..(i - 1) : Waits(j, "rollback")'
  <2>1. pend'[i].st = "asked" /\ pend'[i].op = "commit_retaining" /\ i \in Nat /\ i >= 1
    BY <1>3 DEF Waits
  <2>2. PICK k \in {0, 1} : Keeps(k) /\ Adds(k, ops)
    BY <2>1 DEF Sends
  <2>n. Len(pend) \in Nat
    OBVIOUS
  <2>3. CASE i + k \in 1..Len(pend) /\ pend'[i] = pend[i + k]
    <3>1. ~Before(i + k, r)
      BY <1>3, <2>2, <2>3, BeforeStays
    <3>2. Waits(i + k, "commit_retaining")
      BY <2>1, <2>3 DEF Waits
    <3>m. PICK m : m = i + k
      OBVIOUS
    <3>3. PICK j \in 1..(m - 1) : Waits(j, "rollback")
      BY <1>3, <2>3, <3>1, <3>2, <3>m DEF Undone
    <3>4. j \in 1..Len(pend)
      BY <2>3, <2>n, <2>1, <3>m
    <3>5. j - k \in 1..Len(pend') /\ pend'[j - k] = pend[j]
      BY <2>2, <3>3, <3>4 DEF Keeps, Waits
    <3>6. j - k \in 1..(i - 1)
      BY <2>1, <3>3, <3>5, <3>m
    <3> QED
      BY <3>3, <3>5, <3>6 DEF Waits
  <2>4. CASE i + k > Len(pend) /\ ~Mute
    <3>1. PICK j \in 1..Len(pend) : Waits(j, "rollback")
      BY <1>3, <2>4 DEF Undone, Over
    <3>2. j - k \in 1..Len(pend') /\ pend'[j - k] = pend[j]
      BY <2>2, <3>1 DEF Keeps, Waits
    <3>3. j - k \in 1..(i - 1)
      BY <2>1, <2>4, <2>n, <3>1, <3>2
    <3> QED
      BY <3>1, <3>2, <3>3 DEF Waits
  <2> QED
    BY <2>2, <2>3, <2>4 DEF Adds
<1> QED
  BY <1>1, <1>2, <1>3 DEF Undone

\* The server: it looks at the oldest request that waits, and no other.
LEMMA AnswerWaits ==
  ASSUME pend \in Seq(Request), NEW n \in 1..Len(pend), NextAsked(n),
         NEW st \in {"ok", "err"}, NEW h \in Nat, Answer(n, st, h)
  PROVE  /\ Len(pend') = Len(pend) /\ UNCHANGED <<writer, sock>>
         /\ \A j \in 1..Len(pend) : j # n => pend'[j] = pend[j]
         /\ \A j \in 1..Len(pend), op \in Ops : Waits(j, op)' => Waits(j, op) /\ j > n
         /\ \A j \in 1..Len(pend), op \in Ops : Waits(j, op) => j >= n
<1> DEFINE new == [pend[n] EXCEPT !.st = st, !.h = h]
<1>1. pend[n] \in Request
  OBVIOUS
<1>2. new.st = st
  BY <1>1 DEF Request
<1>3. pend' = [pend EXCEPT ![n] = new] /\ UNCHANGED <<writer, sock>>
  BY DEF Answer
<1> HIDE DEF new
<1>4. /\ Len(pend') = Len(pend) /\ pend'[n] = new
      /\ \A j \in 1..Len(pend) : j # n => pend'[j] = pend[j]
  BY <1>3
<1>5. \A j \in 1..Len(pend), op \in Ops : Waits(j, op) => j >= n
  BY DEF Waits, NextAsked
<1>6. \A j \in 1..Len(pend), op \in Ops : Waits(j, op)' => Waits(j, op) /\ j > n
  <2> TAKE j \in 1..Len(pend), op \in Ops
  <2> HAVE Waits(j, op)'
  <2>1. j # n
    BY <1>2, <1>4 DEF Waits
  <2>2. Waits(j, op)
    BY <1>4, <2>1 DEF Waits
  <2> QED
    BY <1>5, <2>1, <2>2
<1> QED
  BY <1>3, <1>4, <1>5, <1>6

\* What the server does with request n to row r.
Serves(n, r) ==
  /\ Held(r) = 0 /\ ~(pend[n].op = "batch_msg" /\ From(pend[n].w, r)) => Held(r)' = 0
  /\ applied'[r] # applied[r] =>
       pend[n].op = "commit_retaining" /\ tx.open /\ applied'[r] = applied[r] + tx.rows[r]
Closes(n) ==
  /\ tx'.open => tx.open
  /\ pend[n].op = "rollback" => ~tx'.open

LEMMA EffectServes ==
  ASSUME ServerType, flushes \in Seq(Seq(Rows)), NEW n \in 1..Len(pend), pend[n] \in Request,
         pend[n].op = "batch_msg" => pend[n].w \in 1..Len(flushes),
         Possible(pend[n]), Effect(pend[n]), NEW r \in Rows
  PROVE  Serves(n, r) /\ Closes(n)
<1>0. tx \in [open : BOOLEAN, rows : Count] /\ applied \in Count
  BY DEF ServerType
<1>1. CASE pend[n].op = "batch_msg"
  <2>f. PICK f \in 1..Len(flushes) : f = pend[n].w
    BY <1>1
  <2>1. /\ batch' = [batch EXCEPT !.rows = Sum(@, Occurrences(flushes[f]))]
        /\ UNCHANGED <<tx, applied>>
    BY <1>1, <2>f DEF Effect
  <2> DEFINE new == Sum(batch.rows, Occurrences(flushes[f]))
  <2>2. batch'.rows = new
    BY <2>1 DEF ServerType
  <2>3. new[r] = batch.rows[r] + Occurrences(flushes[f])[r]
    BY DEF Sum
  <2> HIDE DEF new
  <2>4. ~From(f, r) => Occurrences(flushes[f])[r] = 0
    <3> DEFINE T == {i \in DOMAIN flushes[f] : flushes[f][i] = r}
    <3>1. flushes[f] \in Seq(Rows)
      OBVIOUS
    <3>2. ~From(f, r) => T = {}
      BY <3>1 DEF From
    <3>3. T = {} => Cardinality(T) = 0
      BY FS_EmptySet, Zenon
    <3>4. Occurrences(flushes[f])[r] = Cardinality(T)
      BY DEF Occurrences
    <3> HIDE DEF T
    <3> QED
      BY <3>2, <3>3, <3>4
  <2>5. ~From(pend[n].w, r) => ~From(f, r)
    BY <2>f
  <2>6. ~From(pend[n].w, r) /\ Held(r) = 0 => Held(r)' = 0
    BY <2>1, <2>2, <2>3, <2>4, <2>5, HeldType DEF Held
  <2> QED
    BY <1>1, <2>1, <2>6 DEF Serves, Closes
<1>2. CASE pend[n].op # "batch_msg"
  <2>1. ServerType' /\ Held(r)' <= Held(r)
    BY <1>2, EffectHolds
  <2>2. Held(r)' \in Nat
    BY <2>1 DEF ServerType, Held, Count
  <2>3. Held(r) = 0 => Held(r)' = 0
    BY <2>1, <2>2, HeldType
  <2>4. CASE pend[n].op = "commit_retaining"
    <3>1. applied' = Sum(applied, tx.rows) /\ tx' = [tx EXCEPT !.rows = NoRow]
      BY <2>4 DEF Effect
    <3>2. tx.open
      BY <2>4 DEF Possible
    <3>3. applied'[r] = applied[r] + tx.rows[r]
      BY <3>1 DEF Sum
    <3>4. tx'.open = tx.open
      BY <1>0, <3>1
    <3> QED
      BY <2>3, <2>4, <3>2, <3>3, <3>4 DEF Serves, Closes
  <2>5. CASE pend[n].op = "rollback"
    <3>1. tx' = [open |-> FALSE, rows |-> NoRow] /\ UNCHANGED applied
      BY <2>5 DEF Effect
    <3>2. ~tx'.open
      BY <3>1
    <3> QED
      BY <2>3, <3>1, <3>2 DEF Serves, Closes
  <2>6. CASE pend[n].op \notin {"commit_retaining", "rollback"}
    <3>1. UNCHANGED <<tx, applied>>
      BY <1>2, <2>6 DEF Effect, server
    <3> QED
      BY <2>3, <2>6, <3>1 DEF Serves, Closes
  <2> QED
    BY <2>4, <2>5, <2>6
<1> QED
  BY <1>1, <1>2

LEMMA ExecutesServes ==
  ASSUME ServerType, NEW n \in 1..Len(pend), pend[n].op = "batch_exec", Executes(n), NEW r \in Rows
  PROVE  Serves(n, r) /\ Closes(n)
<1>1. ServerType' /\ Held(r)' <= Held(r) /\ UNCHANGED applied
  BY ExecutesHolds DEF Executes
<1>2. Held(r)' \in Nat
  BY <1>1 DEF ServerType, Held, Count
<1>3. Held(r) = 0 => Held(r)' = 0
  BY <1>1, <1>2, HeldType
<1>4. PICK rows : tx' = [tx EXCEPT !.rows = rows]
  BY DEF Executes
<1>5. tx'.open = tx.open
  BY <1>4 DEF ServerType
<1> QED
  BY <1>1, <1>3, <1>5 DEF Serves, Closes

\* The server refuses no rollback: the transaction is over after one.
LEMMA ServerServes ==
  ASSUME TypeOK, WireInv, Sent, Server, "rollback" \notin Fallible
  PROVE  \E n \in 1..Len(pend) :
           /\ NextAsked(n) /\ (\E st \in {"ok", "err"}, h \in Nat : Answer(n, st, h))
           /\ Closes(n) /\ \A r \in Rows : Serves(n, r)
<1>0. ServerType /\ flushes \in Seq(Seq(Rows)) /\ pend \in Seq(Request)
  BY DEF TypeOK, LocalType, WireInv, WireTypeOK
<1>1. PICK n \in 1..Len(pend) :
        /\ NextAsked(n)
        /\ \/ pend[n].op = "batch_exec" /\ Executes(n)
           \/ pend[n].op # "batch_exec" /\ Possible(pend[n]) /\ Answer(n, "ok", 0) /\ Effect(pend[n])
           \/ /\ pend[n].op \in Fallible \/ ~Possible(pend[n])
              /\ Answer(n, "err", 0) /\ UNCHANGED server
  BY DEF Server
<1>2. \E st \in {"ok", "err"}, h \in Nat : Answer(n, st, h)
  BY <1>1 DEF Executes
<1>3. pend[n] \in Request /\ (pend[n].op = "batch_msg" => pend[n].w \in 1..Len(flushes))
  BY <1>0 DEF Sent, Message
<1>4. ASSUME NEW r \in Rows PROVE Serves(n, r) /\ Closes(n)
  <2>1. CASE pend[n].op = "batch_exec" /\ Executes(n)
    BY <1>0, <2>1, ExecutesServes
  <2>2. CASE Possible(pend[n]) /\ Effect(pend[n])
    BY <1>0, <1>3, <2>2, EffectServes
  <2>3. CASE (pend[n].op \in Fallible \/ ~Possible(pend[n])) /\ UNCHANGED server
    <3>1. pend[n].op = "rollback" => ~tx.open
      BY <2>3 DEF Possible
    <3> QED
      BY <2>3, <3>1 DEF server, Serves, Closes, Held
  <2> QED
    BY <1>1, <2>1, <2>2, <2>3
<1>5. Closes(n)
  <2>1. CASE pend[n].op = "batch_exec" /\ Executes(n)
    <3>1. PICK rows : tx' = [tx EXCEPT !.rows = rows]
      BY <2>1 DEF Executes
    <3>2. tx'.open = tx.open
      BY <1>0, <3>1 DEF ServerType
    <3> QED
      BY <2>1, <3>2 DEF Closes
  <2>2. CASE Possible(pend[n]) /\ Effect(pend[n])
    BY <1>0, <2>2 DEF Effect, Closes, ServerType, server
  <2>3. CASE (pend[n].op \in Fallible \/ ~Possible(pend[n])) /\ UNCHANGED server
    BY <2>3 DEF Possible, server, Closes
  <2> QED
    BY <1>1, <2>1, <2>2, <2>3
<1> QED
  BY <1>1, <1>2, <1>4, <1>5

\* A row that no request before n brings is not with the server after n.
LEMMA BeforeServed ==
  ASSUME pend \in Seq(Request), flushes' = flushes,
         NEW n \in 1..Len(pend), NextAsked(n),
         NEW st \in {"ok", "err"}, NEW h \in Nat, Answer(n, st, h),
         NEW r \in Rows, Serves(n, r), NEW i \in 1..Len(pend), i > n, Before(i, r)
  PROVE  Before(i, r)'
<1>1. pend[n].st = "asked" /\ pend[n] \in Request
  BY DEF NextAsked
<1>2. ~(pend[n].op = "batch_msg" /\ From(pend[n].w, r))
  BY <1>1 DEF Before, Waits
<1>3. Held(r)' = 0
  BY <1>2 DEF Serves, Before
<1>4. ASSUME NEW j \in 1..(i - 1), Waits(j, "batch_msg")', From(pend[j].w, r)' PROVE FALSE
  <2>1. j \in 1..Len(pend) /\ "batch_msg" \in Ops
    BY DEF Ops
  <2>2. Waits(j, "batch_msg") /\ j > n
    BY <1>4, <2>1, AnswerWaits
  <2>3. pend'[j] = pend[j]
    BY <2>1, <2>2, AnswerWaits
  <2>4. From(pend[j].w, r)
    BY <1>4, <2>3 DEF From
  <2> QED
    BY <2>2, <2>4 DEF Before
<1> QED
  BY <1>3, <1>4 DEF Before

LEMMA SafeServed ==
  ASSUME ServerType, pend \in Seq(Request), flushes' = flushes,
         NEW n \in 1..Len(pend), NextAsked(n),
         NEW st \in {"ok", "err"}, NEW h \in Nat, Answer(n, st, h),
         NEW r \in Rows, Serves(n, r), Safe(r)
  PROVE  Safe(r)'
<1>0. "commit_retaining" \in Ops /\ pend[n].st = "asked"
  BY DEF Ops, NextAsked
<1>1. applied'[r] = 0
  <2>1. CASE applied'[r] = applied[r]
    BY <2>1 DEF Safe
  <2>2. CASE applied'[r] # applied[r]
    <3>1. Waits(n, "commit_retaining") /\ applied'[r] = applied[r] + tx.rows[r]
      BY <1>0, <2>2 DEF Serves, Waits
    <3>2. Held(r) = 0
      BY <3>1 DEF Safe, Before
    <3> QED
      BY <3>1, <3>2, HeldType DEF Held, Safe
  <2> QED
    BY <2>1, <2>2
<1>2. ASSUME NEW i \in 1..Len(pend), Waits(i, "commit_retaining")' PROVE Before(i, r)'
  <2>1. Waits(i, "commit_retaining") /\ i > n
    BY <1>0, <1>2, AnswerWaits
  <2> QED
    BY <2>1, BeforeServed DEF Safe
<1>3. Len(pend') = Len(pend)
  BY AnswerWaits
<1> QED
  BY <1>1, <1>2, <1>3 DEF Safe

LEMMA OverServed ==
  ASSUME pend \in Seq(Request), NEW n \in 1..Len(pend), NextAsked(n),
         NEW st \in {"ok", "err"}, NEW h \in Nat, Answer(n, st, h), Closes(n), Mute \/ Over
  PROVE  (Mute \/ Over)'
<1>0. "rollback" \in Ops /\ Len(pend') = Len(pend) /\ UNCHANGED <<writer, sock>>
  BY AnswerWaits DEF Ops
<1>1. CASE Mute \/ ~tx.open
  BY <1>0, <1>1 DEF Mute, Over, Closes
<1>2. CASE \E j \in 1..Len(pend) : Waits(j, "rollback")
  <2>1. PICK j \in 1..Len(pend) : Waits(j, "rollback")
    BY <1>2
  <2>2. CASE j = n
    BY <2>1, <2>2 DEF Closes, Waits, Over
  <2>3. CASE j # n
    <3>1. pend'[j] = pend[j]
      BY <2>3, AnswerWaits
    <3> QED
      BY <1>0, <2>1, <3>1 DEF Over, Waits
  <2> QED
    BY <2>2, <2>3
<1> QED
  BY <1>1, <1>2 DEF Over

LEMMA UndoneServed ==
  ASSUME ServerType, pend \in Seq(Request), flushes' = flushes,
         NEW n \in 1..Len(pend), NextAsked(n),
         NEW st \in {"ok", "err"}, NEW h \in Nat, Answer(n, st, h), Closes(n),
         NEW r \in Rows, Serves(n, r), Undone(r)
  PROVE  Undone(r)'
<1>0. /\ "commit_retaining" \in Ops /\ "rollback" \in Ops /\ pend[n].st = "asked"
      /\ Len(pend') = Len(pend)
  BY AnswerWaits DEF Ops, NextAsked
<1>1. (Mute \/ Over)'
  BY OverServed DEF Undone
<1>2. applied'[r] = 0
  <2>1. CASE applied'[r] = applied[r]
    BY <2>1 DEF Undone
  <2>2. CASE applied'[r] # applied[r]
    <3>1. Waits(n, "commit_retaining") /\ tx.open /\ applied'[r] = applied[r] + tx.rows[r]
      BY <1>0, <2>2 DEF Serves, Waits
    <3>2. \A j \in 1..(n - 1) : ~Waits(j, "rollback")
      BY DEF NextAsked, Waits
    <3>3. Held(r) = 0
      BY <3>1, <3>2 DEF Undone, Before
    <3> QED
      BY <3>1, <3>3, HeldType DEF Held, Undone
  <2> QED
    BY <2>1, <2>2
<1>3. ASSUME NEW i \in 1..Len(pend), Waits(i, "commit_retaining")', tx'.open, ~Before(i, r)'
      PROVE  \E j \in 1..(i - 1) : Waits(j, "rollback")'
  <2>1. Waits(i, "commit_retaining") /\ i > n
    BY <1>0, <1>3, AnswerWaits
  <2>2. tx.open /\ pend[n].op # "rollback"
    BY <1>3 DEF Closes
  <2>3. ~Before(i, r)
    BY <1>3, <2>1, BeforeServed
  <2>4. PICK j \in 1..(i - 1) : Waits(j, "rollback")
    BY <2>1, <2>2, <2>3 DEF Undone
  <2>5. j # n /\ j \in 1..Len(pend)
    BY <2>2, <2>4 DEF Waits
  <2>6. pend'[j] = pend[j]
    BY <2>5, AnswerWaits
  <2> QED
    BY <2>4, <2>6 DEF Waits
<1> QED
  BY <1>0, <1>1, <1>2, <1>3 DEF Undone

\* A row that no message has.
New(r) == r \in Rows /\ \A f \in 1..Len(flushes) : ~From(f, r)

LEMMA NewSafe ==
  ASSUME ServerType, Stored, Sent, NEW r, New(r)
  PROVE  Safe(r)
<1>1. Held(r) = 0
  <2>1. ~(Held(r) > 0)
    BY DEF Stored, New
  <2> QED
    BY <2>1, HeldType DEF New
<1>2. applied[r] = 0
  BY <1>1, HeldType DEF Held, New
<1>3. \A j \in 1..Len(pend) : Waits(j, "batch_msg") => ~From(pend[j].w, r)
  BY DEF Sent, Message, Waits, New
<1>4. ASSUME NEW i \in 1..Len(pend) PROVE Before(i, r)
  <2>1. \A j \in 1..(i - 1) : j \in 1..Len(pend)
    OBVIOUS
  <2> QED
    BY <1>1, <1>3, <2>1 DEF Before
<1> QED
  BY <1>2, <1>4 DEF Safe

\* The rows the application has handed in, and what it is told of them.
Tells ==
  /\ rejected' \subseteq rejected \/ (pc = "rolledBack" /\ rejected' = rejected \union owed)
  /\ pc' # "committed" =>
       /\ ~CommitRetaining
       /\ owed' = {} \/ (pc # "committed" /\ \A r \in owed' : r \in owed \/ New(r))

LEMMA LeavesTells ==
  ASSUME NEW e, Leaves(e), pc # "commitRetaining",
         e = "rows" => pc = "rolledBack",
         pc = "committed" => call \notin {"add", "flush"}
  PROVE  Tells
BY DEF Leaves, Tells, CommitRetaining, At

LEMMA AddTells ==
  ASSUME Driven, Add
  PROVE  Tells
<1>1. pc = "idle" /\ added' = added + 1 /\ added < MaxRows /\ rejected' = rejected
  BY DEF Add, At, Starts
<1>2. owed' = owed \/ owed' = owed \union {added'}
  BY DEF Add
<1>3. added' \in Rows /\ added \in Nat
  BY <1>1, BatchAssumption DEF Driven, LocalType, Rows
<1>4. ASSUME NEW f \in 1..Len(flushes), From(f, added') PROVE FALSE
  <2>1. PICK i \in 1..Len(flushes[f]) : flushes[f][i] = added'
    BY <1>4 DEF From
  <2>2. flushes[f][i] <= added
    BY DEF Driven, Spread
  <2> QED
    BY <1>1, <1>3, <2>1, <2>2
<1>5. New(added')
  BY <1>3, <1>4 DEF New
<1> QED
  BY <1>1, <1>2, <1>5 DEF Tells, CommitRetaining, At

LEMMA FlushedTells ==
  ASSUME Driven, res \in Outcome, Flushed
  PROVE  Tells
<1>0. pc = "flushed"
  BY DEF Flushed, At
<1>1. CASE call = "exec" /\ res = "nil"
  BY <1>0, <1>1 DEF Flushed, Goto, history, Tells, CommitRetaining, At
<1>2. CASE call = "add" /\ res = "nil"
  <2>1. owed' = owed \union {adding} /\ UNCHANGED rejected
    BY <1>2 DEF Flushed
  <2>2. adding \in Rows
    BY <1>2, BatchAssumption DEF Driven, LocalType, Rows
  <2>3. \A f \in 1..Len(flushes) : ~From(f, adding)
    BY DEF Driven, Spread, From
  <2> QED
    BY <1>0, <2>1, <2>2, <2>3 DEF Tells, New, CommitRetaining, At
<1>3. CASE call \notin {"exec", "add"} \/ res # "nil"
  <2>1. Leaves(res)
    BY <1>3 DEF Flushed
  <2> QED
    BY <1>0, <2>1, LeavesTells DEF Outcome
<1> QED
  BY <1>1, <1>2, <1>3

LEMMA NextTells ==
  ASSUME Driven, res \in Outcome, Autocommit, Reports, [Next]_vars, ~Server
  PROVE  Tells
<1>0. call \in {"add", "flush"} => pc \in {"flush", "create", "msg", "flushed"}
  BY DEF Driven, ControlType
<1>1. CASE Add
  BY <1>1, AddTells
<1>2. CASE Flushed
  BY <1>2, FlushedTells
<1>3. CASE BatchCreated
  <2>1. CASE res = "nil"
    BY <1>3, <2>1 DEF BatchCreated, At, Goto, history, Tells, CommitRetaining
  <2>2. CASE res # "nil"
    BY <1>3, <2>2, LeavesTells DEF BatchCreated, At, Outcome
  <2> QED
    BY <2>1, <2>2
<1>4. CASE Completion
  <2>1. CASE res = "unsent"
    BY <1>4, <2>1, LeavesTells DEF Completion, At
  <2>2. CASE res # "unsent"
    BY <1>4, <2>2 DEF Completion, At, history, Tells, CommitRetaining
  <2> QED
    BY <2>1, <2>2
<1>5. CASE Released
  <2>0. pc = "released"
    BY <1>5 DEF Released, At
  <2>1. CASE call = "cancel"
    BY <1>5, <2>0, <2>1, LeavesTells DEF Released, Outcome
  <2>2. CASE call = "exec" /\ failure \notin {"nil", "rows"}
    BY <1>5, <2>0, <2>2, LeavesTells DEF Released
  <2>3. CASE call # "cancel" /\ ~(call = "exec" /\ failure \notin {"nil", "rows"})
    <3>1. pc' \in {"free", "rollback", "commitRetaining"} /\ UNCHANGED history
      BY <1>5, <2>3 DEF Released, Goto
    <3> QED
      BY <2>0, <3>1 DEF Tells, history, CommitRetaining, At
  <2> QED
    BY <2>1, <2>2, <2>3
<1>6. CASE Committed
  <2>1. pc = "committed" /\ failure # "rows" /\ call \notin {"add", "flush"}
    BY <1>0, <1>6 DEF Committed, At, Reports
  <2>2. \E e : e # "rows" /\ Leaves(e)
    BY <1>6, <2>1 DEF Committed, Outcome
  <2> QED
    BY <2>1, <2>2, LeavesTells
<1>7. CASE RolledBack
  BY <1>7, LeavesTells DEF RolledBack, At
<1>8. CASE Freed
  <2>1. CASE res = "unsent"
    BY <1>8, <2>1, LeavesTells DEF Freed, At
  <2>2. CASE res # "unsent"
    BY <1>8, <2>2 DEF Freed, At, Tells, history, CommitRetaining
  <2> QED
    BY <2>1, <2>2
<1>9. CASE CommitRetaining
  BY <1>9 DEF CommitRetaining, Goto, Tells, history
<1>10. CASE Flush \/ Exec \/ Cancel \/ Close
  BY <1>10 DEF Flush, Exec, Cancel, Close, Starts, At, Tells, history, CommitRetaining
<1>11. CASE BatchCreate \/ BatchMsg \/ BatchExec \/ Release \/ Rollback \/ Free
  BY <1>11 DEF BatchCreate, BatchMsg, BatchExec, Release, Rollback, Free, At, Goto, Tells, history,
     CommitRetaining
<1>12. CASE ~CommitRetaining /\ UNCHANGED <<pc, history>>
  BY <1>12 DEF Tells, history
<1>13. CASE Receive \/ CtxDone \/ Overdue \/ Watcher \/ SocketDeath \/ UNCHANGED vars
  BY <1>9, <1>12, <1>13 DEF Receive, CtxDone, Overdue, Watcher, SocketDeath, vars
<1> QED
  BY <1>1, <1>2, <1>3, <1>4, <1>5, <1>6, <1>7, <1>8, <1>9, <1>10, <1>11, <1>13
     DEF Next, Application, Driver

LEMMA NextReports ==
  ASSUME Driven, WireTypeOK, Autocommit, Reports, [Next]_vars, ~Server,
         (Mute \/ Over) => (Mute \/ Over)'
  PROVE  Reports'
<1>0. res \in Outcome
  BY DEF WireTypeOK
<1>1. CASE Rollback
  <2>1. pc' = "rolledBack" /\ Ask("rollback", 1, 0, "fixed")
    BY <1>1 DEF Rollback, Goto
  <2>2. "rollback" \in Ops
    BY DEF Ops
  <2>3. Mute' \/ \E i \in 1..Len(pend') : pend'[i] = Asked("rollback", 1, 0)
    BY <2>1, <2>2, AskSends
  <2>4. Asked("rollback", 1, 0).op = "rollback" /\ Asked("rollback", 1, 0).st = "asked"
    BY DEF Asked
  <2> QED
    BY <2>1, <2>3, <2>4 DEF Reports, Over, Waits
<1>2. CASE Released
  <2>1. CASE \E e : Leaves(e)
    BY <2>1 DEF Leaves, Reports
  <2>2. CASE call # "cancel" /\ ~(call = "exec" /\ failure \notin {"nil", "rows"})
    <3>1. /\ pc' = CASE call = "close"     -> "free"
                     [] failure = "rows"   -> "rollback"
                     [] OTHER              -> "commitRetaining"
          /\ UNCHANGED failure
      BY <1>2, <2>2 DEF Released, Goto
    <3>2. CASE call = "close"
      BY <3>1, <3>2 DEF Reports
    <3>3. CASE call # "close" /\ failure = "rows"
      BY <3>1, <3>3 DEF Reports
    <3>4. CASE call # "close" /\ failure # "rows"
      BY <3>1, <3>4 DEF Reports
    <3> QED
      BY <3>2, <3>3, <3>4
  <2> QED
    BY <1>2, <2>1, <2>2 DEF Released
<1>3. CASE Freed
  BY <1>0, <1>3 DEF Freed, Leaves, Reports, Outcome
<1>4. CASE CommitRetaining
  BY <1>4 DEF CommitRetaining, At, Goto, Reports
<1>5. CASE \/ Add \/ Flushed \/ BatchCreated \/ Completion \/ Committed \/ RolledBack
           \/ Flush \/ Exec \/ Cancel \/ Close
           \/ BatchCreate \/ BatchMsg \/ BatchExec \/ Release \/ Free
  <2>1. pc' \notin {"commitRetaining", "committed", "rolledBack"} \/ UNCHANGED <<pc, failure>>
    BY <1>5 DEF Add, Flushed, BatchCreated, Completion, Committed, RolledBack, Flush, Exec, Cancel,
       Close, BatchCreate, BatchMsg, BatchExec, Release, Free, Goto, Leaves, Starts
  <2> QED
    BY <2>1 DEF Reports
<1>6. CASE Receive \/ CtxDone \/ Overdue \/ Watcher \/ SocketDeath \/ UNCHANGED vars
  <2>1. UNCHANGED <<pc, failure>>
    BY <1>6 DEF Receive, CtxDone, Overdue, Watcher, SocketDeath, vars
  <2> QED
    BY <2>1 DEF Reports
<1> QED
  BY <1>1, <1>2, <1>3, <1>4, <1>5, <1>6 DEF Next, Application, Driver

LEMMA EndedStep ==
  ASSUME IInv, Ended, Autocommit, "rollback" \notin Fallible, [Next]_vars
  PROVE  Ended'
<1>0. /\ Driven /\ ServerType /\ WireTypeOK /\ Sent /\ Stored /\ res \in Outcome
      /\ pend \in Seq(Request) /\ flushes \in Seq(Seq(Rows)) /\ queue \in Seq(Rows)
      /\ owed \subseteq Rows /\ rejected \subseteq Rows
  BY DEF IInv, TypeOK, Driven, WireTypeOK, LocalType, HistoryType
<1>1. CASE Server
  <2>1. PICK n \in 1..Len(pend) :
          /\ NextAsked(n) /\ (\E st \in {"ok", "err"}, h \in Nat : Answer(n, st, h))
          /\ Closes(n) /\ \A r \in Rows : Serves(n, r)
    BY <1>1, ServerServes DEF IInv
  <2>2. UNCHANGED <<pc, failure, owed, rejected, flushes>>
    BY <1>1 DEF Server, local, history
  <2>3. PICK st \in {"ok", "err"}, h \in Nat : Answer(n, st, h)
    BY <2>1
  <2>4. \A r \in Rows : Safe(r) => Safe(r)'
    BY <1>0, <2>1, <2>2, <2>3, SafeServed
  <2>5. \A r \in Rows : Undone(r) => Undone(r)'
    BY <1>0, <2>1, <2>2, <2>3, UndoneServed
  <2>6. Mute \/ Over => (Mute \/ Over)'
    BY <1>0, <2>1, <2>3, OverServed
  <2> QED
    BY <1>0, <2>2, <2>4, <2>5, <2>6 DEF Ended, Reports
<1>2. CASE ~Server
  <2>1. /\ UNCHANGED server
        /\ flushes' = flushes \/ flushes' = Append(flushes, queue)
        /\ \/ Sends(NotCommit)
           \/ CommitRetaining /\ Sends(Ops)
    BY <1>0, <1>2, NextSends
  <2>2. PICK ops : Sends(ops)
    BY <2>1
  <2>3. Mute \/ Over => (Mute \/ Over)'
    BY <2>1, <2>2, OverStays
  <2>4. Reports'
    BY <1>0, <1>2, <2>3, NextReports DEF Ended
  <2>5. Tells
    BY <1>0, <1>2, NextTells DEF Ended
  <2>6. ASSUME NEW r \in owed', pc' # "committed" PROVE Safe(r)'
    <3>1. ~CommitRetaining /\ pc # "committed" /\ (r \in owed \/ New(r))
      BY <2>5, <2>6 DEF Tells
    <3>2. Safe(r)
      BY <1>0, <3>1, NewSafe DEF Ended
    <3> QED
      BY <1>0, <2>1, <3>1, <3>2, SafeStays
  <2>7. ASSUME NEW r \in rejected' PROVE Undone(r)'
    <3>1. CASE r \in rejected
      BY <1>0, <2>1, <2>2, <3>1, UndoneStays DEF Ended
    <3>2. CASE r \notin rejected
      <4>1. pc = "rolledBack" /\ r \in owed
        BY <2>5, <2>7, <3>2 DEF Tells
      <4>2. Safe(r) /\ (Mute \/ Over)
        BY <4>1 DEF Ended, Reports
      <4>3. Undone(r)
        BY <4>2 DEF Safe, Undone
      <4> QED
        BY <1>0, <2>1, <2>2, <4>3, UndoneStays
    <3> QED
      BY <3>1, <3>2
  <2> QED
    BY <2>4, <2>6, <2>7 DEF Ended
<1> QED
  BY <1>1, <1>2

-----------------------------------------------------------------------------
(* The theorems.                                                           *)

\* IInv holds throughout: every row is in one place of the driver, every message
\* is sent once, and what the server holds of a row came with one of them
\* (PreparedBatch.Flush empties encodedRows once its message is sent).
THEOREM Invariance == Spec => []IInv
<1>1. Init => IInv
  BY InitInv
<1>2. IInv /\ [Next]_vars => IInv'
  BY StepInv
<1> QED
  BY <1>1, <1>2, PTL DEF Spec

\* The types of the call in progress, of the batch the server keeps and of the
\* rows hold throughout.
THEOREM TypeCorrect == Spec => []TypeOK
<1>1. IInv => TypeOK
  BY DEF IInv
<1> QED
  BY <1>1, Invariance, PTL

\* PreparedBatch: no row is committed twice, whichever calls fail and are made
\* again, with any faults.
THEOREM OnceAlways == Spec => []AtMostOnce
<1>1. IInv => AtMostOnce
  <2> SUFFICES ASSUME IInv, NEW r \in Rows PROVE applied[r] <= 1
    BY DEF AtMostOnce
  <2>1. Held(r) <= 1 /\ ServerType
    BY DEF IInv, Stored, TypeOK
  <2>2. batch.rows[r] \in Nat /\ tx.rows[r] \in Nat /\ applied[r] \in Nat
    BY <2>1 DEF ServerType, Count
  <2> QED
    BY <2>1, <2>2 DEF Held
<1> QED
  BY <1>1, Invariance, PTL

\* README.md, "any per-row error rolls back": no row of an Exec that reported row
\* errors in autocommit is ever committed, whatever is sent and read after it, of a
\* server that does not refuse a rollback.
THEOREM UndoneAlways == "rollback" \notin Fallible => (Spec => []RejectedUndone)
<1> SUFFICES ASSUME "rollback" \notin Fallible PROVE Spec => []RejectedUndone
  OBVIOUS
<1> DEFINE EndedInv == IInv /\ (Autocommit => Ended)
<1>1. Init => EndedInv
  <2>1. Init => Ended
    BY DEF Init, WireInit, Ended, Reports
  <2> QED
    BY <2>1, InitInv
<1>2. EndedInv /\ [Next]_vars => EndedInv'
  BY StepInv, EndedStep
<1>3. EndedInv => RejectedUndone
  BY DEF RejectedUndone, Ended, Undone
<1> HIDE DEF EndedInv
<1>4. Spec => []EndedInv
  BY <1>1, <1>2, PTL DEF Spec
<1> QED
  BY <1>3, <1>4, PTL

\* The calls of a batch, too, leave no response unread but the counted and the
\* awaited ones, in the order of the requests, until one is given up or taken for
\* another's (wireprotocol.go's lazyResponseCount, batch_wire.go's
\* receiveTwoResponses).
THEOREM AlignedAlways == Spec => []StreamAligned
<1>1. IInv => StreamAligned
  BY DEF IInv, WireInv
<1> QED
  BY <1>1, Invariance, PTL

=============================================================================
