------------------------------- MODULE FbWire -------------------------------
(***************************************************************************)
(* The request/response stream of one Firebird connection, as              *)
(* wireprotocol.go and wirechannel.go drive it.  The driver writes         *)
(* requests; the server owes one response packet for each, in order.  A    *)
(* response is recognised only by its position: whoever reads next takes   *)
(* the oldest unread packet.  On a lazy-send server the driver does not    *)
(* read the responses to op_free_statement and op_close_blob; it counts    *)
(* them in lazyResponseCount and the next reader skips that many.          *)
(*                                                                         *)
(* A request carries the transaction handle it names (h) and the logical   *)
(* call it works for (w); the wire does not look at either.                *)
(***************************************************************************)
EXTENDS Integers, Sequences

CONSTANT LazySend      \* acceptType & ptype_MASK = ptype_lazy_send

ASSUME LazySendAssumption == LazySend \in BOOLEAN

VARIABLES
    pend,      \* packets the server owes or has sent, oldest first
    lazy,      \* lazyResponseCount
    expect,    \* requests whose response the driver itself is waiting for
    skipped,   \* the read in progress has entered its skip loop
    armed,     \* OS deadline on the socket: none, ctx (ctx+3s), fixed (10s), past
    writer,    \* bufio.Writer: ok, or sticky after a flush that failed
    sock,      \* up, or dead
    torn,      \* the read position is inside a packet
    res,       \* outcome of the last send or read
    reply,     \* object handle in the last response read
    lost,      \* history: a response was left behind, or a request never sent
    misread    \* history: the response to one request was taken for another's

wireVars == <<pend, lazy, expect, skipped, armed, writer, sock, torn, res,
              reply, lost, misread>>

-----------------------------------------------------------------------------
Ops == {"transaction", "allocate", "prepare", "bindinfo", "execute", "sql",
        "execute_immediate", "info", "fetch", "open_blob", "get_segment",
        "close_blob", "slice", "create_blob", "put_segment", "put_slice",
        "free", "commit", "commit_retaining", "rollback", "ping", "detach",
        "batch_create", "batch_msg", "batch_exec", "batch_release", "sync"}

Status   == {"asked", "ok", "err"}
Request  == [op : Ops, h : Nat, w : Nat, st : Status]
Deadline == {"none", "ctx", "fixed", "past"}

\* nil; a server error in a whole frame; os.ErrDeadlineExceeded; any other
\* plain error; a read error that errors.Is driver.ErrBadConn; the ErrBadConn
\* of sendPackets
Outcome  == {"nil", "server", "timeout", "other", "bad", "unsent"}
IsBad(e) == e \in {"bad", "unsent"}

Asked(op, h, w) == [op |-> op, h |-> h, w |-> w, st |-> "asked"]

\* Requests answered by a packet type of their own, unless they fail.
Typed == {"fetch", "slice", "batch_exec"}

\* The opcode of the packet that answers a request.
Packet(t) == IF t.op = "sql" \/ (t.op \in Typed /\ t.st = "ok")
             THEN t.op ELSE "response"

\* The opcodes the function reading the response to op gets to the end of:
\* opResponse, opSqlResponse, and opFetchResponse, opSliceResponse and
\* opBatchCompletion, which parse an op_response too.
Parses(op) == IF op = "sql" THEN {"sql"}
              ELSE IF op \in Typed THEN {op, "response"} ELSE {"response"}

\* Readers of two responses that return at the first error, the second one
\* unread: stmt.query's opSqlResponse, and receiveTwoResponses.
StopsAtError == {"sql", "batch_create", "batch_msg", "batch_release"}

\* Mutant: opFetchResponse without the skip loop.
Skips_NotFetch(op) == op \notin {"slice", "fetch"}

\* Every reader but opSliceResponse begins with the skip loop.
Skips(op) == op # "slice"

-----------------------------------------------------------------------------
(***************************************************************************)
(* Writing.  sendPackets ignores the error of Flush; bufio keeps it and    *)
(* fails every later Write, which sendPackets turns into ErrBadConn        *)
(* ("unsent").                                                             *)
(***************************************************************************)
CanWrite == sock = "up" /\ armed # "past"

\* The requests rs go out in one buffer.  The driver goes on to read the
\* responses in awaited and adds counted to lazyResponseCount.  Where it does
\* not look at the error (~checked) it goes on in any case.
Write(rs, awaited, counted, deadline, checked) ==
    /\ expect = <<>>
    /\ IF writer = "sticky" /\ checked
       THEN /\ res' = "unsent"
            /\ UNCHANGED <<pend, lazy, expect, armed, writer, lost>>
       ELSE /\ res' = "nil"
            /\ expect' = awaited
            /\ lazy' = lazy + counted
            /\ armed' = deadline
            /\ IF writer = "ok" /\ CanWrite
               THEN pend' = pend \o rs /\ UNCHANGED <<writer, lost>>
               ELSE writer' = "sticky" /\ lost' = TRUE /\ UNCHANGED pend
    /\ skipped' = FALSE
    /\ UNCHANGED <<sock, torn, reply, misread>>

\* A request, then the read of its response.
Ask(op, h, w, deadline) == Write(<<Asked(op, h, w)>>, <<op>>, 0, deadline, TRUE)

\* ... whatever became of the request.
AskBlindly(op, h) == Write(<<Asked(op, h, 0)>>, <<op>>, 0, armed, FALSE)

\* Mutant: lazyResponseCount++ forgotten.
AskLazily_Uncounted(op, checked) == Write(<<Asked(op, 0, 0)>>, <<>>, 0, armed, checked)

\* A request whose response is left to a later reader's skip loop.
AskLazily(op, checked) == Write(<<Asked(op, 0, 0)>>, <<>>, 1, armed, checked)

\* A request after which the youngest counted response, to earlier, is read
\* too: lazyResponseCount-- and one more opResponse.
AskReclaiming(earlier, op, h) ==
    /\ lazy > 0
    /\ Write(<<Asked(op, h, 0)>>, <<earlier, op>>, 0 - 1, armed, TRUE)

\* Two packets of their own, then two reads.  A first packet that cannot be
\* sent makes the second one fail, and nothing is read.
AskTwo(op, w, second) ==
    IF writer = "ok" /\ ~CanWrite
    THEN /\ expect = <<>>
         /\ res' = "unsent" /\ writer' = "sticky" /\ lost' = TRUE /\ skipped' = FALSE
         /\ UNCHANGED <<pend, lazy, expect, armed, sock, torn, reply, misread>>
    ELSE Write(<<Asked(op, 0, w), Asked(second, 0, 0)>>, <<op, second>>, 0, armed, TRUE)

-----------------------------------------------------------------------------
(***************************************************************************)
(* Reading: one packet per step.                                           *)
(***************************************************************************)
\* Under a past deadline nothing is read; what bufio may hold is left out.
Arrived == pend # <<>> /\ Head(pend).st # "asked" /\ ~torn /\ armed # "past"

\* Mutant: the loop does not look at lazyResponseCount.
ToSkip_Always == Arrived /\ Packet(Head(pend)) = "response" /\ Skips(Head(expect))

\* The condition of `for op_response && lazyResponseCount > 0`.
ToSkip == Arrived /\ Packet(Head(pend)) = "response" /\ lazy > 0 /\ Skips(Head(expect))

\* One turn of that loop; what the skipped response says is dropped.
RecvSkip ==
    /\ expect # <<>> /\ ToSkip
    /\ pend' = Tail(pend)
    /\ lazy' = lazy - 1
    /\ skipped' = TRUE
    /\ UNCHANGED <<expect, armed, writer, sock, torn, res, reply, lost, misread>>

\* The read at the head of expect ends with outcome o.
ReadEnds(o) ==
    /\ res' = o
    /\ expect' = IF o # "nil" /\ Head(expect) \in StopsAtError THEN <<>> ELSE Tail(expect)
    /\ skipped' = FALSE
    /\ UNCHANGED <<lazy, armed, writer, sock>>

\* The packet the reader takes for its own.  A foreign opcode is consumed and
\* its body left unread (NewErrOpResonse); the readers of typed packets parse
\* an unexpected op_response to its end.
OutcomeOf(e, t) ==
    CASE Packet(t) \notin Parses(e)                       -> "other"
      [] Packet(t) \in Parses(e) /\ t.st = "err"          -> "server"
      [] Packet(t) \in Parses(e) /\ t.st # "err"          ->
            IF e \in Typed /\ Packet(t) # e THEN "other" ELSE "nil"

RecvOwn ==
    /\ expect # <<>> /\ Arrived /\ ~ToSkip
    /\ LET t == Head(pend)
           e == Head(expect)
           o == OutcomeOf(e, t)
       IN  /\ ReadEnds(o)
           /\ torn' = (Packet(t) \notin Parses(e))
           /\ misread' = (misread \/ t.op # e)
           /\ reply' = t.h
           /\ lost' = (lost \/ (o # "nil" /\ e \in StopsAtError))
    /\ pend' = Tail(pend)

\* A row, slice or count no decoder accepts: the read ends inside the packet
\* with an error tagged ErrBadConn.
RecvMalformed ==
    /\ expect # <<>> /\ Arrived
    /\ Head(expect) \in Typed \cup {"sql"} /\ Packet(Head(pend)) = Head(expect)
    /\ ReadEnds("bad")
    /\ torn' = TRUE /\ lost' = TRUE /\ reply' = 0
    /\ pend' = Tail(pend)
    /\ misread' = (misread \/ Head(pend).op # Head(expect))

\* The read ends without having taken its packet: recvPackets returned o
\* before the packet, or inside it.  The skip loop drops that error and finds
\* no opcode in the buffer; opFetchResponse tags only the error of its first
\* recvPackets.
GiveUp(o) ==
    /\ expect # <<>>
    /\ lost' = TRUE
    /\ \/ /\ ReadEnds(CASE skipped                             -> "other"
                         [] ~skipped /\ Head(expect) = "fetch" -> "bad"
                         [] OTHER                              -> o)
          /\ UNCHANGED torn
       \/ /\ Arrived
          /\ ReadEnds(IF skipped \/ ToSkip THEN "other" ELSE o)
          /\ torn' = TRUE
    /\ UNCHANGED <<pend, reply, misread>>

\* The OS deadline fires.
RecvTimeout == armed # "none" /\ GiveUp("timeout")

\* The peer is gone, or the bytes at the read position are no packet.
RecvGarbage == (torn \/ (sock = "dead" /\ pend = <<>>)) /\ GiveUp("other")

-----------------------------------------------------------------------------
(***************************************************************************)
(* SetDeadline, and the failure of the socket.                             *)
(***************************************************************************)
SetDeadline(d) ==
    /\ armed' = d
    /\ UNCHANGED <<pend, lazy, expect, skipped, writer, sock, torn, res, reply,
                   lost, misread>>

\* op_cancel, which no response answers; its error is dropped.
CancelWritten == writer' = IF CanWrite THEN writer ELSE "sticky"

WatcherCancel ==
    /\ CancelWritten
    /\ UNCHANGED <<pend, lazy, expect, skipped, armed, sock, torn, res, reply,
                   lost, misread>>

\* cancelAndDrain: op_cancel, then one more opResponse, for the response to
\* the request op that was given up.
CancelAndDrain(op) ==
    /\ expect = <<>> /\ expect' = <<op>>
    /\ armed' = "fixed" /\ skipped' = FALSE
    /\ writer' = IF sock = "up" THEN writer ELSE "sticky"
    /\ UNCHANGED <<pend, lazy, sock, torn, res, reply, lost, misread>>

\* What had arrived may still be read, up to some packet.
SocketDies ==
    /\ sock = "up"
    /\ sock' = "dead"
    /\ \E n \in 0..Len(pend) :
          /\ \A i \in 1..n : pend[i].st # "asked"
          /\ pend' = SubSeq(pend, 1, n)
    /\ lost' = TRUE
    /\ UNCHANGED <<lazy, expect, skipped, armed, writer, torn, res, reply, misread>>

\* The server answers request i, the oldest it has not answered yet, with
\* outcome st and object handle h.
NextAsked(i) == pend[i].st = "asked" /\ \A j \in 1..(i - 1) : pend[j].st # "asked"

Answer(i, st, h) ==
    /\ pend' = [pend EXCEPT ![i].st = st, ![i].h = h]
    /\ UNCHANGED <<lazy, expect, skipped, armed, writer, sock, torn, res, reply,
                   lost, misread>>

\* A new socket.
WireInit ==
    /\ pend = <<>> /\ lazy = 0 /\ expect = <<>> /\ skipped = FALSE
    /\ armed = "none" /\ writer = "ok" /\ sock = "up" /\ torn = FALSE
    /\ res = "nil" /\ reply = 0 /\ lost = FALSE /\ misread = FALSE

WireReset ==
    /\ pend' = <<>> /\ lazy' = 0 /\ expect' = <<>> /\ skipped' = FALSE
    /\ armed' = "none" /\ writer' = "ok" /\ sock' = "up" /\ torn' = FALSE
    /\ res' = "nil" /\ reply' = 0 /\ lost' = FALSE /\ misread' = FALSE

-----------------------------------------------------------------------------
WireTypeOK ==
    /\ pend \in Seq(Request)
    /\ lazy \in Nat
    /\ expect \in Seq(Ops)
    /\ skipped \in BOOLEAN
    /\ armed \in Deadline
    /\ writer \in {"ok", "sticky"}
    /\ sock \in {"up", "dead"}
    /\ torn \in BOOLEAN
    /\ res \in Outcome
    /\ reply \in Nat
    /\ lost \in BOOLEAN
    /\ misread \in BOOLEAN

\* Requests whose response may be left to the skip loop.
Uncollected == {"allocate", "free", "close_blob"}

\* The unread packets are the counted ones, then the awaited ones.
Aligned ==
    /\ ~torn
    /\ Len(pend) = lazy + Len(expect)
    /\ \A i \in 1..lazy : pend[i].op \in Uncollected
    /\ \A i \in 1..Len(expect) : pend[lazy + i].op = expect[i]

\* Positions and requests agree as long as no response was left behind and
\* none was taken for another's.
StreamAligned == lost \/ misread \/ Aligned

\* What every operation of this module preserves.
TimeoutLost == res = "timeout" => lost
WireInv     == WireTypeOK /\ StreamAligned /\ TimeoutLost
=============================================================================
