----------------------------- MODULE FbSession -----------------------------
(***************************************************************************)
(* One pooled connection of the driver and the calls database/sql makes on *)
(* it, or the application through sql.Conn.Raw: connection.go,             *)
(* driver_go18.go, statement.go, transaction.go, rows.go, scroll.go and    *)
(* execute_immediate.go over the wire of FbWire.  A call is one goroutine  *)
(* that alternates writes and reads; pc names the place it has reached and *)
(* stack the place its subroutine returns to.  Around it run the server,   *)
(* the context's timer, the op_cancel watcher, Ping's goroutine and the    *)
(* failure of the socket.                                                  *)
(***************************************************************************)
EXTENDS FbWire, FiniteSets

CONSTANTS
    Kinds,        \* driver calls the application makes
    Shapes,       \* statements: subset of {"dml", "select", "proc"}
    Contexts,     \* contexts it gives database-level calls
    TxContexts,   \* contexts it gives calls inside an explicit transaction
    PingContexts,
    RawContexts,  \* contexts it gives ExecImmediate
    Params,       \* long arguments its statements have: subset of {"blob", "array"}
    Columns,      \* the columns of a row that may cost a round trip, in order
    Faults,       \* subset of FaultKinds
    Fallible,     \* requests the server may answer with an error
    MaxCalls, MaxRows, MaxTries   \* bounds of the exploration

FaultKinds == {"ctxstall",   \* the server is silent beyond ctx + 3s
               "doomstall",  \* ... beyond 10s, on a connection given up
               "stall",      \* ... beyond 10s, on one in good standing
               "death",      \* the socket dies
               "latecolumn", \* a column of a row is still being read at ctx + 3s
               "malformed"}  \* a row or slice no decoder accepts

CtxKinds  == {"none", "cancel", "deadline"}
CallKinds == {"exec", "query", "stmtExec", "stmtQuery", "stmtClose", "begin",
              "commit", "rollback", "ping", "immediate", "scroll"}

ASSUME SessionAssumption ==
    /\ Kinds \subseteq CallKinds
    /\ Shapes \subseteq {"dml", "select", "proc"}
    /\ Contexts \subseteq CtxKinds
    /\ TxContexts \subseteq CtxKinds
    /\ PingContexts \subseteq CtxKinds
    /\ RawContexts \subseteq CtxKinds
    /\ Params \subseteq {"blob", "array"}
    /\ Columns \in Seq({"blob", "array"})
    /\ Faults \subseteq FaultKinds
    /\ Fallible \subseteq Ops
    /\ MaxCalls \in Nat /\ MaxRows \in Nat /\ MaxTries \in Nat

VARIABLES
    pc, stack,  \* where the driver's goroutine is, where it returns to
    job,        \* the call in progress
    err,        \* the error a call has already decided to return
    expired,    \* ctx is done, or its deadline has passed
    holder,     \* who holds the connection: pool, call, tx, txcall, closing, gone
    txs,        \* the firebirdsqlTx objects of the connection
    cur,        \* fc.tx: an index of txs, 0 for nil
    rows,       \* the open firebirdsqlRows
    prepared,   \* a statement database/sql prepared on the connection is open
    cancelled,  \* history: op_cancel was written for a statement being executed,
                \* or for rows given up
    pinger,     \* Ping's goroutine: none, watching, or left over
    srv,        \* the server's transactions: open, and the work done in each
    calls,      \* calls made so far
    again,      \* the call database/sql is about to retry
    tries,      \* how often it was retried
    applied,    \* history: how often the work of each call was committed
    fate,       \* history: what the application was told about each call
    leaked      \* history: Close returned without closing the socket

ctlVars  == <<pc, stack>>
callVars == <<job, err, expired, holder, calls, again, tries, rows, fate>>
txVars   == <<txs, cur>>
srvVars  == <<srv, applied>>
sideVars == <<prepared, cancelled, pinger, leaked>>
dataVars == <<callVars, txVars, srvVars, sideVars>>
vars     == <<wireVars, ctlVars, dataVars>>

Calls == 1..MaxCalls

\* The firebirdsqlTx of a connection just opened; begun: in transactionSet.
NewConnection == <<[auto |-> TRUE, needBegin |-> TRUE, h |-> 0, begun |-> FALSE]>>

NoJob  == [kind |-> "none", shape |-> "select", ctx |-> "none", id |-> 0]
NoRows == [drop |-> FALSE, more |-> FALSE, chunk |-> 0, col |-> 0, fetched |-> FALSE,
           bad |-> FALSE]

-----------------------------------------------------------------------------
(***************************************************************************)
(* Control.                                                                *)
(***************************************************************************)
At(l) == pc = l /\ expect = <<>>

Goto(l)     == pc' = l /\ UNCHANGED stack
Enter(l, r) == pc' = l /\ stack' = <<r>> \o stack
Return      == pc' = Head(stack) /\ stack' = Tail(stack)

\* The goroutine stays inside its call.
Continue(l) == Goto(l) /\ UNCHANGED callVars
Call(l, r)  == Enter(l, r) /\ UNCHANGED callVars

\* A nil *firebirdsqlTx was dereferenced.
Panic == Continue("panic")

\* The call whose work the statement in progress does.
Work == IF job.shape = "select" THEN 0 ELSE job.id

CtxDeadline == IF job.ctx = "deadline" THEN "ctx" ELSE armed

\* defer stmt.enforceDeadline(ctx)()
Disarm == SetDeadline(IF job.ctx = "deadline" THEN "none" ELSE armed)

\* What database/sql repeats on another connection.
Retried == {"exec", "query", "stmtExec", "stmtQuery", "begin", "ping"}

\* The driver call returns e to database/sql, which puts the connection with
\* holder next, or closes it on ErrBadConn: outside a transaction, then with
\* another try if the call has not begun to deliver rows and ctx is not done.
Ends(e, next) ==
    /\ stack' = <<>>
    /\ job' = NoJob /\ err' = "nil" /\ expired' = FALSE /\ rows' = NoRows
    /\ IF IsBad(e) /\ next # "tx"
       THEN /\ holder' = "closing" /\ pc' = "close"
            /\ again' = IF ~expired /\ tries < MaxTries
                           /\ job.kind \in Retried
                        THEN job ELSE NoJob
       ELSE /\ holder' = next /\ pc' = "idle" /\ again' = NoJob
    /\ UNCHANGED <<calls, tries>>

\* ... and the application learns how its statement ended.
Finish(e) ==
    /\ Ends(e, IF holder = "txcall" THEN "tx" ELSE "pool")
    /\ fate' = IF e # "nil" \/ Work = 0 THEN fate
               ELSE [fate EXCEPT ![Work] = IF @ = "run" THEN "acked" ELSE "txdone"]

-----------------------------------------------------------------------------
(***************************************************************************)
(* The calls.  Contexts and statements are the application's choice; a     *)
(* call inside a Tx is made through the Tx, and only there.                *)
(***************************************************************************)
\* database/sql prepares a Stmt on a connection that has not seen it.
StartOf(k) == CASE k \in {"exec", "query", "scroll"}     -> "prepare"
                [] k \in {"stmtExec", "stmtQuery"}      -> IF prepared THEN "run" ELSE "prepare"
                [] k = "stmtClose"                      -> "free"
                [] k \in {"begin", "ping", "immediate"} -> k

\* QueryScrollable does not look at its context.
ContextsOf(k) ==
    CASE k = "ping"      -> PingContexts
      [] k = "immediate" -> RawContexts
      [] k \in {"exec", "query", "stmtExec", "stmtQuery"} ->
            IF holder = "tx" THEN TxContexts ELSE Contexts
      [] OTHER -> {"none"}

ShapesOf(k) ==
    CASE k \in {"exec", "stmtExec", "immediate"} -> Shapes \cap {"dml"}
      [] k \in {"query", "stmtQuery", "scroll"}  -> Shapes \ {"dml"}
      [] OTHER                                   -> {"select"}

CallStart ==
    /\ pc = "idle" /\ again = NoJob /\ calls < MaxCalls
    /\ \E k \in Kinds \ {"commit", "rollback"} :
          /\ holder = "pool" \/ (holder = "tx" /\ k \in {"exec", "query"})
          /\ k = "stmtClose" => prepared
          /\ \E c \in ContextsOf(k), s \in ShapesOf(k) :
                /\ job' = [kind |-> k, shape |-> s, ctx |-> c, id |-> calls + 1]
                /\ fate' = IF s = "select" THEN fate
                           ELSE [fate EXCEPT ![calls + 1] =
                                    IF holder = "tx" THEN "txrun" ELSE "run"]
          /\ Goto(StartOf(k))
    /\ holder' = IF holder = "tx" THEN "txcall" ELSE "call"
    /\ calls' = calls + 1 /\ tries' = 0
    /\ UNCHANGED <<wireVars, err, expired, again, rows, txVars, srvVars, sideVars>>

\* database/sql repeats the call on another connection.
Retry ==
    /\ pc = "idle" /\ holder = "pool" /\ again # NoJob
    /\ job' = again /\ again' = NoJob /\ tries' = tries + 1
    /\ Goto(StartOf(again.kind))
    /\ holder' = "call"
    /\ UNCHANGED <<wireVars, err, expired, calls, rows, fate, txVars, srvVars, sideVars>>

\* Tx.Commit and Tx.Rollback.
TxEnd ==
    /\ pc = "idle" /\ holder = "tx"
    /\ \E k \in {"commit", "rollback"} :
          /\ job' = [NoJob EXCEPT !.kind = k]
          /\ Goto(k)
          /\ fate' = [i \in Calls |->
                        IF fate[i] \notin {"txrun", "txdone"} THEN fate[i]
                        ELSE IF k = "rollback" THEN "denied"
                        ELSE IF fate[i] = "txdone" THEN "committing" ELSE "unsure"]
    /\ holder' = "txcall"
    /\ UNCHANGED <<wireVars, err, expired, calls, again, tries, rows, txVars,
                   srvVars, sideVars>>

-----------------------------------------------------------------------------
(***************************************************************************)
(* transaction.go: begin, commitRetainging, Commit, Rollback.              *)
(***************************************************************************)
\* The firebirdsqlTx begin() works on: BeginTx's new one, or fc.tx.
Target == IF job.kind = "begin" THEN Len(txs) ELSE cur

Begin ==
    /\ At("tx.begin")
    /\ Ask("transaction", 0, 0, armed)
    /\ Goto("tx.begun")
    /\ UNCHANGED dataVars

BeginRead ==
    /\ At("tx.begun")
    /\ txs' = IF res = "nil"
              THEN [txs EXCEPT ![Target].h = reply, ![Target].needBegin = FALSE,
                               ![Target].begun = TRUE]
              ELSE txs
    /\ Return
    /\ UNCHANGED <<wireVars, callVars, cur, srvVars, sideVars>>

\* The deferred SetDeadline of opResponseTimeout, unless it was never reached.
ReadTimeoutCleared == IF res = "unsent" THEN UNCHANGED wireVars ELSE SetDeadline("none")

CommitRetaining ==
    /\ At("commitRetaining")
    /\ Ask("commit_retaining", txs[cur].h, 0, "fixed")
    /\ Goto("commitRetaining.read")
    /\ UNCHANGED dataVars

CommitRetainingRead ==
    /\ At("commitRetaining.read")
    /\ ReadTimeoutCleared
    /\ txs' = IF res = "unsent" THEN txs ELSE [txs EXCEPT ![cur].auto = TRUE]
    /\ Return
    /\ UNCHANGED <<callVars, cur, srvVars, sideVars>>

\* Commit and Rollback leave the same object whatever the server said.
Ended == IF res = "unsent" THEN txs
         ELSE [txs EXCEPT ![cur].auto = TRUE, ![cur].needBegin = TRUE]

Commit ==
    /\ At("commit")
    /\ Ask("commit", txs[cur].h, 0, armed)
    /\ Goto("commit.read")
    /\ UNCHANGED dataVars

CommitRead ==
    /\ At("commit.read")
    /\ txs' = Ended
    /\ Ends(res, "pool")
    /\ fate' = [i \in Calls |->
                  IF fate[i] # "committing" THEN fate[i]
                  ELSE IF res = "nil" THEN "acked" ELSE "unsure"]
    /\ UNCHANGED <<wireVars, cur, srvVars, sideVars>>

Rollback ==
    /\ At("rollback")
    /\ Ask("rollback", txs[cur].h, 0, "fixed")
    /\ Goto("rollback.read")
    /\ UNCHANGED dataVars

RollbackRead ==
    /\ At("rollback.read")
    /\ ReadTimeoutCleared
    /\ txs' = Ended
    /\ Ends(res, "pool")
    /\ UNCHANGED <<fate, cur, srvVars, sideVars>>

\* fc.begin: fc.tx becomes the new transaction, or nil if it could not begin.
BeginTx ==
    /\ At("begin")
    /\ txs' = Append(txs, [auto |-> FALSE, needBegin |-> FALSE, h |-> 0, begun |-> FALSE])
    /\ Call("tx.begin", "begin.done")
    /\ UNCHANGED <<wireVars, cur, srvVars, sideVars>>

BeginTxDone ==
    /\ At("begin.done")
    /\ cur' = IF res = "nil" THEN Len(txs) ELSE 0
    /\ Ends(res, IF res = "nil" THEN "tx" ELSE "pool")
    /\ UNCHANGED <<wireVars, fate, txs, srvVars, sideVars>>

-----------------------------------------------------------------------------
(***************************************************************************)
(* connection.go prepare and statement.go newFirebirdsqlStmt, which        *)
(* QueryScrollable calls without looking whether fc.tx is nil.             *)
(***************************************************************************)
\* Mutant: fc.tx is not checked for nil.
Prepare_Unguarded ==
    /\ At("prepare")
    /\ \/ cur = 0 /\ Panic
       \/ cur # 0 /\ txs[cur].needBegin /\ Call("tx.begin", "prepare.begun")
       \/ cur # 0 /\ ~txs[cur].needBegin /\ Continue("allocate")
    /\ UNCHANGED <<wireVars, txVars, srvVars, sideVars>>

Prepare ==
    /\ At("prepare")
    /\ \/ cur = 0 /\ job.kind # "scroll" /\ Finish("bad")
       \/ cur = 0 /\ job.kind = "scroll" /\ Panic
       \/ cur # 0 /\ txs[cur].needBegin /\ Call("tx.begin", "prepare.begun")
       \/ cur # 0 /\ ~txs[cur].needBegin /\ Continue("allocate")
    /\ UNCHANGED <<wireVars, txVars, srvVars, sideVars>>

PrepareBegun ==
    /\ At("prepare.begun")
    /\ IF res = "nil" THEN Continue("allocate") ELSE Finish(res)
    /\ UNCHANGED <<wireVars, txVars, srvVars, sideVars>>

\* opAllocateStatement; its response is counted, or read at once.
Allocate ==
    /\ At("allocate")
    /\ IF LazySend THEN AskLazily("allocate", TRUE) ELSE Ask("allocate", 0, 0, armed)
    /\ Goto("allocate.read")
    /\ UNCHANGED dataVars

\* opPrepareStatement; on a lazy server the allocate response is taken back
\* from the count and read before the prepare's.
PrepareStatement ==
    /\ At("allocate.read")
    /\ IF res # "nil"
       THEN Finish(res) /\ UNCHANGED wireVars
       ELSE /\ IF LazySend THEN AskReclaiming("allocate", "prepare", txs[cur].h)
                           ELSE Ask("prepare", txs[cur].h, 0, armed)
            /\ Continue("prepare.read")
    /\ UNCHANGED <<txVars, srvVars, sideVars>>

-----------------------------------------------------------------------------
(***************************************************************************)
(* statement.go exec and query.                                            *)
(***************************************************************************)
\* A prepared statement runs in whatever transaction is fc.tx now.
Run ==
    /\ At("run")
    /\ \/ cur = 0 /\ Panic
       \/ cur # 0 /\ txs[cur].needBegin /\ Call("tx.begin", "run.begun")
       \/ cur # 0 /\ ~txs[cur].needBegin /\ Continue("bind")
    /\ UNCHANGED <<wireVars, txVars, srvVars, sideVars>>

RunBegun ==
    /\ At("run.begun")
    /\ IF res = "nil" THEN Continue("bind") ELSE Finish(res)
    /\ UNCHANGED <<wireVars, txVars, srvVars, sideVars>>

\* Mutant: a failed query closes its statement, as fc.exec does.
Leave_ClosesFailedQuery(e) ==
    \/ /\ job.kind = "exec" \/ (job.kind \in {"query", "scroll"} /\ e # "nil")
       /\ pc' = "free" /\ stack' = <<"exec.done">>
       /\ err' = e
       /\ UNCHANGED <<job, expired, holder, calls, again, tries, rows, fate>>
    \/ /\ job.kind \in {"query", "stmtQuery", "scroll"} /\ e = "nil"
       /\ Goto("rows")
       /\ job' = IF job.kind = "scroll" THEN job ELSE [job EXCEPT !.kind = "rows"]
       /\ rows' = [NoRows EXCEPT !.drop = (job.kind # "stmtQuery"),
                                 !.more = (job.shape = "select"),
                                 !.chunk = IF job.shape = "proc" THEN 1 ELSE 0]
       /\ UNCHANGED <<err, expired, holder, calls, again, tries, fate>>
    \/ (job.kind = "stmtExec" \/ (job.kind = "stmtQuery" /\ e # "nil")) /\ Finish(e)

\* stmt.exec or stmt.query returns e: fc.exec then closes its statement, a
\* query without error yields its rows, a failed one stays unclosed.  A
\* QueryScrollable that fails closes its statement.
Leave(e) ==
    \/ /\ job.kind = "exec" \/ (job.kind = "scroll" /\ e # "nil")
       /\ pc' = "free" /\ stack' = <<"exec.done">>
       /\ err' = e
       /\ UNCHANGED <<job, expired, holder, calls, again, tries, rows, fate>>
    \/ /\ job.kind \in {"query", "stmtQuery", "scroll"} /\ e = "nil"
       /\ Goto("rows")
       /\ job' = IF job.kind = "scroll" THEN job ELSE [job EXCEPT !.kind = "rows"]
       /\ rows' = [NoRows EXCEPT !.drop = (job.kind # "stmtQuery"),
                                 !.more = (job.shape = "select"),
                                 !.chunk = IF job.shape = "proc" THEN 1 ELSE 0]
       /\ UNCHANGED <<err, expired, holder, calls, again, tries, fate>>
    \/ job.kind = "stmtExec" /\ Finish(e)
    \/ job.kind \in {"query", "stmtQuery"} /\ e # "nil" /\ Finish(e)

\* QueryScrollable refuses an EXECUTE PROCEDURE once it is prepared.
ScrollRefused ==
    /\ At("prepare.read") /\ res = "nil"
    /\ job.kind = "scroll" /\ job.shape = "proc"
    /\ Leave("other")
    /\ UNCHANGED <<wireVars, txVars, srvVars, sideVars>>

PrepareRead ==
    /\ At("prepare.read")
    /\ \/ res # "nil" /\ Finish(res)
       \/ res = "nil" /\ (job.kind = "scroll" => job.shape # "proc") /\ Continue("bind")
    /\ prepared' = (prepared \/ (res = "nil" /\ job.kind \in {"stmtExec", "stmtQuery"}))
    /\ UNCHANGED <<wireVars, txVars, srvVars, cancelled, pinger, leaked>>

\* ensureInputXsqlda: the bind metadata, when there are arguments and it is
\* not known yet.
Bind ==
    /\ At("bind")
    /\ \/ Goto("execute") /\ UNCHANGED wireVars
       \/ Ask("bindinfo", 0, 0, armed) /\ Goto("bind.read")
    /\ UNCHANGED dataVars

BindRead ==
    /\ At("bind.read")
    /\ IF res = "nil" THEN Continue("execute") ELSE Leave(res)
    /\ UNCHANGED <<wireVars, txVars, srvVars, sideVars>>

\* paramsToBlr: while op_execute is half packed, a value too long for its packet
\* is stored as a BLOB, segment by segment, and an array as a slice.  No deadline
\* of the call is armed yet.
Upload ==
    /\ At("execute")
    /\ \/ /\ "blob" \in Params
          /\ AskBlindly("create_blob", txs[cur].h) /\ Goto("upload.blob")
       \/ /\ "array" \in Params
          /\ Ask("put_slice", txs[cur].h, 0, armed) /\ Goto("upload.slice")
    /\ UNCHANGED dataVars

\* createBlob; its error is dropped, and the statement executed with whatever
\* BLOB id there is.
UploadRead ==
    /\ At("upload.blob") \/ At("upload.segment")
    /\ \/ res # "nil" /\ Goto("execute") /\ UNCHANGED wireVars
       \/ res = "nil" /\ Ask("put_segment", 0, 0, armed) /\ Goto("upload.segment")
       \/ /\ res = "nil" /\ pc = "upload.segment"
          /\ Ask("close_blob", 0, 0, armed) /\ Goto("upload.closed")
    /\ UNCHANGED dataVars

UploadClosed ==
    /\ At("upload.closed")
    /\ Goto("execute")
    /\ UNCHANGED <<wireVars, dataVars>>

\* opPutSlice; its error ends opExecute, which drops what it has packed.
SliceStored ==
    /\ At("upload.slice")
    /\ IF res = "nil" THEN Continue("execute") ELSE Leave(res)
    /\ UNCHANGED <<wireVars, txVars, srvVars, sideVars>>

\* Mutant: a statement keeps the transaction it was prepared in.
Execute_FirstTx ==
    /\ At("execute")
    /\ LET run == Asked("execute", txs[1].h, Work)
       IN  IF job.kind \in {"query", "stmtQuery"} /\ job.shape = "proc"
           THEN Write(<<Asked("sql", 0, 0), run>>, <<"sql", "execute">>, 0, CtxDeadline, TRUE)
           ELSE Write(<<run>>, <<"execute">>, 0, CtxDeadline, TRUE)
    /\ Goto("execute.read")
    /\ UNCHANGED dataVars

\* opExecute, or opExecute2, which two packets answer; enforceDeadline; then
\* the read under withCancelWatcher.
Execute ==
    /\ At("execute")
    /\ LET run == Asked("execute", txs[cur].h, Work)
       IN  IF job.kind \in {"query", "stmtQuery"} /\ job.shape = "proc"
           THEN Write(<<Asked("sql", 0, 0), run>>, <<"sql", "execute">>, 0, CtxDeadline, TRUE)
           ELSE Write(<<run>>, <<"execute">>, 0, CtxDeadline, TRUE)
    /\ Goto("execute.read")
    /\ UNCHANGED dataVars

\* The deadline-abandon disposition of a failed read: drain the cancel
\* acknowledgement if the OS deadline fired, return ErrBadConn if ctx is done.
\* QueryScrollable has none.
Abandon(op) ==
    IF res = "timeout" /\ job.kind # "scroll"
    THEN CancelAndDrain(op) /\ cancelled' = TRUE /\ Continue("drain.read")
    ELSE Disarm /\ Leave(IF expired THEN "bad" ELSE res) /\ UNCHANGED cancelled

\* Mutant: the deadline is cleared before the row counts are asked for.
ExecuteRead_DisarmsEarly ==
    /\ At("execute.read")
    /\ \/ res = "unsent" /\ Leave(res) /\ UNCHANGED <<wireVars, cancelled>>
       \/ res \notin {"nil", "unsent"} /\ Abandon("execute")
       \/ res = "nil" /\ expired /\ Disarm /\ Leave("bad") /\ UNCHANGED cancelled
       \/ /\ res = "nil" /\ ~expired /\ UNCHANGED cancelled
          /\ IF job.kind \in {"exec", "stmtExec"}
             THEN Ask("info", 0, 0, "none") /\ Continue("info.read")
             ELSE Disarm /\ Leave("nil")
    /\ UNCHANGED <<txVars, srvVars, prepared, pinger, leaked>>

\* Mutant: ctx is not looked at after a read that succeeded.
ExecuteRead_NoCheck ==
    /\ At("execute.read")
    /\ \/ res = "unsent" /\ Leave(res) /\ UNCHANGED <<wireVars, cancelled>>
       \/ res \notin {"nil", "unsent"} /\ Abandon("execute")
       \/ /\ res = "nil" /\ UNCHANGED cancelled
          /\ IF job.kind \in {"exec", "stmtExec"}
             THEN Ask("info", 0, 0, armed) /\ Continue("info.read")
             ELSE Disarm /\ Leave("nil")
    /\ UNCHANGED <<txVars, srvVars, prepared, pinger, leaked>>

ExecuteRead ==
    /\ At("execute.read")
    /\ \/ res = "unsent" /\ Leave(res) /\ UNCHANGED <<wireVars, cancelled>>
       \/ res \notin {"nil", "unsent"} /\ Abandon("execute")
       \/ res = "nil" /\ expired /\ Disarm /\ Leave("bad") /\ UNCHANGED cancelled
       \/ /\ res = "nil" /\ ~expired /\ UNCHANGED cancelled
          /\ IF job.kind \in {"exec", "stmtExec"}
             THEN Ask("info", 0, 0, armed) /\ Continue("info.read")
             ELSE Disarm /\ Leave("nil")
    /\ UNCHANGED <<txVars, srvVars, prepared, pinger, leaked>>

\* A query that drained without an error, ctx not done, returns nil rows.
DrainRead ==
    /\ At("drain.read")
    /\ SetDeadline("none")
    /\ IF res = "nil" /\ ~expired /\ job.kind \in {"query", "stmtQuery"}
       THEN Panic
       ELSE Leave(IF expired THEN "bad" ELSE res)
    /\ UNCHANGED <<txVars, srvVars, sideVars>>

\* The row counts, read under the deadline still armed but with no watcher;
\* then the autocommit.
InfoRead ==
    /\ At("info.read")
    /\ \/ res = "unsent" /\ Disarm /\ Leave(res) /\ UNCHANGED cancelled
       \/ res \notin {"nil", "unsent"} /\ Abandon("info")
       \/ /\ res = "nil" /\ UNCHANGED cancelled
          /\ IF txs[cur].auto
             THEN Call("commitRetaining", "exec.committed") /\ UNCHANGED wireVars
             ELSE Disarm /\ Leave("nil")
    /\ UNCHANGED <<txVars, srvVars, prepared, pinger, leaked>>

ExecCommitted ==
    /\ At("exec.committed")
    /\ Disarm
    /\ Leave(res)
    /\ UNCHANGED <<txVars, srvVars, sideVars>>

\* The deferred stmt.Close of fc.exec has run; its error is dropped.
ExecDone ==
    /\ At("exec.done")
    /\ Finish(err)
    /\ UNCHANGED <<wireVars, txVars, srvVars, sideVars>>

-----------------------------------------------------------------------------
(***************************************************************************)
(* execute_immediate.go: deadline and watcher as in stmt.exec, without its *)
(* disposition of the failed or late read.                                 *)
(***************************************************************************)
Immediate ==
    /\ At("immediate")
    /\ \/ cur = 0 /\ Finish("bad")
       \/ cur # 0 /\ txs[cur].needBegin /\ Call("tx.begin", "immediate.begun")
       \/ cur # 0 /\ ~txs[cur].needBegin /\ Continue("immediate.send")
    /\ UNCHANGED <<wireVars, txVars, srvVars, sideVars>>

ImmediateBegun ==
    /\ At("immediate.begun")
    /\ IF res = "nil" THEN Continue("immediate.send") ELSE Finish(res)
    /\ UNCHANGED <<wireVars, txVars, srvVars, sideVars>>

ImmediateSend ==
    /\ At("immediate.send")
    /\ Ask("execute_immediate", txs[cur].h, Work, CtxDeadline)
    /\ Goto("immediate.read")
    /\ UNCHANGED dataVars

ImmediateRead ==
    /\ At("immediate.read")
    /\ \/ res = "unsent" /\ Finish(res) /\ UNCHANGED wireVars
       \/ res \notin {"nil", "unsent"} /\ Disarm /\ Finish(res)
       \/ res = "nil" /\ ~txs[cur].auto /\ Disarm /\ Finish("nil")
       \/ /\ res = "nil" /\ txs[cur].auto
          /\ Call("commitRetaining", "immediate.done") /\ UNCHANGED wireVars
    /\ UNCHANGED <<txVars, srvVars, sideVars>>

ImmediateDone ==
    /\ At("immediate.done")
    /\ Disarm
    /\ Finish(res)
    /\ UNCHANGED <<txVars, srvVars, sideVars>>

-----------------------------------------------------------------------------
(***************************************************************************)
(* statement.go freeStatement, for stmt.Close (DSQL_drop) and closeCursor  *)
(* (DSQL_close): op_free_statement, and in autocommit a commit-retaining   *)
(* whose error is dropped.                                                 *)
(***************************************************************************)
Free ==
    /\ At("free")
    /\ IF LazySend THEN AskLazily("free", TRUE) ELSE Ask("free", 0, 0, "fixed")
    /\ Goto("free.read")
    /\ UNCHANGED dataVars

\* Mutant: isAutocommit is not looked at.
FreeRead_Commits ==
    /\ At("free.read")
    /\ IF LazySend THEN UNCHANGED wireVars ELSE ReadTimeoutCleared
    /\ pc' = "commitRetaining"
    /\ stack' = <<IF stack = <<>> THEN "freed" ELSE Head(stack)>>
    /\ err' = IF stack = <<>> THEN res ELSE err
    /\ UNCHANGED <<job, expired, holder, calls, again, tries, rows, fate, txVars,
                   srvVars, sideVars>>

FreeRead ==
    /\ At("free.read")
    /\ IF LazySend THEN UNCHANGED wireVars ELSE ReadTimeoutCleared
    /\ LET back == IF stack = <<>> THEN "freed" ELSE Head(stack)
       IN  \/ /\ res # "unsent" /\ cur = 0
              /\ Goto("panic") /\ UNCHANGED err
           \/ /\ res # "unsent" /\ cur # 0 /\ txs[cur].auto
              /\ pc' = "commitRetaining" /\ stack' = <<back>>
              /\ err' = IF back = "freed" THEN res ELSE err
           \/ /\ res = "unsent" \/ (cur # 0 /\ ~txs[cur].auto)
              /\ pc' = back /\ stack' = <<>>
              /\ err' = IF back = "freed" THEN res ELSE err
    /\ UNCHANGED <<job, expired, holder, calls, again, tries, rows, fate, txVars,
                   srvVars, sideVars>>

\* The end of rows.Close, or of the Close of a prepared statement, whose error
\* database/sql drops.
Freed ==
    /\ At("freed")
    /\ prepared' = (prepared /\ job.kind # "stmtClose")
    /\ Finish(IF rows.bad THEN "bad" ELSE IF job.kind = "stmtClose" THEN "nil" ELSE err)
    /\ UNCHANGED <<wireVars, txVars, srvVars, cancelled, pinger, leaked>>

-----------------------------------------------------------------------------
(***************************************************************************)
(* rows.go Next and Close.  A row of the current chunk costs nothing but   *)
(* its blob and array columns.  The Next that fetches a chunk (fetched)    *)
(* reads the columns of its first row too before the deadline it has armed *)
(* is cleared.  database/sql closes the rows when Next fails or ctx is     *)
(* done, and the application whenever it likes.                            *)
(***************************************************************************)
RowsClose ==
    /\ At("rows") /\ job.kind # "scroll"
    /\ IF rows.drop \/ job.shape = "select"
       THEN Continue("free")
       ELSE Finish(IF rows.bad THEN "bad" ELSE "nil")
    /\ UNCHANGED <<wireVars, txVars, srvVars, sideVars>>

\* Next returns an error, and is not called again.
RowsFail(bad) ==
    /\ Goto("rows")
    /\ rows' = [rows EXCEPT !.bad = bad, !.more = FALSE, !.chunk = 0, !.fetched = FALSE]

\* defer rows.stmt.enforceDeadline(rows.ctx)(), run when the Next that fetched
\* the chunk returns.
NextReturns == IF rows.fetched THEN Disarm ELSE UNCHANGED wireVars

\* ... with the error of a column's read.
ColumnFails == NextReturns /\ RowsFail(IsBad(res))

\* What Next leaves alone.
rowsElse == <<job, err, expired, holder, calls, again, tries, fate, txVars, srvVars>>

RowsExpired ==
    /\ At("rows") /\ expired /\ ~rows.bad
    /\ WatcherCancel /\ cancelled' = TRUE
    /\ RowsFail(TRUE)
    /\ UNCHANGED <<rowsElse, prepared, pinger, leaked>>

RowsNext ==
    /\ At("rows") /\ ~expired
    /\ \/ /\ rows.chunk > 0
          /\ rows' = [rows EXCEPT !.chunk = @ - 1, !.col = 1]
          /\ Goto("row") /\ UNCHANGED wireVars
       \/ /\ rows.chunk = 0 /\ rows.more /\ job.kind # "scroll"
          /\ SetDeadline(CtxDeadline)
          /\ Goto("fetch") /\ UNCHANGED rows
    /\ UNCHANGED <<rowsElse, sideVars>>

Fetch ==
    /\ At("fetch")
    /\ Ask("fetch", 0, 0, armed)
    /\ Goto("fetch.read")
    /\ UNCHANGED dataVars

\* The chunk's first row is read by the same Next, whatever became of ctx.
FetchRead ==
    /\ At("fetch.read")
    /\ \/ /\ res = "nil" /\ UNCHANGED wireVars
          /\ \E n \in 1..MaxRows, more \in BOOLEAN :
                rows' = [rows EXCEPT !.chunk = n - 1, !.more = more, !.col = 1,
                                     !.fetched = TRUE]
          /\ Goto("row")
       \/ /\ res = "nil" /\ Disarm
          /\ rows' = [rows EXCEPT !.more = FALSE] /\ Goto("rows")
       \/ res # "nil" /\ Disarm /\ RowsFail(expired \/ IsBad(res))
    /\ UNCHANGED <<rowsElse, sideVars>>

NextColumn == rows' = [rows EXCEPT !.col = @ + 1] /\ Goto("row")

\* The columns of the row, in order; a NULL or an inlined BLOB costs nothing.
Row ==
    /\ At("row")
    /\ \/ /\ rows.col > Len(Columns) /\ NextReturns
          /\ rows' = [rows EXCEPT !.fetched = FALSE] /\ Goto("rows")
       \/ rows.col <= Len(Columns) /\ NextColumn /\ UNCHANGED wireVars
       \/ /\ rows.col <= Len(Columns) /\ Columns[rows.col] = "blob"
          /\ AskBlindly("open_blob", txs[cur].h) /\ Goto("blob.read") /\ UNCHANGED rows
       \/ /\ rows.col <= Len(Columns) /\ Columns[rows.col] = "array"
          /\ job.kind # "scroll"
          /\ Ask("slice", txs[cur].h, 0, armed) /\ Goto("slice.read") /\ UNCHANGED rows
    /\ UNCHANGED <<rowsElse, sideVars>>

\* getBlobSegments: open, one segment after the other, close.
BlobRead ==
    /\ At("blob.read")
    /\ IF res = "nil"
       THEN AskBlindly("get_segment", 0) /\ Goto("segment.read") /\ UNCHANGED rows
       ELSE ColumnFails
    /\ UNCHANGED <<rowsElse, sideVars>>

SegmentRead ==
    /\ At("segment.read")
    /\ \/ res # "nil" /\ ColumnFails
       \/ /\ res = "nil" /\ AskBlindly("get_segment", 0)
          /\ Goto("segment.read") /\ UNCHANGED rows
       \/ /\ res = "nil"
          /\ IF LazySend THEN AskLazily("close_blob", FALSE) ELSE AskBlindly("close_blob", 0)
          /\ Goto("blob.closed") /\ UNCHANGED rows
    /\ UNCHANGED <<rowsElse, sideVars>>

(***************************************************************************)
(* scroll.go: no context, no deadline.  Fetch reads the BLOBs of every row *)
(* before it returns and leaves arrays alone, and may be called again      *)
(* after the last row and after a server error.  Its caller closes the     *)
(* statement and returns Fetch's error from the function it gave Conn.Raw. *)
(***************************************************************************)
ScrollFetch ==
    /\ At("rows") /\ job.kind = "scroll" /\ rows.chunk = 0 /\ ~rows.bad
    /\ Goto("fetch")
    /\ UNCHANGED <<wireVars, dataVars>>

ScrollClose ==
    /\ At("rows") /\ job.kind = "scroll" /\ rows.chunk = 0
    /\ Continue("free")
    /\ UNCHANGED <<wireVars, txVars, srvVars, sideVars>>

\* Mutant: badConn is not set when materializeArray failed.
ColumnRead_NotBad ==
    /\ At("blob.closed") \/ At("slice.read")
    /\ \/ res = "nil" /\ NextColumn /\ UNCHANGED wireVars
       \/ res # "nil" /\ NextReturns /\ RowsFail(FALSE)
    /\ UNCHANGED <<rowsElse, sideVars>>

\* The end of getBlobSegments and of materializeArray.
ColumnRead ==
    /\ At("blob.closed") \/ At("slice.read")
    /\ \/ res = "nil" /\ NextColumn /\ UNCHANGED wireVars
       \/ res # "nil" /\ ColumnFails
    /\ UNCHANGED <<rowsElse, sideVars>>

-----------------------------------------------------------------------------
(***************************************************************************)
(* driver_go18.go Ping.  Its goroutine is not joined: completed is closed  *)
(* last, after the deadline was cleared, and a goroutine that finds both   *)
(* channels ready, or has already seen ctx.Done, still sets the deadline.  *)
(***************************************************************************)
Ping ==
    /\ At("ping")
    /\ \/ expired /\ Finish("other") /\ UNCHANGED <<wireVars, pinger>>
       \/ /\ ~expired
          /\ pinger' = IF job.ctx = "none" THEN pinger ELSE "watching"
          /\ Ask("ping", 0, 0, CtxDeadline)
          /\ Continue("ping.read")
    /\ UNCHANGED <<txVars, srvVars, prepared, cancelled, leaked>>

PingRead ==
    /\ At("ping.read")
    /\ Disarm
    /\ pinger' \in IF pinger = "watching" THEN {"left", "none"} ELSE {pinger}
    /\ Finish(IF res = "nil" THEN "nil" ELSE "bad")
    /\ UNCHANGED <<txVars, srvVars, prepared, cancelled, leaked>>

PingWatcher ==
    /\ (pinger = "watching" /\ expired) \/ pinger = "left"
    /\ pinger' = "none"
    /\ SetDeadline("past")
    /\ UNCHANGED <<ctlVars, callVars, txVars, srvVars, prepared, cancelled, leaked>>

-----------------------------------------------------------------------------
(***************************************************************************)
(* connection.go Close: roll back every transaction of transactionSet,     *)
(* detach, close the socket.                                               *)
(***************************************************************************)
Close ==
    /\ At("close")
    /\ \/ \E i \in 1..Len(txs) :
             /\ txs[i].begun
             /\ Ask("rollback", txs[i].h, 0, "fixed")
             /\ txs' = [txs EXCEPT ![i].begun = FALSE]
             /\ Goto("close.read")
       \/ /\ \A i \in 1..Len(txs) : ~txs[i].begun
          /\ Ask("detach", 0, 0, "fixed")
          /\ Goto("detach.read") /\ UNCHANGED txs
    /\ UNCHANGED <<callVars, cur, srvVars, sideVars>>

CloseRead ==
    /\ At("close.read")
    /\ ReadTimeoutCleared
    /\ Goto("close")
    /\ UNCHANGED dataVars

\* If op_detach cannot be written Close returns without closing the socket.
DetachRead ==
    /\ At("detach.read")
    /\ leaked' = (res = "unsent")
    /\ holder' = "gone" /\ Goto("idle")
    /\ UNCHANGED <<wireVars, job, err, expired, calls, again, tries, rows, fate,
                   txVars, srvVars, prepared, cancelled, pinger>>

\* database/sql opens another connection; the server has rolled back what the
\* old attachment left open.
Reconnect ==
    /\ pc = "idle" /\ holder = "gone"
    /\ WireReset
    /\ holder' = "pool"
    /\ txs' = NewConnection /\ cur' = 1
    /\ srv' = <<>>
    /\ prepared' = FALSE /\ cancelled' = FALSE /\ pinger' = "none" /\ leaked' = FALSE
    /\ UNCHANGED <<ctlVars, job, err, expired, calls, again, tries, rows, fate, applied>>

-----------------------------------------------------------------------------
(***************************************************************************)
(* The environment: the server, the context, the watcher, the socket.      *)
(***************************************************************************)
Open(h) == h \in 1..Len(srv) /\ srv[h].open

\* What the server does to its transactions when it carries out t.
Effect(t) ==
    CASE t.op = "transaction" ->
            srv' = Append(srv, [open |-> TRUE, work |-> {}]) /\ UNCHANGED applied
      [] t.op \in {"execute", "execute_immediate"} ->
            srv' = [srv EXCEPT ![t.h].work = @ \cup ({t.w} \cap Calls)] /\ UNCHANGED applied
      [] t.op \in {"commit", "commit_retaining"} ->
            /\ srv' = [srv EXCEPT ![t.h] = [open |-> t.op = "commit_retaining", work |-> {}]]
            /\ applied' = [i \in Calls |-> IF i \in srv[t.h].work THEN applied[i] + 1
                                           ELSE applied[i]]
      [] t.op = "rollback" ->
            srv' = [srv EXCEPT ![t.h] = [open |-> FALSE, work |-> {}]] /\ UNCHANGED applied
      [] t.op = "detach" ->
            /\ srv' = [h \in DOMAIN srv |-> [open |-> FALSE, work |-> {}]]
            /\ UNCHANGED applied
      [] OTHER -> UNCHANGED srvVars

\* Requests that name a transaction.
InTransaction == {"prepare", "execute", "execute_immediate", "open_blob", "slice",
                  "create_blob", "put_slice", "commit", "commit_retaining", "rollback"}

\* The server answers the oldest request it has not answered yet.
Server ==
    /\ \E i \in 1..Len(pend) :
          /\ NextAsked(i)
          /\ LET t == pend[i]
             IN  \/ /\ t.op \in InTransaction => Open(t.h)
                    /\ Answer(i, "ok", IF t.op = "transaction" THEN Len(srv) + 1 ELSE 0)
                    /\ Effect(t)
                 \/ /\ t.op \in Fallible \/ (t.op \in InTransaction /\ ~Open(t.h))
                    /\ Answer(i, "err", 0)
                    /\ UNCHANGED srvVars
    /\ UNCHANGED <<ctlVars, callVars, txVars, sideVars>>

CtxDone ==
    /\ job.ctx # "none" /\ ~expired
    /\ expired' = TRUE
    /\ UNCHANGED <<wireVars, ctlVars, job, err, holder, calls, again, tries, rows,
                   fate, txVars, srvVars, sideVars>>

\* The watcher of withCancelWatcher; it is joined before the read returns.
Watcher ==
    /\ pc \in {"execute.read", "immediate.read", "fetch.read"} /\ res # "unsent"
    /\ expired
    /\ WatcherCancel /\ cancelled' = (cancelled \/ pc # "fetch.read")
    /\ UNCHANGED <<ctlVars, callVars, txVars, srvVars, prepared, pinger, leaked>>

SocketDeath ==
    /\ "death" \in Faults
    /\ SocketDies
    /\ UNCHANGED <<ctlVars, dataVars>>

\* The connection will not serve another call.
Doomed == holder \in {"closing", "gone"} \/ IsBad(err) \/ rows.bad
          \/ (pc = "drain.read" /\ expired)

\* The reads of a row's columns.
ColumnPlaces == {"blob.read", "segment.read", "blob.closed", "slice.read"}

\* A deadline fires when the server is silent, or was never asked.
DeadlineFires ==
    /\ \/ armed = "past"
       \/ armed = "ctx" /\ expired
          /\ (pend = <<>> \/ (IF pc \in ColumnPlaces THEN "latecolumn" ELSE "ctxstall") \in Faults)
       \/ armed = "fixed" /\ (pend = <<>>
                              \/ (IF Doomed THEN "doomstall" ELSE "stall") \in Faults)
    /\ RecvTimeout

Receive ==
    /\ \/ RecvSkip \/ RecvOwn \/ RecvGarbage
       \/ "malformed" \in Faults /\ RecvMalformed
       \/ DeadlineFires
    /\ UNCHANGED <<ctlVars, dataVars>>

\* The application makes no further call, or the process has died.
Stopped ==
    /\ pc = "panic" \/ (pc = "idle" /\ holder = "pool" /\ again = NoJob /\ calls = MaxCalls)
    /\ UNCHANGED vars

-----------------------------------------------------------------------------
Init ==
    /\ WireInit
    /\ pc = "idle" /\ stack = <<>> /\ err = "nil"
    /\ job = NoJob /\ expired = FALSE
    /\ holder = "pool" /\ calls = 0 /\ again = NoJob /\ tries = 0
    /\ txs = NewConnection /\ cur = 1
    /\ srv = <<>> /\ applied = [i \in Calls |-> 0]
    /\ prepared = FALSE /\ cancelled = FALSE /\ pinger = "none" /\ leaked = FALSE
    /\ rows = NoRows /\ fate = [i \in Calls |-> "none"]

Transaction == Begin \/ BeginRead \/ BeginTx \/ BeginTxDone \/ CommitRetaining
               \/ CommitRetainingRead \/ Commit \/ CommitRead \/ Rollback \/ RollbackRead

Statement == Prepare \/ PrepareBegun \/ Allocate \/ PrepareStatement \/ PrepareRead
             \/ ScrollRefused
             \/ Run \/ RunBegun \/ Bind \/ BindRead
             \/ Upload \/ UploadRead \/ UploadClosed \/ SliceStored
             \/ Execute \/ ExecuteRead \/ DrainRead \/ InfoRead
             \/ ExecCommitted \/ ExecDone
             \/ Immediate \/ ImmediateBegun \/ ImmediateSend \/ ImmediateRead
             \/ ImmediateDone
             \/ Free \/ FreeRead \/ Freed

Cursor == RowsClose \/ RowsExpired \/ RowsNext \/ Fetch \/ FetchRead \/ Row
          \/ BlobRead \/ SegmentRead \/ ColumnRead \/ ScrollFetch \/ ScrollClose

Teardown == Close \/ CloseRead \/ DetachRead

\* The goroutine of the call in progress.
Driver == Transaction \/ Statement \/ Cursor \/ Ping \/ PingRead \/ Teardown \/ Receive

Application == CallStart \/ Retry \/ TxEnd \/ Reconnect \/ Stopped

Environment == Server \/ CtxDone \/ Watcher \/ PingWatcher \/ SocketDeath

Next == Driver \/ Application \/ Environment

Spec == Init /\ [][Next]_vars

\* The scheduler runs the call's goroutine and Ping's, the runtime's timers and
\* the socket's deadlines fire.  Nothing is asked of the server.
Fairness == /\ WF_vars(Driver)
            /\ WF_vars(job.ctx = "deadline" /\ CtxDone)
            /\ WF_vars(pinger = "watching" /\ PingWatcher)

FairSpec == Spec /\ Fairness

-----------------------------------------------------------------------------
Jobs == [kind : CallKinds \cup {"none", "rows"}, shape : {"dml", "select", "proc"},
         ctx : CtxKinds, id : 0..MaxCalls]

Places == {"idle", "panic", "prepare", "prepare.begun", "allocate", "allocate.read",
           "prepare.read", "run", "run.begun", "bind", "bind.read", "upload.blob",
           "upload.segment", "upload.closed", "upload.slice", "immediate",
           "immediate.begun", "immediate.send", "immediate.read", "immediate.done",
           "execute", "execute.read", "drain.read", "info.read", "exec.committed", "exec.done",
           "free", "free.read", "freed", "rows", "fetch", "fetch.read", "row",
           "blob.read", "segment.read", "blob.closed", "slice.read", "ping",
           "ping.read", "begin", "begin.done", "tx.begin", "tx.begun",
           "commitRetaining", "commitRetaining.read", "commit", "commit.read",
           "rollback", "rollback.read", "close", "close.read", "detach.read"}

\* Where a subroutine returns to.
Returns == {"prepare.begun", "run.begun", "immediate.begun", "begin.done",
            "exec.committed", "immediate.done", "exec.done", "freed"}

Fates == {"none", "run", "acked", "txrun", "txdone", "committing", "unsure", "denied"}

TxObject   == [auto : BOOLEAN, needBegin : BOOLEAN, h : Nat, begun : BOOLEAN]
RowsObject == [drop : BOOLEAN, more : BOOLEAN, chunk : Nat, col : Nat,
               fetched : BOOLEAN, bad : BOOLEAN]
ServerTx   == [open : BOOLEAN, work : SUBSET Calls]

CallType ==
    /\ job \in Jobs /\ again \in Jobs
    /\ err \in Outcome /\ expired \in BOOLEAN
    /\ holder \in {"pool", "call", "tx", "txcall", "closing", "gone"}
    /\ calls \in 0..MaxCalls /\ tries \in 0..MaxTries
    /\ rows \in RowsObject
    /\ fate \in [Calls -> Fates]

TxType == txs \in Seq(TxObject) /\ cur \in 0..Len(txs)

SrvType == srv \in Seq(ServerTx) /\ applied \in [Calls -> Nat]

SideType == /\ prepared \in BOOLEAN /\ cancelled \in BOOLEAN /\ leaked \in BOOLEAN
            /\ pinger \in {"none", "watching", "left"}

\* The state of the connection, the call in progress, the pool and the server
\* has the shape the code's structs give it.
TypeOK == /\ WireTypeOK
          /\ pc \in Places /\ stack \in Seq(Returns)
          /\ CallType /\ TxType /\ SrvType /\ SideType

-----------------------------------------------------------------------------
(***************************************************************************)
(* What keeps TypeOK and StreamAligned inductive.                          *)
(***************************************************************************)
\* The places a subroutine or its caller may return to, ...
StacksAt(l) ==
    CASE l \in {"tx.begin", "tx.begun"} ->
            {<<"prepare.begun">>, <<"run.begun">>, <<"immediate.begun">>, <<"begin.done">>}
      [] l \in {"commitRetaining", "commitRetaining.read"} ->
            {<<"exec.committed">>, <<"immediate.done">>, <<"exec.done">>, <<"freed">>}
      [] l \in {"free", "free.read", "panic"} -> {<<>>, <<"exec.done">>}
      [] OTHER -> {<<>>}

\* ... those a call may reach while fc.tx is nil, ...
NilTxPlaces == {"idle", "panic", "prepare", "run", "immediate", "begin", "begin.done",
                "tx.begin", "tx.begun", "ping", "ping.read", "free", "free.read", "freed",
                "close", "close.read", "detach.read"}

ControlOK ==
    /\ pc \in Places /\ stack \in StacksAt(pc)
    /\ txs # <<>>
    /\ cur = 0 => /\ pc \in NilTxPlaces /\ holder \notin {"tx", "txcall"}
                  /\ stack \in {<<>>, <<"begin.done">>}

\* ... what database/sql retries, ...
RetryOK == again # NoJob => again.kind \in Retried /\ tries < MaxTries

\* ... and the allocate response about to be taken back from the count.
ReclaimOK == (pc = "allocate.read" /\ LazySend) =>
                /\ expect = <<>>
                /\ res # "nil" \/ lost \/ misread
                   \/ (pend # <<>> /\ pend[Len(pend)].op = "allocate")

\* The inductive strengthening of TypeOK and StreamAligned.
IInv == /\ WireInv /\ ControlOK /\ ReclaimOK
        /\ CallType /\ RetryOK /\ TxType /\ SrvType /\ SideType

-----------------------------------------------------------------------------
\* The connection lies in the pool.
Pooled == holder = "pool" /\ pc = "idle"

\* The next call would notice by itself that the socket is gone.
Broken == writer = "sticky" \/ sock = "dead"

\* A connection in the pool owes its next user nothing but the counted lazy
\* responses: no response is left over, no byte of one, no deadline is armed.
\* (statement.go's dispositions, rows.go badConn: "the poisoned conn is
\* evicted, not pooled".)  Not so when the deadline of Next cuts the read of a
\* column ("latecolumn"), which sets no badConn.
PoolAligned == Pooled /\ ~Broken => Aligned /\ expect = <<>> /\ armed = "none"

\* No connection on which op_cancel was fired for an execution goes back to the
\* pool: a cancel that arrives late would hit the next user's statement.  (When
\* it is fired during a fetch that succeeds, the connection is kept.)
CancelledEvicted == Pooled => ~cancelled

\* The response to one request is taken for another's only on a connection
\* that is already given up ("latecolumn" excepted, as above).
NoMisread == misread => Doomed

\* The work of a statement reported done is committed, once: by the
\* commit-retaining of autocommit, or by the transaction's commit ("latecolumn"
\* excepted, as above, and queries that run a procedure).
AckedApplied == \A i \in Calls : fate[i] = "acked" => applied[i] = 1

\* However often database/sql retries a call, its work is committed at most
\* once.
AtMostOnce == \A i \in Calls : applied[i] <= 1

\* What ran inside an explicit transaction is not committed before the
\* transaction is, and not at all if it was rolled back.
OnlyByCommit == \A i \in Calls : fate[i] \in {"txrun", "txdone", "denied"} => applied[i] = 0

\* The calls that use fc.tx without looking whether it is nil: those on a statement
\* prepared before, and QueryScrollable.
Unlooked == {"stmtExec", "stmtQuery", "stmtClose", "scroll"}

\* A nil fc.tx, which a refused BeginTx leaves, is dereferenced by those calls
\* only, and no other code path dereferences nil.
NoPanic == pc = "panic" => cur = 0 /\ job.kind \in Unlooked /\ "begin" \in Kinds

\* Every teardown read is bounded: on a silent server closing a statement or a
\* cursor, rolling back and closing the connection come to an end.
TeardownEnds == (pc \in {"free", "rollback", "close"}) ~> (pc = "idle")

\* A statement read under a deadline is given up when the server stays silent
\* (or ends in the nil dereference NoPanic allows).
DeadlineEnds == (/\ pc \in {"execute.read", "immediate.read", "info.read", "fetch.read"}
                 /\ job.ctx = "deadline")
                ~> (pc \in {"idle", "rows", "panic"})

\* So is a Ping whose context ends.
PingEnds == (pc = "ping.read" /\ (job.ctx = "deadline" \/ expired)) ~> (pc # "ping.read")

\* No call hangs on a silent server where the driver has set it a bound.
CallsReturn == TeardownEnds /\ DeadlineEnds /\ PingEnds
=============================================================================
