--------------------------- MODULE PreparedBatch ---------------------------
(***************************************************************************)
(* A PreparedBatch (batch.go) over the wire of FbWire (batch_wire.go), in  *)
(* the connection's own transaction.  Add queues rows, Flush sends them to *)
(* the batch the server keeps, Exec executes that batch, releases it and,  *)
(* in autocommit, ends the transaction.                                    *)
(***************************************************************************)
EXTENDS FbWire, FiniteSets

CONSTANTS
    Autocommit,   \* fc.tx.isAutocommit
    FlushAt,      \* Add flushes a queue of this many rows (autoFlushSize)
    Contexts,     \* contexts given to Exec
    Faults,       \* subset of {"stall", "death", "malformed"}
    Fallible,     \* requests the server may answer with an error
    MaxRows, MaxCalls   \* bounds of the exploration

ASSUME BatchAssumption ==
    /\ Autocommit \in BOOLEAN /\ FlushAt \in Nat \ {0}
    /\ Contexts \subseteq {"none", "cancel", "deadline"}
    /\ Faults \subseteq {"stall", "death", "malformed"}
    /\ Fallible \subseteq Ops
    /\ MaxRows \in Nat /\ MaxCalls \in Nat

VARIABLES
    pc,        \* where the call in progress is
    call,      \* the call in progress
    ctx,       \* the context of the Exec in progress
    expired,   \* it is done, or its deadline has passed
    failure,   \* the error the call has already decided to return
    adding,    \* the row an Add that flushes has yet to queue
    queue,     \* encodedRows
    created, closed,
    flushes,   \* the rows of each op_batch_msg
    batch,     \* server: the batch, and how often it holds each row
    tx,        \* server: the transaction, and how often each row was executed in it
    calls,     \* calls made so far
    added,     \* rows the application has given to Add
    owed,      \* history: those of which no call has reported a failure since
    acked,     \* history: those an Exec has reported as done
    rejected,  \* history: those of an Exec that reported row errors
    applied    \* history: how often each row was committed

local    == <<adding, queue, created, closed, flushes>>
ctxVars  == <<ctx, expired>>
server   == <<batch, tx, applied>>
history  == <<added, owed, acked, rejected>>
vars     == <<wireVars, pc, call, failure, calls, ctxVars, local, server, history>>

Rows  == 1..MaxRows
NoRow == [r \in Rows |-> 0]

\* PrepareBatch, after it has begun a transaction and prepared the statement.
Init ==
    /\ WireInit
    /\ pc = "idle" /\ call = "none" /\ failure = "nil" /\ calls = 0
    /\ ctx = "none" /\ expired = FALSE
    /\ adding = 0 /\ queue = <<>> /\ created = FALSE /\ closed = FALSE /\ flushes = <<>>
    /\ batch = [open |-> FALSE, rows |-> NoRow]
    /\ tx = [open |-> TRUE, rows |-> NoRow]
    /\ added = 0 /\ owed = {} /\ acked = {} /\ rejected = {}
    /\ applied = NoRow

-----------------------------------------------------------------------------
(***************************************************************************)
(* Control.                                                                *)
(***************************************************************************)
At(l) == pc = l /\ expect = <<>>

Goto(l) == pc' = l /\ UNCHANGED <<call, ctxVars, failure, calls>>

\* The application makes a call that goes on at l.
Starts(c, l) ==
    /\ At("idle") /\ ~closed /\ calls < MaxCalls
    /\ calls' = calls + 1
    /\ pc' = l /\ call' = c
    /\ UNCHANGED <<wireVars, ctxVars, failure, server>>

\* The call returns e; the deadline of Exec is disarmed.
Leaves(e) ==
    /\ SetDeadline("none")
    /\ pc' = "idle" /\ call' = "none" /\ failure' = "nil"
    /\ ctx' = "none" /\ expired' = FALSE
    /\ owed' = IF e = "nil" /\ call \in {"add", "flush"} THEN owed ELSE {}
    /\ acked' = IF e = "nil" /\ call = "exec" THEN acked \cup owed ELSE acked
    /\ rejected' = IF e = "rows" THEN rejected \cup owed ELSE rejected
    /\ UNCHANGED <<calls, added, server>>

-----------------------------------------------------------------------------
(***************************************************************************)
(* Add, Flush, and the beginning of Exec, Cancel and Close.                *)
(***************************************************************************)
\* Add: a row that fits is queued, another one waits for a flush.
Add ==
    /\ added < MaxRows
    /\ added' = added + 1
    /\ IF Len(queue) < FlushAt
       THEN /\ At("idle") /\ ~closed
            /\ queue' = Append(queue, added')
            /\ owed' = owed \cup {added'}
            /\ UNCHANGED <<wireVars, pc, call, ctxVars, failure, calls, server, adding>>
       ELSE /\ Starts("add", "flush")
            /\ adding' = added'
            /\ UNCHANGED <<queue, owed>>
    /\ UNCHANGED <<created, closed, flushes, acked, rejected>>

Flush ==
    /\ queue # <<>>
    /\ Starts("flush", "flush")
    /\ UNCHANGED <<local, history>>

Exec ==
    /\ queue # <<>> \/ created
    /\ At("idle") /\ ~closed /\ calls < MaxCalls
    /\ calls' = calls + 1 /\ call' = "exec" /\ ctx' \in Contexts
    /\ pc' = IF queue # <<>> THEN "flush" ELSE "exec"
    /\ UNCHANGED <<wireVars, expired, failure, server, local, history>>

Cancel ==
    /\ created
    /\ Starts("cancel", "release")
    /\ queue' = <<>>
    /\ UNCHANGED <<adding, created, closed, flushes, history>>

Close ==
    /\ Starts("close", IF created THEN "release" ELSE "free")
    /\ queue' = <<>>
    /\ closed' = ~created
    /\ UNCHANGED <<adding, created, flushes, history>>

\* ensureCreated, and opBatchMsg.
BatchCreate ==
    /\ At("flush")
    /\ IF created
       THEN Goto("msg") /\ UNCHANGED wireVars
       ELSE AskTwo("batch_create", 0, "ping") /\ Goto("create")
    /\ UNCHANGED <<local, server, history>>

BatchCreated ==
    /\ At("create")
    /\ IF res = "nil"
       THEN /\ created' = TRUE
            /\ Goto("msg")
            /\ UNCHANGED <<wireVars, adding, server, history>>
       ELSE Leaves(res) /\ adding' = 0 /\ UNCHANGED created
    /\ UNCHANGED <<queue, closed, flushes>>

\* Mutant: the queue is not cleared.
BatchMsg_KeepsQueue ==
    /\ At("msg")
    /\ flushes' = Append(flushes, queue)
    /\ AskTwo("batch_msg", Len(flushes'), "sync")
    /\ Goto("flushed")
    /\ UNCHANGED <<adding, queue, created, closed, server, history>>

BatchMsg ==
    /\ At("msg")
    /\ queue' = <<>>
    /\ flushes' = Append(flushes, queue)
    /\ AskTwo("batch_msg", Len(flushes'), "sync")
    /\ Goto("flushed")
    /\ UNCHANGED <<adding, created, closed, server, history>>

\* The end of Flush: Exec goes on, Add queues its row, unless it has failed.
Flushed ==
    /\ At("flushed")
    /\ IF call = "exec" /\ res = "nil"
       THEN /\ Goto("exec")
            /\ UNCHANGED <<wireVars, queue, server, history>>
       ELSE IF call = "add" /\ res = "nil"
       THEN /\ SetDeadline("none") /\ pc' = "idle" /\ call' = "none"
            /\ queue' = <<adding>>
            /\ owed' = owed \cup {adding}
            /\ UNCHANGED <<ctxVars, failure, calls, server, added, acked, rejected>>
       ELSE Leaves(res) /\ UNCHANGED queue
    /\ adding' = 0
    /\ UNCHANGED <<created, closed, flushes>>

-----------------------------------------------------------------------------
(***************************************************************************)
(* Exec.                                                                   *)
(***************************************************************************)
\* Mutant: no deadline is set.
BatchExec_NoDeadline ==
    /\ At("exec")
    /\ Ask("batch_exec", 1, 0, armed)
    /\ Goto("completion")
    /\ UNCHANGED <<local, server, history>>

\* opBatchExec, then enforceDeadline.
BatchExec ==
    /\ At("exec")
    /\ Ask("batch_exec", 1, 0, IF ctx = "deadline" THEN "ctx" ELSE armed)
    /\ Goto("completion")
    /\ UNCHANGED <<local, server, history>>

\* opBatchCompletion: an error, the errors of rows (reply), or neither.
Completion ==
    /\ At("completion")
    /\ IF res = "unsent"
       THEN Leaves("unsent")
       ELSE /\ failure' = IF res = "nil" /\ reply = 1 THEN "rows" ELSE res
            /\ pc' = "release"
            /\ UNCHANGED <<wireVars, call, ctxVars, calls, server, history>>
    /\ UNCHANGED local

\* opBatchRelease.
Release ==
    /\ At("release")
    /\ AskTwo("batch_release", 0, "ping")
    /\ Goto("released")
    /\ UNCHANGED <<local, server, history>>

\* Mutant: row errors are committed, too.
Released_CommitsErrors ==
    /\ At("released")
    /\ created' = FALSE
    /\ IF call = "cancel" THEN Leaves(res) /\ UNCHANGED closed
       ELSE /\ closed' = (call = "close")
            /\ IF call = "exec" /\ (failure \notin {"nil", "rows"} \/ ~Autocommit)
               THEN Leaves(failure)
               ELSE /\ Goto(IF call = "close" THEN "free" ELSE "commitRetaining")
                    /\ UNCHANGED <<wireVars, server, history>>
    /\ UNCHANGED <<adding, queue, flushes>>

\* Exec drops the error of the release, and ends the transaction in autocommit;
\* Close drops it, and closes the statement.
Released ==
    /\ At("released")
    /\ created' = FALSE
    /\ IF call = "cancel" THEN Leaves(res) /\ UNCHANGED closed
       ELSE /\ closed' = (call = "close")
            /\ IF call = "exec" /\ (failure \notin {"nil", "rows"} \/ ~Autocommit)
               THEN Leaves(failure)
               ELSE /\ Goto(CASE call = "close"     -> "free"
                              [] failure = "rows"   -> "rollback"
                              [] OTHER              -> "commitRetaining")
                    /\ UNCHANGED <<wireVars, server, history>>
    /\ UNCHANGED <<adding, queue, flushes>>

\* commitRetainging and Rollback name the transaction, whatever became of it.
CommitRetaining ==
    /\ At("commitRetaining")
    /\ Ask("commit_retaining", 1, 0, "fixed")
    /\ Goto("committed")
    /\ UNCHANGED <<local, server, history>>

\* Mutant: the error of the commit is dropped.
Committed_NoError ==
    /\ At("committed")
    /\ Leaves(failure)
    /\ UNCHANGED local

\* Exec returns the error of its commit; freeStatement drops it.
Committed ==
    /\ At("committed")
    /\ Leaves(IF call = "exec" /\ res # "nil" THEN res ELSE failure)
    /\ UNCHANGED local

Rollback ==
    /\ At("rollback")
    /\ Ask("rollback", 1, 0, "fixed")
    /\ Goto("rolledBack")
    /\ UNCHANGED <<local, server, history>>

RolledBack ==
    /\ At("rolledBack")
    /\ Leaves("rows")
    /\ UNCHANGED local

\* stmt.Close: freeStatement(DSQL_drop).
Free ==
    /\ At("free")
    /\ IF LazySend THEN AskLazily("free", TRUE) ELSE Ask("free", 0, 0, "fixed")
    /\ Goto("freed")
    /\ UNCHANGED <<local, server, history>>

\* A write that failed ends Close; any other error does after the commit.
Freed ==
    /\ At("freed")
    /\ IF res = "unsent" \/ ~Autocommit
       THEN Leaves(res)
       ELSE /\ SetDeadline("none")
            /\ failure' = res
            /\ pc' = "commitRetaining"
            /\ UNCHANGED <<call, ctxVars, calls, server, history>>
    /\ UNCHANGED local

-----------------------------------------------------------------------------
(***************************************************************************)
(* The server, the context and the socket.                                 *)
(***************************************************************************)
Sum(f, g) == [r \in Rows |-> f[r] + g[r]]

Occurrences(rs) == [r \in Rows |-> Cardinality({i \in DOMAIN rs : rs[i] = r})]

\* What a request that succeeds does.
Effect(t) ==
    CASE t.op = "batch_create"     ->
            batch' = [open |-> TRUE, rows |-> NoRow] /\ UNCHANGED <<tx, applied>>
      [] t.op = "batch_msg"        ->
            /\ batch' = [batch EXCEPT !.rows = Sum(@, Occurrences(flushes[t.w]))]
            /\ UNCHANGED <<tx, applied>>
      [] t.op = "batch_release"    ->
            batch' = [open |-> FALSE, rows |-> NoRow] /\ UNCHANGED <<tx, applied>>
      [] t.op = "commit_retaining" ->
            /\ applied' = Sum(applied, tx.rows)
            /\ tx' = [tx EXCEPT !.rows = NoRow]
            /\ UNCHANGED batch
      [] t.op = "rollback"         ->
            tx' = [open |-> FALSE, rows |-> NoRow] /\ UNCHANGED <<batch, applied>>
      [] OTHER                     -> UNCHANGED server

\* Without an open batch, with one already, or without the transaction, a
\* request fails.
Possible(t) ==
    CASE t.op = "batch_create"                      -> ~batch.open
      [] t.op \in {"batch_msg", "batch_release"}    -> batch.open
      [] t.op = "batch_exec"                        -> batch.open /\ tx.open
      [] t.op \in {"commit_retaining", "rollback"}  -> tx.open
      [] OTHER                                      -> TRUE

\* The batch is executed and emptied; all of its rows succeed, or those of
\* good: with ContinueOnError the others fail, else the first one that fails
\* ends it.
Executes(i) ==
    \E good \in SUBSET {r \in Rows : batch.rows[r] > 0} :
        /\ Answer(i, "ok", IF \E r \in Rows \ good : batch.rows[r] > 0 THEN 1 ELSE 0)
        /\ tx' = [tx EXCEPT !.rows =
                     [r \in Rows |-> @[r] + IF r \in good THEN batch.rows[r] ELSE 0]]
        /\ batch' = [batch EXCEPT !.rows = NoRow]
        /\ UNCHANGED applied

Server ==
    /\ \E i \in 1..Len(pend) :
          /\ NextAsked(i)
          /\ LET t == pend[i]
             IN  \/ /\ Possible(t)
                    /\ IF t.op = "batch_exec" THEN Executes(i)
                       ELSE Answer(i, "ok", 0) /\ Effect(t)
                 \/ /\ t.op \in Fallible \/ ~Possible(t)
                    /\ Answer(i, "err", 0)
                    /\ UNCHANGED server
    /\ UNCHANGED <<pc, call, failure, calls, ctxVars, local, history>>

CtxDone ==
    /\ ctx # "none" /\ ~expired
    /\ expired' = TRUE
    /\ UNCHANGED <<wireVars, pc, call, failure, calls, ctx, local, server, history>>

\* The deadline of the socket, ctx's and 3 s, has passed.
Overdue ==
    /\ armed = "ctx" /\ expired
    /\ SetDeadline("past")
    /\ UNCHANGED <<pc, call, failure, calls, ctxVars, local, server, history>>

\* The watcher of withCancelWatcher.
Watcher ==
    /\ pc = "completion" /\ expect # <<>> /\ expired
    /\ WatcherCancel
    /\ UNCHANGED <<pc, call, failure, calls, ctxVars, local, server, history>>

SocketDeath ==
    /\ "death" \in Faults
    /\ SocketDies
    /\ UNCHANGED <<pc, call, failure, calls, ctxVars, local, server, history>>

DeadlineFires ==
    /\ \/ armed = "past"
       \/ armed = "fixed" /\ (pend = <<>> \/ "stall" \in Faults)
    /\ RecvTimeout

Receive ==
    /\ \/ RecvSkip \/ RecvOwn \/ RecvGarbage
       \/ "malformed" \in Faults /\ RecvMalformed
       \/ DeadlineFires
    /\ UNCHANGED <<pc, call, failure, calls, ctxVars, local, server, history>>

-----------------------------------------------------------------------------
Application == Add \/ Flush \/ Exec \/ Cancel \/ Close

Driver ==
    \/ BatchCreate \/ BatchCreated \/ BatchMsg \/ Flushed
    \/ BatchExec \/ Completion \/ Release \/ Released
    \/ CommitRetaining \/ Committed \/ Rollback \/ RolledBack \/ Free \/ Freed
    \/ Receive

Next == Application \/ Driver \/ Server \/ CtxDone \/ Overdue \/ Watcher \/ SocketDeath

Spec == Init /\ [][Next]_vars

\* The driver runs and time passes; the server may be silent for ever.
FairSpec == Spec /\ WF_vars(Driver) /\ WF_vars(ctx = "deadline" /\ CtxDone) /\ WF_vars(Overdue)

-----------------------------------------------------------------------------
(***************************************************************************)
(* Properties.                                                             *)
(***************************************************************************)
Places == {"idle", "flush", "create", "msg", "flushed", "exec", "completion",
           "release", "released", "commitRetaining", "committed", "rollback",
           "rolledBack", "free", "freed"}

Count == [Rows -> Nat]

ControlType ==
    /\ pc \in Places
    /\ call \in {"none", "add", "flush", "exec", "cancel", "close"}
    /\ call = "none" <=> pc = "idle"
    /\ call \in {"add", "flush"} => pc \in {"flush", "create", "msg", "flushed"}
    /\ ctx \in {"none", "cancel", "deadline"} /\ expired \in BOOLEAN
    /\ failure \in Outcome \cup {"rows"}
    /\ calls \in 0..MaxCalls

LocalType ==
    /\ added \in 0..MaxRows
    /\ adding \in 0..added /\ (adding # 0 <=> call = "add")
    /\ queue \in Seq(Rows) /\ flushes \in Seq(Seq(Rows))
    /\ created \in BOOLEAN /\ closed \in BOOLEAN

ServerType ==
    /\ batch \in [open : BOOLEAN, rows : Count]
    /\ tx \in [open : BOOLEAN, rows : Count]
    /\ applied \in Count

HistoryType == owed \subseteq Rows /\ acked \subseteq Rows /\ rejected \subseteq Rows

\* The server never has a message whose rows are not recorded.
Recorded == \A i \in DOMAIN pend : pend[i].op = "batch_msg" => pend[i].w \in DOMAIN flushes

\* The types.  A row waits for a flush exactly while Add does.
TypeOK == WireTypeOK /\ ControlType /\ LocalType /\ ServerType /\ HistoryType /\ Recorded

\* README.md: "In autocommit mode, a successful Exec calls commit-retaining".
\* When Exec returns nil, every row added since the batch was last empty is
\* committed, unless a call in between reported an error.
AckedApplied == Autocommit => \A r \in acked : applied[r] > 0

\* ... or is lost together with a connection that cannot send any more: after a
\* deadline has passed, op_commit_retaining does not leave the driver.
AckedOrCut == Autocommit => \A r \in acked : applied[r] > 0 \/ writer = "sticky"

\* No row is committed twice, whichever calls fail and are made again.
AtMostOnce == \A r \in Rows : applied[r] <= 1

\* README.md: "any per-row error rolls back".  No row of an Exec that reported
\* row errors in autocommit is ever committed.
RejectedUndone == Autocommit => \A r \in rejected : applied[r] = 0

\* An Exec under a deadline returns once its batch has been sent to be executed,
\* also from a server that falls silent.
ExecEnds == (pc = "completion" /\ ctx = "deadline") ~> pc = "idle"

\* wireprotocol_parse_test.go: "clean server error must not poison the
\* connection".
Usable == pc = "idle" /\ sock = "up" /\ writer = "ok" => Aligned
=============================================================================
