---------------------------- MODULE ServiceManagers ----------------------------
(***************************************************************************)
(* The service managers (service_manager.go and the backup, nbackup,       *)
(* maintenance, user and trace managers built on it).                      *)
(*                                                                         *)
(* Three service connections: "kept" belongs to a UserManager or to a      *)
(* ServiceManager the program holds, "own" is the one a call builds for    *)
(* itself and closes when it returns, "trace" is TraceSession.conn.  No    *)
(* connection has a lock: a process sends a request and reads the next     *)
(* answer of that connection, whosever it is.                              *)
(*                                                                         *)
(* "caller" is the goroutine inside a manager's call, "worker" the one     *)
(* WaitString, GetUsers and GetLimboTransactions start, "reader" the       *)
(* program's own goroutine inside TraceSession.WaitStrings or Wait.  The   *)
(* server runs one job per connection; its output is the units 1, 2, ...   *)
(***************************************************************************)
EXTENDS Naturals, Sequences

CONSTANTS
  Calls,         \* the calls the program makes, a subset of CallKinds
  MaxCalls,      \* bound: calls made on managers
  MaxTrace,      \* bound: calls made on a trace manager and its session
  MaxOut,        \* bound: units of output of one job
  MaxFaults,     \* bound: errors answered by the server and links that fail
  WaitForReader  \* TRUE: the program closes a trace session only after its
                 \* reader has returned

VARIABLES
  sock,    \* each connection's socket: "none", "open" or "closed"
  dead,    \* the connections whose link has failed
  asked,   \* requests the server has not answered
  reply,   \* answers nobody has read
  job,     \* the job the server runs for each connection
  pc,      \* where each process is
  via,     \* the connection each process works on
  waits,   \* the processes that have sent a request and wait for an answer
  err,     \* the error each process is about to return
  item,    \* the output each process is about to hand over
  call,    \* the caller's call
  got,     \* what the receiver of the call's output has been given
  errCh,   \* WaitString's error channel
  part,    \* WaitString's channel of lines: "none", "open" or "closed"
  ts,      \* TraceSession.state, "none" before Start and "nil" after Close
  last,    \* the outcome of the last call
  mixed,   \* TRUE once a process has read the answer to another's request
  calls, faults

vars == <<sock, dead, asked, reply, job, pc, via, waits, err, item, call, got,
          errCh, part, ts, last, mixed, calls, faults>>

CallKinds == {"attach", "verbose", "users", "limbo", "text", "list",
              "trace", "pause", "resume", "stop", "close"}
Conns == {"kept", "own", "trace"}
Procs == {"caller", "worker", "reader"}

ASSUME ServiceAssumption ==
  /\ Calls \subseteq CallKinds
  /\ MaxCalls \in Nat /\ MaxTrace \in Nat /\ MaxOut \in Nat /\ MaxFaults \in Nat
  /\ WaitForReader \in BOOLEAN

Control == {"pause", "resume", "stop", "close"}
NoJob   == [run |-> "no", size |-> 0, made |-> 0, given |-> 0, match |-> FALSE]
NoCall  == [call |-> "none", err |-> "nil", got |-> <<>>, size |-> 0]

\* The request each phase of a process sends.
OpOf == [start |-> "start", poll |-> "running", lines |-> "line",
         chunks |-> "eof", banner |-> "line", detach |-> "detach"]

Init ==
  /\ sock = [c \in Conns |-> IF c = "kept" THEN "open" ELSE "none"]
  /\ dead = {}
  /\ asked = [c \in Conns |-> <<>>]
  /\ reply = [c \in Conns |-> <<>>]
  /\ job = [c \in Conns |-> NoJob]
  /\ pc = [p \in Procs |-> IF p = "caller" THEN "idle" ELSE "off"]
  /\ via = [p \in Procs |-> "kept"]
  /\ waits = {}
  /\ err = [p \in Procs |-> "nil"]
  /\ item = [p \in Procs |-> <<>>]
  /\ call = "none" /\ got = <<>> /\ errCh = "none" /\ part = "none"
  /\ ts = "none" /\ last = NoCall /\ mixed = FALSE
  /\ calls = 0 /\ faults = 0

-----------------------------------------------------------------------------
(* The calls.  Goto moves one process; Return ends the caller's call.      *)

Goto(p, phase) == pc' = [pc EXCEPT ![p] = phase]

Return(e) ==
  /\ Goto("caller", "idle")
  /\ last' = [call |-> call, err |-> e, got |-> got,
              size |-> job[via["caller"]].size]
  /\ call' = "none"

\* What the receiver of a worker's result returns: the job is the worker's.
ReturnOf(e) ==
  /\ pc' = [pc EXCEPT !["caller"] = "idle", !["worker"] = "off"]
  /\ last' = [call |-> call, err |-> e, got |-> got, size |-> job[via["worker"]].size]
  /\ call' = "none"

\* The state a TraceSession's method requires before it does anything.  The
\* other managers share nothing with a session, so a program either traces or
\* uses them (a bound), and makes fewer calls when it does not trace.
Allowed(k) ==
  CASE k = "trace"  -> ts = "none" /\ calls = 0
    [] k = "pause"  -> ts = "running"
    [] k = "resume" -> ts = "paused"
    [] k = "stop"   -> ts \in {"running", "paused"}
    [] k = "close"  -> /\ ts \in {"running", "paused", "stopped"}
                       /\ WaitForReader => pc["reader"] = "off"
    [] OTHER        -> ts = "none"

\* Mutant: Stop and its kin use the session's own connection.
Begin_MainConn(k) ==
  /\ pc["caller"] = "idle" /\ k \in Calls /\ Allowed(k) /\ calls < MaxTrace
  /\ k \in Control \union {"trace"}
  /\ call' = k /\ calls' = calls + 1
  /\ got' = <<>> /\ errCh' = "none" /\ part' = "none"
  /\ err' = [err EXCEPT !["caller"] = "nil", !["worker"] = "nil"]
  /\ via' = [via EXCEPT !["caller"] = "trace"]
  /\ Goto("caller", IF k = "trace" THEN "build" ELSE "start")
  /\ UNCHANGED <<sock, dead, asked, reply, job, waits, item, ts, last, mixed, faults>>

\* A manager's method is called.  Close of a stopped session goes straight to
\* conn.Close; GetUsers and the log and statistics texts start the service
\* themselves; GetLimboTransactions leaves everything to its goroutine.
Begin(k) ==
  /\ pc["caller"] = "idle" /\ k \in Calls /\ Allowed(k)
  /\ calls < IF k \in Control \union {"trace"} THEN MaxTrace ELSE MaxCalls
  /\ call' = k /\ calls' = calls + 1
  /\ got' = <<>> /\ errCh' = "none"
  /\ part' = IF k = "text" THEN "open" ELSE "none"
  /\ err' = [err EXCEPT !["caller"] = "nil", !["worker"] = "nil"]
  /\ CASE k \in {"users", "text"} ->
            /\ via' = [via EXCEPT !["caller"] = "kept"]
            /\ Goto("caller", "start")
       [] k = "limbo" ->
            /\ via' = [via EXCEPT !["worker"] = "own"]
            /\ pc' = [pc EXCEPT !["caller"] = "gather", !["worker"] = "build"]
       [] k = "close" /\ ts = "stopped" ->
            /\ via' = [via EXCEPT !["caller"] = "trace"]
            /\ Goto("caller", "detach")
       [] OTHER ->
            /\ via' = [via EXCEPT !["caller"] = IF k = "trace" THEN "trace" ELSE "own"]
            /\ Goto("caller", "build")
  /\ UNCHANGED <<sock, dead, asked, reply, job, waits, item, ts, last, mixed, faults>>

\* connBuilder: dial, handshake and op_service_attach.  When it fails the
\* method returns; GetLimboTransactions' goroutine reports the error.
Build(p) ==
  LET c == via[p] IN
  /\ pc[p] = "build"
  /\ \/ /\ sock' = [sock EXCEPT ![c] = "open"]
        /\ dead' = dead \ {c}
        /\ asked' = [asked EXCEPT ![c] = <<>>]
        /\ reply' = [reply EXCEPT ![c] = <<>>]
        /\ job' = [job EXCEPT ![c] = NoJob]
        /\ Goto(p, "start")
        /\ UNCHANGED <<err, last, call, faults>>
     \/ /\ faults < MaxFaults /\ faults' = faults + 1
        /\ IF p = "caller" THEN /\ Return(IF call = "list" THEN "nil" ELSE "error")
                                /\ UNCHANGED err
           ELSE /\ err' = [err EXCEPT ![p] = "error"]
                /\ Goto(p, "signal") /\ UNCHANGED <<last, call>>
        /\ UNCHANGED <<sock, dead, asked, reply, job>>
  /\ UNCHANGED <<via, waits, item, got, errCh, part, ts, mixed, calls>>

-----------------------------------------------------------------------------
(* One request and its answer.                                             *)

\* opServiceStart, opServiceInfo or opServiceDetach on a healthy connection.
Send(p) ==
  LET c == via[p] IN
  /\ pc[p] \in DOMAIN OpOf /\ p \notin waits
  /\ c \notin dead /\ sock[c] = "open"
  /\ asked' = [asked EXCEPT ![c] = Append(@, [op |-> OpOf[pc[p]], by |-> p])]
  /\ waits' = waits \union {p}
  /\ UNCHANGED <<sock, dead, reply, job, pc, via, err, item, call, got, errCh,
                 part, ts, last, mixed, calls, faults>>

\* Mutant: serviceAttachBuffer without its deferred Close.
AfterLoop_NoClose(p) ==
  CASE p = "reader"                  -> "off"
    [] p = "worker" /\ call = "text" -> "publish"
    [] p = "worker"                  -> "signal"
    [] OTHER                         -> "detach"

\* Where a process goes when its loop over the output ends: an owner closes the
\* connection it built, the others hand their error to whoever waits for it.
AfterLoop(p) ==
  CASE p = "reader"                     -> "off"
    [] p = "worker" /\ call = "text"    -> "publish"
    [] p = "worker" /\ call = "users"   -> "signal"
    [] OTHER                            -> "detach"

\* Close of a session goes on to the session's own connection when its Stop has
\* succeeded, whatever became of the detach of Stop's auxiliary connection.
Onward(p) == p = "caller" /\ call = "close" /\ via[p] = "own" /\ err[p] = "nil"

\* The error path of each phase: the deferred Close of a connection the call
\* built, the plain return of one it did not build, and TraceManager.Start,
\* which returns and leaves its connection open.  List reports no error when its
\* connection cannot be built or a line cannot be read.
Fails(p) ==
  CASE pc[p] = "detach" -> /\ sock' = [sock EXCEPT ![via[p]] = "closed"]
                           /\ CASE p = "worker" -> Goto(p, "signal") /\ UNCHANGED <<last, call, via>>
                                [] Onward(p) -> /\ via' = [via EXCEPT ![p] = "trace"]
                                                /\ UNCHANGED <<last, call, pc>>
                                [] OTHER -> /\ Return(IF call = "close" /\ via[p] = "trace" THEN "error" ELSE err[p])
                                            /\ UNCHANGED via
                           /\ UNCHANGED <<err, ts>>
    [] /\ p = "caller" /\ pc[p] # "detach"
       /\ call = "trace" \/ (pc[p] = "start" /\ call \in {"users", "text"}) ->
                           Return("error") /\ UNCHANGED <<sock, via, err, ts>>
    [] OTHER            -> /\ err' = [err EXCEPT ![p] = IF call = "list" /\ pc[p] = "lines"
                                                        THEN "nil" ELSE "error"]
                           /\ Goto(p, AfterLoop(p))
                           /\ UNCHANGED <<sock, last, call, via, ts>>

\* A request that cannot be written, or whose answer never comes.
Broken(p) ==
  /\ pc[p] \in DOMAIN OpOf
  /\ via[p] \in dead \/ sock[via[p]] # "open"
  /\ waits' = waits \ {p}
  /\ Fails(p)
  /\ UNCHANGED <<dead, asked, reply, job, item, got, errCh, part, mixed, calls, faults>>

\* The deferred Close has succeeded: the call returns what it had decided, and
\* Close of a session goes on, after its Stop, to the session's connection.
Detached(p) ==
  /\ sock' = [sock EXCEPT ![via[p]] = "closed"]
  /\ CASE p = "worker" -> Goto(p, "signal") /\ UNCHANGED <<last, call, via, ts>>
       [] Onward(p) -> /\ via' = [via EXCEPT ![p] = "trace"] /\ UNCHANGED <<last, call, ts, pc>>
       [] OTHER -> /\ Return(err[p]) /\ UNCHANGED via
                   /\ ts' = IF call = "close" /\ via[p] = "trace" THEN "nil" ELSE ts
  /\ UNCHANGED <<err, item>>

\* ServiceStart has succeeded: on to the loop the call reads its output with.
Started(p) ==
  /\ IF call \in {"users", "text"}
     THEN /\ pc' = [pc EXCEPT !["caller"] = "gather",
                              !["worker"] = IF call = "text" THEN "lines" ELSE "chunks"]
          /\ via' = [via EXCEPT !["worker"] = "kept"]
     ELSE /\ Goto(p, CASE call = "attach"  -> "poll"
                       [] call \in {"verbose", "list"} -> "lines"
                       [] call = "limbo"   -> "chunks"
                       [] OTHER            -> "banner")
          /\ UNCHANGED via
  /\ UNCHANGED <<sock, last, call, err, item, ts>>

\* The states a control call leaves the session in when the server confirms.
Becomes == [pause |-> "paused", resume |-> "running", stop |-> "stopped", close |-> "stopped"]

\* Mutant: the line the server prints is not looked at.
Banner_AnyLine(p, r) ==
  /\ IF call = "trace"
     THEN Return("nil") /\ ts' = "running" /\ UNCHANGED <<err, via>>
     ELSE /\ ts' = Becomes[call] /\ Goto(p, "detach")
          /\ UNCHANGED <<err, via, last, call>>
  /\ UNCHANGED <<sock, item>>

\* StartWithName, Stop, Pause and Resume match the first line the server prints.
Banner(p, r) ==
  /\ IF r.kind = "line" /\ r.match
     THEN IF call = "trace"
          THEN Return("nil") /\ ts' = "running" /\ UNCHANGED <<err, via>>
          ELSE /\ ts' = Becomes[call] /\ Goto(p, "detach")
               /\ UNCHANGED <<err, via, last, call>>
     ELSE /\ err' = [err EXCEPT ![p] = "error"] /\ Goto(p, "detach")
          /\ UNCHANGED <<ts, via, last, call>>
  /\ UNCHANGED <<sock, item>>

\* Mutant: WaitBuffer takes the timeout for the end of the stream.
Looped_TimeoutEnds(p, r) ==
  /\ CASE r.kind \in {"line", "chunk"} -> /\ item' = [item EXCEPT ![p] = r.units]
                                          /\ Goto(p, IF pc[p] = "lines" THEN "hand" ELSE "pass")
       [] r.kind = "yes" -> UNCHANGED <<pc, item>>
       [] OTHER          -> Goto(p, AfterLoop(p)) /\ UNCHANGED item
  /\ UNCHANGED <<sock, last, call, err, via, ts>>

\* WaitStrings, WaitBuffer and Wait: output is handed over, a timeout or a
\* service that still runs is asked again, the end leaves the loop.
Looped(p, r) ==
  /\ CASE r.kind \in {"line", "chunk"} -> /\ item' = [item EXCEPT ![p] = r.units]
                                          /\ Goto(p, IF pc[p] = "lines" THEN "hand" ELSE "pass")
       [] r.kind \in {"timeout", "yes"} -> UNCHANGED <<pc, item>>
       [] OTHER                        -> Goto(p, AfterLoop(p)) /\ UNCHANGED item
  /\ UNCHANGED <<sock, last, call, err, via, ts>>

\* opResponse: the process reads the next answer of its connection.
Take(p) ==
  LET c == via[p]
      r == Head(reply[c]) IN
  /\ p \in waits /\ c \notin dead /\ reply[c] # <<>>
  /\ reply' = [reply EXCEPT ![c] = Tail(@)]
  /\ waits' = waits \ {p}
  /\ mixed' = (mixed \/ r.to # p)
  /\ IF r.kind = "error" THEN Fails(p) /\ UNCHANGED item
     ELSE CASE pc[p] = "detach" -> Detached(p)
            [] pc[p] = "start"  -> Started(p)
            [] pc[p] = "banner" -> Banner(p, r)
            [] OTHER            -> Looped(p, r)
  /\ UNCHANGED <<dead, asked, job, got, errCh, part, calls, faults>>

-----------------------------------------------------------------------------
(* The channels between the goroutines.                                    *)

\* result <- line and stream <- chunk: the receiver is the caller's loop, or
\* the goroutine of the program that reads its verbose channel.
Hand(p) ==
  /\ pc[p] \in {"hand", "pass"}
  /\ p = "worker" => pc["caller"] = "gather"
  /\ got' = IF p = "reader" THEN got ELSE got \o item[p]
  /\ item' = [item EXCEPT ![p] = <<>>]
  /\ Goto(p, IF pc[p] = "hand" THEN "lines" ELSE "chunks")
  /\ UNCHANGED <<sock, dead, asked, reply, job, via, waits, err, call, errCh, part,
                 ts, last, mixed, calls, faults>>

\* done <- true, received by the select of GetUsers and GetLimboTransactions.
Signal ==
  /\ pc["worker"] = "signal" /\ pc["caller"] = "gather"
  /\ ReturnOf(err["worker"])
  /\ UNCHANGED <<sock, dead, asked, reply, job, via, waits, err, item, got, errCh,
                 part, ts, mixed, calls, faults>>

\* Mutant: WaitString's goroutine does not close part.
Publish_NoClose ==
  /\ pc["worker"] = "publish"
  /\ errCh' = err["worker"]
  /\ Goto("worker", "off")
  /\ UNCHANGED <<sock, dead, asked, reply, job, via, waits, err, item, call, got,
                 part, ts, last, mixed, calls, faults>>

\* errCh <- svc.WaitStrings(part): the channel has room for the one error.
Publish ==
  /\ pc["worker"] = "publish"
  /\ errCh' = err["worker"]
  /\ Goto("worker", "shut")
  /\ UNCHANGED <<sock, dead, asked, reply, job, via, waits, err, item, call, got,
                 part, ts, last, mixed, calls, faults>>

\* close(part)
Shut ==
  /\ pc["worker"] = "shut"
  /\ part' = "closed"
  /\ Goto("worker", "off")
  /\ UNCHANGED <<sock, dead, asked, reply, job, via, waits, err, item, call, got,
                 errCh, ts, last, mixed, calls, faults>>

\* The range over part has ended: WaitString returns with the error it receives.
Collect ==
  /\ pc["caller"] = "gather" /\ call = "text" /\ part = "closed" /\ errCh # "none"
  /\ ReturnOf(errCh)
  /\ UNCHANGED <<sock, dead, asked, reply, job, via, waits, err, item, got, errCh,
                 part, ts, mixed, calls, faults>>

\* The program starts its goroutine in TraceSession.WaitStrings or Wait.
Read(loop) ==
  /\ ts \in {"running", "paused"} /\ pc["reader"] = "off" /\ call = "none"
  /\ job["trace"].run # "no"
  /\ via' = [via EXCEPT !["reader"] = "trace"]
  /\ Goto("reader", loop)
  /\ UNCHANGED <<sock, dead, asked, reply, job, waits, err, item, call, got, errCh,
                 part, ts, last, mixed, calls, faults>>

-----------------------------------------------------------------------------
(* The server, as the managers see it.                                     *)

\* A service is started.  A control request acts on the trace session and
\* prints one line about it; another job prints up to MaxOut units.
NewJob(c, n) ==
  CASE c = "own" /\ call \in Control ->
         [run |-> "no", size |-> 1, made |-> 1, given |-> 0,
          match |-> job["trace"].run # "no"]
    [] c = "trace" -> [run |-> "yes", size |-> n + 1, made |-> 1, given |-> 0, match |-> TRUE]
    [] OTHER -> [run |-> "yes", size |-> n, made |-> 0, given |-> 0, match |-> FALSE]

Wanted == [pause |-> "paused", resume |-> "yes", stop |-> "no", close |-> "no"]
TraceRuns == IF job["trace"].run = "no" THEN "no" ELSE Wanted[call]

\* The answers the server may give to request op on connection c.
Answers(c, op) ==
  LET j == job[c]
      Says(kind, units) == [kind |-> kind, units |-> units, match |-> kind = "line" /\ j.match]
      Printed == IF op = "line" THEN {Says("line", <<j.given + 1>>)}
                 ELSE {Says("chunk", [i \in 1 .. k |-> j.given + i]) : k \in 1 .. (j.made - j.given)}
  IN
  CASE op \in {"start", "detach"} -> {Says("ok", <<>>)}
    [] op = "running" -> {Says(IF j.run = "no" THEN "no" ELSE "yes", <<>>)}
    [] OTHER -> IF j.given < j.made THEN Printed
                ELSE IF j.run = "no" THEN {Says("end", <<>>)}
                ELSE IF op = "eof" THEN {Says("timeout", <<>>)} ELSE {}

Answer(c) ==
  LET q == Head(asked[c]) IN
  /\ asked[c] # <<>> /\ c \notin dead
  /\ asked' = [asked EXCEPT ![c] = Tail(@)]
  /\ \/ \E a \in Answers(c, q.op) :
          /\ reply' = [reply EXCEPT ![c] = Append(@, [kind |-> a.kind, units |-> a.units,
                                                      match |-> a.match, to |-> q.by])]
          /\ IF q.op = "start"
             THEN /\ job[c].run = "no"
                  /\ \E n \in 0 .. MaxOut :
                       job' = [d \in Conns |-> IF d = c THEN NewJob(c, n)
                                               ELSE IF d = "trace" /\ c = "own" /\ call \in Control
                                                    THEN [job[d] EXCEPT !.run = TraceRuns]
                                                    ELSE job[d]]
             ELSE job' = [job EXCEPT ![c].given = @ + Len(a.units)]
          /\ UNCHANGED faults
     \/ /\ faults < MaxFaults \/ (q.op = "start" /\ job[c].run # "no")
        /\ faults' = IF faults < MaxFaults THEN faults + 1 ELSE faults
        /\ reply' = [reply EXCEPT ![c] = Append(@, [kind |-> "error", units |-> <<>>,
                                                    match |-> FALSE, to |-> q.by])]
        /\ UNCHANGED job
  /\ UNCHANGED <<sock, dead, pc, via, waits, err, item, call, got, errCh, part, ts,
                 last, mixed, calls>>

\* A job prints one more unit, or ends; a trace session ends only when stopped.
Work(c) ==
  /\ job[c].run = "yes"
  /\ IF job[c].made < job[c].size
     THEN job' = [job EXCEPT ![c].made = @ + 1]
     ELSE c # "trace" /\ job' = [job EXCEPT ![c].run = "no"]
  /\ UNCHANGED <<sock, dead, asked, reply, pc, via, waits, err, item, call, got, errCh,
                 part, ts, last, mixed, calls, faults>>

\* The link of an open connection fails.
Cut(c) ==
  /\ faults < MaxFaults /\ sock[c] = "open" /\ c \notin dead
  /\ faults' = faults + 1
  /\ dead' = dead \union {c}
  /\ UNCHANGED <<sock, asked, reply, job, pc, via, waits, err, item, call, got, errCh,
                 part, ts, last, mixed, calls>>

-----------------------------------------------------------------------------
Client ==
  \/ \E p \in Procs : Build(p) \/ Send(p) \/ Broken(p) \/ Take(p) \/ Hand(p)
  \/ Signal \/ Publish \/ Shut \/ Collect
Server == \E c \in Conns : Answer(c) \/ Work(c)

Next ==
  \/ \E k \in CallKinds : Begin(k)
  \/ \E loop \in {"lines", "poll"} : Read(loop)
  \/ Client \/ Server
  \/ \E c \in Conns : Cut(c)

\* Go runs every goroutine that can run, the program reads its channels, and
\* the server answers and its jobs make progress; nobody has to make a call.
Fairness ==
  /\ \A p \in Procs : /\ WF_vars(Build(p)) /\ WF_vars(Send(p)) /\ WF_vars(Broken(p))
                      /\ WF_vars(Take(p)) /\ WF_vars(Hand(p))
  /\ WF_vars(Signal) /\ WF_vars(Publish) /\ WF_vars(Shut) /\ WF_vars(Collect)
  /\ \A c \in Conns : WF_vars(Answer(c)) /\ WF_vars(Work(c))

Spec == Init /\ [][Next]_vars /\ Fairness

-----------------------------------------------------------------------------
(* Properties.                                                             *)

\* A call that returns its output without an error returns all of it, in the
\* order the server printed it, however it was cut into chunks and timeouts
\* (WaitBuffer, WaitStrings and the goroutines that collect their channels).
Whole ==
  last.call \in {"verbose", "users", "limbo", "text"} /\ last.err = "nil"
    => last.got = [i \in 1 .. last.size |-> i]

\* The connection a call built for itself is closed when the call is over,
\* whichever step failed (the deferred Close of serviceAttach, List and the
\* trace controls).
Released == pc["caller"] = "idle" /\ pc["worker"] = "off" => sock["own"] # "open"

\* TraceSession.state never runs ahead of the server: a session it calls
\* stopped is stopped there, and when Pause, Resume, Stop or Close has returned
\* without an error the server has done what was asked.
StateHonest ==
  /\ ts \in {"stopped", "nil"} => job["trace"].run = "no"
  /\ call = "none" /\ last.call \in Control /\ last.err = "nil"
       => job["trace"].run = Wanted[last.call]

\* Every answer is read by the goroutine whose request it answers, although
\* nothing but the order of the calls keeps two of them off one connection.
Paired == ~mixed

\* Every call returns and the trace reader returns once the session is stopped.
CallsEnd ==
  /\ (pc["caller"] # "idle") ~> (pc["caller"] = "idle")
  /\ (ts = "stopped") ~> (pc["reader"] = "off")
=============================================================================
