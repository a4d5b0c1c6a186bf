------------------------ MODULE ServiceManagers_proofs ------------------------
(***************************************************************************)
(* Theorems about the service connections, for any number of calls, units  *)
(* of output, errors and failing links: a call releases the connection it  *)
(* built, every answer is read by the one who asked, a call that returns   *)
(* without an error returns its job's whole output, and what a session and *)
(* its control calls say of the server is so.                              *)
(***************************************************************************)
EXTENDS ServiceManagers, SequenceTheorems, TLAPS

Asking == {"start", "poll", "lines", "chunks", "banner", "detach"}
Loop   == Asking \union {"hand", "pass"}
Phases == Loop \union {"idle", "off", "gather", "build", "signal", "publish", "shut"}

Types ==
  /\ sock \in [Conns -> {"none", "open", "closed"}]
  /\ pc \in [Procs -> Phases]
  /\ via \in [Procs -> Conns]
  /\ waits \in SUBSET Procs
  /\ call \in CallKinds \union {"none"}

\* What the caller's call is, by where it is and on which connection.
CallerOK ==
  /\ call = "none" <=> pc["caller"] = "idle"
  /\ pc["caller"] \in Loop \union {"idle", "gather", "build"}
  /\ pc["caller"] = "gather" => call \in {"limbo", "users", "text"}
  /\ pc["caller"] = "banner" => call \in Control \union {"trace"}
  /\ pc["caller"] \in Loop \union {"build"} =>
       \/ call \in {"users", "text"} /\ via["caller"] = "kept" /\ pc["caller"] = "start"
       \/ call = "trace" /\ via["caller"] = "trace"
       \/ call = "close" /\ via["caller"] = "trace" /\ pc["caller"] = "detach"
       \/ call \in {"attach", "verbose", "list"} \union Control /\ via["caller"] = "own"

\* The worker works while the caller gathers, on a connection of its own only for
\* GetLimboTransactions, which alone has to build and close it.
WorkerOK ==
  /\ pc["worker"] \notin {"idle", "gather", "banner", "poll"}
  /\ pc["worker"] # "off" =>
       /\ pc["caller"] = "gather"
       /\ \/ call = "limbo" /\ via["worker"] = "own"
          \/ /\ call \in {"users", "text"} /\ via["worker"] = "kept"
             /\ pc["worker"] \notin {"build", "start", "detach"}
  /\ call = "text" /\ part = "closed" => pc["caller"] = "gather" /\ pc["worker"] = "off"

\* The reader is on the session's connection, which the caller leaves to it.
ReaderOK ==
  /\ pc["reader"] \in {"off", "lines", "poll", "chunks", "hand", "pass"}
  /\ pc["reader"] # "off" =>
       /\ via["reader"] = "trace" /\ ts # "none" /\ call # "trace"
       /\ WaitForReader => call # "close"

\* An open connection of a call's own has somebody who will come to close it.
Owned ==
  sock["own"] = "open" =>
    \E p \in {"caller", "worker"} : pc[p] \in Loop /\ via[p] = "own"

Waiting == \A p \in waits : pc[p] \in Asking

CallInv == Types /\ CallerOK /\ WorkerOK /\ ReaderOK /\ Owned /\ Waiting

-----------------------------------------------------------------------------
(* Calls: who works on which connection, and who closes it.                *)

LEMMA InitCall ==
  ASSUME Init
  PROVE  CallInv
<1>1. Types
  BY DEF Init, Types, Conns, Procs, Phases, Loop, Asking
<1>2. CallerOK /\ WorkerOK /\ ReaderOK
  BY DEF Init, CallerOK, WorkerOK, ReaderOK, Procs, Loop, Asking
<1>3. Owned /\ Waiting
  BY DEF Init, Owned, Waiting, Conns
<1> QED
  BY <1>1, <1>2, <1>3 DEF CallInv

\* A step that changes nothing of the calls.
LEMMA FrameCall ==
  ASSUME CallInv, UNCHANGED <<sock, pc, via, waits, call, part, ts>>
  PROVE  CallInv'
BY DEF CallInv, Types, CallerOK, WorkerOK, ReaderOK, Owned, Waiting

LEMMA BeginCall ==
  ASSUME CallInv, NEW k \in CallKinds, Begin(k)
  PROVE  CallInv'
<1> USE DEF CallInv
<1>0. pc["caller"] = "idle" /\ pc["worker"] = "off" /\ k \in CallKinds /\ call' = k
  BY DEF Begin, WorkerOK
<1>1. Types'
  BY <1>0 DEF Begin, Types, Goto, Conns, Procs, Phases, Loop, Asking
<1>2. CallerOK'
  BY <1>0 DEF Begin, Types, CallerOK, Goto, Procs, Loop, Asking, CallKinds, Control, Allowed
<1>3. WorkerOK'
  BY <1>0 DEF Begin, Types, WorkerOK, Goto, Procs, Allowed
<1>4. ReaderOK'
  BY <1>0 DEF Begin, Types, ReaderOK, Goto, Procs, Allowed
<1>5. Owned'
  BY <1>0 DEF Begin, Types, Owned, Goto, Procs, Loop, Asking
<1>6. Waiting'
  BY <1>0 DEF Begin, Types, Waiting, Goto, Procs, Asking
<1> QED
  BY <1>1, <1>2, <1>3, <1>4, <1>5, <1>6

LEMMA BuildCall ==
  ASSUME CallInv, NEW p \in Procs, Build(p)
  PROVE  CallInv'
<1> USE DEF CallInv
<1>0. p \in {"caller", "worker"} /\ pc[p] = "build"
  BY DEF Build, ReaderOK, Procs
<1>1. Types'
  BY <1>0 DEF Build, Types, Goto, Return, Conns, Procs, Phases, Loop, Asking
<1>2. CallerOK'
  BY <1>0 DEF Build, Types, CallerOK, WorkerOK, Goto, Return, Procs, Loop, Asking
<1>3. WorkerOK'
  BY <1>0 DEF Build, Types, CallerOK, WorkerOK, Goto, Return, Procs
<1>4. ReaderOK'
  BY <1>0 DEF Build, Types, ReaderOK, Goto, Return, Procs
<1>5. Owned'
  BY <1>0 DEF Build, Types, WorkerOK, Owned, Goto, Return, Procs, Conns, Loop, Asking
<1>6. Waiting'
  BY <1>0 DEF Build, Types, Waiting, Goto, Return, Procs, Asking
<1> QED
  BY <1>1, <1>2, <1>3, <1>4, <1>5, <1>6

\* The ways an answer is taken, or its absence noticed.
LEMMA FailsCall ==
  ASSUME CallInv, NEW p \in Procs, pc[p] \in Asking, waits' = waits \ {p}, part' = part, Fails(p)
  PROVE  CallInv'
<1> USE DEF CallInv
<1>0. p \in {"caller", "worker", "reader"} /\ pc[p] \in Asking /\ waits' = waits \ {p}
  BY DEF Procs
<1>1. Types'
  BY <1>0 DEF Fails, Onward, Goto, Return, AfterLoop, Types, Conns, Procs, Phases, Loop, Asking
<1>2. CallerOK'
  BY <1>0 DEF Fails, Onward, Goto, Return, AfterLoop, Types, CallerOK, WorkerOK, Procs, Loop, Asking, Control
<1>3. WorkerOK'
  <2>1. CASE p = "worker"
    <3>1. CASE pc[p] = "detach"
      BY <1>0, <2>1, <3>1 DEF Fails, Onward, Goto, Types, WorkerOK, Procs
    <3>2. CASE pc[p] # "detach"
      <4>1. pc' = [pc EXCEPT ![p] = AfterLoop(p)] /\ UNCHANGED <<call, via>>
        BY <1>0, <2>1, <3>2 DEF Fails, Onward, Goto
      <4>2. AfterLoop(p) = IF call = "text" THEN "publish" ELSE IF call = "users" THEN "signal" ELSE "detach"
        BY <2>1 DEF AfterLoop
      <4> QED
        BY <1>0, <2>1, <3>2, <4>1, <4>2 DEF Types, WorkerOK, Procs, Asking
    <3> QED
      BY <3>1, <3>2
  <2>2. CASE p = "caller"
    <3>1. pc["worker"] = "off"
      BY <1>0, <2>2 DEF WorkerOK, Asking
    <3>2. pc'["worker"] = "off" /\ call' \in {call, "none"}
      BY <1>0, <2>2, <3>1 DEF Fails, Onward, Goto, Return, Types, Procs
    <3> QED
      BY <1>0, <2>2, <3>1, <3>2 DEF WorkerOK, Asking
  <2>3. CASE p = "reader"
    <3>1. pc[p] # "detach"
      BY <2>3 DEF ReaderOK
    <3>2. pc'["worker"] = pc["worker"] /\ pc'["caller"] = pc["caller"] /\ UNCHANGED <<call, via>>
      BY <1>0, <2>3, <3>1 DEF Fails, Onward, Goto, Types, Procs
    <3> QED
      BY <3>2 DEF WorkerOK
  <2> QED
    BY <1>0, <2>1, <2>2, <2>3
<1>4. ReaderOK'
  BY <1>0 DEF Fails, Onward, Goto, Return, AfterLoop, Types, CallerOK, ReaderOK, Procs, Control
<1>5. Owned'
  BY <1>0 DEF Fails, Onward, Goto, Return, AfterLoop, Types, CallerOK, WorkerOK, ReaderOK, Owned, Procs, Conns, Loop, Asking, Control
<1>6. Waiting'
  BY <1>0 DEF Fails, Onward, Goto, Return, AfterLoop, Types, CallerOK, WorkerOK, ReaderOK, Waiting, Procs, Asking
<1> QED
  BY <1>1, <1>2, <1>3, <1>4, <1>5, <1>6

LEMMA DetachedCall ==
  ASSUME CallInv, NEW p \in Procs, pc[p] = "detach", waits' = waits \ {p}, part' = part, Detached(p)
  PROVE  CallInv'
<1> USE DEF CallInv
<1>0. p \in {"caller", "worker", "reader"} /\ pc[p] = "detach" /\ waits' = waits \ {p}
  BY DEF Procs
<1>1. Types'
  BY <1>0 DEF Detached, Onward, Goto, Return, Types, Conns, Procs, Phases, Loop, Asking
<1>2. CallerOK'
  BY <1>0 DEF Detached, Onward, Goto, Return, Types, CallerOK, WorkerOK, Procs, Loop, Asking, Control
<1>3. WorkerOK'
  BY <1>0 DEF Detached, Onward, Goto, Return, Types, CallerOK, WorkerOK, ReaderOK, Procs, Control
<1>4. ReaderOK'
  BY <1>0 DEF Detached, Onward, Goto, Return, Types, CallerOK, ReaderOK, Procs, Control
<1>5. Owned'
  BY <1>0 DEF Detached, Onward, Goto, Return, Types, CallerOK, WorkerOK, ReaderOK, Owned, Procs, Conns, Loop, Asking, Control
<1>6. Waiting'
  BY <1>0 DEF Detached, Onward, Goto, Return, Types, CallerOK, WorkerOK, ReaderOK, Waiting, Procs, Asking
<1> QED
  BY <1>1, <1>2, <1>3, <1>4, <1>5, <1>6

LEMMA StartedCall ==
  ASSUME CallInv, NEW p \in Procs, pc[p] = "start", waits' = waits \ {p}, part' = part, Started(p)
  PROVE  CallInv'
<1> USE DEF CallInv
<1>0. p \in {"caller", "worker", "reader"} /\ pc[p] = "start" /\ waits' = waits \ {p}
  BY DEF Procs
<1>1. Types'
  BY <1>0 DEF Started, Goto, Types, Conns, Procs, Phases, Loop, Asking
<1>2. CallerOK'
  BY <1>0 DEF Started, Goto, Types, CallerOK, WorkerOK, Procs, Loop, Asking, Control
<1>3. WorkerOK'
  BY <1>0 DEF Started, Goto, Types, CallerOK, WorkerOK, ReaderOK, Procs, Control
<1>4. ReaderOK'
  BY <1>0 DEF Started, Goto, Types, CallerOK, ReaderOK, Procs, Control
<1>5. Owned'
  BY <1>0 DEF Started, Goto, Types, CallerOK, WorkerOK, ReaderOK, Owned, Procs, Conns, Loop, Asking, Control
<1>6. Waiting'
  BY <1>0 DEF Started, Goto, Types, CallerOK, WorkerOK, ReaderOK, Waiting, Procs, Asking
<1> QED
  BY <1>1, <1>2, <1>3, <1>4, <1>5, <1>6

LEMMA BannerCall ==
  ASSUME CallInv, NEW p \in Procs, pc[p] = "banner", waits' = waits \ {p}, part' = part,
         NEW r, Banner(p, r)
  PROVE  CallInv'
<1> USE DEF CallInv
<1>0. p \in {"caller"} /\ pc[p] = "banner" /\ waits' = waits \ {p}
  BY DEF Procs, WorkerOK, ReaderOK
<1>1. Types'
  BY <1>0 DEF Banner, Becomes, Goto, Return, Types, Conns, Procs, Phases, Loop, Asking
<1>2. CallerOK'
  BY <1>0 DEF Banner, Becomes, Goto, Return, Types, CallerOK, WorkerOK, Procs, Loop, Asking, Control
<1>3. WorkerOK'
  BY <1>0 DEF Banner, Becomes, Goto, Return, Types, CallerOK, WorkerOK, ReaderOK, Procs, Control
<1>4. ReaderOK'
  BY <1>0 DEF Banner, Becomes, Goto, Return, Types, CallerOK, ReaderOK, Procs, Control
<1>5. Owned'
  BY <1>0 DEF Banner, Becomes, Goto, Return, Types, CallerOK, WorkerOK, ReaderOK, Owned, Procs, Conns, Loop, Asking, Control
<1>6. Waiting'
  BY <1>0 DEF Banner, Becomes, Goto, Return, Types, CallerOK, WorkerOK, ReaderOK, Waiting, Procs, Asking
<1> QED
  BY <1>1, <1>2, <1>3, <1>4, <1>5, <1>6

LEMMA LoopedCall ==
  ASSUME CallInv, NEW p \in Procs, pc[p] \in {"poll", "lines", "chunks"}, waits' = waits \ {p}, part' = part,
         NEW r, Looped(p, r)
  PROVE  CallInv'
<1> USE DEF CallInv
<1>0. p \in {"caller", "worker", "reader"} /\ pc[p] \in {"poll", "lines", "chunks"} /\ waits' = waits \ {p}
  BY DEF Procs
<1>1. Types'
  BY <1>0 DEF Looped, AfterLoop, Goto, Types, Conns, Procs, Phases, Loop, Asking
<1>2. CallerOK'
  BY <1>0 DEF Looped, AfterLoop, Goto, Types, CallerOK, WorkerOK, Procs, Loop, Asking, Control
<1>3. WorkerOK'
  BY <1>0 DEF Looped, AfterLoop, Goto, Types, CallerOK, WorkerOK, ReaderOK, Procs, Control
<1>4. ReaderOK'
  BY <1>0 DEF Looped, AfterLoop, Goto, Types, CallerOK, ReaderOK, Procs, Control
<1>5. Owned'
  BY <1>0 DEF Looped, AfterLoop, Goto, Types, CallerOK, WorkerOK, ReaderOK, Owned, Procs, Conns, Loop, Asking, Control
<1>6. Waiting'
  BY <1>0 DEF Looped, AfterLoop, Goto, Types, CallerOK, WorkerOK, ReaderOK, Waiting, Procs, Asking
<1> QED
  BY <1>1, <1>2, <1>3, <1>4, <1>5, <1>6

\* A request that cannot be sent, or whose answer never comes; an answer.
LEMMA BrokenCall ==
  ASSUME CallInv, NEW p \in Procs, Broken(p)
  PROVE  CallInv'
<1>1. pc[p] \in Asking /\ waits' = waits \ {p} /\ part' = part /\ Fails(p)
  BY DEF Broken, OpOf, Asking
<1> QED
  BY <1>1, FailsCall

LEMMA TakeCall ==
  ASSUME CallInv, NEW p \in Procs, Take(p)
  PROVE  CallInv'
<1> DEFINE r == Head(reply[via[p]])
<1>1. pc[p] \in Asking /\ waits' = waits \ {p} /\ part' = part
  BY DEF Take, CallInv, Waiting
<1>2. CASE r.kind = "error"
  <2>1. Fails(p)
    BY <1>2 DEF Take
  <2> QED
    BY <1>1, <2>1, FailsCall
<1>3. CASE r.kind # "error" /\ pc[p] = "detach"
  BY <1>1, <1>3, DetachedCall DEF Take
<1>4. CASE r.kind # "error" /\ pc[p] = "start"
  BY <1>1, <1>4, StartedCall DEF Take
<1>5. CASE r.kind # "error" /\ pc[p] = "banner"
  BY <1>1, <1>5, BannerCall DEF Take
<1>6. CASE r.kind # "error" /\ pc[p] \in {"poll", "lines", "chunks"}
  BY <1>1, <1>6, LoopedCall DEF Take
<1> QED
  BY <1>1, <1>2, <1>3, <1>4, <1>5, <1>6 DEF Asking

LEMMA SendCall ==
  ASSUME CallInv, NEW p \in Procs, Send(p)
  PROVE  CallInv'
<1>1. pc[p] \in Asking
  BY DEF Send, OpOf, Asking
<1> QED
  BY <1>1 DEF Send, CallInv, Types, CallerOK, WorkerOK, ReaderOK, Owned, Waiting

\* Output and ends handed over by a channel.
LEMMA HandCall ==
  ASSUME CallInv, NEW p \in Procs, Hand(p)
  PROVE  CallInv'
<1> USE DEF CallInv
<1>0. p \in {"caller", "worker", "reader"}
  BY DEF Procs
<1>1. Types'
  BY <1>0 DEF Hand, Goto, Types, Conns, Procs, Phases, Loop, Asking
<1>2. CallerOK'
  BY <1>0 DEF Hand, Goto, Types, CallerOK, WorkerOK, ReaderOK, Procs, Loop, Asking
<1>3. WorkerOK'
  BY <1>0 DEF Hand, Goto, Types, CallerOK, WorkerOK, ReaderOK, Procs, Loop, Asking
<1>4. ReaderOK'
  BY <1>0 DEF Hand, Goto, Types, CallerOK, ReaderOK, Procs, Loop, Asking
<1>5. Owned'
  BY <1>0 DEF Hand, Goto, Types, CallerOK, WorkerOK, ReaderOK, Owned, Procs, Conns, Loop, Asking
<1>6. Waiting'
  BY <1>0 DEF Hand, Goto, Types, CallerOK, WorkerOK, ReaderOK, Waiting, Procs, Asking
<1> QED
  BY <1>1, <1>2, <1>3, <1>4, <1>5, <1>6

LEMMA SignalCall ==
  ASSUME CallInv, Signal
  PROVE  CallInv'
<1> USE DEF CallInv
<1>1. Types'
  BY DEF Signal, ReturnOf, Types, Conns, Procs, Phases, Loop, Asking
<1>2. CallerOK'
  BY DEF Signal, ReturnOf, Types, CallerOK, WorkerOK, ReaderOK, Procs, Loop, Asking
<1>3. WorkerOK'
  BY DEF Signal, ReturnOf, Types, CallerOK, WorkerOK, ReaderOK, Procs, Loop, Asking
<1>4. ReaderOK'
  BY DEF Signal, ReturnOf, Types, CallerOK, ReaderOK, Procs, Loop, Asking
<1>5. Owned'
  BY DEF Signal, ReturnOf, Types, CallerOK, WorkerOK, ReaderOK, Owned, Procs, Conns, Loop, Asking
<1>6. Waiting'
  BY DEF Signal, ReturnOf, Types, CallerOK, WorkerOK, ReaderOK, Waiting, Procs, Asking
<1> QED
  BY <1>1, <1>2, <1>3, <1>4, <1>5, <1>6

LEMMA PublishCall ==
  ASSUME CallInv, Publish
  PROVE  CallInv'
<1> USE DEF CallInv
<1>1. Types'
  BY DEF Publish, Goto, Types, Conns, Procs, Phases, Loop, Asking
<1>2. CallerOK'
  BY DEF Publish, Goto, Types, CallerOK, WorkerOK, ReaderOK, Procs, Loop, Asking
<1>3. WorkerOK'
  BY DEF Publish, Goto, Types, CallerOK, WorkerOK, ReaderOK, Procs, Loop, Asking
<1>4. ReaderOK'
  BY DEF Publish, Goto, Types, CallerOK, ReaderOK, Procs, Loop, Asking
<1>5. Owned'
  BY DEF Publish, Goto, Types, CallerOK, WorkerOK, ReaderOK, Owned, Procs, Conns, Loop, Asking
<1>6. Waiting'
  BY DEF Publish, Goto, Types, CallerOK, WorkerOK, ReaderOK, Waiting, Procs, Asking
<1> QED
  BY <1>1, <1>2, <1>3, <1>4, <1>5, <1>6

LEMMA ShutCall ==
  ASSUME CallInv, Shut
  PROVE  CallInv'
<1> USE DEF CallInv
<1>1. Types'
  BY DEF Shut, Goto, Types, Conns, Procs, Phases, Loop, Asking
<1>2. CallerOK'
  BY DEF Shut, Goto, Types, CallerOK, WorkerOK, ReaderOK, Procs, Loop, Asking
<1>3. WorkerOK'
  BY DEF Shut, Goto, Types, CallerOK, WorkerOK, ReaderOK, Procs, Loop, Asking
<1>4. ReaderOK'
  BY DEF Shut, Goto, Types, CallerOK, ReaderOK, Procs, Loop, Asking
<1>5. Owned'
  BY DEF Shut, Goto, Types, CallerOK, WorkerOK, ReaderOK, Owned, Procs, Conns, Loop, Asking
<1>6. Waiting'
  BY DEF Shut, Goto, Types, CallerOK, WorkerOK, ReaderOK, Waiting, Procs, Asking
<1> QED
  BY <1>1, <1>2, <1>3, <1>4, <1>5, <1>6

LEMMA CollectCall ==
  ASSUME CallInv, Collect
  PROVE  CallInv'
<1> USE DEF CallInv
<1>1. Types'
  BY DEF Collect, ReturnOf, Types, Conns, Procs, Phases, Loop, Asking
<1>2. CallerOK'
  BY DEF Collect, ReturnOf, Types, CallerOK, WorkerOK, ReaderOK, Procs, Loop, Asking
<1>3. WorkerOK'
  BY DEF Collect, ReturnOf, Types, CallerOK, WorkerOK, ReaderOK, Procs, Loop, Asking
<1>4. ReaderOK'
  BY DEF Collect, ReturnOf, Types, CallerOK, ReaderOK, Procs, Loop, Asking
<1>5. Owned'
  BY DEF Collect, ReturnOf, Types, CallerOK, WorkerOK, ReaderOK, Owned, Procs, Conns, Loop, Asking
<1>6. Waiting'
  BY DEF Collect, ReturnOf, Types, CallerOK, WorkerOK, ReaderOK, Waiting, Procs, Asking
<1> QED
  BY <1>1, <1>2, <1>3, <1>4, <1>5, <1>6

LEMMA ReadCall ==
  ASSUME CallInv, NEW loop \in {"lines", "poll"}, Read(loop)
  PROVE  CallInv'
<1> USE DEF CallInv
<1>1. Types'
  BY DEF Read, Goto, Types, Conns, Procs, Phases, Loop, Asking
<1>2. CallerOK'
  BY DEF Read, Goto, Types, CallerOK, WorkerOK, ReaderOK, Procs, Loop, Asking
<1>3. WorkerOK'
  BY DEF Read, Goto, Types, CallerOK, WorkerOK, ReaderOK, Procs, Loop, Asking
<1>4. ReaderOK'
  BY DEF Read, Goto, Types, CallerOK, ReaderOK, Procs, Loop, Asking
<1>5. Owned'
  BY DEF Read, Goto, Types, CallerOK, WorkerOK, ReaderOK, Owned, Procs, Conns, Loop, Asking
<1>6. Waiting'
  BY DEF Read, Goto, Types, CallerOK, WorkerOK, ReaderOK, Waiting, Procs, Asking
<1> QED
  BY <1>1, <1>2, <1>3, <1>4, <1>5, <1>6

LEMMA NextCall ==
  ASSUME CallInv, [Next]_vars
  PROVE  CallInv'
<1>1. ASSUME NEW k \in CallKinds, Begin(k) PROVE CallInv'
  BY <1>1, BeginCall
<1>2. ASSUME NEW loop \in {"lines", "poll"}, Read(loop) PROVE CallInv'
  BY <1>2, ReadCall
<1>3. ASSUME NEW p \in Procs, Build(p) \/ Send(p) \/ Broken(p) \/ Take(p) \/ Hand(p)
      PROVE  CallInv'
  BY <1>3, BuildCall, SendCall, BrokenCall, TakeCall, HandCall
<1>4. CASE Signal \/ Publish \/ Shut \/ Collect
  BY <1>4, SignalCall, PublishCall, ShutCall, CollectCall
<1>5. ASSUME NEW c \in Conns, Answer(c) \/ Work(c) \/ Cut(c) PROVE CallInv'
  BY <1>5, FrameCall DEF Answer, Work, Cut
<1>6. CASE UNCHANGED vars
  BY <1>6, FrameCall DEF vars
<1> QED
  BY <1>1, <1>2, <1>3, <1>4, <1>5, <1>6 DEF Next, Client, Server

\* Which call works where, in every state.
THEOREM CallInvariance == Spec => []CallInv
<1>1. Init => CallInv
  BY InitCall
<1>2. CallInv /\ [Next]_vars => CallInv'
  BY NextCall
<1> QED
  BY <1>1, <1>2, PTL DEF Spec

\* A manager's call that is over has closed the connection it built, whichever of
\* its steps failed: serviceAttach, List, the trace controls, GetLimboTransactions.
THEOREM ReleasedAlways == Spec => []Released
<1>1. CallInv => Released
  BY DEF CallInv, Owned, Released, Loop, Asking
<1> QED
  BY <1>1, CallInvariance, PTL

-----------------------------------------------------------------------------
(* Answers: a request and its answer are between one process and the server. *)

\* On a connection whose link holds nothing is under way, or one request with
\* the one who waits for it.
Quiet(c) == asked[c] = <<>> /\ reply[c] = <<>> /\ \A p \in waits : via[p] # c
Busy(c, p) ==
  /\ p \in waits /\ via[p] = c
  /\ \/ asked[c] = <<[op |-> OpOf[pc[p]], by |-> p]>> /\ reply[c] = <<>>
     \/ asked[c] = <<>> /\ \E r : reply[c] = <<r>> /\ r.to = p
Lines ==
  /\ asked = [c \in Conns |-> asked[c]]
  /\ reply = [c \in Conns |-> reply[c]]
  /\ \A c \in Conns \ dead : Quiet(c) \/ \E p \in Procs : Busy(c, p)
  /\ \A p \in waits : sock[via[p]] = "open"
  /\ ~mixed

PInv == CallInv /\ Lines

LEMMA InitLines ==
  ASSUME Init
  PROVE  Lines
BY DEF Init, Lines, Quiet, Conns

\* Two processes that ask, or build, are on different connections.
LEMMA Alone ==
  ASSUME CallInv, WaitForReader, NEW p \in Procs, NEW q \in Procs, p # q,
         pc[p] \in Asking \union {"build"}, pc[q] \in Asking \union {"build"}
  PROVE  via[p] # via[q]
BY DEF CallInv, Types, CallerOK, WorkerOK, ReaderOK, Procs, Loop, Asking

\* Nothing is asked or answered; a process may give up waiting where the link is
\* dead, and whoever still waits is where it was.
LEMMA FrameLines ==
  ASSUME Lines, UNCHANGED <<dead, asked, reply, mixed>>,
         waits' \subseteq waits, \A p \in waits \ waits' : via[p] \in dead,
         \A p \in waits' : pc'[p] = pc[p] /\ via'[p] = via[p] /\ sock'[via[p]] = "open"
  PROVE  Lines'
<1>1. ASSUME NEW c \in Conns \ dead PROVE Quiet(c)' \/ \E p \in Procs : Busy(c, p)'
  <2>1. CASE Quiet(c)
    BY <2>1 DEF Quiet
  <2>2. ASSUME NEW p \in Procs, Busy(c, p) PROVE Busy(c, p)'
    <3>1. p \in waits /\ via[p] = c /\ c \notin dead
      BY <2>2 DEF Busy
    <3>2. p \in waits' /\ pc'[p] = pc[p] /\ via'[p] = via[p]
      BY <3>1
    <3> QED
      BY <2>2, <3>1, <3>2 DEF Busy
  <2> QED
    BY <2>1, <2>2 DEF Lines
<1> QED
  BY <1>1 DEF Lines

LEMMA SendLines ==
  ASSUME PInv, WaitForReader, NEW p \in Procs, Send(p)
  PROVE  Lines'
<1> DEFINE c == via[p]
<1>1. pc[p] \in Asking /\ c \in Conns \ dead /\ p \notin waits /\ sock[c] = "open"
  BY DEF Send, PInv, CallInv, Types, OpOf, Asking
<1>2. \A q \in waits : via[q] # c
  BY <1>1, Alone DEF PInv, CallInv, Types, Waiting
<1>3. asked[c] = <<>> /\ reply[c] = <<>>
  BY <1>1, <1>2 DEF PInv, Lines, Quiet, Busy
<1>4. asked'[c] = <<[op |-> OpOf[pc[p]], by |-> p]>> /\ reply'[c] = <<>>
      /\ \A d \in Conns \ {c} : asked'[d] = asked[d] /\ reply'[d] = reply[d]
  <2>1. asked'[c] = Append(asked[c], [op |-> OpOf[pc[p]], by |-> p])
    BY <1>1 DEF Send, PInv, Lines
  <2>2. asked'[c] = <<[op |-> OpOf[pc[p]], by |-> p]>>
    BY <2>1, <1>3
  <2> QED
    BY <1>1, <1>3, <2>2 DEF Send, PInv, Lines
<1>5. Busy(c, p)'
  BY <1>1, <1>4 DEF Busy, Send
<1>6. ASSUME NEW d \in Conns \ dead, d # c PROVE Quiet(d)' \/ \E q \in Procs : Busy(d, q)'
  <2>1. CASE Quiet(d)
    BY <1>1, <1>4, <1>6, <2>1 DEF Quiet, Send
  <2>2. ASSUME NEW q \in Procs, Busy(d, q) PROVE Busy(d, q)'
    BY <1>1, <1>4, <1>6, <2>2 DEF Busy, Send
  <2> QED
    BY <2>1, <2>2 DEF PInv, Lines
<1>7. asked' = [d \in Conns |-> asked'[d]] /\ reply' = [d \in Conns |-> reply'[d]]
  BY DEF Send, PInv, Lines
<1>8. (\A q \in waits' : sock'[via'[q]] = "open") /\ ~mixed'
  BY <1>1 DEF Send, PInv, Lines
<1> QED
  BY <1>1, <1>5, <1>6, <1>7, <1>8 DEF Lines, Send

\* Whoever else waits is where it was, after a process has taken its answer or
\* noticed that there is none.
ElseLeft(p) ==
  \A q \in waits \ {p} : pc'[q] = pc[q] /\ via'[q] = via[q] /\ sock'[via[q]] = sock[via[q]]

LEMMA FailsLeaves ==
  ASSUME CallInv, WaitForReader, NEW p \in Procs, pc[p] \in Asking, Fails(p)
  PROVE  ElseLeft(p)
<1> SUFFICES ASSUME NEW q \in waits \ {p}
             PROVE  pc'[q] = pc[q] /\ via'[q] = via[q] /\ sock'[via[q]] = sock[via[q]]
  BY DEF ElseLeft
<1>1. q \in Procs /\ pc[q] \in Asking /\ via[q] # via[p] /\ via[q] \in Conns
  BY Alone DEF CallInv, Types, Waiting
<1>2. p = "reader" => pc[p] # "detach"
  BY DEF CallInv, ReaderOK
<1>3. p \in {"caller", "worker", "reader"}
  BY DEF Procs
<1> QED
  BY <1>1, <1>2, <1>3 DEF Fails, Onward, Goto, Return, CallInv, Types

LEMMA DetachedLeaves ==
  ASSUME CallInv, WaitForReader, NEW p \in Procs, pc[p] = "detach", Detached(p)
  PROVE  ElseLeft(p)
<1> SUFFICES ASSUME NEW q \in waits \ {p}
             PROVE  pc'[q] = pc[q] /\ via'[q] = via[q] /\ sock'[via[q]] = sock[via[q]]
  BY DEF ElseLeft
<1>1. q \in Procs /\ pc[q] \in Asking /\ via[q] # via[p] /\ via[q] \in Conns
  BY Alone DEF CallInv, Types, Waiting, Asking
<1>2. p \in {"caller", "worker"}
  BY DEF Procs, CallInv, ReaderOK
<1> QED
  BY <1>1, <1>2 DEF Detached, Onward, Goto, Return, CallInv, Types

LEMMA StartedLeaves ==
  ASSUME CallInv, NEW p \in Procs, pc[p] = "start", Started(p)
  PROVE  ElseLeft(p)
<1>1. call \in {"users", "text"} => p = "caller" /\ pc["worker"] = "off"
  BY DEF CallInv, CallerOK, WorkerOK, ReaderOK, Procs
<1> QED
  BY <1>1 DEF ElseLeft, Started, Goto, CallInv, Types, Waiting, Asking

LEMMA BannerLeaves ==
  ASSUME CallInv, NEW p \in Procs, pc[p] = "banner", NEW r, Banner(p, r)
  PROVE  ElseLeft(p)
<1>1. p = "caller"
  BY DEF CallInv, WorkerOK, ReaderOK, Procs
<1> QED
  BY <1>1 DEF ElseLeft, Banner, Goto, Return, CallInv, Types

LEMMA LoopedLeaves ==
  ASSUME CallInv, NEW p \in Procs, NEW r, Looped(p, r)
  PROVE  ElseLeft(p)
BY DEF ElseLeft, Looped, Goto, CallInv, Types

LEMMA TakeLeaves ==
  ASSUME CallInv, WaitForReader, NEW p \in Procs, Take(p)
  PROVE  ElseLeft(p)
<1> DEFINE r == Head(reply[via[p]])
<1>1. pc[p] \in Asking
  BY DEF Take, CallInv, Waiting
<1>2. CASE r.kind = "error"
  <2>1. Fails(p)
    BY <1>2 DEF Take
  <2> QED
    BY <1>1, <2>1, FailsLeaves
<1>3. CASE r.kind # "error"
  BY <1>1, <1>3, DetachedLeaves, StartedLeaves, BannerLeaves, LoopedLeaves DEF Take
<1> QED
  BY <1>2, <1>3

\* The answer a process reads is the one to its request.
LEMMA TakeLines ==
  ASSUME PInv, WaitForReader, NEW p \in Procs, Take(p)
  PROVE  Lines'
<1>0. PICK c \in Conns : c = via[p]
  BY DEF PInv, CallInv, Types
<1>1. p \in waits /\ pc[p] \in Asking /\ c \in Conns \ dead /\ reply[c] # <<>>
      /\ waits' = waits \ {p}
  BY <1>0 DEF Take, PInv, CallInv, Types, Waiting
<1>2. \A q \in waits \ {p} : via[q] # c
  BY <1>0, <1>1, Alone DEF PInv, CallInv, Types, Waiting
<1>3. PICK r : asked[c] = <<>> /\ reply[c] = <<r>> /\ r.to = p
  <2>1. PICK q \in Procs : Busy(c, q)
    BY <1>0, <1>1 DEF PInv, Lines, Quiet
  <2>2. q = p
    BY <1>2, <2>1 DEF Busy
  <2> QED
    BY <1>1, <2>1, <2>2 DEF Busy
<1>4. Head(reply[c]) = r /\ Tail(reply[c]) = <<>>
  BY <1>3
<1>5. reply'[c] = <<>> /\ asked' = asked /\ dead' = dead /\ ~mixed'
      /\ reply' = [d \in Conns |-> reply'[d]]
      /\ \A d \in Conns \ {c} : reply'[d] = reply[d]
  BY <1>0, <1>1, <1>3, <1>4 DEF Take, PInv, Lines
<1>6. ASSUME NEW q \in waits \ {p}
      PROVE  pc'[q] = pc[q] /\ via'[q] = via[q] /\ sock'[via[q]] = sock[via[q]]
  BY <1>6, TakeLeaves DEF PInv, ElseLeft
<1>7. Quiet(c)'
  BY <1>1, <1>2, <1>3, <1>5, <1>6 DEF Quiet
<1>8. ASSUME NEW d \in Conns \ dead, d # c PROVE Quiet(d)' \/ \E q \in Procs : Busy(d, q)'
  <2>1. CASE Quiet(d)
    BY <1>1, <1>5, <1>6, <1>8, <2>1 DEF Quiet
  <2>2. ASSUME NEW q \in Procs, Busy(d, q) PROVE Busy(d, q)'
    BY <1>0, <1>1, <1>5, <1>6, <1>8, <2>2 DEF Busy
  <2> QED
    BY <2>1, <2>2 DEF PInv, Lines
<1>9. \A q \in waits' : sock'[via'[q]] = "open"
  BY <1>1, <1>6 DEF PInv, Lines
<1> QED
  BY <1>5, <1>7, <1>8, <1>9 DEF PInv, Lines

\* Where the link is dead or the connection closed, nobody waits for an answer that
\* will come.
LEMMA BrokenLines ==
  ASSUME PInv, WaitForReader, NEW p \in Procs, Broken(p)
  PROVE  Lines'
<1>1. pc[p] \in Asking /\ waits' = waits \ {p} /\ Fails(p)
      /\ (via[p] \in dead \/ sock[via[p]] # "open") /\ UNCHANGED <<dead, asked, reply, mixed>>
  BY DEF Broken, OpOf, Asking
<1>2. \A q \in waits \ waits' : via[q] \in dead
  BY <1>1 DEF PInv, Lines
<1>3. ElseLeft(p)
  BY <1>1, FailsLeaves DEF PInv
<1>4. \A q \in waits' : pc'[q] = pc[q] /\ via'[q] = via[q] /\ sock'[via[q]] = "open"
  BY <1>1, <1>3 DEF ElseLeft, PInv, Lines
<1> QED
  BY <1>1, <1>2, <1>4, FrameLines DEF PInv

\* A process that builds a connection finds nobody on it.
LEMMA BuildLines ==
  ASSUME PInv, WaitForReader, NEW p \in Procs, Build(p)
  PROVE  Lines'
<1>0. PICK c \in Conns : c = via[p]
  BY DEF PInv, CallInv, Types
<1>1. pc[p] = "build" /\ waits' = waits /\ UNCHANGED mixed /\ via' = via
  BY DEF Build
<1>2. \A q \in waits : q # p /\ via[q] # c
  BY <1>0, <1>1, Alone DEF PInv, CallInv, Types, Waiting, Asking
<1>3. \A q \in waits : pc'[q] = pc[q]
  <2>1. p \in {"caller", "worker"}
    BY <1>1 DEF Procs, PInv, CallInv, ReaderOK
  <2> QED
    BY <1>1, <1>2, <2>1 DEF Build, Goto, Return, PInv, CallInv, Types
<1>4. CASE UNCHANGED <<sock, dead, asked, reply>>
  <2>1. \A q \in waits' : pc'[q] = pc[q] /\ via'[q] = via[q] /\ sock'[via[q]] = "open"
    BY <1>1, <1>3, <1>4 DEF PInv, Lines
  <2> QED
    BY <1>1, <1>4, <2>1, FrameLines DEF PInv
<1>5. CASE /\ sock' = [sock EXCEPT ![c] = "open"] /\ dead' = dead \ {c}
           /\ asked' = [asked EXCEPT ![c] = <<>>] /\ reply' = [reply EXCEPT ![c] = <<>>]
  <2>1. asked'[c] = <<>> /\ reply'[c] = <<>>
        /\ \A d \in Conns \ {c} : asked'[d] = asked[d] /\ reply'[d] = reply[d]
    BY <1>5 DEF PInv, Lines
  <2>2. Quiet(c)'
    BY <1>1, <1>2, <2>1 DEF Quiet
  <2>3. ASSUME NEW d \in Conns \ dead, d # c PROVE Quiet(d)' \/ \E q \in Procs : Busy(d, q)'
    <3>1. CASE Quiet(d)
      BY <1>1, <2>1, <2>3, <3>1 DEF Quiet
    <3>2. ASSUME NEW q \in Procs, Busy(d, q) PROVE Busy(d, q)'
      BY <1>1, <1>3, <2>1, <2>3, <3>2 DEF Busy
    <3> QED
      BY <3>1, <3>2 DEF PInv, Lines
  <2>4. asked' = [d \in Conns |-> asked'[d]] /\ reply' = [d \in Conns |-> reply'[d]]
    BY <1>5 DEF PInv, Lines
  <2>5. \A q \in waits' : sock'[via'[q]] = "open"
    BY <1>1, <1>2, <1>5 DEF PInv, Lines, CallInv, Types
  <2> QED
    BY <1>1, <1>5, <2>2, <2>3, <2>4, <2>5 DEF PInv, Lines
<1> QED
  BY <1>0, <1>4, <1>5 DEF Build

\* The server answers the one request of a connection, to the process that sent it.
LEMMA AnswerLines ==
  ASSUME PInv, NEW c \in Conns, Answer(c)
  PROVE  Lines'
<1>1. asked[c] # <<>> /\ c \notin dead /\ UNCHANGED <<sock, dead, pc, via, waits, mixed>>
      /\ asked' = [asked EXCEPT ![c] = Tail(@)]
  BY DEF Answer
<1>2. PICK p \in Procs : Busy(c, p)
  BY <1>1 DEF PInv, Lines, Quiet
<1>3. asked[c] = <<[op |-> OpOf[pc[p]], by |-> p]>> /\ reply[c] = <<>>
  BY <1>1, <1>2 DEF Busy
<1>4. Head(asked[c]).by = p /\ Tail(asked[c]) = <<>>
  BY <1>3
<1>5. PICK r : reply' = [reply EXCEPT ![c] = Append(@, r)] /\ r.to = p
  <2> DEFINE Says(kind, units, match) ==
               [kind |-> kind, units |-> units, match |-> match, to |-> Head(asked[c]).by]
  <2>1. \E kind, units, match : reply' = [reply EXCEPT ![c] = Append(@, Says(kind, units, match))]
    <3>1. CASE \E a \in Answers(c, Head(asked[c]).op) :
                 reply' = [reply EXCEPT ![c] = Append(@, Says(a.kind, a.units, a.match))]
      <4> HIDE DEF Says
      <4> QED
        BY <3>1
    <3>2. CASE reply' = [reply EXCEPT ![c] = Append(@, Says("error", <<>>, FALSE))]
      BY <3>2
    <3> QED
      BY <3>1, <3>2 DEF Answer
  <2>2. \A kind, units, match : Says(kind, units, match).to = p
    BY <1>4
  <2> QED
    BY <2>1, <2>2
<1>6. asked'[c] = <<>> /\ reply'[c] = <<r>>
      /\ \A d \in Conns \ {c} : asked'[d] = asked[d] /\ reply'[d] = reply[d]
  BY <1>1, <1>3, <1>4, <1>5 DEF PInv, Lines
<1>7. Busy(c, p)'
  BY <1>1, <1>2, <1>5, <1>6 DEF Busy
<1>8. ASSUME NEW d \in Conns \ dead, d # c PROVE Quiet(d)' \/ \E q \in Procs : Busy(d, q)'
  <2>1. CASE Quiet(d)
    BY <1>1, <1>6, <1>8, <2>1 DEF Quiet
  <2>2. ASSUME NEW q \in Procs, Busy(d, q) PROVE Busy(d, q)'
    BY <1>1, <1>6, <1>8, <2>2 DEF Busy
  <2> QED
    BY <2>1, <2>2 DEF PInv, Lines
<1>9. asked' = [d \in Conns |-> asked'[d]] /\ reply' = [d \in Conns |-> reply'[d]]
  BY <1>1, <1>5 DEF PInv, Lines
<1> QED
  BY <1>1, <1>7, <1>8, <1>9 DEF PInv, Lines

LEMMA CutLines ==
  ASSUME PInv, NEW c \in Conns, Cut(c)
  PROVE  Lines'
<1>1. UNCHANGED <<sock, asked, reply, pc, via, waits, mixed>> /\ dead' = dead \union {c}
  BY DEF Cut
<1>2. ASSUME NEW d \in Conns \ dead' PROVE Quiet(d)' \/ \E q \in Procs : Busy(d, q)'
  <2>1. Quiet(d) \/ \E q \in Procs : Busy(d, q)
    BY <1>1 DEF PInv, Lines
  <2> QED
    BY <1>1, <2>1 DEF Quiet, Busy
<1> QED
  BY <1>1, <1>2 DEF PInv, Lines

\* A step of the calls and channels, by processes that wait for no answer.
LEMMA CallLines ==
  ASSUME PInv,
         \/ \E k \in CallKinds : Begin(k)
         \/ \E loop \in {"lines", "poll"} : Read(loop)
         \/ \E p \in Procs : Hand(p)
         \/ Signal \/ Publish \/ Shut \/ Collect
  PROVE  Lines'
<1>1. UNCHANGED <<sock, dead, asked, reply, waits, mixed>>
  BY DEF Begin, Read, Hand, Signal, Publish, Shut, Collect
<1>2. ASSUME NEW q \in waits PROVE pc'[q] = pc[q] /\ via'[q] = via[q]
  <2>1. q \in Procs /\ pc[q] \in Asking
    BY DEF PInv, CallInv, Types, Waiting
  <2>2. ASSUME NEW k \in CallKinds, Begin(k) PROVE pc'[q] = pc[q] /\ via'[q] = via[q]
    <3>1. pc["caller"] = "idle" /\ pc["worker"] = "off"
      BY <2>2 DEF Begin, PInv, CallInv, WorkerOK
    <3> QED
      BY <2>1, <2>2, <3>1 DEF Begin, Goto, PInv, CallInv, Types, Asking
  <2>3. ASSUME NEW loop \in {"lines", "poll"}, Read(loop)
        PROVE  pc'[q] = pc[q] /\ via'[q] = via[q]
    BY <2>1, <2>3 DEF Read, Goto, PInv, CallInv, Types, Asking
  <2>4. ASSUME NEW p \in Procs, Hand(p) PROVE pc'[q] = pc[q] /\ via'[q] = via[q]
    BY <2>1, <2>4 DEF Hand, Goto, PInv, CallInv, Types, Asking
  <2>5. CASE Signal
    BY <2>1, <2>5 DEF Signal, ReturnOf, PInv, CallInv, Types, Asking
  <2>6. CASE Publish \/ Shut
    BY <2>1, <2>6 DEF Publish, Shut, Goto, PInv, CallInv, Types, Asking
  <2>7. CASE Collect
    <3>1. pc["caller"] = "gather" /\ pc["worker"] = "off"
      BY <2>7 DEF Collect, PInv, CallInv, WorkerOK
    <3> QED
      BY <2>1, <2>7, <3>1 DEF Collect, ReturnOf, PInv, CallInv, Types, Asking
  <2> QED
    BY <2>2, <2>3, <2>4, <2>5, <2>6, <2>7
<1>3. \A q \in waits' : pc'[q] = pc[q] /\ via'[q] = via[q] /\ sock'[via[q]] = "open"
  BY <1>1, <1>2 DEF PInv, Lines
<1> QED
  BY <1>1, <1>3, FrameLines DEF PInv

LEMMA NextLines ==
  ASSUME PInv, WaitForReader, [Next]_vars
  PROVE  Lines'
<1>1. CASE \/ \E k \in CallKinds : Begin(k)
           \/ \E loop \in {"lines", "poll"} : Read(loop)
           \/ \E p \in Procs : Hand(p)
           \/ Signal \/ Publish \/ Shut \/ Collect
  BY <1>1, CallLines
<1>2. ASSUME NEW p \in Procs, Build(p) \/ Send(p) \/ Broken(p) \/ Take(p) PROVE Lines'
  BY <1>2, BuildLines, SendLines, BrokenLines, TakeLines
<1>3. ASSUME NEW c \in Conns, Answer(c) \/ Cut(c) PROVE Lines'
  BY <1>3, AnswerLines, CutLines
<1>4. ASSUME NEW c \in Conns, Work(c) PROVE Lines'
  <2>1. UNCHANGED <<sock, dead, asked, reply, pc, via, waits, mixed>>
    BY <1>4 DEF Work
  <2> QED
    BY <2>1 DEF PInv, Lines, Quiet, Busy
<1>5. CASE UNCHANGED vars
  BY <1>5 DEF vars, PInv, Lines, Quiet, Busy
<1> QED
  BY <1>1, <1>2, <1>3, <1>4, <1>5 DEF Next, Client, Server

\* Every answer is read by the goroutine whose request it answers: of a program that
\* closes a trace session only after its reader has returned, whatever fails.
THEOREM PairedAlways == WaitForReader => (Spec => []Paired)
<1> SUFFICES ASSUME WaitForReader PROVE Spec => []Paired
  OBVIOUS
<1>1. Init => PInv
  BY InitCall, InitLines DEF PInv
<1>2. PInv /\ [Next]_vars => PInv'
  BY NextCall, NextLines DEF PInv
<1>3. PInv => Paired
  BY DEF PInv, Lines, Paired
<1> QED
  BY <1>1, <1>2, <1>3, PTL DEF Spec

-----------------------------------------------------------------------------
(* Jobs, and what the server answers about them.                           *)

\* The units 1 to n of a job's output, and the k units after the first m.
Upto(n)      == [i \in 1 .. n |-> i]
Beyond(m, k) == [i \in 1 .. k |-> m + i]

LEMMA UptoIs ==
  ASSUME NEW n \in Nat
  PROVE  /\ Upto(n) \in Seq(Nat) /\ Len(Upto(n)) = n
         /\ \A i \in 1 .. n : Upto(n)[i] = i
<1>1. Upto(n) \in [1 .. n -> Nat]
  BY DEF Upto
<1>2. Upto(n) \in Seq(Nat)
  BY <1>1, SeqDef
<1> QED
  BY <1>1, <1>2, LenProperties DEF Upto

LEMMA UptoMore ==
  ASSUME NEW m \in Nat, NEW k \in Nat
  PROVE  /\ Upto(m) \o Beyond(m, k) = Upto(m + k)
         /\ Len(Beyond(m, k)) = k
<1>1. Upto(m) \in Seq(Nat) /\ Len(Upto(m)) = m /\ \A i \in 1 .. m : Upto(m)[i] = i
  BY UptoIs
<1>2. Beyond(m, k) \in Seq(Nat) /\ Len(Beyond(m, k)) = k /\ \A i \in 1 .. k : Beyond(m, k)[i] = m + i
  <2>1. Beyond(m, k) \in [1 .. k -> Nat]
    BY DEF Beyond
  <2>2. Beyond(m, k) \in Seq(Nat)
    BY <2>1, SeqDef
  <2> QED
    BY <2>1, <2>2, LenProperties DEF Beyond
<1>3. Upto(m + k) \in Seq(Nat) /\ Len(Upto(m + k)) = m + k /\ \A i \in 1 .. (m + k) : Upto(m + k)[i] = i
  BY UptoIs
<1> DEFINE s == Upto(m) \o Beyond(m, k)
<1> HIDE DEF Upto, Beyond
<1>4. /\ s \in Seq(Nat) /\ Len(s) = m + k
      /\ \A i \in 1 .. (m + k) : s[i] = IF i <= m THEN Upto(m)[i] ELSE Beyond(m, k)[i - m]
  <2>1. /\ s \in Seq(Nat) /\ Len(s) = Len(Upto(m)) + Len(Beyond(m, k))
        /\ \A i \in 1 .. (Len(Upto(m)) + Len(Beyond(m, k))) :
             s[i] = IF i <= Len(Upto(m)) THEN Upto(m)[i] ELSE Beyond(m, k)[i - Len(Upto(m))]
    BY <1>1, <1>2, ConcatProperties, Zenon
  <2> HIDE DEF s
  <2> QED
    BY <1>1, <1>2, <2>1
<1> HIDE DEF s
<1>5. ASSUME NEW i \in 1 .. (m + k) PROVE s[i] = i
  <2>1. CASE i <= m
    BY <1>1, <1>4, <2>1
  <2>2. CASE ~(i <= m)
    <3>1. i - m \in 1 .. k
      BY <2>2
    <3>2. s[i] = Beyond(m, k)[i - m]
      BY <1>4, <2>2
    <3>3. Beyond(m, k)[i - m] = m + (i - m)
      BY <1>2, <3>1
    <3> QED
      BY <3>2, <3>3
  <2> QED
    BY <2>1, <2>2
<1>6. s = Upto(m + k)
  BY <1>3, <1>4, <1>5, SeqEqual
<1> QED
  BY <1>2, <1>6 DEF s

\* A job has given no more than it has printed and prints no more than it will;
\* one that ended by itself has printed everything.
JobType == [run : {"no", "yes", "paused"}, size : Nat, made : Nat, given : Nat, match : BOOLEAN]
Made(c) ==
  /\ job[c].given <= job[c].made /\ job[c].made <= job[c].size
  /\ c # "trace" /\ job[c].run = "no" => job[c].made = job[c].size
Jobs == job \in [Conns -> JobType] /\ \A c \in Conns : Made(c)

LEMMA AnswersAre ==
  ASSUME Jobs, NEW c \in Conns, NEW op, NEW a \in Answers(c, op)
  PROVE  /\ a.match => job[c].match
         /\ op \in {"start", "detach", "running"} => a.units = <<>>
         /\ op \notin {"start", "detach", "running"} =>
              \/ a.kind \in {"line", "chunk"}
                 /\ \E k \in Nat : a.units = Beyond(job[c].given, k)
                                   /\ job[c].given + k <= job[c].made
              \/ a.kind = "end" /\ a.units = <<>> /\ (c # "trace" => job[c].given = job[c].size)
              \/ a.kind = "timeout" /\ a.units = <<>>
<1>0. /\ job[c].given \in Nat /\ job[c].made \in Nat /\ job[c].size \in Nat
      /\ Made(c) /\ job[c].match \in BOOLEAN
  BY DEF Jobs, JobType
<1> DEFINE j == job[c]
           says(kind, units) == [kind |-> kind, units |-> units, match |-> kind = "line" /\ j.match]
<1>s. ASSUME NEW kind, NEW units, a = says(kind, units)
      PROVE  a.kind = kind /\ a.units = units /\ (a.match => j.match)
  <2>1. a.kind = kind /\ a.units = units /\ a.match = (kind = "line" /\ j.match)
    BY <1>s
  <2> QED
    BY <2>1, Zenon
<1>1. CASE op \in {"start", "detach"}
  <2>1. a = says("ok", <<>>)
    BY <1>1, Zenon DEF Answers
  <2> HIDE DEF says, j
  <2>2. a.units = <<>> /\ (a.match => j.match)
    BY <1>s, <2>1
  <2> QED
    BY <1>1, <2>2 DEF j
<1>2. CASE op = "running"
  <2>1. PICK kind : a = says(kind, <<>>)
    BY <1>2, Zenon DEF Answers
  <2> HIDE DEF says, j
  <2>2. a.units = <<>> /\ (a.match => j.match)
    BY <1>s, <2>1
  <2> QED
    BY <1>2, <2>2 DEF j
<1>3. CASE op \notin {"start", "detach", "running"} /\ j.given < j.made
  <2>1. CASE op = "line"
    <3>1. a = says("line", <<j.given + 1>>)
      BY <1>3, <2>1 DEF Answers
    <3>2. <<j.given + 1>> = Beyond(j.given, 1)
      BY DEF Beyond
    <3>3. j.given + 1 <= j.made
      BY <1>0, <1>3
    <3> HIDE DEF says, j
    <3>4. a.kind = "line" /\ a.units = <<j.given + 1>> /\ (a.match => j.match)
      BY <1>s, <3>1
    <3> QED
      BY <1>3, <3>2, <3>3, <3>4 DEF j
  <2>2. CASE op # "line"
    <3>1. PICK k \in 1 .. (j.made - j.given) : a = says("chunk", [i \in 1 .. k |-> j.given + i])
      BY <1>3, <2>2 DEF Answers
    <3>2. j.given + k <= j.made /\ k \in Nat
      BY <1>0, <3>1
    <3>3. a = says("chunk", Beyond(j.given, k))
      BY <3>1 DEF Beyond
    <3> HIDE DEF says, j
    <3>4. a.kind = "chunk" /\ a.units = Beyond(j.given, k) /\ (a.match => j.match)
      BY <1>s, <3>3
    <3> QED
      BY <1>3, <3>2, <3>4 DEF j
  <2> QED
    BY <2>1, <2>2
<1>4. CASE op \notin {"start", "detach", "running"} /\ ~(j.given < j.made)
  <2>1. \/ a = says("end", <<>>) /\ j.run = "no"
        \/ a = says("timeout", <<>>)
    <3>1. CASE j.run = "no"
      BY <1>4, <3>1 DEF Answers
    <3>2. CASE j.run # "no"
      BY <1>4, <3>2 DEF Answers
    <3> QED
      BY <3>1, <3>2
  <2>2. c # "trace" /\ j.run = "no" => j.given = j.size
    BY <1>0, <1>4 DEF Made
  <2> HIDE DEF says, j
  <2>3. \/ a.kind = "end" /\ j.run = "no"
        \/ a.kind = "timeout"
    BY <1>s, <2>1
  <2>4. a.units = <<>> /\ (a.match => j.match)
    BY <1>s, <2>1
  <2> QED
    BY <1>4, <2>2, <2>3, <2>4 DEF j
<1> QED
  BY <1>1, <1>2, <1>3, <1>4

\* What one more answer does to the job it is about.
LEMMA GivenJobs ==
  ASSUME Jobs, NEW c \in Conns, NEW k \in Nat, job[c].given + k <= job[c].made,
         job' = [job EXCEPT ![c].given = @ + k]
  PROVE  Jobs'
<1>1. job[c] \in JobType /\ \A d \in Conns : job[d] \in JobType /\ Made(d)
  BY DEF Jobs
<1>2. [job[c] EXCEPT !.given = @ + k] \in JobType
  BY <1>1 DEF JobType
<1>3. job'[c] = [job[c] EXCEPT !.given = @ + k] /\ \A d \in Conns \ {c} : job'[d] = job[d]
  BY DEF Jobs
<1>4. /\ job'[c].given = job[c].given + k /\ job'[c].made = job[c].made
      /\ job'[c].size = job[c].size /\ job'[c].run = job[c].run
  BY <1>1, <1>3 DEF JobType
<1>5. job' \in [Conns -> JobType]
  BY <1>1, <1>2 DEF Jobs
<1>6. Made(c)'
  BY <1>1, <1>4 DEF Made, JobType
<1>7. \A d \in Conns \ {c} : Made(d)'
  BY <1>1, <1>3 DEF Made
<1> QED
  BY <1>5, <1>6, <1>7 DEF Jobs

LEMMA NewJobs ==
  ASSUME Jobs, NEW c \in Conns, NEW n \in 0 .. MaxOut,
         job' = [d \in Conns |-> IF d = c THEN NewJob(c, n)
                                 ELSE IF d = "trace" /\ c = "own" /\ call \in Control
                                      THEN [job[d] EXCEPT !.run = TraceRuns]
                                      ELSE job[d]]
  PROVE  /\ Jobs' /\ job'[c] = NewJob(c, n) /\ job'[c].given = 0
         /\ \A d \in Conns \ {c} : job'[d].size = job[d].size /\ job'[d].given = job[d].given
<1>1. \A d \in Conns : job[d] \in JobType /\ Made(d)
  BY DEF Jobs
<1>2. n \in Nat
  BY ServiceAssumption
<1>3. PICK m \in BOOLEAN : m = (job["trace"].run # "no")
  BY Zenon
<1>4. /\ NewJob(c, n) \in JobType /\ NewJob(c, n).given = 0
      /\ NewJob(c, n).made <= NewJob(c, n).size
      /\ c # "trace" /\ NewJob(c, n).run = "no" => NewJob(c, n).made = NewJob(c, n).size
  <2>1. CASE c = "own" /\ call \in Control
    <3>1. NewJob(c, n) = [run |-> "no", size |-> 1, made |-> 1, given |-> 0, match |-> m]
      BY <1>3, <2>1, Zenon DEF NewJob
    <3> QED
      BY <3>1 DEF JobType
  <2>2. CASE c = "trace"
    <3>1. NewJob(c, n) = [run |-> "yes", size |-> n + 1, made |-> 1, given |-> 0, match |-> TRUE]
      BY <2>2 DEF NewJob
    <3>2. n + 1 \in Nat /\ 1 <= n + 1
      BY <1>2
    <3>3. NewJob(c, n) \in JobType
      BY <3>1, <3>2 DEF JobType
    <3>4. /\ NewJob(c, n).given = 0 /\ NewJob(c, n).made = 1 /\ NewJob(c, n).size = n + 1
      BY <3>1
    <3> QED
      BY <2>2, <3>2, <3>3, <3>4
  <2>3. CASE ~(c = "own" /\ call \in Control) /\ c # "trace"
    <3>1. NewJob(c, n) = [run |-> "yes", size |-> n, made |-> 0, given |-> 0, match |-> FALSE]
      BY <2>3 DEF NewJob
    <3> QED
      BY <1>2, <3>1 DEF JobType
  <2> QED
    BY <2>1, <2>2, <2>3
<1>5. call \in Control => TraceRuns \in {"no", "yes", "paused"}
  BY DEF TraceRuns, Wanted, Control
<1>6. job'[c] = NewJob(c, n)
  BY DEF Conns
<1>7. ASSUME NEW d \in Conns \ {c}
      PROVE  /\ job'[d] \in JobType /\ Made(d)'
             /\ job'[d].size = job[d].size /\ job'[d].given = job[d].given
  <2>1. CASE d = "trace" /\ c = "own" /\ call \in Control
    <3>1. job'[d] = [job[d] EXCEPT !.run = TraceRuns]
      BY <2>1
    <3>2. /\ job'[d].given = job[d].given /\ job'[d].made = job[d].made
          /\ job'[d].size = job[d].size /\ job'[d] \in JobType
      BY <1>1, <1>5, <2>1, <3>1 DEF JobType
    <3> QED
      BY <1>1, <2>1, <3>2 DEF Made
  <2>2. CASE ~(d = "trace" /\ c = "own" /\ call \in Control)
    <3>1. job'[d] = job[d]
      BY <2>2
    <3> QED
      BY <1>1, <3>1 DEF Made
  <2> QED
    BY <2>1, <2>2
<1>8. job' \in [Conns -> JobType]
  BY <1>4, <1>6, <1>7
<1>9. Made(c)'
  BY <1>4, <1>6 DEF Made, JobType
<1> QED
  BY <1>4, <1>6, <1>7, <1>8, <1>9 DEF Jobs

LEMMA WorkJobs ==
  ASSUME Jobs, NEW c \in Conns, Work(c)
  PROVE  Jobs' /\ \A d \in Conns : job'[d].size = job[d].size /\ job'[d].given = job[d].given
<1>1. \A d \in Conns : job[d] \in JobType /\ Made(d)
  BY DEF Jobs
<1>2. \A d \in Conns \ {c} : job'[d] = job[d]
  BY DEF Work, Jobs
<1>3. /\ job'[c] \in JobType /\ job'[c].given = job[c].given /\ job'[c].size = job[c].size
      /\ \/ job[c].made < job[c].size /\ job'[c].made = job[c].made + 1 /\ job'[c].run = job[c].run
         \/ job[c].made >= job[c].size /\ job'[c].made = job[c].made
  <2>1. CASE job[c].made < job[c].size
    <3>1. job'[c] = [job[c] EXCEPT !.made = @ + 1]
      BY <2>1 DEF Work, Jobs
    <3> QED
      BY <1>1, <2>1, <3>1 DEF JobType
  <2>2. CASE ~(job[c].made < job[c].size)
    <3>1. job'[c] = [job[c] EXCEPT !.run = "no"]
      BY <2>2 DEF Work, Jobs
    <3> QED
      BY <1>1, <2>2, <3>1 DEF JobType
  <2> QED
    BY <2>1, <2>2
<1>4. Made(c)'
  BY <1>1, <1>3 DEF Made, JobType, Work
<1>5. \A d \in Conns \ {c} : Made(d)'
  BY <1>1, <1>2 DEF Made
<1>6. job' \in [Conns -> JobType]
  BY <1>1, <1>2, <1>3 DEF Work, Jobs
<1> QED
  BY <1>2, <1>3, <1>4, <1>5, <1>6 DEF Jobs

\* The answer that comes next on a connection, and what it leaves of its job.
LEMMA AnswerJobs ==
  ASSUME Jobs, NEW c \in Conns, Answer(c)
  PROVE  Jobs'
<1> DEFINE q == Head(asked[c])
<1>1. ASSUME NEW a \in Answers(c, q.op), q.op # "start",
             job' = [job EXCEPT ![c].given = @ + Len(a.units)]
      PROVE  Jobs'
  <2>1. PICK k \in Nat : Len(a.units) = k /\ job[c].given + k <= job[c].made
    <3>1. job[c].given \in Nat /\ job[c].given + 0 <= job[c].made
      BY DEF Jobs, JobType, Made
    <3>2. CASE a.units = <<>>
      BY <3>1, <3>2
    <3>3. ASSUME NEW k \in Nat, a.units = Beyond(job[c].given, k), job[c].given + k <= job[c].made
              PROVE  Len(a.units) = k
      <4>1. PICK m \in Nat : m = job[c].given
        BY <3>1
      <4>2. Len(Beyond(m, k)) = k
        BY UptoMore
      <4> QED
        BY <3>3, <4>1, <4>2
    <3> HIDE DEF q
    <3>4. \/ a.units = <<>>
          \/ \E k \in Nat : a.units = Beyond(job[c].given, k) /\ job[c].given + k <= job[c].made
      BY AnswersAre
    <3> QED
      BY <3>2, <3>3, <3>4
  <2> QED
    BY <1>1, <2>1, GivenJobs
<1>2. ASSUME q.op = "start", NEW n \in 0 .. MaxOut,
             job' = [d \in Conns |-> IF d = c THEN NewJob(c, n)
                                     ELSE IF d = "trace" /\ c = "own" /\ call \in Control
                                          THEN [job[d] EXCEPT !.run = TraceRuns]
                                          ELSE job[d]]
      PROVE  Jobs'
  BY <1>2, NewJobs
<1>3. CASE UNCHANGED job
  BY <1>3 DEF Jobs, Made
<1> QED
  BY <1>1, <1>2, <1>3 DEF Answer

LEMMA BuildJobs ==
  ASSUME Jobs, NEW p \in Procs, Build(p)
  PROVE  Jobs'
<1>1. CASE job' = [job EXCEPT ![via[p]] = NoJob]
  <2>1. NoJob \in JobType /\ NoJob.given = 0 /\ NoJob.made = 0 /\ NoJob.size = 0
    BY DEF NoJob, JobType
  <2>2. \A d \in Conns : job'[d] = NoJob \/ job'[d] = job[d]
    BY <1>1 DEF Jobs
  <2>3. job' \in [Conns -> JobType]
    BY <1>1, <2>1 DEF Jobs
  <2> HIDE DEF NoJob
  <2>4. ASSUME NEW d \in Conns PROVE Made(d)'
    BY <2>1, <2>2 DEF Jobs, Made
  <2> QED
    BY <2>3, <2>4 DEF Jobs
<1>2. CASE UNCHANGED job
  BY <1>2 DEF Jobs, Made
<1> QED
  BY <1>1, <1>2 DEF Build

LEMMA InitJobs ==
  ASSUME Init
  PROVE  Jobs
<1>1. NoJob \in JobType /\ NoJob.given = 0 /\ NoJob.made = 0 /\ NoJob.size = 0
  BY DEF NoJob, JobType
<1>2. job \in [Conns -> JobType] /\ \A c \in Conns : job[c] = NoJob
  BY <1>1 DEF Init
<1> QED
  BY <1>1, <1>2 DEF Jobs, Made

LEMMA NextJobs ==
  ASSUME Jobs, [Next]_vars
  PROVE  Jobs'
<1>1. ASSUME NEW p \in Procs, Build(p) PROVE Jobs'
  BY <1>1, BuildJobs
<1>2. ASSUME NEW c \in Conns, Answer(c) \/ Work(c) PROVE Jobs'
  BY <1>2, AnswerJobs, WorkJobs
<1>3. CASE UNCHANGED job
  BY <1>3 DEF Jobs, Made
<1>4. \/ \E p \in Procs : Build(p)
      \/ \E c \in Conns : Answer(c) \/ Work(c)
      \/ UNCHANGED job
  BY DEF Next, Client, Server, vars, Begin, Read, Send, Broken, Take, Hand, Signal, Publish,
         Shut, Collect, Cut
<1> QED
  BY <1>1, <1>2, <1>3, <1>4

-----------------------------------------------------------------------------
(* Output: what a call has been given is what its job has given, in order.  *)

\* The calls that return a job's output, who starts that job and who reads it,
\* and the connection it runs on.
DataCalls == {"verbose", "users", "limbo", "text"}
Starter == IF call = "limbo" THEN "worker" ELSE "caller"
Source  == IF call = "verbose" THEN "caller" ELSE "worker"
Feed    == IF call \in {"users", "text"} THEN "kept" ELSE "own"

\* The receiver has the job's first units and u are the next ones, up to the last
\* that the server has given; the receiver has all of them.
Continues(u, c) == \E m, k \in Nat : got = Upto(m) /\ u = Beyond(m, k) /\ m + k = job[c].given
Current(c)      == got = Upto(job[c].given)
Complete(e, c)  == e = "nil" => got = Upto(job[c].size)

Answered(c) == c \notin dead /\ reply[c] # <<>>

\* While the start is under way nothing is given; what is read is what comes next.
Fresh(c) == got = <<>> /\ (Answered(c) /\ Head(reply[c]).kind # "error" => job[c].given = 0)
Reading(c) ==
  /\ c \notin dead /\ reply[c] = <<>> => Current(c)
  /\ Answered(c) =>
       /\ Head(reply[c]).kind \in {"line", "chunk", "timeout", "end", "error"}
       /\ Head(reply[c]).kind \in {"line", "chunk"} => Continues(Head(reply[c]).units, c)
       /\ Head(reply[c]).kind = "timeout" => Current(c)
       /\ Head(reply[c]).kind = "end" => got = Upto(job[c].size)

Output ==
  call \in DataCalls =>
    /\ pc[Starter] = "build" => got = <<>>
    /\ pc[Starter] = "start" => Fresh(Feed)
    /\ pc[Source] \in {"lines", "chunks"} => Reading(Feed)
    /\ pc[Source] \in {"hand", "pass"} => Continues(item[Source], Feed)
    /\ pc[Source] \in {"detach", "signal", "publish"} => Complete(err[Source], Feed)
    /\ call = "text" /\ (pc["worker"] = "shut" \/ part = "closed") =>
         via["worker"] = "kept" /\ Complete(errCh, "kept")
    /\ pc["caller"] # "poll"

Carried == err = [p \in Procs |-> err[p]] /\ item = [p \in Procs |-> item[p]]

WInv == PInv /\ Jobs /\ Carried /\ Output /\ Whole

\* Who is where, of a call that returns output.
LEMMA OnFeed ==
  ASSUME CallInv, call \in DataCalls
  PROVE  /\ Starter \in Procs /\ Source \in Procs /\ Feed \in Conns /\ Feed # "trace"
         /\ Feed = "kept" <=> call \in {"users", "text"}
         /\ \A p \in {"caller", "worker"} : pc[p] \in Loop \union {"build"} =>
              via[p] = Feed /\ (p = Source \/ (p = Starter /\ pc[p] = "start"))
         /\ pc["worker"] # "off" => pc["caller"] = "gather" /\ via["worker"] = Feed
                                    /\ Source = "worker"
         /\ \A p \in Procs : pc[p] \in {"build", "start"} => p = Starter
         /\ pc["caller"] # "banner"
         /\ pc["caller"] \in Loop => pc["worker"] = "off"
         /\ \A p \in Procs : pc[p] \in {"lines", "chunks", "hand", "pass"} /\ p # "reader" => p = Source
BY DEF CallInv, Types, CallerOK, WorkerOK, ReaderOK, DataCalls, Starter, Source, Feed, Procs,
       Conns, Loop, Asking, Control

\* A step that leaves the caller and the worker, and the job of the call, as they are.
LEMMA OutputKeeps ==
  ASSUME Output, call \in DataCalls, UNCHANGED <<call, got, errCh, part>>,
         \A p \in {"caller", "worker"} : /\ pc'[p] = pc[p] /\ via'[p] = via[p]
                                         /\ item'[p] = item[p] /\ err'[p] = err[p],
         dead \subseteq dead', reply'[Feed] = reply[Feed],
         job'[Feed].given = job[Feed].given, job'[Feed].size = job[Feed].size
  PROVE  Output'
<1>1. Feed' = Feed /\ Source' = Source /\ Starter' = Starter
      /\ Source \in {"caller", "worker"} /\ Starter \in {"caller", "worker"}
  BY DEF Feed, Source, Starter
<1>2. Fresh(Feed) => Fresh(Feed)'
  BY <1>1 DEF Fresh, Answered
<1>3. \A u : Continues(u, Feed) <=> got' = got /\ \E m, k \in Nat :
                got' = Upto(m) /\ u = Beyond(m, k) /\ m + k = job'[Feed].given
  BY DEF Continues
<1>4. Reading(Feed) => Reading(Feed)'
  <2> SUFFICES ASSUME Reading(Feed) PROVE Reading(Feed)'
    OBVIOUS
  <2>1. Feed \notin dead' /\ reply'[Feed] = <<>> => Current(Feed)'
    BY <1>1 DEF Reading, Current
  <2>2. Answered(Feed)' => Answered(Feed)
    BY <1>1 DEF Answered
  <2> QED
    BY <1>1, <1>3, <2>1, <2>2 DEF Reading, Current, Continues
<1>5. Continues(item[Source], Feed) => Continues(item[Source], Feed)'
  BY <1>1 DEF Continues
<1>6. Complete(err[Source], Feed) => Complete(err[Source], Feed)'
  BY <1>1 DEF Complete
<1>7. call = "text" /\ Complete(errCh, "kept") => Complete(errCh, "kept")'
  BY <1>1 DEF Complete, Feed
<1> QED
  BY <1>1, <1>2, <1>4, <1>5, <1>6, <1>7 DEF Output

\* A call begins: on a connection nothing is under way on, or to be built.
LEMMA BeginOutput ==
  ASSUME WInv, WaitForReader, NEW k \in CallKinds, Begin(k)
  PROVE  Output'
<1>1. /\ pc["caller"] = "idle" /\ pc["worker"] = "off" /\ call' = k /\ got' = <<>>
      /\ UNCHANGED <<dead, reply>> /\ part' # "closed"
  BY DEF Begin, WInv, PInv, CallInv, WorkerOK
<1>2. CASE k \in {"users", "text"}
  <2>1. pc' = [pc EXCEPT !["caller"] = "start"]
    BY <1>2 DEF Begin, Goto
  <2>2. pc'["caller"] = "start" /\ pc'["worker"] = "off"
    BY <1>1, <2>1 DEF WInv, PInv, CallInv, Types, Procs
  <2>3. ~Answered("kept")
    <3>1. \A p \in Procs : ~Busy("kept", p)
      BY <1>1 DEF Busy, WInv, PInv, CallInv, Types, ReaderOK, Waiting, Procs, Asking
    <3> QED
      BY <3>1 DEF WInv, PInv, Lines, Quiet, Answered, Conns
  <2>4. Fresh("kept")'
    BY <1>1, <2>3 DEF Fresh, Answered
  <2> QED
    BY <1>1, <1>2, <2>2, <2>4 DEF Output, Starter, Source, Feed
<1>3. CASE k = "limbo"
  <2>1. pc' = [pc EXCEPT !["caller"] = "gather", !["worker"] = "build"]
    BY <1>3 DEF Begin
  <2>2. pc'["caller"] = "gather" /\ pc'["worker"] = "build"
    BY <2>1 DEF WInv, PInv, CallInv, Types, Procs
  <2> QED
    BY <1>1, <1>3, <2>2 DEF Output, Starter, Source, Feed
<1>4. CASE k = "verbose"
  <2>1. pc' = [pc EXCEPT !["caller"] = "build"]
    BY <1>4 DEF Begin, Goto
  <2>2. pc'["caller"] = "build" /\ pc'["worker"] = "off"
    BY <1>1, <2>1 DEF WInv, PInv, CallInv, Types, Procs
  <2> QED
    BY <1>1, <1>4, <2>2 DEF Output, Starter, Source, Feed
<1> QED
  BY <1>1, <1>2, <1>3, <1>4 DEF Output, DataCalls

\* A call that ends, or one that returns no output, has nothing to keep.
LEMMA NoOutput ==
  ASSUME (call \notin DataCalls /\ call' \in {call, "none"}) \/ call' = "none"
  PROVE  Output'
BY DEF Output, DataCalls

LEMMA BuildOutput ==
  ASSUME WInv, WaitForReader, NEW p \in Procs, Build(p)
  PROVE  Output'
<1>1. call' \in {call, "none"} /\ pc[p] = "build" /\ UNCHANGED <<via, item, got, errCh, part>>
  BY DEF Build, Return
<1>2. CASE call \in DataCalls /\ call' = call
  <2>0. CallInv /\ Types
    BY DEF WInv, PInv, CallInv
  <2>1. p = Starter /\ p \in {"caller", "worker"} /\ via[p] = Feed /\ p = Source /\ Feed \in Conns
        /\ call \notin {"users", "text"} /\ got = <<>>
    BY <1>1, <1>2, <2>0, OnFeed DEF CallInv, ReaderOK, CallerOK, WorkerOK, WInv, Output, Procs, Loop, Asking
  <2>2. Feed' = Feed /\ Source' = Source /\ Starter' = Starter
    BY <1>2 DEF Feed, Source, Starter
  <2>3. CASE pc' = [pc EXCEPT ![p] = "start"] /\ reply' = [reply EXCEPT ![Feed] = <<>>]
    <3>1. pc'[p] = "start" /\ reply'[Feed] = <<>>
      BY <2>0, <2>1, <2>3 DEF Types, WInv, PInv, Lines
    <3>2. Fresh(Feed)'
      BY <1>1, <2>1, <2>2, <3>1 DEF Fresh, Answered
    <3>3. pc'["caller"] # "poll"
      BY <2>1, <2>3, <1>2, <2>0, <3>1 DEF WInv, Output, Types, Procs
    <3> QED
      BY <1>1, <1>2, <2>1, <2>2, <3>1, <3>2, <3>3 DEF Output
  <2>4. CASE p = "worker" /\ pc' = [pc EXCEPT ![p] = "signal"] /\ err' = [err EXCEPT ![p] = "error"]
    <3>1. pc'[p] = "signal" /\ pc'["caller"] = pc["caller"] /\ err'[p] = "error"
      BY <2>0, <2>1, <2>4 DEF Types, WInv, Carried, Procs
    <3>2. Complete(err[Source], Feed)'
      BY <2>1, <2>2, <3>1 DEF Complete
    <3> QED
      BY <1>1, <1>2, <2>1, <2>2, <3>1, <3>2 DEF Output, WInv
  <2>5. \/ pc' = [pc EXCEPT ![p] = "start"] /\ reply' = [reply EXCEPT ![Feed] = <<>>]
        \/ p = "caller" /\ call' = "none"
        \/ p = "worker" /\ pc' = [pc EXCEPT ![p] = "signal"] /\ err' = [err EXCEPT ![p] = "error"]
    BY <2>1 DEF Build, Return, Goto
  <2>6. call # "none"
    BY <1>2 DEF DataCalls
  <2> QED
    BY <1>2, <2>3, <2>4, <2>5, <2>6
<1> QED
  BY <1>1, <1>2, NoOutput

\* A phase fails: the error stands for the output that is missing.
LEMMA FailsOutput ==
  ASSUME CallInv, Carried, Output, call \in DataCalls, call' = call,
         NEW p \in {"caller", "worker"}, pc[p] \in Asking, Fails(p),
         UNCHANGED <<job, item, got, errCh, part>>
  PROVE  Output'
<1>0. Types /\ p \in Procs
  BY DEF CallInv, Procs
<1>1. /\ via[p] = Feed /\ Feed' = Feed /\ Source' = Source /\ Starter' = Starter
      /\ Source \in {"caller", "worker"}
  BY OnFeed DEF Feed, Source, Starter, Loop
<1>2. call # "none" /\ call # "trace" /\ call # "list" /\ call # "close"
  BY DEF DataCalls
<1>3. CASE pc[p] = "detach"
  <2>1. p = "worker" /\ pc' = [pc EXCEPT ![p] = "signal"] /\ UNCHANGED <<via, err>>
    BY <1>2, <1>3 DEF Fails, Onward, Goto, Return
  <2>2. p = Source /\ pc'["worker"] = "signal" /\ pc'["caller"] = pc["caller"]
        /\ pc["caller"] = "gather" /\ Starter = "worker" /\ call # "text"
    BY <1>0, <1>1, <1>3, <2>1, OnFeed DEF Types, Procs, Source, Starter, CallInv, WorkerOK, DataCalls
  <2>3. Complete(err[Source], Feed)'
    BY <1>1, <1>3, <2>1, <2>2 DEF Output, Complete
  <2> QED
    BY <1>1, <1>3, <2>1, <2>2, <2>3 DEF Output
<1>4. CASE pc[p] # "detach"
  <2>1. /\ pc' = [pc EXCEPT ![p] = AfterLoop(p)] /\ UNCHANGED via
        /\ err' = [err EXCEPT ![p] = "error"]
    BY <1>2, <1>4 DEF Fails, Onward, Goto, Return
  <2>2. ~(p = "caller" /\ pc[p] = "start" /\ call \in {"users", "text"})
    BY <1>2, <1>4 DEF Fails, Onward, Return
  <2>3. p = Source
    BY <1>0, <2>2, OnFeed DEF Starter, Source, Loop, DataCalls
  <2>4. pc'[p] = AfterLoop(p) /\ AfterLoop(p) \in {"detach", "signal", "publish"}
        /\ err'[p] = "error"
    BY <1>0, <2>1, <2>3 DEF AfterLoop, Types, Carried
  <2>5. Complete(err[Source], Feed)'
    BY <1>1, <2>3, <2>4 DEF Complete
  <2>6. pc'["caller"] # "poll" /\ via'["worker"] = via["worker"]
    BY <1>0, <2>1, <2>4 DEF Output, Types, Procs
  <2>7. pc'[Starter] \notin {"build", "start"} \/ (Starter # p /\ pc'[Starter] = pc[Starter])
    BY <1>0, <2>1, <2>4 DEF Types, Starter, Procs
  <2>8. CASE Starter # p
    <3>1. p = "worker" /\ Starter = "caller" /\ pc["caller"] = "gather"
      BY <1>0, <2>3, <2>8, OnFeed DEF Source, Starter, Asking
    <3> QED
      BY <1>1, <2>3, <2>4, <2>5, <2>6, <2>7, <3>1 DEF Output, Asking, CallInv, WorkerOK
  <2>9. CASE Starter = p
    <3>1. call # "text"
      BY <2>3, <2>9 DEF Starter, Source
    <3> QED
      BY <3>1, <1>1, <2>3, <2>4, <2>5, <2>6, <2>7, <2>9 DEF Output, Asking, CallInv, WorkerOK
  <2> QED
    BY <2>8, <2>9
<1> QED
  BY <1>3, <1>4

\* The reader's steps are on the session's connection and leave calls' output alone.
LEMMA ReaderOutput ==
  ASSUME WInv, WaitForReader, Broken("reader") \/ Take("reader") \/ Hand("reader") \/ Send("reader")
  PROVE  Output'
<1>0. CallInv /\ Types /\ pc["reader"] # "detach" /\ Procs = {"caller", "worker", "reader"}
  BY DEF WInv, PInv, CallInv, ReaderOK, Procs
<1>1. pc["reader"] \in {"lines", "poll", "chunks", "hand", "pass"} /\ via["reader"] = "trace"
  BY <1>0 DEF CallInv, ReaderOK, Types, Waiting, Asking, Broken, Take, Hand, Send, OpOf
<1>2. /\ UNCHANGED <<call, got, errCh, part, dead, job>>
      /\ \A p \in {"caller", "worker"} : /\ pc'[p] = pc[p] /\ via'[p] = via[p]
                                         /\ item'[p] = item[p] /\ err'[p] = err[p]
      /\ \A c \in Conns \ {"trace"} : reply'[c] = reply[c]
  <2>1. ASSUME Fails("reader"), UNCHANGED <<item, reply>>
        PROVE  /\ call' = call
               /\ \A p \in {"caller", "worker"} : /\ pc'[p] = pc[p] /\ via'[p] = via[p]
                                                  /\ item'[p] = item[p] /\ err'[p] = err[p]
    BY <1>0, <2>1 DEF Fails, Onward, Goto, Types, WInv, Carried
  <2>2. CASE Broken("reader")
    BY <2>1, <2>2 DEF Broken
  <2>3. CASE Take("reader")
    <3>1. UNCHANGED <<got, errCh, part, dead, job>> /\ \A c \in Conns \ {"trace"} : reply'[c] = reply[c]
      BY <1>1, <2>3 DEF Take, WInv, PInv, Lines
    <3>2. (Fails("reader") /\ UNCHANGED item) \/ \E r : Looped("reader", r)
      BY <1>1, <2>3 DEF Take
    <3>3. CASE Fails("reader") /\ UNCHANGED item
      BY <1>0, <3>1, <3>3 DEF Fails, Onward, Goto, Types, WInv, Carried
    <3>4. CASE \E r : Looped("reader", r)
      BY <1>0, <3>1, <3>4 DEF Looped, Goto, Types, WInv, Carried
    <3> QED
      BY <3>1, <3>2, <3>3, <3>4
  <2>4. CASE Hand("reader")
    BY <1>0, <2>4 DEF Hand, Goto, Types, WInv, Carried
  <2>5. CASE Send("reader")
    BY <1>0, <2>5 DEF Send
  <2> QED
    BY <2>2, <2>3, <2>4, <2>5
<1>3. CASE call \in DataCalls
  <2>1. Feed \in Conns \ {"trace"}
    BY DEF Feed, Conns
  <2>2. Output
    BY DEF WInv
  <2> QED
    BY <1>2, <1>3, <2>1, <2>2, OutputKeeps
<1> QED
  BY <1>2, <1>3, NoOutput

\* The answer a process of the call reads: the start's opens its loop, the loop's
\* is output, a reason to ask again, or the end.
LEMMA TakeOutput ==
  ASSUME WInv, WaitForReader, NEW p \in {"caller", "worker"}, Take(p)
  PROVE  Output'
<1>0. CallInv /\ Types /\ p \in Procs /\ Procs = {"caller", "worker", "reader"} /\ pc[p] \in Asking
      /\ Carried /\ Output
  BY DEF WInv, PInv, CallInv, Waiting, Take, Procs
<1>1. call' \in {call, "none"}
  BY <1>0 DEF Take, Fails, Detached, Onward, Started, Banner, Looped, Return
<1>2. CASE call \in DataCalls /\ call' = call
  <2>1. /\ via[p] = Feed /\ Feed' = Feed /\ Source' = Source /\ Starter' = Starter
        /\ Feed \in Conns /\ Source \in {"caller", "worker"} /\ Starter \in {"caller", "worker"}
    BY <1>0, <1>2, OnFeed DEF Feed, Source, Starter, Loop
  <2>2. PICK r : r = Head(reply[Feed])
    OBVIOUS
  <2>3. Answered(Feed) /\ Feed \notin dead'
    BY <2>1 DEF Take, Answered
  <2>4. reply'[Feed] = <<>>
    <3>1. PICK q \in Procs : Busy(Feed, q)
      BY <2>1, <2>3 DEF Answered, WInv, PInv, Lines, Quiet
    <3>2. PICK a : reply[Feed] = <<a>>
      BY <2>3, <3>1 DEF Busy, Answered
    <3>3. Tail(reply[Feed]) = <<>>
      BY <3>2
    <3> QED
      BY <2>1, <3>3 DEF Take, WInv, PInv, Lines
  <2>5. UNCHANGED <<job, got, errCh, part, dead>>
    BY DEF Take
  <2>6. CASE r.kind = "error"
    BY <1>0, <1>2, <2>1, <2>2, <2>5, <2>6, FailsOutput DEF Take
  <2>7. CASE r.kind # "error" /\ pc[p] = "detach"
    <3>1. Detached(p)
      BY <2>1, <2>2, <2>7 DEF Take
    <3>2. p = "worker" /\ pc' = [pc EXCEPT ![p] = "signal"] /\ UNCHANGED <<via, err>>
      BY <1>2, <3>1 DEF Detached, Onward, Goto, Return, DataCalls
    <3>3. p = Source /\ pc'["worker"] = "signal" /\ pc'["caller"] = pc["caller"]
          /\ pc["caller"] = "gather" /\ Starter = "worker" /\ call # "text"
      BY <1>0, <1>2, <2>1, <2>7, <3>2, OnFeed DEF Types, Source, Starter, CallInv, WorkerOK, DataCalls
    <3>4. Complete(err[Source], Feed)'
      BY <1>0, <1>2, <2>1, <2>5, <2>7, <3>2, <3>3 DEF Output, Complete
    <3> QED
      BY <1>2, <2>1, <2>5, <3>2, <3>3, <3>4 DEF Output
  <2>8. CASE r.kind # "error" /\ pc[p] = "start"
    <3>1. Started(p) /\ p = Starter
      BY <1>0, <1>2, <2>1, <2>2, <2>8, OnFeed DEF Take
    <3>2. got = <<>> /\ job[Feed].given = 0
      BY <1>0, <1>2, <2>2, <2>3, <2>8, <3>1 DEF Output, Fresh
    <3>3. Current(Feed)'
      BY <2>1, <2>5, <3>2 DEF Current, Upto
    <3>4. Reading(Feed)'
      BY <2>1, <2>4, <3>3 DEF Reading, Answered
    <3>5. pc'[Source] \in {"lines", "chunks"} /\ pc'["caller"] # "poll"
          /\ pc'[Starter] \notin {"build", "start"} /\ pc'["worker"] # "shut"
          /\ (call = "text" => part # "closed")
      <4>1. CASE call \in {"users", "text"}
        <5>1. pc' = [pc EXCEPT !["caller"] = "gather",
                               !["worker"] = IF call = "text" THEN "lines" ELSE "chunks"]
          BY <3>1, <4>1 DEF Started
        <5> QED
          BY <1>0, <2>8, <3>1, <4>1, <5>1 DEF Types, Source, Starter, CallInv, WorkerOK
      <4>2. CASE call \notin {"users", "text"}
        <5>1. pc' = [pc EXCEPT ![p] = IF call = "limbo" THEN "chunks" ELSE "lines"] /\ p = Source
          BY <1>2, <3>1, <4>2 DEF Started, Goto, DataCalls, Source, Starter
        <5> QED
          BY <1>0, <2>8, <3>1, <4>2, <5>1, <1>2 DEF Types, Source, Starter, Output, CallInv, WorkerOK
      <4> QED
        BY <4>1, <4>2
    <3> QED
      BY <2>1, <2>5, <3>4, <3>5, <1>2 DEF Output
  <2>9. CASE r.kind # "error" /\ pc[p] \in {"lines", "chunks"}
    <3>1. Looped(p, r) /\ p = Source
      BY <1>0, <1>2, <2>1, <2>2, <2>9, OnFeed DEF Take
    <3>2. /\ r.kind \in {"line", "chunk", "timeout", "end"}
          /\ r.kind \in {"line", "chunk"} => Continues(r.units, Feed)
          /\ r.kind = "timeout" => Current(Feed)
          /\ r.kind = "end" => got = Upto(job[Feed].size)
      BY <1>0, <1>2, <2>2, <2>3, <2>9, <3>1 DEF Output, Reading
    <3>3. /\ \A q \in Procs \ {p} : pc'[q] = pc[q] /\ UNCHANGED <<via, err>>
          /\ call = "text" => p = "worker" /\ part # "closed"
      BY <1>0, <2>9, <3>1 DEF Looped, Goto, Types, CallInv, WorkerOK, Source
    <3>4. /\ pc'[Starter] \notin {"build", "start"}
          /\ pc'["caller"] # "poll" /\ pc'["worker"] # "shut"
      <4>1. pc'[p] \in {"hand", "pass", "lines", "chunks", "detach", "signal", "publish"}
        BY <1>0, <2>9, <3>1, <3>2 DEF Looped, Goto, AfterLoop, Types
      <4>2. p = "worker" => pc["caller"] = "gather"
        BY <1>0, <2>9 DEF CallInv, WorkerOK
      <4>3. p = "caller" => pc["worker"] = "off" /\ Starter = "caller"
        BY <1>0, <2>9, <1>2, <3>1 DEF CallInv, WorkerOK, Starter, Source
      <4> QED
        BY <1>0, <3>3, <4>1, <4>2, <4>3 DEF Starter
    <3>5. CASE r.kind \in {"line", "chunk"}
      <4>1. pc'[p] \in {"hand", "pass"} /\ item'[p] = r.units
        BY <1>0, <3>1, <3>5 DEF Looped, Goto, Types, Carried
      <4>2. Continues(item[Source], Feed)'
        BY <2>1, <2>5, <3>1, <3>2, <3>5, <4>1 DEF Continues
      <4> QED
        BY <1>2, <2>1, <2>5, <3>1, <3>3, <3>4, <4>1, <4>2 DEF Output
    <3>6. CASE r.kind = "timeout"
      <4>1. pc' = pc
        BY <3>1, <3>6 DEF Looped
      <4>2. Reading(Feed)'
        BY <2>1, <2>4, <2>5, <3>2, <3>6 DEF Reading, Answered, Current
      <4> QED
        BY <1>2, <2>1, <2>5, <2>9, <3>1, <3>3, <3>4, <4>1, <4>2 DEF Output
    <3>7. CASE r.kind = "end"
      <4>1. pc'[p] \in {"detach", "signal", "publish"}
        BY <1>0, <3>1, <3>7, <2>1 DEF Looped, Goto, AfterLoop, Types
      <4>2. Complete(err[Source], Feed)'
        BY <2>1, <2>5, <3>2, <3>3, <3>7 DEF Complete
      <4> QED
        BY <1>2, <2>1, <2>5, <3>1, <3>3, <3>4, <4>1, <4>2 DEF Output
    <3> QED
      BY <3>2, <3>5, <3>6, <3>7
  <2>10. pc[p] \notin {"poll", "banner"}
    BY <1>0, <1>2, OnFeed DEF Output, CallInv, WorkerOK
  <2> QED
    BY <1>0, <2>6, <2>7, <2>8, <2>9, <2>10 DEF Asking
<1> QED
  BY <1>1, <1>2, NoOutput

LEMMA BrokenOutput ==
  ASSUME WInv, WaitForReader, NEW p \in {"caller", "worker"}, Broken(p)
  PROVE  Output'
<1>1. pc[p] \in Asking /\ Fails(p) /\ UNCHANGED <<job, item, got, errCh, part>>
  BY DEF Broken, OpOf, Asking
<1>2. call' \in {call, "none"}
  BY <1>1 DEF Fails, Onward, Return
<1>3. CASE call \in DataCalls /\ call' = call
  BY <1>1, <1>3, FailsOutput DEF WInv, PInv
<1> QED
  BY <1>2, <1>3, NoOutput

\* What a process has read joins what the receiver has; the process asks for more.
LEMMA HandOutput ==
  ASSUME WInv, WaitForReader, NEW p \in {"caller", "worker"}, Hand(p)
  PROVE  Output'
<1>0. CallInv /\ Types /\ p \in Procs /\ pc[p] \in {"hand", "pass"} /\ Output
      /\ UNCHANGED <<call, dead, reply, job, via, err, errCh, part>>
  BY DEF WInv, PInv, CallInv, Hand, Procs
<1>1. CASE call \in DataCalls
  <2>1. /\ p = Source /\ via[p] = Feed /\ Feed \in Conns
        /\ Feed' = Feed /\ Source' = Source /\ Starter' = Starter
    BY <1>0, <1>1, OnFeed DEF Feed, Source, Starter, Loop
  <2>2. PICK m \in Nat, k \in Nat :
          got = Upto(m) /\ item[p] = Beyond(m, k) /\ m + k = job[Feed].given
    BY <1>0, <1>1, <2>1 DEF Output, Continues
  <2>3. Upto(m) \o Beyond(m, k) = Upto(m + k)
    BY UptoMore
  <2>4. got' = Upto(job[Feed].given)
    BY <2>2, <2>3 DEF Hand
  <2>5. Feed \notin dead => reply[Feed] = <<>>
    <3>1. ASSUME NEW q \in Procs, Busy(Feed, q) PROVE FALSE
      <4>1. pc[q] \in Asking /\ via[q] = Feed
        BY <1>0, <3>1 DEF Busy, CallInv, Waiting
      <4>2. q # "reader" /\ q # p
        BY <1>0, <1>1, <4>1, OnFeed DEF CallInv, ReaderOK, Asking
      <4>3. pc["caller"] \in Loop /\ pc["worker"] # "off"
        BY <1>0, <4>1, <4>2 DEF Procs, Loop, Asking
      <4> QED
        BY <1>0, <1>1, <4>3, OnFeed DEF Loop, Asking
    <3> QED
      BY <2>1, <3>1 DEF WInv, PInv, Lines, Quiet
  <2>6. Reading(Feed)'
    BY <1>0, <2>1, <2>4, <2>5 DEF Reading, Answered, Current
  <2>7. pc'[p] \in {"lines", "chunks"} /\ \A q \in Procs \ {p} : pc'[q] = pc[q]
    BY <1>0 DEF Hand, Goto, Types
  <2>8. pc'[Starter] \notin {"build", "start"} /\ pc'["caller"] # "poll" /\ pc'["worker"] # "shut"
        /\ (call = "text" => part # "closed")
    <3>1. p = "worker" => pc["caller"] = "gather"
      BY <1>0 DEF CallInv, WorkerOK
    <3>2. p = "caller" => pc["worker"] = "off" /\ Starter = "caller" /\ call # "text"
      BY <1>0, <2>1, <1>1 DEF CallInv, WorkerOK, Starter, Source
    <3> QED
      BY <1>0, <2>7, <3>1, <3>2 DEF Starter, Procs, CallInv, WorkerOK
  <2> QED
    BY <1>0, <1>1, <2>1, <2>6, <2>7, <2>8 DEF Output
<1> QED
  BY <1>0, <1>1, NoOutput

\* WaitString's goroutine sends its error and closes its channel of lines.
LEMMA PartOutput ==
  ASSUME WInv, Publish \/ Shut
  PROVE  Output'
<1>0. CallInv /\ Types /\ Output /\ pc["worker"] \in {"publish", "shut"}
      /\ UNCHANGED <<call, dead, reply, job, via, err, item, got>>
  BY DEF WInv, PInv, CallInv, Publish, Shut
<1>1. CASE call \in DataCalls
  <2>2. /\ pc["caller"] = "gather" /\ Source = "worker" /\ via["worker"] = Feed
        /\ Feed' = Feed /\ Source' = Source /\ Starter' = Starter
    BY <1>0, <1>1, OnFeed DEF Feed, Source, Starter
  <2>3. pc'["caller"] = "gather" /\ pc'["worker"] \in {"shut", "off"}
    BY <1>0, <2>2 DEF Publish, Shut, Goto, Types, Procs
  <2>4. call = "text" => via["worker"] = "kept" /\ Complete(errCh, "kept")'
    <3>1. CASE Publish
      BY <1>0, <1>1, <2>2, <3>1 DEF Publish, Output, Complete, Feed
    <3>2. CASE Shut
      BY <1>0, <1>1, <2>2, <3>2 DEF Shut, Output, Complete, Feed
    <3> QED
      BY <3>1, <3>2
  <2> QED
    BY <1>0, <1>1, <2>2, <2>3, <2>4 DEF Output, Starter
<1> QED
  BY <1>0, <1>1, NoOutput

\* Steps that neither a call's processes nor its connection see.
LEMMA OtherOutput ==
  ASSUME WInv,
         \/ \E p \in {"caller", "worker"} : Send(p)
         \/ \E loop \in {"lines", "poll"} : Read(loop)
         \/ \E c \in Conns : Work(c) \/ Cut(c)
         \/ UNCHANGED vars
  PROVE  Output'
<1>0. Types /\ Output /\ Jobs
  BY DEF WInv, PInv, CallInv
<1>1. /\ UNCHANGED <<call, got, errCh, part, reply, item, err>> /\ dead \subseteq dead'
      /\ \A p \in {"caller", "worker"} : pc'[p] = pc[p] /\ via'[p] = via[p]
  <2>1. CASE \E p \in {"caller", "worker"} : Send(p)
    BY <2>1 DEF Send
  <2>2. CASE \E loop \in {"lines", "poll"} : Read(loop)
    BY <1>0, <2>2 DEF Read, Goto, Types
  <2>3. CASE \E c \in Conns : Work(c) \/ Cut(c)
    BY <2>3 DEF Work, Cut
  <2>4. CASE UNCHANGED vars
    BY <2>4 DEF vars
  <2> QED
    BY <2>1, <2>2, <2>3, <2>4
<1>2. \A c \in Conns : job'[c].given = job[c].given /\ job'[c].size = job[c].size
  <2>1. ASSUME NEW c \in Conns, Work(c)
        PROVE  \A d \in Conns : job'[d].given = job[d].given /\ job'[d].size = job[d].size
    BY <1>0, <2>1, WorkJobs
  <2>2. CASE UNCHANGED job
    BY <2>2
  <2> QED
    BY <2>1, <2>2 DEF Send, Read, Cut, vars
<1>3. CASE call \in DataCalls
  <2>1. Feed \in Conns
    BY DEF Feed, Conns
  <2> QED
    BY <1>0, <1>1, <1>2, <1>3, <2>1, OutputKeeps
<1> QED
  BY <1>1, <1>3, NoOutput

\* The server answers the call's request: with what comes next of the job, or why
\* there is nothing.
LEMMA AnswerOutput ==
  ASSUME WInv, WaitForReader, NEW c \in Conns, Answer(c)
  PROVE  Output'
<1>0. CallInv /\ Types /\ Output /\ Jobs
      /\ UNCHANGED <<dead, pc, via, err, item, call, got, errCh, part>>
  BY DEF WInv, PInv, CallInv, Answer
<1> DEFINE q == Head(asked[c])
           Replied(kind, units) == \E r : /\ reply' = [reply EXCEPT ![c] = Append(@, r)]
                                          /\ r.kind = kind /\ r.units = units
<1>1. \/ \E a \in Answers(c, q.op), n \in 0 .. MaxOut :
           /\ Replied(a.kind, a.units) /\ q.op = "start"
           /\ job' = [d \in Conns |-> IF d = c THEN NewJob(c, n)
                                      ELSE IF d = "trace" /\ c = "own" /\ call \in Control
                                           THEN [job[d] EXCEPT !.run = TraceRuns]
                                           ELSE job[d]]
      \/ \E a \in Answers(c, q.op) : Replied(a.kind, a.units) /\ q.op # "start"
           /\ job' = [job EXCEPT ![c].given = @ + Len(a.units)]
      \/ Replied("error", <<>>) /\ UNCHANGED job
  <2>1. \A kind, units, match, to :
          /\ [kind |-> kind, units |-> units, match |-> match, to |-> to].kind = kind
          /\ [kind |-> kind, units |-> units, match |-> match, to |-> to].units = units
    OBVIOUS
  <2>2. CASE UNCHANGED job /\ reply' = [reply EXCEPT ![c] = Append(@, [kind |-> "error", units |-> <<>>,
                                                    match |-> FALSE, to |-> q.by])]
    <3> HIDE DEF q
    <3>1. Replied("error", <<>>)
      <4>1. PICK r : r = [kind |-> "error", units |-> <<>>, match |-> FALSE, to |-> q.by]
        OBVIOUS
      <4>2. r.kind = "error" /\ r.units = <<>> /\ reply' = [reply EXCEPT ![c] = Append(@, r)]
        BY <2>2, <4>1
      <4> QED
        BY <4>2
    <3> QED
      BY <2>2, <3>1
  <2>3. ASSUME NEW a \in Answers(c, q.op),
               reply' = [reply EXCEPT ![c] = Append(@, [kind |-> a.kind, units |-> a.units,
                                                        match |-> a.match, to |-> q.by])]
        PROVE  Replied(a.kind, a.units)
    <3> HIDE DEF q
    <3>1. PICK r : r = [kind |-> a.kind, units |-> a.units, match |-> a.match, to |-> q.by]
      OBVIOUS
    <3>2. r.kind = a.kind /\ r.units = a.units /\ reply' = [reply EXCEPT ![c] = Append(@, r)]
      BY <2>3, <3>1
    <3> QED
      BY <3>2
  <2> HIDE DEF Replied
  <2> QED
    BY <2>2, <2>3 DEF Answer
<1>2. \A d \in Conns \ {c} : /\ reply'[d] = reply[d]
                             /\ job'[d].given = job[d].given /\ job'[d].size = job[d].size
  <2>1. \A d \in Conns \ {c} : reply'[d] = reply[d]
    BY <1>1 DEF WInv, PInv, Lines
  <2>2. CASE UNCHANGED job
    BY <2>1, <2>2
  <2>3. ASSUME NEW k, job' = [job EXCEPT ![c].given = k]
        PROVE  \A d \in Conns \ {c} : job'[d] = job[d]
    BY <1>0, <2>3 DEF Jobs
  <2>4. ASSUME NEW n \in 0 .. MaxOut,
               job' = [d \in Conns |-> IF d = c THEN NewJob(c, n)
                                       ELSE IF d = "trace" /\ c = "own" /\ call \in Control
                                            THEN [job[d] EXCEPT !.run = TraceRuns]
                                            ELSE job[d]]
        PROVE  \A d \in Conns \ {c} : job'[d].size = job[d].size /\ job'[d].given = job[d].given
    BY <1>0, <2>4, NewJobs
  <2> HIDE DEF q, Replied
  <2> QED
    BY <1>1, <2>1, <2>2, <2>3, <2>4
<1>3. CASE call \in DataCalls /\ Feed # c
  <2>1. Feed \in Conns
    BY DEF Feed, Conns
  <2> QED
    BY <1>0, <1>2, <1>3, <2>1, OutputKeeps
<1>4. CASE call \in DataCalls /\ Feed = c
  <2>1. PICK p \in Procs : Busy(c, p)
    BY DEF Answer, WInv, PInv, Lines, Quiet
  <2>2. /\ asked[c] = <<[op |-> OpOf[pc[p]], by |-> p]>> /\ reply[c] = <<>>
        /\ p \in waits /\ via[p] = c
    BY <2>1 DEF Answer, Busy
  <2>3. q.op = OpOf[pc[p]] /\ pc[p] \in Asking /\ p \in {"caller", "worker"}
    <3>1. q = [op |-> OpOf[pc[p]], by |-> p]
      BY <2>2
    <3>2. p # "reader"
      BY <1>0, <1>4, <2>2, OnFeed DEF CallInv, ReaderOK, Waiting, Asking
    <3> QED
      BY <1>0, <2>2, <3>1, <3>2 DEF CallInv, Waiting, Procs
  <2>4. /\ pc[p] \in {"start", "lines", "chunks", "detach"}
        /\ pc[p] = "start" <=> q.op = "start"
        /\ pc[p] = "detach" <=> q.op = "detach"
        /\ pc[p] \in {"lines", "chunks"} <=> q.op \notin {"start", "detach", "running"}
    BY <1>0, <1>4, <2>3, OnFeed DEF Asking, OpOf, Output, CallInv, WorkerOK
  <2>5. Feed' = Feed /\ Source' = Source /\ Starter' = Starter
        /\ Source \in {"caller", "worker"} /\ Starter \in {"caller", "worker"}
    BY <1>0 DEF Feed, Source, Starter
  <2>6. pc[p] = "start" => p = Starter
    BY <1>0, <1>4, <2>3, OnFeed DEF Procs
  <2>7. pc[p] # "start" => p = Source
    BY <1>0, <1>4, <2>3, OnFeed DEF Loop
  <2>8. /\ \A d \in {"caller", "worker"} \ {p} : pc[d] \in {"gather", "off"}
        /\ call = "text" => part # "closed"
        /\ pc["worker"] # "shut"
    BY <1>0, <1>4, <2>3, OnFeed DEF Loop, Asking, CallInv, CallerOK, WorkerOK
  <2> HIDE DEF q
  <2>9. ASSUME NEW kind, NEW units, Replied(kind, units)
        PROVE  reply'[c] # <<>> /\ Head(reply'[c]).kind = kind /\ Head(reply'[c]).units = units
    <3>1. PICK r : reply' = [reply EXCEPT ![c] = Append(@, r)] /\ r.kind = kind /\ r.units = units
      BY <2>9
    <3>2. reply'[c] = <<r>>
      BY <2>2, <3>1 DEF WInv, PInv, Lines
    <3> QED
      BY <3>1, <3>2
  <2> HIDE DEF Replied
  <2>10. CASE pc[p] = "start"
    <3>1. CASE Replied("error", <<>>)
      <4>1. Fresh(Feed)'
        BY <1>0, <1>4, <2>5, <2>6, <2>9, <2>10, <3>1 DEF Fresh, Answered, Output
      <4> QED
        BY <1>0, <2>5, <2>6, <2>8, <2>10, <4>1 DEF Output
    <3>2. CASE job'[c].given = 0
      <4>1. Fresh(Feed)'
        BY <1>0, <1>4, <2>5, <2>6, <2>10, <3>2 DEF Fresh, Answered, Output
      <4> QED
        BY <1>0, <2>5, <2>6, <2>8, <2>10, <4>1 DEF Output
    <3>3. Replied("error", <<>>) \/ job'[c].given = 0
      BY <1>0, <1>1, <2>4, <2>10, NewJobs
    <3> QED
      BY <3>1, <3>2, <3>3
  <2>11. ASSUME pc[p] # "start"
         PROVE  \/ Replied("error", <<>>) /\ UNCHANGED job
                \/ \E a \in Answers(c, q.op) : Replied(a.kind, a.units)
                     /\ job' = [job EXCEPT ![c].given = @ + Len(a.units)]
    BY <1>1, <2>4, <2>11
  <2>12. ASSUME NEW k, job' = [job EXCEPT ![c].given = @ + k]
         PROVE  job'[c].size = job[c].size /\ job'[c].given = job[c].given + k
    BY <1>0, <2>12 DEF Jobs, JobType
  <2>13. CASE pc[p] = "detach"
    <3>1. job'[c].size = job[c].size
      BY <2>11, <2>12, <2>13
    <3>2. Complete(err[Source], Feed)'
      BY <1>0, <1>4, <2>5, <2>7, <2>13, <3>1 DEF Output, Complete
    <3> QED
      BY <1>0, <2>5, <2>7, <2>8, <2>13, <3>2 DEF Output
  <2>14. CASE pc[p] \in {"lines", "chunks"}
    <3>1. c \notin dead /\ Current(c)
      BY <1>0, <1>4, <2>2, <2>7, <2>14 DEF Output, Reading, Answer
    <3>2. Reading(Feed)'
      <4>1. CASE Replied("error", <<>>)
        <5>1. reply'[c] # <<>> /\ Head(reply'[c]).kind = "error"
          BY <2>9, <4>1
        <5> QED
          BY <1>4, <2>5, <5>1 DEF Reading
      <4>2. ASSUME NEW a \in Answers(c, q.op), Replied(a.kind, a.units),
                   job' = [job EXCEPT ![c].given = @ + Len(a.units)]
            PROVE  Reading(Feed)'
        <5>1. /\ reply'[c] # <<>> /\ Head(reply'[c]).kind = a.kind
              /\ Head(reply'[c]).units = a.units
          BY <2>9, <4>2
        <5>2. job[c].given \in Nat /\ job[c].size \in Nat
          BY <1>0 DEF Jobs, JobType
        <5>3. \/ a.kind \in {"line", "chunk"}
                 /\ \E k \in Nat : a.units = Beyond(job[c].given, k)
              \/ a.kind = "end" /\ a.units = <<>> /\ job[c].given = job[c].size
              \/ a.kind = "timeout" /\ a.units = <<>>
          BY <1>0, <1>4, <2>4, <2>14, AnswersAre DEF Feed
        <5>4. job'[c].size = job[c].size /\ job'[c].given = job[c].given + Len(a.units)
          BY <2>12, <4>2
        <5>5. CASE a.kind \in {"line", "chunk"} /\ \E k \in Nat : a.units = Beyond(job[c].given, k)
          <6>1. PICK m \in Nat, k \in Nat : m = job[c].given /\ a.units = Beyond(m, k)
            BY <5>2, <5>5
          <6>2. Len(a.units) = k
            <7>1. Len(Beyond(m, k)) = k
              BY UptoMore
            <7> QED
              BY <6>1, <7>1
          <6>3. got' = Upto(m) /\ a.units = Beyond(m, k) /\ m + k = job'[c].given
            BY <1>0, <3>1, <5>4, <6>1, <6>2 DEF Current
          <6> QED
            BY <1>4, <2>5, <5>1, <5>5, <6>3 DEF Reading, Continues
        <5>6. CASE a.kind \in {"end", "timeout"} /\ a.units = <<>>
                   /\ (a.kind = "end" => job[c].given = job[c].size)
          <6>1. job'[c].given = job[c].given
            BY <5>2, <5>4, <5>6
          <6> QED
            BY <1>0, <1>4, <2>5, <3>1, <5>1, <5>4, <5>6, <6>1 DEF Reading, Current
        <5> QED
          BY <5>3, <5>5, <5>6
      <4> QED
        BY <2>11, <2>14, <4>1, <4>2
    <3> QED
      BY <1>0, <2>5, <2>7, <2>8, <2>14, <3>2 DEF Output
  <2> QED
    BY <2>4, <2>10, <2>13, <2>14
<1> QED
  BY <1>0, <1>3, <1>4, NoOutput

LEMMA NextOutput ==
  ASSUME WInv, WaitForReader, [Next]_vars
  PROVE  Output'
<1>1. ASSUME NEW k \in CallKinds, Begin(k) PROVE Output'
  BY <1>1, BeginOutput
<1>2. ASSUME NEW p \in Procs, Build(p) PROVE Output'
  BY <1>2, BuildOutput
<1>3. ASSUME NEW p \in {"caller", "worker"}, Broken(p) \/ Take(p) \/ Hand(p) PROVE Output'
  BY <1>3, BrokenOutput, TakeOutput, HandOutput
<1>4. CASE Broken("reader") \/ Take("reader") \/ Hand("reader") \/ Send("reader")
  BY <1>4, ReaderOutput
<1>5. CASE Publish \/ Shut
  BY <1>5, PartOutput
<1>6. CASE Signal \/ Collect
  <2>1. call' = "none"
    BY <1>6 DEF Signal, Collect, ReturnOf
  <2> QED
    BY <2>1, NoOutput
<1>7. ASSUME NEW c \in Conns, Answer(c) PROVE Output'
  BY <1>7, AnswerOutput
<1>8. CASE \/ \E p \in {"caller", "worker"} : Send(p)
           \/ \E loop \in {"lines", "poll"} : Read(loop)
           \/ \E c \in Conns : Work(c) \/ Cut(c)
           \/ UNCHANGED vars
  BY <1>8, OtherOutput
<1> QED
  BY <1>1, <1>2, <1>3, <1>4, <1>5, <1>6, <1>7, <1>8 DEF Next, Client, Server, Procs

LEMMA NextCarried ==
  ASSUME Carried, [Next]_vars
  PROVE  Carried'
<1>1. ASSUME NEW p \in Procs, Fails(p), UNCHANGED item PROVE Carried'
  BY <1>1 DEF Carried, Fails, Onward
<1>2. ASSUME NEW p \in Procs, Take(p) PROVE Carried'
  <2>1. CASE Fails(p) /\ UNCHANGED item
    BY <1>1, <2>1
  <2>2. CASE Detached(p) \/ Started(p)
    BY <2>2 DEF Carried, Detached, Onward, Started
  <2>3. ASSUME NEW r, Banner(p, r) \/ Looped(p, r) PROVE Carried'
    BY <2>3 DEF Carried, Banner, Looped
  <2> QED
    BY <1>2, <2>1, <2>2, <2>3 DEF Take
<1>3. ASSUME NEW p \in Procs, Broken(p) PROVE Carried'
  BY <1>1, <1>3 DEF Broken
<1>4. ASSUME NEW k \in CallKinds, Begin(k) PROVE Carried'
  BY <1>4 DEF Carried, Begin
<1>5. ASSUME NEW p \in Procs, Build(p) PROVE Carried'
  BY <1>5 DEF Carried, Build
<1>6. ASSUME NEW p \in Procs, Hand(p) PROVE Carried'
  BY <1>6 DEF Carried, Hand
<1>7. CASE UNCHANGED <<err, item>>
  BY <1>7 DEF Carried
<1> QED
  BY <1>2, <1>3, <1>4, <1>5, <1>6, <1>7
     DEF Next, Client, Server, vars, Send, Read, Signal, Publish, Shut, Collect, Answer, Work, Cut

\* What a call returns without an error is what its job has printed.
LEMMA NextWhole ==
  ASSUME WInv, WaitForReader, [Next]_vars
  PROVE  Whole'
<1>0. CallInv /\ Output
  BY DEF WInv, PInv
<1>1. CASE UNCHANGED last
  BY <1>1 DEF WInv, Whole
<1>2. CASE call \notin DataCalls /\ last'.call = call
  BY <1>2 DEF Whole, DataCalls
<1>3. CASE last'.err = "error"
  BY <1>3 DEF Whole
<1>4. ASSUME NEW e, last' = [call |-> call, err |-> e, got |-> got, size |-> job[Feed].size],
             Complete(e, Feed)
      PROVE  Whole'
  <2>1. last'.err = e /\ last'.got = got /\ last'.size = job[Feed].size
    BY <1>4
  <2> QED
    BY <1>4, <2>1 DEF Whole, Complete, Upto
<1>5. ASSUME NEW p \in Procs, pc[p] \in Asking, Fails(p), last' # last PROVE Whole'
  <2>1. PICK e : p = "caller" /\ Return(e) /\ e \in {"error", err[p]}
               /\ (e # "error" => pc[p] = "detach")
    <3>1. p # "reader" \/ pc[p] # "detach"
      BY <1>0 DEF CallInv, ReaderOK
    <3> QED
      BY <1>5, <3>1 DEF Fails, Onward, Procs
  <2>2. last' = [call |-> call, err |-> e, got |-> got, size |-> job[via["caller"]].size]
    BY <2>1 DEF Return
  <2>3. last'.call = call /\ last'.err = e
    BY <2>2
  <2>4. CASE call \in DataCalls /\ e # "error"
    <3>1. p = Source /\ via["caller"] = Feed
      BY <1>0, <2>1, <2>4, OnFeed DEF Loop, Asking
    <3>2. Complete(e, Feed)
      BY <1>0, <2>1, <2>4, <3>1 DEF Output
    <3> QED
      BY <1>4, <2>2, <3>1, <3>2
  <2> QED
    BY <1>2, <1>3, <2>3, <2>4
<1>6. ASSUME NEW p \in Procs, Broken(p) PROVE Whole'
  <2>1. pc[p] \in Asking /\ Fails(p)
    BY <1>6 DEF Broken, OpOf, Asking
  <2> QED
    BY <1>1, <1>5, <2>1
<1>7. ASSUME NEW p \in Procs, Take(p), last' # last PROVE Whole'
  <2>0. pc[p] \in Asking
    BY <1>0, <1>7 DEF Take, CallInv, Waiting
  <2>1. CASE Fails(p)
    BY <1>5, <1>7, <2>0, <2>1
  <2>2. CASE pc[p] = "detach" /\ Detached(p)
    <3>1. p = "caller" /\ Return(err[p])
      BY <1>0, <1>7, <2>2 DEF Detached, Onward, CallInv, ReaderOK, Procs
    <3>2. last' = [call |-> call, err |-> err[p], got |-> got, size |-> job[via["caller"]].size]
      BY <3>1 DEF Return
    <3>3. last'.call = call
      BY <3>2
    <3>4. CASE call \in DataCalls
      <4>1. p = Source /\ via["caller"] = Feed
        BY <1>0, <2>2, <3>1, <3>4, OnFeed DEF Loop, Asking
      <4>2. Complete(err[p], Feed)
        BY <1>0, <2>2, <3>4, <4>1 DEF Output
      <4> QED
        BY <1>4, <3>2, <4>1, <4>2
    <3> QED
      BY <1>2, <3>3, <3>4
  <2>3. ASSUME NEW r, pc[p] = "banner", Banner(p, r) PROVE Whole'
    <3>1. call \in Control \union {"trace"}
      BY <1>0, <2>3 DEF CallInv, CallerOK, WorkerOK, ReaderOK, Procs
    <3>2. last'.call = call
      BY <1>7, <2>3 DEF Banner, Return
    <3> QED
      BY <1>2, <3>1, <3>2 DEF DataCalls, Control
  <2> QED
    BY <1>7, <2>0, <2>1, <2>2, <2>3 DEF Take, Started, Looped
<1>8. ASSUME NEW p \in Procs, Build(p), last' # last PROVE Whole'
  <2>1. p = "caller" /\ Return(IF call = "list" THEN "nil" ELSE "error")
    BY <1>8 DEF Build
  <2>2. last'.call = call /\ (call # "list" => last'.err = "error")
    BY <2>1 DEF Return
  <2> QED
    BY <1>2, <1>3, <2>2 DEF DataCalls
<1>9. CASE Signal
  <2>1. last' = [call |-> call, err |-> err["worker"], got |-> got, size |-> job[via["worker"]].size]
        /\ pc["worker"] = "signal"
    BY <1>9 DEF Signal, ReturnOf
  <2>2. call \in DataCalls
    BY <1>0, <2>1 DEF CallInv, CallerOK, WorkerOK, DataCalls
  <2>3. via["worker"] = Feed /\ Source = "worker"
    BY <1>0, <2>1, <2>2, OnFeed
  <2>4. Complete(err["worker"], Feed)
    BY <1>0, <2>1, <2>2, <2>3 DEF Output
  <2> QED
    BY <1>4, <2>1, <2>3, <2>4
<1>10. CASE Collect
  <2>1. last' = [call |-> call, err |-> errCh, got |-> got, size |-> job[via["worker"]].size]
        /\ call = "text" /\ part = "closed"
    BY <1>10 DEF Collect, ReturnOf
  <2>2. via["worker"] = "kept" /\ Complete(errCh, "kept") /\ Feed = "kept"
    BY <1>0, <2>1 DEF Output, DataCalls, Feed
  <2> QED
    BY <1>4, <2>1, <2>2
<1>11. \/ UNCHANGED last \/ Signal \/ Collect
       \/ \E p \in Procs : Broken(p) \/ Take(p) \/ Build(p)
  BY DEF Next, Client, Server, vars, Begin, Read, Send, Hand, Publish, Shut, Answer, Work, Cut
<1> QED
  BY <1>1, <1>6, <1>7, <1>8, <1>9, <1>10, <1>11

\* A call that returns its output without an error returns all of it, in the order
\* the server printed it, however it was cut into lines, chunks and timeouts and
\* whichever goroutine carried it.
THEOREM WholeAlways == WaitForReader => (Spec => []Whole)
<1> SUFFICES ASSUME WaitForReader PROVE Spec => []Whole
  OBVIOUS
<1>1. Init => WInv
  <2> SUFFICES ASSUME Init PROVE WInv
    OBVIOUS
  <2>1. Carried /\ Output /\ Whole
    BY DEF Init, Carried, Output, DataCalls, Whole, NoCall
  <2> QED
    BY <2>1, InitCall, InitLines, InitJobs DEF WInv, PInv
<1>2. WInv /\ [Next]_vars => WInv'
  <2> SUFFICES ASSUME WInv, [Next]_vars PROVE WInv'
    OBVIOUS
  <2>1. PInv' /\ Jobs' /\ Carried'
    BY NextCall, NextLines, NextJobs, NextCarried DEF WInv, PInv
  <2> QED
    BY <2>1, NextOutput, NextWhole DEF WInv
<1>3. WInv => Whole
  BY DEF WInv
<1> QED
  BY <1>1, <1>2, <1>3, PTL DEF Spec

-----------------------------------------------------------------------------
(* Trace sessions: what the session's state and a control call's outcome say    *)
(* is what the server has done.                                                *)

Did == job["trace"].run = Wanted[call]

\* A control call knows that the server did what it asked once the line the server
\* printed about it matches.
Controls ==
  call \in Control /\ via["caller"] = "own" =>
    /\ pc["caller"] \in {"build", "start", "banner", "detach"}
    /\ pc["caller"] = "start" /\ Answered("own") /\ Head(reply["own"]).kind # "error" =>
         (job["own"].match => Did)
    /\ pc["caller"] = "banner" =>
         /\ job["own"].match => Did
         /\ Answered("own") => (Head(reply["own"]).match => job["own"].match)
    /\ pc["caller"] = "detach" /\ err["caller"] = "nil" => Did /\ ts = Becomes[call]

\* Start works on a session that has no state yet, Close on one that has stopped.
Stages ==
  /\ call = "trace" => ts = "none"
  /\ call = "close" /\ via["caller"] = "trace" => ts = "stopped"

HInv == PInv /\ Jobs /\ Carried /\ Controls /\ Stages /\ StateHonest

\* A step that leaves the session, the caller and the control call's answer alone.
LEMMA HonestKeeps ==
  ASSUME Controls, Stages, StateHonest, UNCHANGED <<call, ts, last>>,
         pc'["caller"] = pc["caller"], via'["caller"] = via["caller"], err'["caller"] = err["caller"],
         dead \subseteq dead', reply'["own"] = reply["own"],
         job'["own"].match = job["own"].match, job'["trace"].run = job["trace"].run
  PROVE  Controls' /\ Stages' /\ StateHonest'
<1>1. Answered("own")' => Answered("own")
  BY DEF Answered
<1>2. Did' <=> Did
  BY DEF Did
<1>3. Controls'
  BY <1>1, <1>2 DEF Controls
<1>4. Stages' /\ StateHonest'
  BY DEF Stages, StateHonest
<1> QED
  BY <1>3, <1>4

\* A call that is no control call and changes neither the session nor its job.
LEMMA HonestElse ==
  ASSUME StateHonest, call' \notin Control \union {"trace"}, ts' = ts,
         job'["trace"].run = job["trace"].run,
         (last' = last /\ call' # "none") \/ last'.call \notin Control
  PROVE  Controls' /\ Stages' /\ StateHonest'
BY DEF Controls, Stages, StateHonest, Control

LEMMA BeginHonest ==
  ASSUME HInv, NEW k \in CallKinds, Begin(k)
  PROVE  Controls' /\ Stages' /\ StateHonest'
<1>0. Types /\ StateHonest /\ call' = k /\ k # "none" /\ UNCHANGED <<ts, job, last>> /\ Allowed(k)
  BY DEF HInv, PInv, CallInv, Begin, CallKinds
<1>1. CASE k \notin Control \union {"trace"}
  BY <1>0, <1>1, HonestElse
<1>2. CASE k = "trace"
  BY <1>0, <1>2 DEF Controls, Stages, StateHonest, Control, Allowed
<1>3. CASE k = "close" /\ ts = "stopped"
  <2>1. via' = [via EXCEPT !["caller"] = "trace"]
    BY <1>3 DEF Begin
  <2>2. via'["caller"] = "trace"
    BY <1>0, <2>1 DEF Types, Procs
  <2> QED
    BY <1>0, <1>3, <2>2 DEF Controls, Stages, StateHonest
<1>4. CASE k \in Control /\ ~(k = "close" /\ ts = "stopped")
  <2>1. via' = [via EXCEPT !["caller"] = "own"] /\ pc' = [pc EXCEPT !["caller"] = "build"]
    BY <1>4 DEF Begin, Goto, Control
  <2>2. via'["caller"] = "own" /\ pc'["caller"] = "build"
    BY <1>0, <2>1 DEF Types, Procs
  <2> QED
    BY <1>0, <1>4, <2>2 DEF Controls, Stages, StateHonest, Control
<1> QED
  BY <1>1, <1>2, <1>3, <1>4

LEMMA BuildHonest ==
  ASSUME HInv, NEW p \in Procs, Build(p)
  PROVE  Controls' /\ Stages' /\ StateHonest'
<1>0. CallInv /\ Types /\ Controls /\ Stages /\ StateHonest /\ Jobs /\ pc[p] = "build"
      /\ UNCHANGED <<ts, via>> /\ p \in {"caller", "worker"} /\ call # "none"
      /\ Procs = {"caller", "worker", "reader"}
  BY DEF HInv, PInv, CallInv, Build, ReaderOK, CallerOK, WorkerOK, Procs
<1>1. CASE call' = "none" /\ UNCHANGED job
  <2>1. last'.call = call /\ (call # "list" => last'.err = "error")
    BY <1>0, <1>1 DEF Build, Return
  <2> QED
    BY <1>0, <1>1, <2>1 DEF Controls, Stages, StateHonest, Control
<1>2. CASE p = "worker" /\ call' = call
  <2>1. call = "limbo" /\ via[p] = "own"
    BY <1>0, <1>2 DEF CallInv, WorkerOK
  <2>2. job'["trace"].run = job["trace"].run /\ last' = last
    <3>1. last' = last /\ (UNCHANGED job \/ job' = [job EXCEPT !["own"] = NoJob])
      BY <1>0, <1>2, <2>1 DEF Build
    <3> QED
      BY <1>0, <3>1 DEF Jobs, Conns
  <2> QED
    BY <1>0, <1>2, <2>1, <2>2, HonestElse DEF Control
<1>3. CASE p = "caller" /\ call' = call
  <2>1. /\ reply' = [reply EXCEPT ![via[p]] = <<>>] /\ job' = [job EXCEPT ![via[p]] = NoJob]
        /\ pc' = [pc EXCEPT ![p] = "start"] /\ UNCHANGED <<err, last>>
    BY <1>0, <1>3 DEF Build, Return, Goto
  <2>2. via[p] = "trace" => call = "trace"
    BY <1>0, <1>3 DEF CallInv, CallerOK
  <2>3. pc'["caller"] = "start"
    BY <1>0, <1>3, <2>1 DEF Types
  <2>4. CASE via[p] = "trace"
    BY <1>0, <1>3, <2>1, <2>2, <2>4 DEF Controls, Stages, StateHonest, Control
  <2>5. CASE via[p] # "trace"
    <3>1. job'["trace"] = job["trace"] /\ (via[p] = "own" => reply'["own"] = <<>>)
      BY <1>0, <2>1, <2>5 DEF Jobs, Conns, HInv, PInv, Lines
    <3> QED
      BY <1>0, <1>3, <2>1, <2>3, <2>5, <3>1 DEF Controls, Stages, StateHonest, Answered
  <2> QED
    BY <2>4, <2>5
<1>4. call' \in {call, "none"} /\ (call' = "none" => UNCHANGED job)
  BY <1>0 DEF Build, Return
<1> QED
  BY <1>0, <1>1, <1>2, <1>3, <1>4

\* A control call that fails says so, unless it is only the connection of its own
\* that cannot be closed.
LEMMA FailsHonest ==
  ASSUME HInv, NEW p \in Procs, pc[p] \in Asking, Fails(p),
         UNCHANGED <<job, dead>>, via[p] # "own" => reply'["own"] = reply["own"]
  PROVE  Controls' /\ Stages' /\ StateHonest'
<1>0. CallInv /\ Types /\ Controls /\ Stages /\ StateHonest /\ Carried /\ call' \in {call, "none"}
      /\ UNCHANGED ts /\ (~(pc[p] = "detach" /\ Onward(p)) => UNCHANGED via)
      /\ Procs = {"caller", "worker", "reader"} /\ call \in CallKinds \union {"none"}
  BY DEF HInv, PInv, CallInv, Fails, Return, Procs, Types
<1>1. CASE p = "caller"
  <2>1. call # "none"
    BY <1>0, <1>1 DEF CallInv, CallerOK, Asking
  <2>2. CASE pc[p] = "detach" /\ ~Onward(p)
    <3>1. PICK e : Return(e) /\ e = IF call = "close" /\ via[p] = "trace" THEN "error" ELSE err[p]
      BY <1>1, <2>2 DEF Fails
    <3>2. call' = "none" /\ last'.call = call /\ last'.err = e
      BY <3>1 DEF Return
    <3>3. call \in Control => via["caller"] = "own" \/ (call = "close" /\ via["caller"] = "trace")
      BY <1>0, <1>1, <2>2 DEF CallInv, CallerOK, Loop, Asking, Control
    <3>4. CASE call \in Control /\ e = "nil"
      <4>1. Did
        BY <1>0, <1>1, <2>2, <3>1, <3>3, <3>4 DEF Controls
      <4> QED
        BY <1>0, <3>2, <4>1 DEF Controls, Stages, StateHonest, Did, Control
    <3>5. CASE ~(call \in Control /\ e = "nil")
      BY <1>0, <3>2, <3>5 DEF Controls, Stages, StateHonest, Control
    <3> QED
      BY <3>4, <3>5
  <2>5. CASE pc[p] = "detach" /\ Onward(p)
    <3>1. via' = [via EXCEPT ![p] = "trace"] /\ UNCHANGED <<last, call, pc>>
      BY <1>1, <2>5 DEF Fails
    <3>2. via'["caller"] = "trace"
      BY <1>0, <1>1, <3>1 DEF Types
    <3>3. ts = "stopped"
      BY <1>0, <1>1, <2>5 DEF Controls, Becomes, Control, Onward
    <3> QED
      BY <1>0, <2>1, <3>1, <3>2, <3>3 DEF Controls, Stages, StateHonest
  <2>3. CASE pc[p] # "detach" /\ call' = "none"
    <3>1. last'.call = call /\ call \notin Control
      BY <1>1, <2>1, <2>3 DEF Fails, Onward, Return, Control
    <3> QED
      BY <1>0, <2>3, <3>1 DEF Controls, Stages, StateHonest, Control
  <2>4. CASE pc[p] # "detach" /\ call' = call
    <3>1. /\ err' = [err EXCEPT ![p] = IF call = "list" /\ pc[p] = "lines" THEN "nil" ELSE "error"]
          /\ pc' = [pc EXCEPT ![p] = AfterLoop(p)] /\ UNCHANGED last
      BY <1>1, <2>1, <2>4 DEF Fails, Onward, Return, Goto
    <3>2. pc'["caller"] = "detach" /\ (call # "list" => err'["caller"] = "error")
      BY <1>0, <1>1, <3>1 DEF AfterLoop, Types, Carried
    <3> QED
      BY <1>0, <2>1, <2>4, <3>1, <3>2 DEF Controls, Stages, StateHonest, Control
  <2> QED
    BY <1>0, <2>2, <2>3, <2>4, <2>5
<1>2. CASE p = "worker"
  <2>1. call \in {"limbo", "users", "text"}
    BY <1>0, <1>2 DEF CallInv, CallerOK, WorkerOK, Asking
  <2>2. call' = call /\ last' = last
    BY <1>2, <2>1 DEF Fails, Onward, Return
  <2> QED
    BY <1>0, <2>1, <2>2, HonestElse DEF Control
<1>3. CASE p = "reader"
  <2>1. pc[p] # "detach" /\ via[p] = "trace"
    BY <1>0, <1>3 DEF CallInv, ReaderOK, Asking
  <2>2. UNCHANGED <<call, last>> /\ pc'["caller"] = pc["caller"] /\ err'["caller"] = err["caller"]
    BY <1>0, <1>3, <2>1 DEF Fails, Onward, Goto, Types, Carried
  <2> QED
    BY <1>0, <2>1, <2>2, HonestKeeps
<1> QED
  BY <1>0, <1>1, <1>2, <1>3

LEMMA TakeHonest ==
  ASSUME HInv, WaitForReader, NEW p \in Procs, Take(p)
  PROVE  Controls' /\ Stages' /\ StateHonest'
<1>0. CallInv /\ Types /\ Controls /\ Stages /\ StateHonest /\ Carried /\ pc[p] \in Asking
      /\ UNCHANGED <<job, dead>> /\ Procs = {"caller", "worker", "reader"}
      /\ call \in CallKinds \union {"none"} /\ p \in waits
  BY DEF HInv, PInv, CallInv, Waiting, Take, Procs, Types
<1> DEFINE r == Head(reply[via[p]])
<1>1. (via[p] # "own" => reply'["own"] = reply["own"]) /\ (via[p] = "own" => reply'["own"] = <<>>)
  <2>1. via[p] # "own" => reply'["own"] = reply["own"]
    BY DEF Take, HInv, PInv, Lines, Conns
  <2>2. CASE via[p] = "own"
    <3>1. PICK q \in Procs : Busy("own", q)
      BY <2>2 DEF Take, HInv, PInv, Lines, Quiet, Conns
    <3>2. PICK a : reply["own"] = <<a>>
      BY <2>2, <3>1 DEF Busy, Take
    <3>3. Tail(reply["own"]) = <<>>
      BY <3>2
    <3> QED
      BY <2>2, <3>3 DEF Take, HInv, PInv, Lines, Conns
  <2> QED
    BY <2>1, <2>2
<1>2. CASE r.kind = "error"
  <2>1. Fails(p)
    BY <1>2 DEF Take
  <2> QED
    BY <1>0, <1>1, <2>1, FailsHonest
<1>3. CASE r.kind # "error" /\ p = "worker"
  <2>1. call \in {"limbo", "users", "text"} /\ pc[p] # "banner"
    BY <1>0, <1>3 DEF CallInv, CallerOK, WorkerOK, Asking
  <2>2. Detached(p) \/ Started(p) \/ Looped(p, r)
    BY <1>3, <2>1 DEF Take
  <2>3. call' = call /\ last' = last /\ ts' = ts
    BY <1>3, <2>2 DEF Detached, Onward, Started, Looped
  <2> QED
    BY <1>0, <2>1, <2>3, HonestElse DEF Control
<1>4. CASE r.kind # "error" /\ p = "reader"
  <2>1. pc[p] \in {"lines", "poll", "chunks"} /\ via[p] = "trace"
    BY <1>0, <1>4 DEF CallInv, ReaderOK, Asking
  <2>2. Looped(p, r)
    BY <1>4, <2>1 DEF Take
  <2>3. UNCHANGED <<call, last, ts, err, via>> /\ pc'["caller"] = pc["caller"]
    BY <1>0, <1>4, <2>2 DEF Looped, Goto, Types
  <2> QED
    BY <1>0, <1>1, <2>1, <2>3, HonestKeeps
<1>5. CASE r.kind # "error" /\ p = "caller" /\ pc[p] = "start"
  <2>1. Started(p) /\ UNCHANGED <<call, last, ts, err>>
    BY <1>5 DEF Take, Started
  <2>2. call # "none"
    BY <1>0, <1>5 DEF CallInv, CallerOK
  <2>3. CASE call \in Control /\ via["caller"] = "own"
    <3>1. pc' = [pc EXCEPT !["caller"] = "banner"] /\ via' = via
      BY <1>5, <2>1, <2>3 DEF Started, Goto, Control
    <3>2. pc'["caller"] = "banner"
      BY <1>0, <3>1 DEF Types
    <3>3. job["own"].match => Did
      BY <1>0, <1>5, <2>3 DEF Controls, Take, Answered
    <3> QED
      BY <1>0, <1>1, <1>5, <2>1, <2>2, <2>3, <3>1, <3>2, <3>3
         DEF Controls, Stages, StateHonest, Answered, Did
  <2>4. CASE ~(call \in Control /\ via["caller"] = "own")
    <3>1. via'["caller"] = via["caller"]
      BY <1>0, <2>1 DEF Started, Types
    <3> QED
      BY <1>0, <2>1, <2>2, <2>4, <3>1 DEF Controls, Stages, StateHonest
  <2> QED
    BY <2>3, <2>4
<1>6. CASE r.kind # "error" /\ p = "caller" /\ pc[p] = "banner"
  <2>1. Banner(p, r) /\ call \in Control \union {"trace"}
    BY <1>0, <1>6 DEF Take, CallInv, CallerOK
  <2>2. CASE call = "trace"
    <3>1. CASE r.kind = "line" /\ r.match
      <4>1. call' = "none" /\ last'.call = "trace" /\ ts' = "running"
        BY <2>1, <2>2, <3>1 DEF Banner, Return
      <4> QED
        BY <4>1 DEF Controls, Stages, StateHonest, Control
    <3>2. CASE ~(r.kind = "line" /\ r.match)
      <4>1. UNCHANGED <<call, last, ts, via>>
        BY <2>1, <3>2 DEF Banner
      <4> QED
        BY <1>0, <2>2, <4>1 DEF Controls, Stages, StateHonest, Control
    <3> QED
      BY <3>1, <3>2
  <2>3. CASE call \in Control
    <3>1. via["caller"] = "own" /\ call # "trace" /\ call # "none"
      BY <1>0, <1>6, <2>3 DEF CallInv, CallerOK, Loop, Asking, Control
    <3>2. pc' = [pc EXCEPT !["caller"] = "detach"] /\ UNCHANGED <<via, call, last>>
      BY <1>6, <2>1, <3>1 DEF Banner, Goto
    <3>3. pc'["caller"] = "detach" /\ Did' = Did
      BY <1>0, <3>2 DEF Types, Did
    <3>4. CASE r.kind = "line" /\ r.match
      <4>1. ts' = Becomes[call]
        BY <2>1, <3>1, <3>4 DEF Banner
      <4>2. Did
        BY <1>0, <1>6, <2>3, <3>1, <3>4 DEF Controls, Take, Answered
      <4>3. ts' \in {"stopped", "nil"} => Wanted[call] = "no"
        BY <2>3, <4>1 DEF Becomes, Wanted, Control
      <4> QED
        BY <1>0, <2>3, <3>1, <3>2, <3>3, <4>1, <4>2, <4>3 DEF Controls, Stages, StateHonest, Did
    <3>5. CASE ~(r.kind = "line" /\ r.match)
      <4>1. ts' = ts /\ err'["caller"] = "error"
        BY <1>0, <1>6, <2>1, <3>5 DEF Banner, Carried
      <4> QED
        BY <1>0, <2>3, <3>1, <3>2, <3>3, <4>1 DEF Controls, Stages, StateHonest
    <3> QED
      BY <3>4, <3>5
  <2> QED
    BY <2>1, <2>2, <2>3
<1>7. CASE r.kind # "error" /\ p = "caller" /\ pc[p] \in {"poll", "lines", "chunks"}
  <2>1. Looped(p, r)
    BY <1>7 DEF Take
  <2>2. UNCHANGED <<call, last, ts, err, via>> /\ call # "none"
    BY <1>0, <1>7, <2>1 DEF Looped, CallInv, CallerOK
  <2>3. ~(call \in Control /\ via["caller"] = "own")
    BY <1>0, <1>7 DEF Controls
  <2> QED
    BY <1>0, <2>2, <2>3 DEF Controls, Stages, StateHonest
<1>8. CASE r.kind # "error" /\ p = "caller" /\ pc[p] = "detach"
  <2>1. Detached(p) /\ call # "none"
    BY <1>0, <1>8 DEF Take, CallInv, CallerOK
  <2>2. call \in Control => via["caller"] = "own" \/ (call = "close" /\ via["caller"] = "trace")
    BY <1>0, <1>8 DEF CallInv, CallerOK, Loop, Asking, Control
  <2>3. CASE call = "close" /\ via[p] = "own" /\ err[p] = "nil"
    <3>1. via' = [via EXCEPT ![p] = "trace"] /\ UNCHANGED <<last, call, ts, pc>>
      BY <1>8, <2>1, <2>3 DEF Detached, Onward
    <3>2. via'["caller"] = "trace"
      BY <1>0, <1>8, <3>1 DEF Types
    <3>3. ts = "stopped"
      BY <1>0, <1>8, <2>3 DEF Controls, Becomes, Control
    <3> QED
      BY <1>0, <2>1, <2>3, <3>1, <3>2, <3>3 DEF Controls, Stages, StateHonest
  <2>4. CASE ~(call = "close" /\ via[p] = "own" /\ err[p] = "nil")
    <3>1. Return(err[p]) /\ ts' = IF call = "close" /\ via[p] = "trace" THEN "nil" ELSE ts
      BY <1>8, <2>1, <2>4 DEF Detached, Onward
    <3>2. call' = "none" /\ last'.call = call /\ last'.err = err[p]
      BY <3>1 DEF Return
    <3>3. call \in Control /\ err[p] = "nil" => Did
      <4>1. CASE call \in Control /\ err[p] = "nil" /\ via["caller"] = "own"
        BY <1>0, <1>8, <4>1 DEF Controls
      <4>2. CASE call = "close" /\ via["caller"] = "trace"
        BY <1>0, <4>2 DEF Stages, StateHonest, Did, Wanted
      <4> QED
        BY <2>2, <4>1, <4>2
    <3>4. ts' \in {"stopped", "nil"} => job["trace"].run = "no"
      BY <1>0, <1>8, <3>1 DEF Stages, StateHonest
    <3> QED
      BY <1>0, <3>2, <3>3, <3>4 DEF Controls, Stages, StateHonest, Did, Control
  <2> QED
    BY <2>3, <2>4
<1> QED
  BY <1>0, <1>2, <1>3, <1>4, <1>5, <1>6, <1>7, <1>8 DEF Asking

\* The server answers.  A control request has acted when its answer is made, and what
\* the server prints about it matches only if it found the session.
LEMMA AnswerHonest ==
  ASSUME HInv, WaitForReader, NEW c \in Conns, Answer(c)
  PROVE  Controls' /\ Stages' /\ StateHonest'
<1>0. CallInv /\ Types /\ Controls /\ Stages /\ StateHonest /\ Jobs
      /\ UNCHANGED <<dead, pc, via, err, call, ts, last>>
      /\ job["own"] \in JobType /\ job["trace"] \in JobType
  BY DEF HInv, PInv, CallInv, Answer, Jobs, Conns
<1> DEFINE q == Head(asked[c])
<1>1. PICK p \in Procs : Busy(c, p)
  BY DEF Answer, HInv, PInv, Lines, Quiet
<1>2. q.op = OpOf[pc[p]] /\ pc[p] \in Asking /\ via[p] = c /\ reply[c] = <<>> /\ c \notin dead
  <2>1. asked[c] = <<[op |-> OpOf[pc[p]], by |-> p]>>
    BY <1>1 DEF Answer, Busy
  <2>2. q = [op |-> OpOf[pc[p]], by |-> p]
    BY <2>1
  <2> QED
    BY <1>0, <1>1, <2>2 DEF Busy, CallInv, Waiting, Answer
<1> HIDE DEF q
<1>3. q.op = "start" <=> pc[p] = "start"
  BY <1>2 DEF OpOf, Asking
<1>4. \A d \in Conns \ {c} : reply'[d] = reply[d]
  BY DEF Answer, HInv, PInv, Lines
<1>j. \/ UNCHANGED job
      \/ /\ pc[p] = "start"
         /\ \E n \in 0 .. MaxOut :
              job' = [d \in Conns |-> IF d = c THEN NewJob(c, n)
                                      ELSE IF d = "trace" /\ c = "own" /\ call \in Control
                                           THEN [job[d] EXCEPT !.run = TraceRuns]
                                           ELSE job[d]]
      \/ pc[p] # "start" /\ \E k : job' = [job EXCEPT ![c].given = k]
  BY <1>3 DEF Answer, q
<1>k. ASSUME ~(c = "own" /\ call \in Control), NEW d \in Conns \ {c}
      PROVE  job'[d] = job[d]
  <2> HIDE DEF NewJob
  <2> QED
    BY <1>0, <1>j, <1>k DEF Jobs
<1>5. CASE c = "kept"
  <2>1. call \notin Control \union {"trace"} /\ call # "none"
    BY <1>0, <1>1, <1>2, <1>5 DEF CallInv, CallerOK, WorkerOK, ReaderOK, Procs, Loop, Asking, Control
  <2>3. job'["trace"].run = job["trace"].run
    BY <1>5, <1>k DEF Conns
  <2> QED
    BY <1>0, <2>1, <2>3, HonestElse
<1>6. CASE c = "trace"
  <2>1. reply'["own"] = reply["own"]
    BY <1>4, <1>6 DEF Conns
  <2>2. CASE pc[p] = "start"
    <3>1. call = "trace"
      BY <1>0, <1>1, <1>2, <1>6, <2>2 DEF CallInv, CallerOK, WorkerOK, ReaderOK, Procs, Loop, Asking
    <3> QED
      BY <1>0, <3>1 DEF Controls, Stages, StateHonest, Control
  <2>3. CASE pc[p] # "start"
    <3>1. UNCHANGED job \/ \E k : job' = [job EXCEPT ![c].given = k]
      BY <1>j, <2>3
    <3>2. job'["trace"].run = job["trace"].run /\ job'["own"] = job["own"]
      BY <1>0, <1>6, <3>1 DEF Jobs, JobType, Conns
    <3> QED
      BY <1>0, <2>1, <3>2, HonestKeeps
  <2> QED
    BY <2>2, <2>3
<1>7. CASE c = "own"
  <2>1. p \in {"caller", "worker"} /\ call # "none"
    BY <1>0, <1>1, <1>2, <1>7 DEF CallInv, CallerOK, WorkerOK, ReaderOK, Procs, Asking
  <2>2. CASE call \notin Control
    <3>1. job'["trace"].run = job["trace"].run
      BY <1>7, <1>k, <2>2 DEF Conns
    <3>2. call # "trace"
      BY <1>0, <1>2, <1>7, <2>1 DEF CallInv, CallerOK, WorkerOK, Loop, Asking, Control
    <3> QED
      BY <1>0, <2>1, <2>2, <3>1, <3>2, HonestElse
  <2>3. CASE call \in Control
    <3>1. p = "caller" /\ via["caller"] = "own"
      BY <1>0, <1>2, <1>7, <2>1, <2>3 DEF CallInv, CallerOK, WorkerOK, Asking, Control
    <3>2. ASSUME NEW r, reply' = [reply EXCEPT ![c] = Append(@, r)]
          PROVE  Head(reply'["own"]) = r
      <4>1. reply'[c] = <<r>>
        BY <1>2, <3>2 DEF HInv, PInv, Lines
      <4> QED
        BY <1>7, <4>1
    <3>3. CASE pc[p] = "start" /\ \E n \in 0 .. MaxOut :
                 job' = [d \in Conns |-> IF d = c THEN NewJob(c, n)
                                         ELSE IF d = "trace" /\ c = "own" /\ call \in Control
                                              THEN [job[d] EXCEPT !.run = TraceRuns]
                                              ELSE job[d]]
      <4>1. job'["own"].match = (job["trace"].run # "no")
        <5>1. PICK n \in 0 .. MaxOut : job'[c] = NewJob(c, n)
          BY <3>3
        <5>2. PICK m : m = (job["trace"].run # "no")
          OBVIOUS
        <5>3. NewJob(c, n) = [run |-> "no", size |-> 1, made |-> 1, given |-> 0, match |-> m]
          BY <1>7, <2>3, <5>2, Zenon DEF NewJob
        <5>4. job'["own"].match = m
          BY <1>7, <5>1, <5>3
        <5> QED
          BY <5>2, <5>4
      <4>2. job'["trace"].run = TraceRuns
        BY <1>0, <1>7, <2>3, <3>3 DEF Conns, JobType
      <4>3. job'["own"].match => Did'
        <5>1. job'["own"].match => job["trace"].run # "no"
          BY <4>1, Zenon
        <5> QED
          BY <1>0, <4>2, <5>1 DEF Did, TraceRuns
      <4>4. ts \in {"stopped", "nil"} => job'["trace"].run = "no"
        BY <1>0, <4>2 DEF StateHonest, TraceRuns
      <4> QED
        BY <1>0, <2>1, <2>3, <3>1, <3>3, <4>3, <4>4 DEF Controls, Stages, StateHonest
    <3>4. CASE UNCHANGED job /\ \E r : reply' = [reply EXCEPT ![c] = Append(@, r)]
                                       /\ r.kind = "error" /\ r.match = FALSE
      <4>1. Head(reply'["own"]).kind = "error" /\ Head(reply'["own"]).match = FALSE
        BY <3>2, <3>4
      <4>2. Did' = Did
        BY <1>0, <3>4 DEF Did
      <4> QED
        BY <1>0, <2>1, <2>3, <3>1, <3>4, <4>1, <4>2 DEF Controls, Stages, StateHonest
    <3>5. ASSUME NEW a \in Answers(c, q.op), pc[p] # "start",
                 \E r : reply' = [reply EXCEPT ![c] = Append(@, r)] /\ r.match = a.match,
                 \E k : job' = [job EXCEPT ![c].given = k]
          PROVE  Controls' /\ Stages' /\ StateHonest'
      <4>1. job'["trace"].run = job["trace"].run /\ job'["own"].match = job["own"].match
        BY <1>0, <1>7, <3>5 DEF Jobs, JobType, Conns
      <4>2. Head(reply'["own"]).match = a.match
        BY <3>2, <3>5
      <4>3. a.match => job["own"].match
        BY <1>0, <1>7, AnswersAre
      <4>4. (Head(reply'["own"]).match) => (job'["own"].match)
        BY <4>1, <4>2, <4>3, Zenon
      <4>5. Did' = Did
        BY <1>0, <4>1 DEF Did
      <4>6. Controls'
        BY <1>0, <2>3, <3>1, <3>5, <4>1, <4>4, <4>5 DEF Controls
      <4>7. Stages' /\ StateHonest'
        BY <1>0, <4>1 DEF Stages, StateHonest
      <4> QED
        BY <4>6, <4>7
    <3>6. \/ /\ UNCHANGED job
             /\ \E r : reply' = [reply EXCEPT ![c] = Append(@, r)] /\ r.kind = "error" /\ r.match = FALSE
          \/ /\ pc[p] = "start"
             /\ \E n \in 0 .. MaxOut :
                  job' = [d \in Conns |-> IF d = c THEN NewJob(c, n)
                                          ELSE IF d = "trace" /\ c = "own" /\ call \in Control
                                               THEN [job[d] EXCEPT !.run = TraceRuns]
                                               ELSE job[d]]
          \/ /\ pc[p] # "start"
             /\ \E a \in Answers(c, q.op) :
                  /\ \E r : reply' = [reply EXCEPT ![c] = Append(@, r)] /\ r.match = a.match
                  /\ \E k : job' = [job EXCEPT ![c].given = k]
      <4>1. CASE UNCHANGED job /\ reply' = [reply EXCEPT ![c] = Append(@, [kind |-> "error", units |-> <<>>,
                                                    match |-> FALSE, to |-> q.by])]
        <5>1. PICK r : r = [kind |-> "error", units |-> <<>>, match |-> FALSE, to |-> q.by]
          OBVIOUS
        <5>2. r.kind = "error" /\ r.match = FALSE /\ reply' = [reply EXCEPT ![c] = Append(@, r)]
          BY <4>1, <5>1
        <5> QED
          BY <4>1, <5>2
      <4>2. ASSUME NEW a \in Answers(c, q.op),
                   reply' = [reply EXCEPT ![c] = Append(@, [kind |-> a.kind, units |-> a.units,
                                                            match |-> a.match, to |-> q.by])]
            PROVE  \E r : reply' = [reply EXCEPT ![c] = Append(@, r)] /\ r.match = a.match
        <5>1. PICK r : r = [kind |-> a.kind, units |-> a.units, match |-> a.match, to |-> q.by]
          OBVIOUS
        <5>2. r.match = a.match /\ reply' = [reply EXCEPT ![c] = Append(@, r)]
          BY <4>2, <5>1
        <5> QED
          BY <5>2
      <4> QED
        BY <1>3, <4>1, <4>2 DEF Answer, q
    <3> QED
      BY <3>3, <3>4, <3>5, <3>6
  <2> QED
    BY <2>2, <2>3
<1> QED
  BY <1>5, <1>6, <1>7 DEF Conns

LEMMA OtherHonest ==
  ASSUME HInv,
         \/ \E p \in Procs : Send(p) \/ Hand(p)
         \/ \E loop \in {"lines", "poll"} : Read(loop)
         \/ \E c \in Conns : Work(c) \/ Cut(c)
         \/ Publish \/ Shut
         \/ UNCHANGED vars
  PROVE  Controls' /\ Stages' /\ StateHonest'
<1>0. CallInv /\ Types /\ Controls /\ Stages /\ StateHonest /\ Jobs
      /\ job["own"] \in JobType /\ job["trace"] \in JobType
  BY DEF HInv, PInv, CallInv, Jobs, Conns
<1>1. CASE \E p \in Procs : Hand(p) /\ p # "caller"
  <2>1. UNCHANGED <<call, ts, last, via, err, dead, reply, job>> /\ pc'["caller"] = pc["caller"]
    BY <1>0, <1>1 DEF Hand, Goto, Types
  <2> QED
    BY <1>0, <2>1, HonestKeeps
<1>2. CASE Hand("caller")
  <2>1. UNCHANGED <<call, ts, last, via, err, dead, reply, job>> /\ pc["caller"] \in {"hand", "pass"}
    BY <1>2 DEF Hand
  <2> QED
    BY <1>0, <2>1 DEF Controls, Stages, StateHonest
<1>3. CASE \/ \E p \in Procs : Send(p)
           \/ \E loop \in {"lines", "poll"} : Read(loop)
           \/ \E c \in Conns : Cut(c)
           \/ Publish \/ Shut
           \/ UNCHANGED vars
  <2>1. UNCHANGED <<call, ts, last, err, reply, job>> /\ dead \subseteq dead'
        /\ pc'["caller"] = pc["caller"] /\ via'["caller"] = via["caller"]
    <3>1. CASE \E p \in Procs : Send(p)
      BY <3>1 DEF Send
    <3>2. CASE \E loop \in {"lines", "poll"} : Read(loop)
      BY <1>0, <3>2 DEF Read, Goto, Types
    <3>3. CASE \E c \in Conns : Cut(c)
      BY <3>3 DEF Cut
    <3>4. CASE Publish \/ Shut
      BY <1>0, <3>4 DEF Publish, Shut, Goto, Types, Procs
    <3>5. CASE UNCHANGED vars
      BY <3>5 DEF vars
    <3> QED
      BY <1>3, <3>1, <3>2, <3>3, <3>4, <3>5
  <2> QED
    BY <1>0, <2>1, HonestKeeps
<1>4. ASSUME NEW c \in Conns, Work(c)
      PROVE  Controls' /\ Stages' /\ StateHonest'
  <2>1. UNCHANGED <<call, ts, last, err, reply, dead, pc, via>>
    BY <1>4 DEF Work
  <2>2. CASE job[c].made < job[c].size
    <3>1. job' = [job EXCEPT ![c].made = @ + 1]
      BY <1>4, <2>2 DEF Work
    <3>2. job'["own"].match = job["own"].match /\ job'["trace"].run = job["trace"].run
      BY <1>0, <3>1 DEF Jobs, JobType, Conns
    <3> QED
      BY <1>0, <2>1, <3>2, HonestKeeps
  <2>3. CASE ~(job[c].made < job[c].size)
    <3>1. job' = [job EXCEPT ![c].run = "no"] /\ c # "trace"
      BY <1>4, <2>3 DEF Work
    <3>2. job'["own"].match = job["own"].match /\ job'["trace"].run = job["trace"].run
      BY <1>0, <3>1 DEF Jobs, JobType, Conns
    <3> QED
      BY <1>0, <2>1, <3>2, HonestKeeps
  <2> QED
    BY <2>2, <2>3
<1> QED
  BY <1>1, <1>2, <1>3, <1>4

LEMMA NextHonest ==
  ASSUME HInv, WaitForReader, [Next]_vars
  PROVE  Controls' /\ Stages' /\ StateHonest'
<1>1. ASSUME NEW k \in CallKinds, Begin(k) PROVE Controls' /\ Stages' /\ StateHonest'
  BY <1>1, BeginHonest
<1>2. ASSUME NEW p \in Procs, Build(p) \/ Broken(p) \/ Take(p)
      PROVE  Controls' /\ Stages' /\ StateHonest'
  <2>1. CASE Broken(p)
    <3>1. pc[p] \in Asking /\ Fails(p) /\ UNCHANGED <<job, dead, reply>>
      BY <2>1 DEF Broken, OpOf, Asking
    <3> QED
      BY <3>1, FailsHonest
  <2> QED
    BY <1>2, <2>1, BuildHonest, TakeHonest
<1>3. CASE Signal \/ Collect
  <2>1. call \notin Control \union {"trace"} /\ call' = "none" /\ last'.call = call
        /\ UNCHANGED <<ts, job>>
    <3>1. pc["caller"] = "gather"
      BY <1>3 DEF Signal, Collect
    <3> QED
      BY <1>3, <3>1 DEF Signal, Collect, ReturnOf, HInv, PInv, CallInv, CallerOK, Control
  <2> QED
    BY <2>1, HonestElse DEF HInv, Control
<1>4. ASSUME NEW c \in Conns, Answer(c) PROVE Controls' /\ Stages' /\ StateHonest'
  BY <1>4, AnswerHonest
<1>5. CASE \/ \E p \in Procs : Send(p) \/ Hand(p)
           \/ \E loop \in {"lines", "poll"} : Read(loop)
           \/ \E c \in Conns : Work(c) \/ Cut(c)
           \/ Publish \/ Shut
           \/ UNCHANGED vars
  BY <1>5, OtherHonest
<1> QED
  BY <1>1, <1>2, <1>3, <1>4, <1>5 DEF Next, Client, Server

\* A session that says it has stopped has stopped at the server, and a control call
\* that returns without an error has had its effect there: while the program waits for
\* its reader before it closes, whatever else fails.
THEOREM HonestAlways == WaitForReader => (Spec => []StateHonest)
<1> SUFFICES ASSUME WaitForReader PROVE Spec => []StateHonest
  OBVIOUS
<1>1. Init => HInv
  <2> SUFFICES ASSUME Init PROVE HInv
    OBVIOUS
  <2>1. Carried /\ Controls /\ Stages /\ StateHonest
    BY DEF Init, Carried, Controls, Stages, StateHonest, Control, NoCall
  <2> QED
    BY <2>1, InitCall, InitLines, InitJobs DEF HInv, PInv
<1>2. HInv /\ [Next]_vars => HInv'
  <2> SUFFICES ASSUME HInv, [Next]_vars PROVE HInv'
    OBVIOUS
  <2>1. PInv' /\ Jobs' /\ Carried'
    BY NextCall, NextLines, NextJobs, NextCarried DEF HInv, PInv
  <2> QED
    BY <2>1, NextHonest DEF HInv
<1>3. HInv => StateHonest
  BY DEF HInv
<1> QED
  BY <1>1, <1>2, <1>3, PTL DEF Spec

=============================================================================
