---------------------------- MODULE EventLifecycle ----------------------------
(* How subscriptions to events begin and end.                                 *)
(*                                                                            *)
(* A subscription owns a main and an auxiliary connection and two goroutines: *)
(* the reader of the auxiliary connection (eventManager.wait) and wait, which *)
(* gives Events to the application.  Three callers may end it at the same     *)
(* time: the application (Unsubscribe, Close), the goroutine that             *)
(* FbEvent.Close starts for it, and wait, when the reader reports an error.   *)
(* FbEvent.run takes subscriptions that have ended off the list.              *)
EXTENDS Naturals, FiniteSets

CONSTANTS
    Subs,       \* the subscriptions
    MaxEvents,  \* bound: how many Events the server sends to each
    MayBreak    \* the subscriptions whose connections may break

ASSUME EventsLifecycleAssumption ==
    /\ MaxEvents \in Nat /\ MayBreak \subseteq Subs
    /\ {"select", "ended"} \cap Subs = {}   \* the other values of run

Callers == {"app", "closer", "wait"}

VARIABLES
    sub,          \* newSubscriber: how far the subscription has come
    subscribers,  \* FbEvent.subscribers
    close,        \* FbEvent.Close: where it is
    run,          \* FbEvent.run: in its select, ended, or removing a subscription
    dropped,      \* those that run was told of and did not find in the list
    pc,           \* where each caller of each subscription is
    returned,     \* what Unsubscribe or Close has returned to each caller
    readers,      \* where the reader is
    chErr,        \* is there an error in its channel?
    sent,         \* the Events the server has sent
    mainConn,     \* the connections: main
    auxConn,      \* ... and auxiliary
    closed,       \* Subscription.closed
    once,         \* Subscription.closer: free, finished, or the caller inside
    done,         \* is doneSubscription closed?
    noNotify,     \* Subscription.noNotify
    receiver,     \* has the application asked to be told (NotifyClose)?
    told,         \* has it been told?
    late          \* Events given to an application whose Unsubscribe had returned

fbEvent == <<subscribers, close, run, dropped>>
conns == <<mainConn, auxConn, sent>>
ending == <<closed, once, done, noNotify>>
app == <<receiver, told, late>>
lifeVars == <<sub, fbEvent, pc, returned, readers, chErr, conns, ending, app>>

LifeInit ==
    /\ sub = [s \in Subs |-> "none"]
    /\ subscribers = {}
    /\ close = "open"
    /\ run = "select"
    /\ dropped = {}
    /\ pc = [w \in Callers |-> [s \in Subs |-> "idle"]]
    /\ returned = [w \in Callers |-> [s \in Subs |-> "none"]]
    /\ readers = [s \in Subs |-> "none"]
    /\ chErr = [s \in Subs |-> FALSE]
    /\ sent = [s \in Subs |-> 0]
    /\ mainConn = [s \in Subs |-> "none"]
    /\ auxConn = [s \in Subs |-> "none"]
    /\ closed = [s \in Subs |-> FALSE]
    /\ once = [s \in Subs |-> "free"]
    /\ done = [s \in Subs |-> FALSE]
    /\ noNotify = [s \in Subs |-> FALSE]
    /\ receiver = [s \in Subs |-> FALSE]
    /\ told = [s \in Subs |-> FALSE]
    /\ late = [s \in Subs |-> 0]

----------------------------------------------------------------------------
(* A caller's way through Unsubscribe, Close and doClose.                   *)

Go(w, s, place) == pc' = [pc EXCEPT ![w][s] = place]

\* The caller is through: wait goes back to its select.
Return(w, s, r) ==
    /\ Go(w, s, IF w = "wait" THEN "select" ELSE "returned")
    /\ returned' = [returned EXCEPT ![w][s] = r]

\* Unsubscribe does nothing to a subscription that is closed.
UnsubscribeBegin(w, s) ==
    IF closed[s]
      THEN Return(w, s, "nil")
      ELSE Go(w, s, "manager") /\ UNCHANGED returned

\* The application calls Unsubscribe or Close.
Unsubscribe(s) ==
    /\ sub[s] = "listed"
    /\ pc["app"][s] = "idle"
    /\ UnsubscribeBegin("app", s) \/ (Go("app", s, "close") /\ UNCHANGED returned)
    /\ UNCHANGED <<sub, fbEvent, readers, chErr, conns, ending, app>>

\* unsubscribeNoNotify: run is not to be told.
UnsubscribeNoNotify(s) ==
    /\ pc["closer"][s] = "start"
    /\ noNotify' = [noNotify EXCEPT ![s] = TRUE]
    /\ Go("closer", s, "unsubscribe")
    /\ UNCHANGED <<sub, fbEvent, returned, readers, chErr, conns, closed, once, done, app>>

CloserUnsubscribes(s) ==
    /\ pc["closer"][s] = "unsubscribe"
    /\ UnsubscribeBegin("closer", s)
    /\ UNCHANGED <<sub, fbEvent, readers, chErr, conns, ending, app>>

CloseManager_AlreadyClosed(w, s) ==
    /\ pc[w][s] = "manager"
    /\ auxConn' = [auxConn EXCEPT ![s] = "closed"]
    /\ IF auxConn[s] = "closed"
         THEN Return(w, s, "nil")
         ELSE Go(w, s, "cancel") /\ UNCHANGED returned
    /\ UNCHANGED <<sub, fbEvent, readers, chErr, mainConn, sent, ending, app>>

\* eventManager.close.
CloseManager(w, s) ==
    /\ pc[w][s] = "manager"
    /\ auxConn' = [auxConn EXCEPT ![s] = "closed"]
    /\ Go(w, s, "cancel")
    /\ UNCHANGED <<sub, fbEvent, returned, readers, chErr, mainConn, sent, ending, app>>

\* cancelEvents, before it takes the lock: a closed subscription has nothing to
\* cancel, and Unsubscribe goes on to Close.
CancelBegin(w, s) ==
    /\ pc[w][s] = "cancel"
    /\ Go(w, s, IF closed[s] THEN "close" ELSE "cancelling")
    /\ UNCHANGED <<sub, fbEvent, returned, readers, chErr, conns, ending, app>>

\* cancelEvents, under the lock: if it fails, Unsubscribe ends with its error.
CancelEvents(w, s) ==
    /\ pc[w][s] = "cancelling"
    /\ IF mainConn[s] = "open"
         THEN Go(w, s, "close") /\ UNCHANGED returned
         ELSE Return(w, s, "error")
    /\ UNCHANGED <<sub, fbEvent, readers, chErr, conns, ending, app>>

\* Close and closeWithError look at the flag, and doClose sets it later.
CloseCheck(w, s) ==
    /\ pc[w][s] = "close"
    /\ IF closed[s]
         THEN Return(w, s, "ErrFbEventClosed")
         ELSE Go(w, s, "doClose") /\ UNCHANGED returned
    /\ UNCHANGED <<sub, fbEvent, readers, chErr, conns, ending, app>>

SetClosed(w, s) ==
    /\ pc[w][s] = "doClose"
    /\ closed' = [closed EXCEPT ![s] = TRUE]
    /\ Go(w, s, "once")
    /\ UNCHANGED <<sub, fbEvent, returned, readers, chErr, conns, once, done, noNotify, app>>

EnterOnce_NoOnce(w, s) ==
    /\ pc[w][s] = "once"
    /\ once[s] # "finished"
    /\ once' = [once EXCEPT ![s] = w]
    /\ done' = [done EXCEPT ![s] = TRUE]
    /\ Go(w, s, IF w = "wait" /\ receiver[s] THEN "tell" ELSE "closeConn")
    /\ UNCHANGED <<sub, fbEvent, returned, readers, chErr, conns, closed, noNotify, app>>

\* doClose: one caller gets into the Once, the others wait for it to be over.
EnterOnce(w, s) ==
    /\ pc[w][s] = "once"
    /\ once[s] = "free"
    /\ once' = [once EXCEPT ![s] = w]
    /\ done' = [done EXCEPT ![s] = TRUE]
    /\ Go(w, s, IF w = "wait" /\ receiver[s] THEN "tell" ELSE "closeConn")
    /\ UNCHANGED <<sub, fbEvent, returned, readers, chErr, conns, closed, noNotify, app>>

PassOnce(w, s) ==
    /\ pc[w][s] = "once"
    /\ once[s] = "finished"
    /\ Return(w, s, "nil")
    /\ UNCHANGED <<sub, fbEvent, readers, chErr, conns, ending, app>>

\* doClose: c <- err, when the application receives.
TellReceiver(s) ==
    /\ pc["wait"][s] = "tell"
    /\ told' = [told EXCEPT ![s] = TRUE]
    /\ Go("wait", s, "closeConn")
    /\ UNCHANGED <<sub, fbEvent, returned, readers, chErr, conns, ending, receiver, late>>

\* doClose: the main connection is closed, then noNotify looked at.
CloseConn(w, s) ==
    /\ pc[w][s] = "closeConn"
    /\ mainConn' = [mainConn EXCEPT ![s] = "closed"]
    /\ IF noNotify[s]
         THEN Return(w, s, "nil") /\ once' = [once EXCEPT ![s] = "finished"]
         ELSE Go(w, s, "chDone") /\ UNCHANGED <<returned, once>>
    /\ UNCHANGED <<sub, fbEvent, readers, chErr, auxConn, sent, closed, done, noNotify, app>>

\* doClose: chDoneEvent <- s, when run is in its select.
SendDone(w, s) ==
    /\ pc[w][s] = "chDone"
    /\ run = "select"
    /\ run' = s
    /\ once' = [once EXCEPT ![s] = "finished"]
    /\ Return(w, s, "nil")
    /\ UNCHANGED <<sub, subscribers, close, dropped, readers, chErr, conns, closed,
                   done, noNotify, app>>

----------------------------------------------------------------------------
(* FbEvent.                                                                 *)

\* newSubscription: the connections are made and both goroutines are started.
NewSubscription(s) ==
    /\ sub[s] = "none"
    /\ sub' = [sub EXCEPT ![s] = "made"]
    /\ mainConn' = [mainConn EXCEPT ![s] = "open"]
    /\ auxConn' = [auxConn EXCEPT ![s] = "open"]
    /\ readers' = [readers EXCEPT ![s] = "read"]
    /\ Go("wait", s, "select")
    /\ UNCHANGED <<fbEvent, returned, chErr, sent, ending, app>>

\* newSubscription fails after it has attached: it leaves the main connection.
NewSubscriptionFails(s) ==
    /\ s \in MayBreak
    /\ sub[s] = "none"
    /\ sub' = [sub EXCEPT ![s] = "failed"]
    /\ mainConn' = [mainConn EXCEPT ![s] = "open"]
    /\ UNCHANGED <<fbEvent, pc, returned, readers, chErr, auxConn, sent, ending, app>>

\* newSubscriber appends it to the list, whether or not FbEvent is closed.
NewSubscriber(s) ==
    /\ sub[s] = "made"
    /\ sub' = [sub EXCEPT ![s] = "listed"]
    /\ subscribers' = subscribers \union {s}
    /\ UNCHANGED <<close, run, dropped, pc, returned, readers, chErr, conns, ending, app>>

\* The application calls NotifyClose: it waits for muClose, which doClose holds
\* while it is in the Once.
NotifyClose(s) ==
    /\ sub[s] = "listed"
    /\ ~receiver[s]
    /\ once[s] \notin Callers
    /\ receiver' = [receiver EXCEPT ![s] = TRUE]
    /\ UNCHANGED <<sub, fbEvent, pc, returned, readers, chErr, conns, ending, told, late>>

\* FbEvent.doClose, to wg.Wait: a goroutine for each subscription in the list.
FbClose ==
    /\ close = "open"
    /\ close' = "closing"
    /\ pc' = [pc EXCEPT !["closer"] =
                 [s \in Subs |-> IF s \in subscribers THEN "start" ELSE "idle"]]
    /\ subscribers' = {}
    /\ UNCHANGED <<sub, run, dropped, returned, readers, chErr, conns, ending, app>>

\* wg.Wait ends, and close(e.done).
FbClosed ==
    /\ close = "closing"
    /\ \A s \in Subs : pc["closer"][s] \in {"idle", "returned"}
    /\ close' = "closed"
    /\ UNCHANGED <<sub, subscribers, run, dropped, pc, returned, readers, chErr, conns,
                   ending, app>>

\* run: shutdownSubscriber, under the lock.
ShutdownSubscriber ==
    /\ run \in Subs
    /\ subscribers' = subscribers \ {run}
    /\ dropped' = IF run \in subscribers THEN dropped ELSE dropped \union {run}
    /\ run' = "select"
    /\ UNCHANGED <<sub, close, pc, returned, readers, chErr, conns, ending, app>>

RunEnds_Default ==
    /\ run = "select"
    /\ run' = "ended"
    /\ UNCHANGED <<sub, subscribers, close, dropped, pc, returned, readers, chErr, conns,
                   ending, app>>

\* run: <-e.done.
RunEnds ==
    /\ run = "select"
    /\ close = "closed"
    /\ run' = "ended"
    /\ UNCHANGED <<sub, subscribers, close, dropped, pc, returned, readers, chErr, conns,
                   ending, app>>

----------------------------------------------------------------------------
(* The two goroutines of a subscription, and its connections.               *)

\* The reader gets an Event.
ReaderEvent(s) ==
    /\ readers[s] = "read"
    /\ auxConn[s] = "open"
    /\ sent[s] < MaxEvents
    /\ sent' = [sent EXCEPT ![s] = @ + 1]
    /\ readers' = [readers EXCEPT ![s] = "send"]
    /\ UNCHANGED <<sub, fbEvent, pc, returned, chErr, mainConn, auxConn, ending, app>>

\* The reader gets an error, leaves it in its channel and ends.
ReaderError(s) ==
    /\ readers[s] = "read"
    /\ auxConn[s] # "open"
    /\ chErr' = [chErr EXCEPT ![s] = TRUE]
    /\ readers' = [readers EXCEPT ![s] = "ended"]
    /\ UNCHANGED <<sub, fbEvent, pc, returned, conns, ending, app>>

\* wait: event := <-s.eventCounts.
WaitEvent(s) ==
    /\ pc["wait"][s] = "select"
    /\ readers[s] = "send"
    /\ readers' = [readers EXCEPT ![s] = "read"]
    /\ Go("wait", s, "deliver")
    /\ UNCHANGED <<sub, fbEvent, returned, chErr, conns, ending, app>>

\* wait: doEventCounts, when the application receives, and queueEvents, whose
\* error is dropped.
WaitDelivers(s) ==
    /\ pc["wait"][s] = "deliver"
    /\ Go("wait", s, "select")
    /\ late' = IF pc["app"][s] = "returned" THEN [late EXCEPT ![s] = @ + 1] ELSE late
    /\ UNCHANGED <<sub, fbEvent, returned, readers, chErr, conns, ending, receiver, told>>

\* wait: <-s.doneSubscription.
WaitEnds(s) ==
    /\ pc["wait"][s] = "select"
    /\ done[s]
    /\ Go("wait", s, "ended")
    /\ UNCHANGED <<sub, fbEvent, returned, readers, chErr, conns, ending, app>>

\* wait: err := <-chErrManager, and closeWithError.
WaitError(s) ==
    /\ pc["wait"][s] = "select"
    /\ chErr[s]
    /\ chErr' = [chErr EXCEPT ![s] = FALSE]
    /\ Go("wait", s, "close")
    /\ UNCHANGED <<sub, fbEvent, returned, readers, conns, ending, app>>

\* The server goes away.
Break(s) ==
    /\ s \in MayBreak
    /\ mainConn[s] = "open"
    /\ mainConn' = [mainConn EXCEPT ![s] = "broken"]
    /\ auxConn' = [auxConn EXCEPT ![s] = IF @ = "open" THEN "broken" ELSE @]
    /\ UNCHANGED <<sub, fbEvent, pc, returned, readers, chErr, sent, ending, app>>

\* The server drops the auxiliary connection of a main connection that is gone.
ServerDrops(s) ==
    /\ mainConn[s] = "closed"
    /\ auxConn[s] = "open"
    /\ auxConn' = [auxConn EXCEPT ![s] = "broken"]
    /\ UNCHANGED <<sub, fbEvent, pc, returned, readers, chErr, mainConn, sent, ending, app>>

----------------------------------------------------------------------------
\* What a caller does on its own, once it is in Unsubscribe or Close.
CallerStep(w, s) ==
    \/ CloseManager(w, s) \/ CancelBegin(w, s) \/ CancelEvents(w, s)
    \/ CloseCheck(w, s) \/ SetClosed(w, s) \/ EnterOnce(w, s) \/ PassOnce(w, s)
    \/ CloseConn(w, s) \/ SendDone(w, s)

CloserStep(s) ==
    UnsubscribeNoNotify(s) \/ CloserUnsubscribes(s) \/ CallerStep("closer", s)

WaitStep(s) ==
    \/ WaitEvent(s) \/ WaitDelivers(s) \/ WaitEnds(s) \/ WaitError(s)
    \/ TellReceiver(s) \/ CallerStep("wait", s)

ReaderStep(s) == ReaderEvent(s) \/ ReaderError(s)

RunStep == ShutdownSubscriber \/ RunEnds

LifeNext ==
    \/ \E s \in Subs :
          \/ NewSubscription(s) \/ NewSubscriptionFails(s) \/ NewSubscriber(s)
          \/ NotifyClose(s) \/ Unsubscribe(s)
          \/ Break(s) \/ ServerDrops(s)
          \/ CallerStep("app", s) \/ CloserStep(s) \/ WaitStep(s) \/ ReaderStep(s)
    \/ FbClose \/ FbClosed \/ RunStep

LifeSpec == LifeInit /\ [][LifeNext]_lifeVars

\* Goroutines that can run do, connections answer or fail, and the application
\* goes on receiving Events and close errors.
LifeFairSpec ==
    /\ LifeSpec
    /\ WF_lifeVars(FbClosed)
    /\ WF_lifeVars(RunStep)
    /\ \A s \in Subs :
          /\ WF_lifeVars(NewSubscriber(s))
          /\ WF_lifeVars(CallerStep("app", s))
          /\ WF_lifeVars(CloserStep(s))
          /\ WF_lifeVars(WaitStep(s))
          /\ WF_lifeVars(ReaderStep(s))
          /\ WF_lifeVars(ServerDrops(s))

----------------------------------------------------------------------------
(* Properties.                                                              *)

\* A subscription is ended once, by one caller, whoever else is on the way; when
\* it has ended it is not in the list any longer, or is being taken off, unless
\* run was told of it before newSubscriber had listed it.
NoStaleSubscriber ==
    /\ \A s \in Subs, w \in Callers :
          once[s] = w <=> pc[w][s] \in {"tell", "closeConn", "chDone"}
    /\ \A s \in subscribers : once[s] = "finished" => run = s \/ s \in dropped

\* When FbEvent.Close returns, each subscription that was in the list is closed,
\* whoever closed it, or the error of its Unsubscribe is among those returned.
CloseReachesAll ==
    close = "closed" =>
        \A s \in Subs : pc["closer"][s] = "returned" =>
            closed[s] \/ returned["closer"][s] = "error"

\* FbEvent.Close returns, whoever ends its subscriptions at the same time.
CloseEnds == close = "closing" ~> close = "closed"

\* Unsubscribe and Close return, unless FbEvent.Close ends first and stops run.
UnsubscribeEnds ==
    \A s \in Subs :
        pc["app"][s] \notin {"idle", "returned"} ~>
            (pc["app"][s] = "returned" \/ close = "closed")

\* A subscription that was ended, or has lost its connections, closes the main
\* one, and its wait goroutine ends, too, unless FbEvent is closed first.
SubscriptionEnds ==
    \A s \in Subs :
        (sub[s] = "listed" /\ (closed[s] \/ mainConn[s] = "broken")) ~>
            /\ mainConn[s] = "closed"
            /\ pc["wait"][s] = "ended" \/ close = "closed"

\* Whoever ends a subscription, and however often, all of it comes to an end:
\* the calls of event.go and subscriber.go, and the goroutines behind them.
EveryEndEnds == CloseEnds /\ UnsubscribeEnds /\ SubscriptionEnds

\* event.go: "Close closes FbEvent and all subscribers".
CloseClosesAll ==
    close = "closed" => \A s \in Subs : sub[s] = "listed" => closed[s]

\* event_parity_test.go: "after Unsubscribe no further deliveries arrive".
SilentAfterUnsubscribe == \A s \in Subs : late[s] = 0
==============================================================================
