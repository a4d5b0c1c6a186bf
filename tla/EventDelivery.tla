---------------------------- MODULE EventDelivery ----------------------------
(* One subscription to Firebird events: how often an event was posted, told   *)
(* to the application through two connections and two goroutines.             *)
(*                                                                            *)
(* A request (op_que_events, on the main connection) carries a threshold for  *)
(* each event.  The server answers it once, on the auxiliary connection, when *)
(* an event has reached its threshold, with the counts of all events.  The    *)
(* reader goroutine (eventManager.wait) turns the difference to the counts it *)
(* knew into Events; the subscription's goroutine (Subscription.wait) gives   *)
(* each to the application and then sends another request.                    *)
EXTENDS Integers, Sequences, FiniteSets

CONSTANTS
    Events,        \* the names subscribed to, in the order given
    PostedBefore,  \* how often an event may have been posted beforehand
    MaxPosts,      \* bound: how often an event is posted altogether
    MayFail        \* can the main connection fail?

Names == {Events[i] : i \in DOMAIN Events}

ASSUME EventsAssumption ==
    /\ Events \in Seq(Names) /\ Events # <<>>
    /\ \A i, j \in DOMAIN Events : Events[i] = Events[j] => i = j
ASSUME BoundsAssumption ==
    PostedBefore \in Nat /\ MaxPosts \in Nat /\ MayFail \in BOOLEAN

VARIABLES
    posted,    \* server: how often each event has been posted
    requests,  \* server: the requests not answered yet, numbered
    aux,       \* the buffers on their way on the auxiliary connection
    counts,    \* remoteEvent.counts
    result,    \* reader: the Counts still to be sent on eventCounts
    place,     \* where Subscription.wait is
    event,     \* Subscription.wait: the Event received last
    epb,       \* the buffer of the request being sent
    asked,     \* how many requests have been sent
    failed,    \* has a request failed?
    reported   \* what the Counts given to the application add up to

server == <<posted, requests>>
reader == <<aux, counts, result>>
vars == <<server, reader, place, event, epb, asked, failed, reported>>

Counts == [Names -> Nat]
Zero == [n \in Names |-> 0]

BuildEpb_OffByOne(c) == [n \in Names |-> c[n] + 2]

\* The thresholds of a request: one more than the counts known.
BuildEpb(c) == [n \in Names |-> c[n] + 1]

\* The counts the server sends: one more than the postings.
EventBuffer == [n \in Names |-> posted[n] + 1]

\* newSubscription: counts are cleared and the first request is about to go.
Init ==
    /\ posted \in [Names -> 0 .. PostedBefore]
    /\ requests = {}
    /\ aux = <<>>
    /\ counts = Zero
    /\ result = Zero
    /\ place = "queue"
    /\ event \in [name : Names, count : {0}]
    /\ epb = Zero
    /\ asked = 0
    /\ failed = FALSE
    /\ reported = Zero

----------------------------------------------------------------------------
(* The server.                                                              *)

\* A transaction commits that has posted the events of S.
Post(S) ==
    /\ \A n \in S : posted[n] < MaxPosts
    /\ posted' = [n \in Names |-> IF n \in S THEN posted[n] + 1 ELSE posted[n]]
    /\ UNCHANGED <<requests, reader, place, event, epb, asked, failed, reported>>

\* A request is due when one of its events has reached the threshold.
Due(r) == \E n \in Names : posted[n] >= r.epb[n]

\* The server answers a request that is due, with the counts of all events.
Fire(r) ==
    /\ Due(r)
    /\ requests' = requests \ {r}
    /\ aux' = Append(aux, EventBuffer)
    /\ UNCHANGED <<posted, counts, result, place, event, epb, asked, failed, reported>>

----------------------------------------------------------------------------
(* The reader goroutine of the auxiliary connection.                        *)

\* The names whose Event is still to be sent: those that differ.
Changed == {n \in Names : result[n] # 0}

GetEventCounts_NotCopied ==
    /\ Changed = {}
    /\ aux # <<>>
    /\ aux' = Tail(aux)
    /\ counts' = [n \in Names |-> Head(aux)[n] - 1]
    /\ result' = [n \in Names |-> counts'[n]]
    /\ UNCHANGED <<server, place, event, epb, asked, failed, reported>>

\* getEventCounts: what the buffer adds to the counts known before.
GetEventCounts ==
    /\ Changed = {}
    /\ aux # <<>>
    /\ aux' = Tail(aux)
    /\ counts' = [n \in Names |-> Head(aux)[n] - 1]
    /\ result' = [n \in Names |-> counts'[n] - counts[n]]
    /\ UNCHANGED <<server, place, event, epb, asked, failed, reported>>

\* eventCounts <- count: unbuffered, so it is sent when wait is ready for it,
\* in the order of the names.
SendCount ==
    /\ place = "select"
    /\ \E i \in DOMAIN Events :
          /\ Events[i] \in Changed
          /\ \A j \in 1 .. i - 1 : Events[j] \notin Changed
          /\ event' = [name |-> Events[i], count |-> result[Events[i]]]
          /\ result' = [result EXCEPT ![Events[i]] = 0]
    /\ place' = "deliver"
    /\ UNCHANGED <<server, aux, counts, epb, asked, failed, reported>>

----------------------------------------------------------------------------
(* The goroutine of the subscription.                                       *)

DoEventCounts_NoRequest ==
    /\ place = "deliver"
    /\ place' = "select"
    /\ reported' = [reported EXCEPT ![event.name] = @ + event.count]
    /\ UNCHANGED <<server, reader, event, epb, asked, failed>>

\* doEventCounts: the application's callback is started, or it receives.
DoEventCounts ==
    /\ place = "deliver"
    /\ place' = "queue"
    /\ reported' = [reported EXCEPT ![event.name] = @ + event.count]
    /\ UNCHANGED <<server, reader, event, epb, asked, failed>>

\* queueEvents, to the point where opQueEvents is sent.
QueueEvents ==
    /\ place = "queue"
    /\ place' = "response"
    /\ epb' = BuildEpb(counts)
    /\ UNCHANGED <<server, reader, event, asked, failed, reported>>

\* queueEvents, after the server has taken the request and answered.
Queued ==
    /\ place = "response"
    /\ place' = "select"
    /\ requests' = requests \union {[no |-> asked, epb |-> epb]}
    /\ asked' = asked + 1
    /\ UNCHANGED <<posted, reader, event, epb, failed, reported>>

\* queueEvents fails, and wait drops its error.
QueueFails ==
    /\ MayFail
    /\ place = "response"
    /\ place' = "select"
    /\ failed' = TRUE
    /\ UNCHANGED <<server, reader, event, epb, asked, reported>>

----------------------------------------------------------------------------
Driver == GetEventCounts \/ SendCount \/ DoEventCounts \/ QueueEvents
          \/ Queued \/ QueueFails

Next ==
    \/ \E S \in SUBSET Names : S # {} /\ Post(S)
    \/ \E r \in requests : Fire(r)
    \/ Driver

Spec == Init /\ [][Next]_vars

\* The server answers each request that is due, both goroutines run, and the
\* application goes on receiving.
FairSpec ==
    /\ Spec
    /\ WF_vars(\E r \in requests : Fire(r))
    /\ WF_vars(GetEventCounts)
    /\ WF_vars(SendCount)
    /\ WF_vars(DoEventCounts)
    /\ WF_vars(QueueEvents)
    /\ WF_vars(Queued \/ QueueFails)

----------------------------------------------------------------------------
(* Properties.                                                              *)

\* The types.  A request's number is that of an earlier request.
TypeOK ==
    /\ posted \in [Names -> Nat]
    /\ requests \subseteq [no : 0 .. asked - 1, epb : Counts]
    /\ aux \in Seq(Counts)
    /\ counts \in Counts
    /\ result \in [Names -> Int]
    /\ place \in {"select", "deliver", "queue", "response"}
    /\ event \in [name : Names, count : Int]
    /\ epb \in Counts
    /\ asked \in Nat
    /\ failed \in BOOLEAN
    /\ reported \in Counts

\* What the Event in hand of the subscription's goroutine still has to add.
InHand(n) ==
    IF place = "deliver" /\ event.name = n THEN event.count ELSE 0

\* Event counts are conserved: what was reported and what the two goroutines
\* hold is exactly what remoteEvent.counts says, at every moment.
Conserved ==
    \A n \in Names : reported[n] + InHand(n) + result[n] = counts[n]

\* No Event is negative or empty, whichever requests overlap: the counts that
\* getEventCounts reads never go back.
Forward ==
    /\ \A n \in Names : result[n] >= 0
    /\ place = "deliver" => event.count > 0

\* The counts of n that the server has sent are never behind those known
\* already, in the order of the auxiliary connection, and never ahead of the
\* postings.
InOrder(n) ==
    /\ counts[n] <= posted[n]
    /\ \A i \in DOMAIN aux : counts[n] + 1 <= aux[i][n] /\ aux[i][n] <= posted[n] + 1
    /\ \A i, j \in DOMAIN aux : i <= j => aux[i][n] <= aux[j][n]

Ordered == \A n \in Names : InOrder(n)

\* Nothing is in the hands of the driver or on its way to it.
Quiet == aux = <<>> /\ Changed = {} /\ place = "select"

\* The subscription never falls deaf: once everything on its way is told, a
\* request is due for any event posted since.  (getEventCounts gives no Event
\* for a buffer that changes nothing, and then no request follows.)
NeverDeaf ==
    Quiet /\ ~failed =>
        \A n \in Names : posted[n] > counts[n] => \E r \in requests : Due(r)

\* Each posting is reported at last, unless a request failed (wait drops the
\* error of queueEvents).
Delivered ==
    \A n \in Names, k \in 1 .. MaxPosts :
        posted[n] = k ~> (reported[n] >= k \/ failed)

\* Nothing is reported twice and nothing that was not posted: the subscription
\* implements EventFeed.
Feed == INSTANCE EventFeed WITH Names <- Names, posted <- posted, reported <- reported
FeedSpec == Feed!Spec
==============================================================================
