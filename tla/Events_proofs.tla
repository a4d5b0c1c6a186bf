------------------------- MODULE Events_proofs -------------------------
(* Theorems about the events of the driver, in two parts.                     *)
(* EventDelivery, for any list of distinct names and any number of postings:  *)
(* type correctness, conservation of the counts, that the subscription never  *)
(* falls deaf, and that it implements EventFeed.                              *)
(* EventLifecycle, for any number of subscriptions, any number of Events and  *)
(* any connections that break: no subscription that is over stays in the      *)
(* list, and FbEvent.Close reaches all it found there.                        *)
EXTENDS EventDelivery, EventLifecycle, TLAPS

\* The driver knows of news the last request did not count on: it has a buffer
\* on its way, an Event to send, or a request to make for the counts it has.
Awaited ==
    \/ failed
    \/ \E r \in requests : r.epb = BuildEpb(counts)
    \/ place = "response" /\ epb = BuildEpb(counts)
    \/ place \in {"deliver", "queue"}
    \/ Changed # {}
    \/ \E i \in DOMAIN aux : aux[i] # BuildEpb(counts)

IInv == TypeOK /\ Conserved /\ Forward /\ Ordered /\ Awaited

\* newSubscription establishes the invariant.
LEMMA Initial == Init => IInv
<1> SUFFICES ASSUME Init PROVE IInv
    OBVIOUS
<1>1. TypeOK
  <2>1. posted \in [Names -> Nat]
      BY BoundsAssumption DEF Init
  <2>2. Zero \in Counts /\ Zero \in [Names -> Int]
      BY DEF Zero, Counts
  <2>3. aux \in Seq(Counts) /\ event \in [name : Names, count : Int]
      BY DEF Init
  <2> QED BY <2>1, <2>2, <2>3 DEF Init, TypeOK
<1>2. Conserved /\ Forward /\ Ordered
    BY BoundsAssumption DEF Init, Conserved, InHand, Forward, Ordered, InOrder, Counts, Zero
<1>3. Awaited
    BY DEF Init, Awaited
<1> QED BY <1>1, <1>2, <1>3 DEF IInv

\* A posting leaves the driver alone.
LEMMA PostStep ==
    ASSUME IInv, NEW S \in SUBSET Names, Post(S) PROVE IInv'
<1> USE DEF IInv, Post, reader
<1>1. /\ posted' \in [Names -> Nat]
      /\ \A n \in Names : posted'[n] >= posted[n]
    BY DEF TypeOK
<1>2. TypeOK'
    BY <1>1 DEF TypeOK
<1>3. Conserved' /\ Forward'
    BY DEF Conserved, InHand, Forward
<1>4. Ordered'
  <2> SUFFICES ASSUME NEW n \in Names PROVE InOrder(n)'
      BY DEF Ordered
  <2>1. /\ posted[n] \in Nat /\ posted'[n] \in Nat /\ counts[n] \in Nat
        /\ \A i \in DOMAIN aux : aux[i][n] \in Nat
      BY <1>1 DEF TypeOK, Counts
  <2>2. InOrder(n) /\ posted'[n] >= posted[n] /\ counts' = counts /\ aux' = aux
      BY <1>1 DEF Ordered
  <2> HIDE DEF IInv, Post
  <2> QED BY <2>1, <2>2 DEF InOrder
<1>5. Awaited'
    BY DEF Awaited, Changed
<1> QED BY <1>2, <1>3, <1>4, <1>5

\* The buffer of a request that is due is news, and the latest there is.
LEMMA FireStep ==
    ASSUME IInv, NEW r \in requests, Fire(r) PROVE IInv'
<1> USE DEF IInv, Fire
<1>0. aux \in Seq(Counts) /\ posted \in [Names -> Nat] /\ aux' = Append(aux, EventBuffer)
    BY DEF TypeOK
<1>1. EventBuffer \in Counts /\ aux' \in Seq(Counts)
    BY <1>0 DEF Counts, EventBuffer
<1>2. TypeOK'
    BY <1>1 DEF TypeOK
<1>3. Conserved' /\ Forward'
    BY DEF Conserved, InHand, Forward
<1>4. /\ Len(aux') = Len(aux) + 1
      /\ aux'[Len(aux) + 1] = EventBuffer
      /\ \A i \in DOMAIN aux : i \in DOMAIN aux' /\ aux'[i] = aux[i]
      /\ \A i \in DOMAIN aux' : i \in DOMAIN aux \/ i = Len(aux) + 1
  <2> HIDE DEF IInv, Fire
  <2> QED BY <1>0, <1>1
<1>5. Ordered'
  <2> SUFFICES ASSUME NEW n \in Names PROVE InOrder(n)'
      BY DEF Ordered
  <2>1. EventBuffer[n] = posted[n] + 1
      BY DEF EventBuffer
  <2>2. counts'[n] <= posted'[n] /\ counts'[n] = counts[n] /\ posted'[n] = posted[n]
      BY DEF Ordered, InOrder
  <2>3. /\ counts[n] \in Nat /\ posted[n] \in Nat
        /\ \A i \in DOMAIN aux : aux[i][n] \in Nat
      BY DEF TypeOK, Counts
  <2>4. ASSUME NEW i \in DOMAIN aux'
        PROVE  /\ counts[n] + 1 <= aux'[i][n]
               /\ aux'[i][n] <= posted[n] + 1
      BY <1>4, <2>1, <2>2, <2>3 DEF Ordered, InOrder
  <2>5. ASSUME NEW i \in DOMAIN aux', NEW j \in DOMAIN aux', i <= j
        PROVE  aux'[i][n] <= aux'[j][n]
    <3>1. CASE j \in DOMAIN aux
      <4>1. i \in DOMAIN aux
          BY <1>4, <2>5, <3>1 DEF TypeOK
      <4> QED BY <1>4, <2>5, <3>1, <4>1 DEF Ordered, InOrder
    <3>2. CASE j = Len(aux) + 1
        BY <1>4, <2>1, <2>3, <2>4, <3>2
    <3> QED BY <1>4, <3>1, <3>2
  <2> QED BY <2>2, <2>4, <2>5 DEF InOrder
<1>6. Awaited'
  <2>1. CASE r.epb = BuildEpb(counts)
    <3>1. PICK n \in Names : posted[n] >= r.epb[n]
        BY DEF Due
    <3>2. EventBuffer[n] # BuildEpb(counts)[n]
        BY SMTT(30), <2>1, <3>1 DEF TypeOK, Counts, EventBuffer, BuildEpb
    <3>3. aux'[Len(aux) + 1] # BuildEpb(counts) /\ Len(aux) + 1 \in DOMAIN aux'
        BY <1>4, <3>2 DEF TypeOK
    <3> QED BY <3>3 DEF Awaited
  <2>2. CASE r.epb # BuildEpb(counts)
      BY <1>4, <2>2 DEF Awaited, Changed
  <2> QED BY <2>1, <2>2
<1> QED BY <1>2, <1>3, <1>5, <1>6

\* getEventCounts moves what is new from the buffer to the reader's Events.
LEMMA GetEventCountsStep ==
    ASSUME IInv, GetEventCounts PROVE IInv'
<1> USE DEF IInv, GetEventCounts, server
<1>1. Head(aux) = aux[1] /\ 1 \in DOMAIN aux /\ aux[1] \in Counts
    BY DEF TypeOK
<1>2. /\ Len(aux') = Len(aux) - 1
      /\ \A i \in DOMAIN aux' : i + 1 \in DOMAIN aux /\ aux'[i] = aux[i + 1]
      /\ aux' \in Seq(Counts)
    BY DEF TypeOK
<1>3. ASSUME NEW n \in Names
      PROVE  /\ counts'[n] = aux[1][n] - 1
             /\ counts'[n] \in Nat
             /\ counts'[n] >= counts[n]
             /\ result'[n] = counts'[n] - counts[n]
             /\ result[n] = 0
  <2>1. aux[1][n] \in Nat /\ counts[n] \in Nat
      BY <1>1 DEF TypeOK, Counts
  <2>2. counts[n] + 1 <= aux[1][n]
      BY <1>1 DEF Ordered, InOrder
  <2>3. counts'[n] = aux[1][n] - 1
      BY <1>1
  <2>4. result'[n] = counts'[n] - counts[n]
      OBVIOUS
  <2>5. result[n] = 0
      BY DEF Changed
  <2> HIDE DEF IInv, GetEventCounts
  <2> QED BY <2>1, <2>2, <2>3, <2>4, <2>5
<1>4. counts' \in Counts /\ result' \in [Names -> Int]
  <2>1. counts' = [n \in Names |-> counts'[n]] /\ result' = [n \in Names |-> result'[n]]
      OBVIOUS
  <2>2. \A n \in Names : counts[n] \in Nat
      BY DEF TypeOK, Counts
  <2> HIDE DEF IInv, GetEventCounts
  <2> QED BY <1>3, <2>1, <2>2 DEF Counts
<1>5. TypeOK'
    BY <1>2, <1>4 DEF TypeOK
<1>6. Conserved'
  <2> SUFFICES ASSUME NEW n \in Names
               PROVE  reported'[n] + InHand(n)' + result'[n] = counts'[n]
      BY DEF Conserved
  <2>1. InHand(n)' = InHand(n) /\ InHand(n) \in Int
      BY DEF InHand, TypeOK
  <2>2. reported[n] + InHand(n) + result[n] = counts[n]
      BY DEF Conserved
  <2>3. reported[n] \in Nat /\ counts[n] \in Nat
      BY DEF TypeOK, Counts
  <2> QED BY <1>3, <2>1, <2>2, <2>3
<1>7. Forward'
  <2>1. \A n \in Names : counts[n] \in Nat
      BY DEF TypeOK, Counts
  <2>2. \A n \in Names : result'[n] >= 0
    <3> HIDE DEF IInv, GetEventCounts
    <3> QED BY <1>3, <2>1
  <2> QED BY <2>2 DEF Forward
<1>8. Ordered'
  <2> SUFFICES ASSUME NEW n \in Names PROVE InOrder(n)'
      BY DEF Ordered
  <2>1. \A i \in DOMAIN aux : aux[1][n] <= aux[i][n] /\ aux[i][n] <= posted[n] + 1
    <3>1. \A i \in DOMAIN aux : 1 <= i
        BY DEF TypeOK
    <3> QED BY <1>1, <3>1 DEF Ordered, InOrder
  <2>2. \A i \in DOMAIN aux : aux[i][n] \in Nat
      BY DEF TypeOK, Counts
  <2>3. posted[n] \in Nat /\ posted' = posted
      BY DEF TypeOK
  <2>4. counts'[n] <= posted'[n]
      BY <1>1, <1>3, <2>1, <2>2, <2>3
  <2>5. ASSUME NEW i \in DOMAIN aux'
        PROVE  counts'[n] + 1 <= aux'[i][n] /\ aux'[i][n] <= posted'[n] + 1
      BY <1>1, <1>2, <1>3, <2>1, <2>2, <2>3
  <2>6. ASSUME NEW i \in DOMAIN aux', NEW j \in DOMAIN aux', i <= j
        PROVE  aux'[i][n] <= aux'[j][n]
    <3>1. i + 1 \in DOMAIN aux /\ j + 1 \in DOMAIN aux /\ i + 1 <= j + 1
        BY <1>2, <2>6
    <3>2. aux[i + 1][n] <= aux[j + 1][n]
        BY <3>1 DEF Ordered, InOrder
    <3> QED BY <1>2, <3>2
  <2> QED BY <2>4, <2>5, <2>6 DEF InOrder
<1>9. Awaited'
  <2>1. CASE aux[1] = BuildEpb(counts)
    <3>1. \A n \in Names : counts'[n] = counts[n]
        BY <1>3, <2>1 DEF BuildEpb, TypeOK, Counts
    <3>2. counts' = counts
        BY <1>4, <3>1 DEF TypeOK, Counts
    <3>3. ASSUME NEW i \in DOMAIN aux, aux[i] # BuildEpb(counts)
          PROVE  \E j \in DOMAIN aux' : aux'[j] # BuildEpb(counts')
      <4>1. i # 1 /\ i \in 1 .. Len(aux)
          BY <2>1, <3>3 DEF TypeOK
      <4>2. i - 1 \in DOMAIN aux'
          BY <1>2, <4>1 DEF TypeOK
      <4>3. aux'[i - 1] = aux[i]
          BY <1>2, <4>1, <4>2
      <4> QED BY <3>2, <3>3, <4>2, <4>3
    <3>4. \/ failed
          \/ \E r \in requests : r.epb = BuildEpb(counts)
          \/ place = "response" /\ epb = BuildEpb(counts)
          \/ place \in {"deliver", "queue"}
          \/ \E i \in DOMAIN aux : aux[i] # BuildEpb(counts)
        BY DEF Awaited
    <3> QED BY <3>2, <3>3, <3>4 DEF Awaited
  <2>2. CASE aux[1] # BuildEpb(counts)
    <3>1. PICK n \in Names : aux[1][n] # counts[n] + 1
        BY <1>1, <2>2 DEF BuildEpb, Counts
    <3>2. result'[n] # 0
      <4>1. counts[n] \in Nat /\ aux[1][n] \in Nat
          BY <1>1 DEF TypeOK, Counts
      <4> HIDE DEF IInv, GetEventCounts
      <4> QED BY <1>3, <3>1, <4>1
    <3> QED BY <3>2 DEF Awaited, Changed
  <2> QED BY <2>1, <2>2
<1> QED BY <1>5, <1>6, <1>7, <1>8, <1>9

\* The Event sent leaves the reader and is in the hand of the subscription.
LEMMA SendCountStep ==
    ASSUME IInv, SendCount PROVE IInv'
<1> USE DEF IInv, SendCount, server
<1>1. PICK i \in DOMAIN Events :
          /\ Events[i] \in Changed
          /\ event' = [name |-> Events[i], count |-> result[Events[i]]]
          /\ result' = [result EXCEPT ![Events[i]] = 0]
    OBVIOUS
<1> DEFINE sending == Events[i]
<1>2. /\ sending \in Names
      /\ result[sending] \in Int /\ result[sending] > 0
      /\ event'.name = sending /\ event'.count = result[sending]
  <2>1. sending \in Names /\ result[sending] # 0
      BY <1>1 DEF Changed
  <2>2. result[sending] \in Int /\ result[sending] >= 0
      BY <2>1 DEF TypeOK, Forward
  <2> QED BY <1>1, <2>1, <2>2
<1>3. TypeOK'
  <2>1. event' \in [name : Names, count : Int] /\ result' \in [Names -> Int]
      BY <1>1, <1>2 DEF TypeOK
  <2> QED BY <2>1 DEF TypeOK
<1>4. Conserved'
  <2> SUFFICES ASSUME NEW n \in Names
               PROVE  reported'[n] + InHand(n)' + result'[n] = counts'[n]
      BY DEF Conserved
  <2>1. /\ reported[n] \in Nat /\ counts[n] \in Nat /\ result[n] \in Int
        /\ reported' = reported /\ counts' = counts
      BY DEF TypeOK, Counts
  <2>2. InHand(n) = 0 /\ reported[n] + InHand(n) + result[n] = counts[n]
      BY DEF Conserved, InHand
  <2>3. result'[n] = IF n = sending THEN 0 ELSE result[n]
      BY <1>1 DEF TypeOK
  <2>4. InHand(n)' = IF n = sending THEN result[n] ELSE 0
      BY <1>2 DEF InHand
  <2> HIDE DEF IInv, SendCount, sending
  <2> QED BY <2>1, <2>2, <2>3, <2>4
<1>5. Forward'
  <2>1. \A n \in Names : result'[n] >= 0
      BY <1>1 DEF Forward, TypeOK
  <2> QED BY <1>2, <2>1 DEF Forward
<1>6. Ordered'
    BY DEF Ordered, InOrder
<1>7. Awaited'
    BY DEF Awaited
<1> QED BY <1>3, <1>4, <1>5, <1>6, <1>7

\* What was in the hand of the subscription is reported.
LEMMA DoEventCountsStep ==
    ASSUME IInv, DoEventCounts PROVE IInv'
<1> USE DEF IInv, DoEventCounts, server, reader
<1>1. /\ event.name \in Names /\ event.count \in Nat
      /\ \A n \in Names : reported[n] \in Nat
    BY DEF TypeOK, Forward, Counts
<1>2. \A n \in Names :
          reported'[n] = IF event.name = n THEN reported[n] + event.count ELSE reported[n]
    BY DEF TypeOK, Counts
<1>3. TypeOK'
  <2>1. reported' \in Counts
    <3>1. reported' = [n \in Names |-> reported'[n]]
        BY DEF TypeOK, Counts
    <3> HIDE DEF IInv, DoEventCounts
    <3> QED BY <1>1, <1>2, <3>1 DEF Counts
  <2> QED BY <2>1 DEF TypeOK
<1>4. Conserved'
  <2> SUFFICES ASSUME NEW n \in Names
               PROVE  reported'[n] + InHand(n)' + result'[n] = counts'[n]
      BY DEF Conserved
  <2>1. /\ counts[n] \in Nat /\ result[n] \in Int
        /\ result' = result /\ counts' = counts
      BY DEF TypeOK, Counts
  <2>2. /\ InHand(n) = (IF event.name = n THEN event.count ELSE 0)
        /\ InHand(n)' = 0
        /\ reported[n] + InHand(n) + result[n] = counts[n]
      BY DEF Conserved, InHand
  <2> HIDE DEF IInv, DoEventCounts
  <2> QED BY <1>1, <1>2, <2>1, <2>2
<1>5. Forward' /\ Ordered'
    BY DEF Forward, Ordered, InOrder
<1>6. Awaited'
    BY DEF Awaited
<1> QED BY <1>3, <1>4, <1>5, <1>6

\* A request is sent for the counts known at that moment.
LEMMA QueueEventsStep ==
    ASSUME IInv, QueueEvents PROVE IInv'
<1> USE DEF IInv, QueueEvents, server, reader
<1>1. BuildEpb(counts) \in Counts
    BY DEF TypeOK, Counts, BuildEpb
<1>2. TypeOK'
    BY <1>1 DEF TypeOK
<1>3. Conserved' /\ Forward' /\ Ordered'
    BY DEF Conserved, InHand, Forward, Ordered, InOrder
<1>4. Awaited'
    BY DEF Awaited
<1> QED BY <1>2, <1>3, <1>4

\* The server holds the request.
LEMMA QueuedStep ==
    ASSUME IInv, Queued PROVE IInv'
<1> USE DEF IInv, Queued, reader
<1>1. TypeOK'
  <2>1. asked' \in Nat
      BY DEF TypeOK
  <2>2. ASSUME NEW r \in requests PROVE r \in [no : 0 .. asked' - 1, epb : Counts]
    <3>1. r \in [no : 0 .. asked - 1, epb : Counts] /\ asked \in Nat
        BY DEF TypeOK
    <3> QED BY <3>1
  <2>3. [no |-> asked, epb |-> epb] \in [no : 0 .. asked' - 1, epb : Counts]
      BY DEF TypeOK
  <2>4. requests' \subseteq [no : 0 .. asked' - 1, epb : Counts]
      BY <2>2, <2>3
  <2> QED BY <2>1, <2>4 DEF TypeOK
<1>2. Conserved' /\ Forward' /\ Ordered'
    BY DEF Conserved, InHand, Forward, Ordered, InOrder
<1>3. Awaited'
  <2>1. CASE epb = BuildEpb(counts)
    <3>1. [no |-> asked, epb |-> epb] \in requests'
        OBVIOUS
    <3>2. \E r \in requests' : r.epb = BuildEpb(counts)
        BY <2>1, <3>1
    <3> QED BY <3>2 DEF Awaited
  <2>2. CASE epb # BuildEpb(counts)
    <3>1. requests \subseteq requests'
        OBVIOUS
    <3> QED BY <2>2, <3>1 DEF Awaited, Changed
  <2> QED BY <2>1, <2>2
<1> QED BY <1>1, <1>2, <1>3

\* A request that failed is remembered.
LEMMA QueueFailsStep ==
    ASSUME IInv, QueueFails PROVE IInv'
<1> USE DEF IInv, QueueFails, server, reader
<1>1. TypeOK'
  <2>1. place' \in {"select", "deliver", "queue", "response"} /\ failed' \in BOOLEAN
      OBVIOUS
  <2> QED BY <2>1 DEF TypeOK
<1>2. Conserved' /\ Forward' /\ Ordered' /\ Awaited'
    BY DEF Conserved, InHand, Forward, Ordered, InOrder, Awaited
<1> QED BY <1>1, <1>2

\* Every step preserves the invariant.
LEMMA Preserved == IInv /\ [Next]_vars => IInv'
<1> SUFFICES ASSUME IInv, [Next]_vars PROVE IInv'
    OBVIOUS
<1>1. ASSUME NEW S \in SUBSET Names, Post(S) PROVE IInv'
    BY <1>1, PostStep
<1>2. ASSUME NEW r \in requests, Fire(r) PROVE IInv'
    BY <1>2, FireStep
<1>3. CASE GetEventCounts
    BY <1>3, GetEventCountsStep
<1>4. CASE SendCount
    BY <1>4, SendCountStep
<1>5. CASE DoEventCounts
    BY <1>5, DoEventCountsStep
<1>6. CASE QueueEvents
    BY <1>6, QueueEventsStep
<1>7. CASE Queued
    BY <1>7, QueuedStep
<1>8. CASE QueueFails
    BY <1>8, QueueFailsStep
<1>9. CASE UNCHANGED vars
    BY <1>9 DEF vars, server, reader, IInv, TypeOK, Conserved, InHand, Forward,
                Ordered, InOrder, Awaited, Changed
<1> QED BY <1>1, <1>2, <1>3, <1>4, <1>5, <1>6, <1>7, <1>8, <1>9 DEF Next, Driver

\* The inductive invariant holds throughout.
THEOREM Invariance == Spec => []IInv
<1> QED BY Initial, Preserved, PTL DEF Spec

\* Type correctness: in particular no count is ever negative.
THEOREM TypeCorrect == Spec => []TypeOK
<1>1. IInv => TypeOK
    BY DEF IInv
<1> QED BY <1>1, Invariance, PTL

\* What was reported and what is in hand is what the driver counts, whichever
\* requests overlap.
THEOREM ConservedAlways == Spec => []Conserved
<1>1. IInv => Conserved
    BY DEF IInv
<1> QED BY <1>1, Invariance, PTL

\* No Event is empty or negative.
THEOREM ForwardAlways == Spec => []Forward
<1>1. IInv => Forward
    BY DEF IInv
<1> QED BY <1>1, Invariance, PTL

\* A subscription with nothing in hand has a request at the server that is due
\* for any further posting, as long as no request failed.
THEOREM NeverDeafAlways == Spec => []NeverDeaf
<1>1. IInv => NeverDeaf
  <2> SUFFICES ASSUME IInv, Quiet, ~failed, NEW n \in Names, posted[n] > counts[n]
               PROVE  \E r \in requests : Due(r)
      BY DEF NeverDeaf
  <2>1. PICK r \in requests : r.epb = BuildEpb(counts)
      BY DEF IInv, Awaited, Quiet
  <2>2. posted[n] >= r.epb[n]
      BY <2>1 DEF IInv, TypeOK, Counts, BuildEpb
  <2> QED BY <2>2 DEF Due
<1> QED BY <1>1, Invariance, PTL

\* What was reported never exceeds the postings.
LEMMA NotAhead ==
    ASSUME IInv, NEW n \in Names
    PROVE  reported[n] + InHand(n) <= posted[n]
<1>1. /\ reported[n] \in Nat /\ counts[n] \in Nat /\ posted[n] \in Nat
      /\ result[n] \in Int /\ InHand(n) \in Int
    BY DEF IInv, TypeOK, Counts, InHand
<1>2. /\ reported[n] + InHand(n) + result[n] = counts[n]
      /\ result[n] >= 0
      /\ counts[n] <= posted[n]
    BY DEF IInv, Conserved, Forward, Ordered, InOrder
<1> QED BY <1>1, <1>2

\* A subscription implements EventFeed: a posting is a posting, giving an Event
\* to the application reports it, and everything else stutters.
THEOREM Implements == Spec => FeedSpec
<1>1. Init => Feed!Init
    BY BoundsAssumption DEF Init, Feed!Init, Zero
<1>2. IInv /\ [Next]_vars => [Feed!Next]_<<posted, reported>>
  <2> SUFFICES ASSUME IInv, [Next]_vars PROVE [Feed!Next]_<<posted, reported>>
      OBVIOUS
  <2>1. ASSUME NEW S \in SUBSET Names, Post(S) PROVE Feed!Post
      BY <2>1 DEF Post, IInv, TypeOK, Feed!Post
  <2>2. ASSUME NEW r \in requests, Fire(r) PROVE UNCHANGED <<posted, reported>>
      BY <2>2 DEF Fire
  <2>3. CASE DoEventCounts
    <3>1. /\ event.name \in Names /\ event.count \in Int /\ event.count > 0
          /\ InHand(event.name) = event.count
          /\ reported[event.name] \in Nat
        BY <2>3 DEF DoEventCounts, IInv, TypeOK, Forward, Counts, InHand
    <3>2. reported[event.name] + event.count <= posted[event.name]
        BY <3>1, NotAhead
    <3>3. /\ reported'[event.name] = reported[event.name] + event.count
          /\ \A m \in Names \ {event.name} : reported'[m] = reported[m]
          /\ posted' = posted
        BY <2>3 DEF DoEventCounts, IInv, TypeOK, Counts, server
    <3>4. reported' \in [Names -> Nat]
        BY <2>3, DoEventCountsStep DEF IInv, TypeOK, Counts
    <3>5. Feed!Report(event.name)
        BY <3>1, <3>2, <3>3, <3>4 DEF Feed!Report
    <3> QED BY <3>1, <3>5 DEF Feed!Next
  <2>4. CASE GetEventCounts \/ SendCount \/ QueueEvents \/ Queued \/ QueueFails
      BY <2>4 DEF GetEventCounts, SendCount, QueueEvents, Queued, QueueFails, server
  <2>5. CASE UNCHANGED vars
      BY <2>5 DEF vars, server
  <2> QED BY <2>1, <2>2, <2>3, <2>4, <2>5 DEF Next, Driver, Feed!Next
<1> QED BY <1>1, <1>2, Invariance, PTL DEF Spec, FeedSpec, Feed!Spec

-----------------------------------------------------------------------------
(* The ends of subscriptions.                                                *)

CallerPlaces == {"idle", "start", "unsubscribe", "manager", "cancel", "cancelling",
                 "close", "doClose", "once", "tell", "closeConn", "chDone", "returned",
                 "select", "deliver", "ended"}
Inside == {"tell", "closeConn", "chDone"}

LifeType ==
    /\ sub \in [Subs -> {"none", "failed", "made", "listed"}]
    /\ subscribers \in SUBSET Subs
    /\ dropped \in SUBSET Subs
    /\ close \in {"open", "closing", "closed"}
    /\ run \in Subs \union {"select", "ended"}
    /\ pc \in [Callers -> [Subs -> CallerPlaces]]
    /\ returned \in [Callers -> [Subs -> {"none", "nil", "error", "ErrFbEventClosed"}]]
    /\ closed \in [Subs -> BOOLEAN]
    /\ noNotify \in [Subs -> BOOLEAN]
    /\ once \in [Subs -> Callers \union {"free", "finished"}]

\* The Once has the caller that is inside it.
Locked == \A s \in Subs, w \in Callers : once[s] = w <=> pc[w][s] \in Inside

\* doClose sets the flag before it comes to the Once.
ClosedFirst ==
    \A s \in Subs, w \in Callers : pc[w][s] \in Inside \union {"once"} => closed[s]

\* FbEvent.Close has a goroutine for subscriptions it has taken off the list, which
\* are not appended again; only these leave run without notice.
Taken ==
    \A s \in Subs :
        /\ pc["closer"][s] # "idle" =>
               sub[s] = "listed" /\ s \notin subscribers /\ close # "open"
        /\ noNotify[s] => pc["closer"][s] # "idle"

\* Nobody is ending a subscription that was not made.
Unmade ==
    \A s \in Subs :
        /\ s \in subscribers => sub[s] = "listed"
        /\ sub[s] \in {"none", "failed"} =>
               once[s] = "free" /\ \A w \in Callers : pc[w][s] = "idle"

\* Of every subscription that is over and is in the list, or has yet to come into
\* it, run is being told, or was told in vain.
Reported ==
    \A s \in Subs :
        once[s] = "finished" /\ (s \in subscribers \/ sub[s] = "made") =>
            run = s \/ s \in dropped

Reached ==
    \A s \in Subs : pc["closer"][s] = "returned" =>
        closed[s] \/ returned["closer"][s] = "error"

LifeInv == /\ LifeType /\ Locked /\ ClosedFirst /\ Taken /\ Unmade /\ Reported /\ Reached

invVars == <<sub, subscribers, dropped, close, run, pc, returned, closed, noNotify, once>>

----------------------------------------------------------------------------
LEMMA InitInv ==
    ASSUME LifeInit
    PROVE  LifeInv
<1>1. LifeType
  BY DEF LifeInit, LifeType, Callers, CallerPlaces
<1>2. Locked /\ ClosedFirst
  BY DEF LifeInit, Locked, ClosedFirst, Inside, Callers
<1>3. Taken /\ Unmade /\ Reported /\ Reached
  BY DEF LifeInit, Taken, Unmade, Reported, Reached, Callers
<1> QED
  BY <1>1, <1>2, <1>3 DEF LifeInv

\* A step that changes none of these variables.
LEMMA FrameInv ==
    ASSUME LifeInv, UNCHANGED invVars
    PROVE  LifeInv'
BY DEF invVars, LifeInv, LifeType, Locked, ClosedFirst, Taken, Unmade, Reported, Reached

\* A caller moves on, outside the Once.
LEMMA MoveInv ==
    ASSUME LifeInv, NEW w \in Callers, NEW s \in Subs, NEW at \in CallerPlaces,
           Go(w, s, at), pc[w][s] \notin Inside,
           sub[s] \in {"made", "listed"},
           w = "closer" => pc[w][s] # "idle",
           at \notin Inside \union {"idle", "returned"},
           at = "once" => closed[s],
           UNCHANGED <<sub, subscribers, dropped, close, run, returned, closed,
                       noNotify, once>>
    PROVE  LifeInv'
<1>1. LifeType'
  BY DEF LifeInv, LifeType, Go
<1>2. Locked'
  BY DEF LifeInv, LifeType, Locked, Go
<1>3. ClosedFirst'
  BY DEF LifeInv, LifeType, ClosedFirst, Go
<1>4. Taken'
  BY DEF LifeInv, LifeType, Taken, Go, Callers
<1>5. Unmade' /\ Reported'
  BY DEF LifeInv, LifeType, Unmade, Reported, Go
<1>6. Reached'
  BY DEF LifeInv, LifeType, Reached, Go, Callers
<1> QED
  BY <1>1, <1>2, <1>3, <1>4, <1>5, <1>6 DEF LifeInv

\* A caller returns; the one of FbEvent.Close knows the subscription closed, or has
\* an error to return.
LEMMA ReturnInv ==
    ASSUME LifeInv, NEW w \in Callers, NEW s \in Subs,
           NEW r \in {"nil", "error", "ErrFbEventClosed"},
           Return(w, s, r), pc[w][s] \notin Inside,
           sub[s] \in {"made", "listed"},
           w = "closer" => pc[w][s] # "idle" /\ (closed[s] \/ r = "error"),
           UNCHANGED <<sub, subscribers, dropped, close, run, closed, noNotify, once>>
    PROVE  LifeInv'
<1> DEFINE at == IF w = "wait" THEN "select" ELSE "returned"
<1>1. at \in CallerPlaces /\ at \notin Inside \union {"idle", "once"}
  BY DEF CallerPlaces, Inside
<1>2. pc' = [pc EXCEPT ![w][s] = at]
  BY DEF Return, Go
<1>3. LifeType'
  BY <1>1, <1>2 DEF LifeInv, LifeType, Return
<1>4. Locked' /\ ClosedFirst'
  BY <1>1, <1>2 DEF LifeInv, LifeType, Locked, ClosedFirst
<1>5. Taken'
  BY <1>1, <1>2 DEF LifeInv, LifeType, Taken, Callers
<1>6. Unmade' /\ Reported'
  BY <1>1, <1>2 DEF LifeInv, LifeType, Unmade, Reported
<1>7. Reached'
  BY <1>1, <1>2 DEF LifeInv, LifeType, Reached, Return, Callers
<1> QED
  BY <1>3, <1>4, <1>5, <1>6, <1>7 DEF LifeInv

\* Whoever is on the way is on the way to the end of a subscription that was made.
LEMMA Made ==
    ASSUME LifeInv, NEW w \in Callers, NEW s \in Subs, pc[w][s] # "idle"
    PROVE  sub[s] \in {"made", "listed"}
BY DEF LifeInv, LifeType, Unmade

----------------------------------------------------------------------------
(* The calls.                                                                *)

LEMMA UnsubscribeBeginInv ==
    ASSUME LifeInv, NEW w \in Callers, NEW s \in Subs, UnsubscribeBegin(w, s),
           pc[w][s] \notin Inside, sub[s] \in {"made", "listed"},
           w = "closer" => pc[w][s] # "idle",
           UNCHANGED <<sub, subscribers, dropped, close, run, closed, noNotify, once>>
    PROVE  LifeInv'
<1>1. CASE closed[s]
  BY <1>1, ReturnInv DEF UnsubscribeBegin
<1>2. CASE ~closed[s]
  BY <1>2, MoveInv DEF UnsubscribeBegin, CallerPlaces, Inside
<1> QED
  BY <1>1, <1>2

LEMMA UnsubscribeInv ==
    ASSUME LifeInv, NEW s \in Subs, Unsubscribe(s)
    PROVE  LifeInv'
<1>1. "app" \in Callers /\ pc["app"][s] \notin Inside /\ sub[s] \in {"made", "listed"}
  BY DEF Unsubscribe, Callers, Inside
<1>2. UNCHANGED <<sub, subscribers, dropped, close, run, closed, noNotify, once>>
  BY DEF Unsubscribe, fbEvent, ending
<1>3. CASE UnsubscribeBegin("app", s)
  BY <1>1, <1>2, <1>3, UnsubscribeBeginInv
<1>4. CASE Go("app", s, "close") /\ UNCHANGED returned
  BY <1>1, <1>2, <1>4, MoveInv DEF CallerPlaces, Inside
<1> QED
  BY <1>3, <1>4 DEF Unsubscribe

LEMMA UnsubscribeNoNotifyInv ==
    ASSUME LifeInv, NEW s \in Subs, UnsubscribeNoNotify(s)
    PROVE  LifeInv'
<1>1. "closer" \in Callers /\ pc["closer"][s] = "start"
  BY DEF UnsubscribeNoNotify, Callers
<1>2. LifeType'
  BY <1>1 DEF UnsubscribeNoNotify, Go, fbEvent, LifeInv, LifeType, CallerPlaces
<1>3. Locked' /\ ClosedFirst'
  BY <1>1 DEF UnsubscribeNoNotify, Go, LifeInv, LifeType, Locked, ClosedFirst, Inside
<1>4. Taken'
  BY <1>1 DEF UnsubscribeNoNotify, Go, fbEvent, LifeInv, LifeType, Taken
<1>5. Unmade' /\ Reported' /\ Reached'
  BY <1>1 DEF UnsubscribeNoNotify, Go, fbEvent, LifeInv, LifeType, Unmade, Reported,
     Reached, Callers
<1> QED
  BY <1>2, <1>3, <1>4, <1>5 DEF LifeInv

LEMMA CloserUnsubscribesInv ==
    ASSUME LifeInv, NEW s \in Subs, CloserUnsubscribes(s)
    PROVE  LifeInv'
<1>1. "closer" \in Callers /\ pc["closer"][s] \notin Inside \union {"idle"}
  BY DEF CloserUnsubscribes, Callers, Inside
<1>2. sub[s] \in {"made", "listed"}
  BY <1>1, Made
<1> QED
  BY <1>1, <1>2, UnsubscribeBeginInv DEF CloserUnsubscribes, fbEvent, ending

LEMMA CloseManagerInv ==
    ASSUME LifeInv, NEW w \in Callers, NEW s \in Subs, CloseManager(w, s)
    PROVE  LifeInv'
<1>1. pc[w][s] = "manager" /\ pc[w][s] \notin Inside \union {"idle"}
  BY DEF CloseManager, Inside
<1>2. sub[s] \in {"made", "listed"}
  BY <1>1, Made
<1>3. UNCHANGED <<sub, subscribers, dropped, close, run, closed, noNotify, once>>
  BY DEF CloseManager, fbEvent, ending
<1> QED
  BY <1>1, <1>2, <1>3, MoveInv DEF CloseManager, CallerPlaces, Inside

LEMMA CancelBeginInv ==
    ASSUME LifeInv, NEW w \in Callers, NEW s \in Subs, CancelBegin(w, s)
    PROVE  LifeInv'
<1>1. pc[w][s] = "cancel" /\ pc[w][s] \notin Inside \union {"idle"}
  BY DEF CancelBegin, Inside
<1>2. sub[s] \in {"made", "listed"}
  BY <1>1, Made
<1>3. UNCHANGED <<sub, subscribers, dropped, close, run, closed, noNotify, once>>
  BY DEF CancelBegin, fbEvent, ending
<1> QED
  BY <1>1, <1>2, <1>3, MoveInv DEF CancelBegin, CallerPlaces, Inside

LEMMA CancelEventsInv ==
    ASSUME LifeInv, NEW w \in Callers, NEW s \in Subs, CancelEvents(w, s)
    PROVE  LifeInv'
<1>1. pc[w][s] = "cancelling" /\ pc[w][s] \notin Inside \union {"idle"}
  BY DEF CancelEvents, Inside
<1>2. sub[s] \in {"made", "listed"}
  BY <1>1, Made
<1>3. UNCHANGED <<sub, subscribers, dropped, close, run, closed, noNotify, once>>
  BY DEF CancelEvents, fbEvent, ending
<1>4. CASE mainConn[s] = "open"
  BY <1>1, <1>2, <1>3, <1>4, MoveInv DEF CancelEvents, CallerPlaces, Inside
<1>5. CASE mainConn[s] # "open"
  BY <1>1, <1>2, <1>3, <1>5, ReturnInv DEF CancelEvents
<1> QED
  BY <1>4, <1>5

LEMMA CloseCheckInv ==
    ASSUME LifeInv, NEW w \in Callers, NEW s \in Subs, CloseCheck(w, s)
    PROVE  LifeInv'
<1>1. pc[w][s] = "close" /\ pc[w][s] \notin Inside \union {"idle"}
  BY DEF CloseCheck, Inside
<1>2. sub[s] \in {"made", "listed"}
  BY <1>1, Made
<1>3. UNCHANGED <<sub, subscribers, dropped, close, run, closed, noNotify, once>>
  BY DEF CloseCheck, fbEvent, ending
<1>4. CASE closed[s]
  BY <1>1, <1>2, <1>3, <1>4, ReturnInv DEF CloseCheck
<1>5. CASE ~closed[s]
  BY <1>1, <1>2, <1>3, <1>5, MoveInv DEF CloseCheck, CallerPlaces, Inside
<1> QED
  BY <1>4, <1>5

LEMMA SetClosedInv ==
    ASSUME LifeInv, NEW w \in Callers, NEW s \in Subs, SetClosed(w, s)
    PROVE  LifeInv'
<1>1. LifeType'
  BY DEF SetClosed, Go, fbEvent, ending, LifeInv, LifeType, CallerPlaces, Callers
<1>2. Locked'
  BY DEF SetClosed, Go, fbEvent, ending, LifeInv, LifeType, Locked, Inside
<1>3. ClosedFirst'
  BY DEF SetClosed, Go, fbEvent, ending, LifeInv, LifeType, ClosedFirst, Inside
<1>4. Taken'
  BY DEF SetClosed, Go, fbEvent, ending, LifeInv, LifeType, Taken, Callers
<1>5. Unmade'
  BY DEF SetClosed, Go, fbEvent, ending, LifeInv, LifeType, Unmade
<1>6. Reported'
  BY DEF SetClosed, Go, fbEvent, ending, LifeInv, LifeType, Reported
<1>7. Reached'
  BY DEF SetClosed, Go, fbEvent, ending, LifeInv, LifeType, Reached, ClosedFirst, Inside,
     Callers
<1> QED
  BY <1>1, <1>2, <1>3, <1>4, <1>5, <1>6, <1>7 DEF LifeInv

LEMMA EnterOnceInv ==
    ASSUME LifeInv, NEW w \in Callers, NEW s \in Subs, EnterOnce(w, s)
    PROVE  LifeInv'
<1>1. LifeType'
  BY DEF EnterOnce, Go, fbEvent, ending, LifeInv, LifeType, CallerPlaces, Callers
<1>2. Locked'
  BY DEF EnterOnce, Go, fbEvent, ending, LifeInv, LifeType, Locked, Inside, Callers
<1>3. ClosedFirst'
  BY DEF EnterOnce, Go, fbEvent, ending, LifeInv, LifeType, ClosedFirst, Inside, Callers
<1>4. Taken'
  BY DEF EnterOnce, Go, fbEvent, ending, LifeInv, LifeType, Taken, Callers
<1>5. Unmade'
  BY DEF EnterOnce, Go, fbEvent, ending, LifeInv, LifeType, Unmade, Callers
<1>6. Reported'
  BY DEF EnterOnce, Go, fbEvent, ending, LifeInv, LifeType, Reported, Callers
<1>7. Reached'
  BY DEF EnterOnce, Go, fbEvent, ending, LifeInv, LifeType, Reached, ClosedFirst, Inside,
     Callers
<1> QED
  BY <1>1, <1>2, <1>3, <1>4, <1>5, <1>6, <1>7 DEF LifeInv

LEMMA PassOnceInv ==
    ASSUME LifeInv, NEW w \in Callers, NEW s \in Subs, PassOnce(w, s)
    PROVE  LifeInv'
<1>1. pc[w][s] = "once" /\ pc[w][s] \notin Inside \union {"idle"}
  BY DEF PassOnce, Inside
<1>2. sub[s] \in {"made", "listed"}
  BY <1>1, Made
<1>3. UNCHANGED <<sub, subscribers, dropped, close, run, closed, noNotify, once>>
  BY DEF PassOnce, fbEvent, ending
<1>4. closed[s]
  BY <1>1 DEF LifeInv, ClosedFirst
<1> QED
  BY <1>1, <1>2, <1>3, <1>4, ReturnInv DEF PassOnce

LEMMA TellReceiverInv ==
    ASSUME LifeInv, NEW s \in Subs, TellReceiver(s)
    PROVE  LifeInv'
<1>1. LifeType'
  BY DEF TellReceiver, Go, fbEvent, ending, LifeInv, LifeType, CallerPlaces, Callers
<1>2. Locked'
  BY DEF TellReceiver, Go, fbEvent, ending, LifeInv, LifeType, Locked, Inside, Callers
<1>3. ClosedFirst'
  BY DEF TellReceiver, Go, fbEvent, ending, LifeInv, LifeType, ClosedFirst, Inside, Callers
<1>4. Taken'
  BY DEF TellReceiver, Go, fbEvent, ending, LifeInv, LifeType, Taken, Callers
<1>5. Unmade'
  BY DEF TellReceiver, Go, fbEvent, ending, LifeInv, LifeType, Unmade, Callers
<1>6. Reported'
  BY DEF TellReceiver, Go, fbEvent, ending, LifeInv, LifeType, Reported, Callers
<1>7. Reached'
  BY DEF TellReceiver, Go, fbEvent, ending, LifeInv, LifeType, Reached, ClosedFirst,
     Inside, Callers
<1> QED
  BY <1>1, <1>2, <1>3, <1>4, <1>5, <1>6, <1>7 DEF LifeInv

\* Without notice only the goroutine of FbEvent.Close is inside: see Taken.
LEMMA CloseConnInv ==
    ASSUME LifeInv, NEW w \in Callers, NEW s \in Subs, CloseConn(w, s)
    PROVE  LifeInv'
<1>1. LifeType'
  BY DEF CloseConn, Go, fbEvent, ending, LifeInv, LifeType, CallerPlaces, Callers, Return
<1>2. Locked'
  BY DEF CloseConn, Go, fbEvent, ending, LifeInv, LifeType, Locked, Inside, Return,
     Callers, Taken, Unmade
<1>3. ClosedFirst'
  BY DEF CloseConn, Go, fbEvent, ending, LifeInv, LifeType, ClosedFirst, Inside, Return,
     Callers, Taken, Unmade, Locked
<1>4. Taken'
  BY DEF CloseConn, Go, fbEvent, ending, LifeInv, LifeType, Taken, Callers, Return,
     Unmade, Locked
<1>5. Unmade'
  BY DEF CloseConn, Go, fbEvent, ending, LifeInv, LifeType, Unmade, Return, Callers,
     Taken, Locked
<1>6. Reported'
  BY DEF CloseConn, Go, fbEvent, ending, LifeInv, LifeType, Reported, Return, Callers,
     Taken, Unmade, Locked
<1>7. Reached'
  BY DEF CloseConn, Go, fbEvent, ending, LifeInv, LifeType, Reached, ClosedFirst, Inside,
     Callers, Return, Taken, Unmade, Locked
<1> QED
  BY <1>1, <1>2, <1>3, <1>4, <1>5, <1>6, <1>7 DEF LifeInv

LEMMA SendDoneInv ==
    ASSUME LifeInv, NEW w \in Callers, NEW s \in Subs, SendDone(w, s)
    PROVE  LifeInv'
<1>1. LifeType'
  BY DEF SendDone, Go, fbEvent, ending, LifeInv, LifeType, CallerPlaces, Callers, Return
<1>2. Locked'
  BY DEF SendDone, Go, fbEvent, ending, LifeInv, LifeType, Locked, Inside, Return,
     Callers, Unmade
<1>3. ClosedFirst'
  BY DEF SendDone, Go, fbEvent, ending, LifeInv, LifeType, ClosedFirst, Inside, Return,
     Callers, Locked, Unmade
<1>4. Taken'
  BY DEF SendDone, Go, fbEvent, ending, LifeInv, LifeType, Taken, Callers, Return,
     Locked, Unmade
<1>5. Unmade'
  BY DEF SendDone, Go, fbEvent, ending, LifeInv, LifeType, Unmade, Return, Callers, Locked
<1>6. Reported'
  BY EventsLifecycleAssumption DEF SendDone, Go, fbEvent, ending, LifeInv, LifeType,
     Reported, Return, Callers, Locked, Unmade
<1>7. Reached'
  BY DEF SendDone, Go, fbEvent, ending, LifeInv, LifeType, Reached, ClosedFirst, Inside,
     Callers, Return, Locked, Unmade
<1> QED
  BY <1>1, <1>2, <1>3, <1>4, <1>5, <1>6, <1>7 DEF LifeInv

----------------------------------------------------------------------------
(* FbEvent.                                                                  *)

LEMMA NewSubscriptionInv ==
    ASSUME LifeInv, NEW s \in Subs, NewSubscription(s)
    PROVE  LifeInv'
<1>1. LifeType'
  BY DEF NewSubscription, Go, fbEvent, ending, LifeInv, LifeType, CallerPlaces, Callers,
     Unmade, Taken
<1>2. Locked' /\ ClosedFirst'
  BY DEF NewSubscription, Go, fbEvent, ending, LifeInv, LifeType, Locked, ClosedFirst,
     Inside, Callers, Unmade, Taken
<1>3. Taken'
  BY DEF NewSubscription, Go, fbEvent, ending, LifeInv, LifeType, Taken, Callers, Unmade
<1>4. Unmade'
  BY DEF NewSubscription, Go, fbEvent, ending, LifeInv, LifeType, Unmade, Callers, Taken
<1>5. Reported'
  BY DEF NewSubscription, Go, fbEvent, ending, LifeInv, LifeType, Reported, Unmade, Taken
<1>6. Reached'
  BY DEF NewSubscription, Go, fbEvent, ending, LifeInv, LifeType, Reached, Callers,
     Unmade, Taken
<1> QED
  BY <1>1, <1>2, <1>3, <1>4, <1>5, <1>6 DEF LifeInv

LEMMA NewSubscriptionFailsInv ==
    ASSUME LifeInv, NEW s \in Subs, NewSubscriptionFails(s)
    PROVE  LifeInv'
<1>1. LifeType'
  BY DEF NewSubscriptionFails, fbEvent, ending, LifeInv, LifeType, CallerPlaces, Callers, Unmade
<1>2. Locked' /\ ClosedFirst'
  BY DEF NewSubscriptionFails, fbEvent, ending, LifeInv, LifeType, Locked, ClosedFirst, Inside,
     Callers, Unmade
<1>3. Taken'
  BY DEF NewSubscriptionFails, fbEvent, ending, LifeInv, LifeType, Taken, Callers, Unmade
<1>4. Unmade'
  BY DEF NewSubscriptionFails, fbEvent, ending, LifeInv, LifeType, Unmade, Callers
<1>5. Reported'
  BY DEF NewSubscriptionFails, fbEvent, ending, LifeInv, LifeType, Reported, Unmade
<1>6. Reached'
  BY DEF NewSubscriptionFails, fbEvent, ending, LifeInv, LifeType, Reached, Callers, Unmade
<1> QED
  BY <1>1, <1>2, <1>3, <1>4, <1>5, <1>6 DEF LifeInv

LEMMA NewSubscriberInv ==
    ASSUME LifeInv, NEW s \in Subs, NewSubscriber(s)
    PROVE  LifeInv'
<1>1. LifeType'
  BY DEF NewSubscriber, fbEvent, ending, LifeInv, LifeType, CallerPlaces, Callers, Taken, Unmade
<1>2. Locked' /\ ClosedFirst'
  BY DEF NewSubscriber, fbEvent, ending, LifeInv, LifeType, Locked, ClosedFirst, Inside, Callers,
     Taken, Unmade
<1>3. Taken'
  BY DEF NewSubscriber, fbEvent, ending, LifeInv, LifeType, Taken, Callers, Unmade
<1>4. Unmade'
  BY DEF NewSubscriber, fbEvent, ending, LifeInv, LifeType, Unmade, Callers, Taken
<1>5. Reported'
  BY DEF NewSubscriber, fbEvent, ending, LifeInv, LifeType, Reported, Taken, Unmade, Callers
<1>6. Reached'
  BY DEF NewSubscriber, fbEvent, ending, LifeInv, LifeType, Reached, Callers, Taken, Unmade
<1> QED
  BY <1>1, <1>2, <1>3, <1>4, <1>5, <1>6 DEF LifeInv

\* FbEvent.Close finds every goroutine of an earlier one absent: there was none.
LEMMA FbCloseInv ==
    ASSUME LifeInv, FbClose
    PROVE  LifeInv'
<1>1. LifeType'
  BY DEF FbClose, fbEvent, ending, LifeInv, LifeType, CallerPlaces, Callers, Taken, Unmade, Inside
<1>2. Locked' /\ ClosedFirst'
  BY DEF FbClose, fbEvent, ending, LifeInv, LifeType, Locked, ClosedFirst, Inside, Callers,
     Taken, Unmade
<1>3. Taken'
  BY DEF FbClose, fbEvent, ending, LifeInv, LifeType, Taken, Callers, Unmade, Inside
<1>4. Unmade'
  BY DEF FbClose, fbEvent, ending, LifeInv, LifeType, Unmade, Callers, Taken, Inside
<1>5. Reported'
  BY DEF FbClose, fbEvent, ending, LifeInv, LifeType, Reported, Taken, Unmade, Inside
<1>6. Reached'
  BY DEF FbClose, fbEvent, ending, LifeInv, LifeType, Reached, Callers, Taken, Unmade, Inside
<1> QED
  BY <1>1, <1>2, <1>3, <1>4, <1>5, <1>6 DEF LifeInv

LEMMA FbClosedInv ==
    ASSUME LifeInv, FbClosed
    PROVE  LifeInv'
<1>1. LifeType'
  BY DEF FbClosed, fbEvent, ending, LifeInv, LifeType, CallerPlaces, Callers
<1>2. Locked' /\ ClosedFirst'
  BY DEF FbClosed, fbEvent, ending, LifeInv, LifeType, Locked, ClosedFirst, Inside, Callers
<1>3. Taken'
  BY DEF FbClosed, fbEvent, ending, LifeInv, LifeType, Taken, Callers
<1>4. Unmade'
  BY DEF FbClosed, fbEvent, ending, LifeInv, LifeType, Unmade, Callers
<1>5. Reported'
  BY DEF FbClosed, fbEvent, ending, LifeInv, LifeType, Reported
<1>6. Reached'
  BY DEF FbClosed, fbEvent, ending, LifeInv, LifeType, Reached, Callers
<1> QED
  BY <1>1, <1>2, <1>3, <1>4, <1>5, <1>6 DEF LifeInv

LEMMA ShutdownSubscriberInv ==
    ASSUME LifeInv, ShutdownSubscriber
    PROVE  LifeInv'
<1>1. LifeType'
  BY DEF ShutdownSubscriber, fbEvent, ending, LifeInv, LifeType, CallerPlaces, Callers
<1>2. Locked' /\ ClosedFirst'
  BY DEF ShutdownSubscriber, fbEvent, ending, LifeInv, LifeType, Locked, ClosedFirst, Inside,
     Callers
<1>3. Taken'
  BY DEF ShutdownSubscriber, fbEvent, ending, LifeInv, LifeType, Taken, Callers
<1>4. Unmade'
  BY DEF ShutdownSubscriber, fbEvent, ending, LifeInv, LifeType, Unmade, Callers
<1>5. Reported'
  BY DEF ShutdownSubscriber, fbEvent, ending, LifeInv, LifeType, Reported, Unmade
<1>6. Reached'
  BY DEF ShutdownSubscriber, fbEvent, ending, LifeInv, LifeType, Reached, Callers
<1> QED
  BY <1>1, <1>2, <1>3, <1>4, <1>5, <1>6 DEF LifeInv

LEMMA RunEndsInv ==
    ASSUME LifeInv, RunEnds
    PROVE  LifeInv'
<1>1. LifeType'
  BY DEF RunEnds, fbEvent, ending, LifeInv, LifeType, CallerPlaces, Callers
<1>2. Locked' /\ ClosedFirst'
  BY DEF RunEnds, fbEvent, ending, LifeInv, LifeType, Locked, ClosedFirst, Inside, Callers
<1>3. Taken'
  BY DEF RunEnds, fbEvent, ending, LifeInv, LifeType, Taken, Callers
<1>4. Unmade'
  BY DEF RunEnds, fbEvent, ending, LifeInv, LifeType, Unmade, Callers
<1>5. Reported'
  BY EventsLifecycleAssumption DEF RunEnds, fbEvent, ending, LifeInv, LifeType, Reported
<1>6. Reached'
  BY DEF RunEnds, fbEvent, ending, LifeInv, LifeType, Reached, Callers
<1> QED
  BY <1>1, <1>2, <1>3, <1>4, <1>5, <1>6 DEF LifeInv

----------------------------------------------------------------------------
(* The goroutines of a subscription.                                         *)

LEMMA WaitEventInv ==
    ASSUME LifeInv, NEW s \in Subs, WaitEvent(s)
    PROVE  LifeInv'
<1>1. "wait" \in Callers /\ pc["wait"][s] \notin Inside \union {"idle"}
  BY DEF WaitEvent, Callers, Inside
<1>2. sub[s] \in {"made", "listed"}
  BY <1>1, Made
<1> QED
  BY <1>1, <1>2, MoveInv DEF WaitEvent, fbEvent, ending, CallerPlaces, Inside

LEMMA WaitDeliversInv ==
    ASSUME LifeInv, NEW s \in Subs, WaitDelivers(s)
    PROVE  LifeInv'
<1>1. "wait" \in Callers /\ pc["wait"][s] \notin Inside \union {"idle"}
  BY DEF WaitDelivers, Callers, Inside
<1>2. sub[s] \in {"made", "listed"}
  BY <1>1, Made
<1> QED
  BY <1>1, <1>2, MoveInv DEF WaitDelivers, fbEvent, ending, CallerPlaces, Inside

LEMMA WaitEndsInv ==
    ASSUME LifeInv, NEW s \in Subs, WaitEnds(s)
    PROVE  LifeInv'
<1>1. "wait" \in Callers /\ pc["wait"][s] \notin Inside \union {"idle"}
  BY DEF WaitEnds, Callers, Inside
<1>2. sub[s] \in {"made", "listed"}
  BY <1>1, Made
<1> QED
  BY <1>1, <1>2, MoveInv DEF WaitEnds, fbEvent, ending, CallerPlaces, Inside

LEMMA WaitErrorInv ==
    ASSUME LifeInv, NEW s \in Subs, WaitError(s)
    PROVE  LifeInv'
<1>1. "wait" \in Callers /\ pc["wait"][s] \notin Inside \union {"idle"}
  BY DEF WaitError, Callers, Inside
<1>2. sub[s] \in {"made", "listed"}
  BY <1>1, Made
<1> QED
  BY <1>1, <1>2, MoveInv DEF WaitError, fbEvent, ending, CallerPlaces, Inside

\* The application's NotifyClose, the reader and the connections.
LEMMA OutsideInv ==
    ASSUME LifeInv, NEW s \in Subs,
           NotifyClose(s) \/ Break(s) \/ ServerDrops(s) \/ ReaderStep(s)
    PROVE  LifeInv'
<1>1. UNCHANGED invVars
  BY DEF NotifyClose, Break, ServerDrops, ReaderStep, ReaderEvent, ReaderError,
         fbEvent, ending, invVars
<1> QED
  BY <1>1, FrameInv

----------------------------------------------------------------------------
LEMMA CallerInv ==
    ASSUME LifeInv, NEW w \in Callers, NEW s \in Subs, CallerStep(w, s)
    PROVE  LifeInv'
BY CloseManagerInv, CancelBeginInv, CancelEventsInv, CloseCheckInv, SetClosedInv,
   EnterOnceInv, PassOnceInv, CloseConnInv, SendDoneInv DEF CallerStep

LEMMA NextInv ==
    ASSUME LifeInv, [LifeNext]_lifeVars
    PROVE  LifeInv'
<1>1. ASSUME NEW s \in Subs,
             NewSubscription(s) \/ NewSubscriptionFails(s) \/ NewSubscriber(s)
             \/ NotifyClose(s) \/ Unsubscribe(s) \/ Break(s) \/ ServerDrops(s)
      PROVE  LifeInv'
  BY <1>1, NewSubscriptionInv, NewSubscriptionFailsInv, NewSubscriberInv, OutsideInv,
     UnsubscribeInv
<1>2. ASSUME NEW s \in Subs, CallerStep("app", s) \/ CloserStep(s)
      PROVE  LifeInv'
  BY <1>2, CallerInv, UnsubscribeNoNotifyInv, CloserUnsubscribesInv
     DEF CloserStep, Callers
<1>3. ASSUME NEW s \in Subs, WaitStep(s) \/ ReaderStep(s)
      PROVE  LifeInv'
  BY <1>3, CallerInv, WaitEventInv, WaitDeliversInv, WaitEndsInv, WaitErrorInv,
     TellReceiverInv, OutsideInv DEF WaitStep, Callers
<1>4. CASE FbClose \/ FbClosed \/ RunStep
  BY <1>4, FbCloseInv, FbClosedInv, ShutdownSubscriberInv, RunEndsInv DEF RunStep
<1>5. CASE UNCHANGED lifeVars
  <2>1. UNCHANGED invVars
    BY <1>5 DEF lifeVars, fbEvent, ending, invVars
  <2> QED
    BY <2>1, FrameInv
<1> QED
  BY <1>1, <1>2, <1>3, <1>4, <1>5 DEF LifeNext

----------------------------------------------------------------------------
\* The invariant holds in every state, whatever the goroutines of subscriber.go
\* and event.go do in which order.
THEOREM LifeInvariance == LifeSpec => []LifeInv
<1>1. LifeInit => LifeInv
  BY InitInv
<1>2. LifeInv /\ [LifeNext]_lifeVars => LifeInv'
  BY NextInv
<1> QED
  BY <1>1, <1>2, PTL DEF LifeSpec

\* A subscription is ended by one caller, whoever else is on the way, and one that
\* is over is not left in FbEvent.subscribers, unless run was told of it before
\* newSubscriber had listed it.
THEOREM NeverStale == LifeSpec => []NoStaleSubscriber
<1>1. LifeInv => NoStaleSubscriber
  BY DEF LifeInv, LifeType, Locked, Inside, Reported, NoStaleSubscriber
<1> QED
  BY <1>1, LifeInvariance, PTL

\* When FbEvent.Close has returned, each subscription it found in the list is
\* closed, or its Unsubscribe's error is among those returned.
THEOREM CloseReaches == LifeSpec => []CloseReachesAll
<1>1. LifeInv => CloseReachesAll
  BY DEF LifeInv, Reached, CloseReachesAll
<1> QED
  BY <1>1, LifeInvariance, PTL

=============================================================================
