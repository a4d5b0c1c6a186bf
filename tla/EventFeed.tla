------------------------------ MODULE EventFeed ------------------------------
(* What a subscription to events promises: every posting of an event is      *)
(* reported, in instalments of one or more, and none of them twice.          *)
EXTENDS Naturals

CONSTANT Names

VARIABLES
    posted,    \* how often each event has been posted
    reported   \* what the Counts given to the application add up to

Init ==
    /\ posted \in [Names -> Nat]
    /\ reported = [n \in Names |-> 0]

\* A transaction that posts events, each as often as it likes, commits.
Post ==
    /\ posted' \in [Names -> Nat]
    /\ \A n \in Names : posted'[n] >= posted[n]
    /\ UNCHANGED reported

\* The application is told that n was posted, for the first time or again.
Report(n) ==
    /\ reported' \in [Names -> Nat]
    /\ reported'[n] > reported[n]
    /\ reported'[n] <= posted[n]
    /\ \A m \in Names \ {n} : reported'[m] = reported[m]
    /\ UNCHANGED posted

Next == Post \/ \E n \in Names : Report(n)

Spec == Init /\ [][Next]_<<posted, reported>>
==============================================================================
