------------------------ MODULE FbSessionWork_proofs ------------------------
(***************************************************************************)
(* What becomes of the work of a call of FbSession, from the invariants of *)
(* FbSession_proofs: first AtMostOnce, without a hypothesis; then          *)
(* OnlyByCommit, for a server that does not refuse to roll back; then      *)
(* AckedApplied, for queries that change nothing, on a connection spared   *)
(* what makes the driver take one response for another.                    *)
(***************************************************************************)
EXTENDS FbSession_proofs

-----------------------------------------------------------------------------
(***************************************************************************)
(* The work of a call: where it is, and how it moves.                      *)
(***************************************************************************)

\* Requests that do the work of a call, and those that make it permanent.
Execs   == {"execute", "execute_immediate"}
Commits == {"commit", "commit_retaining"}

\* Request p, not carried out yet, does the work of call i, ...
InFlight(i, p) == p \in 1..Len(pend) /\ pend[p].st = "asked" /\ pend[p].op \in Execs /\ pend[p].w = i

\* ... transaction h of the server has done it and not committed it, ...
Doing(i, h)    == h \in 1..Len(srv) /\ i \in srv[h].work

\* ... and request p asks for a commit.
CommitAsked(p) == p \in 1..Len(pend) /\ pend[p].st = "asked" /\ pend[p].op \in Commits

\* Nobody has been asked for the work of call i, ...
Untouched(i) == /\ applied[i] = 0
                /\ \A p \in 1..Len(pend) : ~InFlight(i, p)
                /\ \A h \in 1..Len(srv) : ~Doing(i, h)

\* ... nobody will commit it, unless he is asked again, ...
Uncommitted(i) ==
  /\ applied[i] = 0
  /\ \A p, q \in 1..Len(pend) : CommitAsked(p) /\ InFlight(i, q) => p < q
  /\ \A p \in 1..Len(pend), h \in 1..Len(srv) : CommitAsked(p) => ~Doing(i, h)

\* ... and it is in one place at a time.
Once(i) ==
  /\ applied[i] <= 1
  /\ \A p \in 1..Len(pend) : InFlight(i, p) =>
        /\ applied[i] = 0 /\ \A h \in 1..Len(srv) : ~Doing(i, h)
        /\ \A q \in 1..Len(pend) : InFlight(i, q) => q = p
  /\ \A h \in 1..Len(srv) : Doing(i, h) => applied[i] = 0 /\ \A k \in 1..Len(srv) : Doing(i, k) => k = h

\* A step that moves the work of call i no further.
Keeps(i) == /\ Once(i) => Once(i)'
            /\ Untouched(i) => Untouched(i)'
            /\ Uncommitted(i) => Uncommitted(i)'

\* The first of them implies the others.
LEMMA UntouchedIs ==
  ASSUME NEW i, Untouched(i)
  PROVE  Uncommitted(i) /\ Once(i)
  BY DEF Untouched, Uncommitted, Once

\* Steps that neither ask nor answer keep all three, ...
LEMMA KeepsSame ==
  ASSUME NEW i, UNCHANGED <<pend, srvVars>>
  PROVE  Keeps(i)
  BY DEF Keeps, Once, Untouched, Uncommitted, InFlight, Doing, CommitAsked, srvVars

\* ... so do reads, ...
LEMMA KeepsShift ==
  ASSUME NEW i, NEW c \in {0, 1}, UNCHANGED srvVars, Len(pend) \in Nat, Len(pend') \in Nat,
         \A p \in 1..Len(pend') : p + c \in 1..Len(pend) /\ pend'[p] = pend[p + c]
  PROVE  Keeps(i)
<1>1. \A p \in 1..Len(pend') : /\ p \in Int /\ p + c \in 1..Len(pend)
                               /\ InFlight(i, p)' => InFlight(i, p + c)
                               /\ CommitAsked(p)' => CommitAsked(p + c)
  BY DEF InFlight, CommitAsked
<1>2. srv' = srv /\ applied' = applied /\ \A h : Doing(i, h)' <=> Doing(i, h)
  BY DEF srvVars, Doing
<1>3. Once(i) => Once(i)'
  <2> SUFFICES ASSUME Once(i) PROVE Once(i)'
    OBVIOUS
  <2>1. ASSUME NEW p \in 1..Len(pend'), InFlight(i, p)'
        PROVE  /\ applied'[i] = 0 /\ \A h \in 1..Len(srv') : ~Doing(i, h)'
               /\ \A q \in 1..Len(pend') : InFlight(i, q)' => q = p
    <3>1. p + c \in 1..Len(pend) /\ InFlight(i, p + c)
      BY <1>1, <2>1
    <3>2. applied[i] = 0 /\ \A h \in 1..Len(srv) : ~Doing(i, h)
      BY <3>1 DEF Once
    <3>3. ASSUME NEW q \in 1..Len(pend'), InFlight(i, q)' PROVE q = p
      <4>1. q + c \in 1..Len(pend) /\ InFlight(i, q + c)
        BY <1>1, <3>3
      <4>2. q + c = p + c
        BY <3>1, <4>1 DEF Once
      <4> QED
        BY <4>2
    <3> QED
      BY <1>2, <3>2, <3>3
  <2> QED
    BY <1>2, <2>1 DEF Once
<1>4. Untouched(i) => Untouched(i)'
  BY <1>1, <1>2 DEF Untouched
<1>5. Uncommitted(i) => Uncommitted(i)'
  <2> SUFFICES ASSUME Uncommitted(i) PROVE Uncommitted(i)'
    OBVIOUS
  <2>1. ASSUME NEW p \in 1..Len(pend'), NEW q \in 1..Len(pend'), CommitAsked(p)', InFlight(i, q)'
        PROVE  p < q
    <3>1. p + c < q + c
      BY <1>1, <2>1 DEF Uncommitted
    <3> QED
      BY <3>1
  <2>2. ASSUME NEW p \in 1..Len(pend'), NEW h \in 1..Len(srv'), CommitAsked(p)' PROVE ~Doing(i, h)'
    BY <1>1, <1>2, <2>2 DEF Uncommitted
  <2> QED
    BY <1>2, <2>1, <2>2 DEF Uncommitted
<1> QED
  BY <1>3, <1>4, <1>5 DEF Keeps

\* A request joins the others.
LEMMA KeepsAppended ==
  ASSUME NEW i, pend \in Seq(Request), NEW n \in {1, 2}, UNCHANGED srvVars,
         Len(pend') = Len(pend) + n, \A p \in 1..Len(pend) : pend'[p] = pend[p],
         \A p \in (Len(pend) + 1)..Len(pend') : pend'[p].op \notin Execs \/ pend'[p].w # i
  PROVE  /\ Once(i) => Once(i)'
         /\ Untouched(i) => Untouched(i)'
         /\ (\A p \in (Len(pend) + 1)..Len(pend') : pend'[p].op \notin Commits) => Keeps(i)
<1>0. Len(pend) \in Nat
  OBVIOUS
<1>1. \A p \in 1..Len(pend') : InFlight(i, p)' => p \in 1..Len(pend) /\ InFlight(i, p)
  BY <1>0 DEF InFlight
<1>2. srv' = srv /\ applied' = applied /\ \A h : Doing(i, h)' <=> Doing(i, h)
  BY DEF srvVars, Doing
<1>3. Once(i) => Once(i)'
  BY <1>1, <1>2 DEF Once
<1>4. Untouched(i) => Untouched(i)'
  BY <1>1, <1>2 DEF Untouched
<1>5. ASSUME \A p \in (Len(pend) + 1)..Len(pend') : pend'[p].op \notin Commits
      PROVE  \A p \in 1..Len(pend') : CommitAsked(p)' => p \in 1..Len(pend) /\ CommitAsked(p)
  BY <1>0, <1>5 DEF CommitAsked
<1>6. ASSUME \A p \in (Len(pend) + 1)..Len(pend') : pend'[p].op \notin Commits
      PROVE  Uncommitted(i) => Uncommitted(i)'
  BY <1>1, <1>2, <1>5, <1>6 DEF Uncommitted
<1> QED
  BY <1>3, <1>4, <1>6 DEF Keeps

\* A request for the work of a call nobody has been asked for.
LEMMA KeepsExecuted ==
  ASSUME NEW i, pend \in Seq(Request), NEW n \in {1, 2}, UNCHANGED srvVars, Untouched(i),
         Len(pend') = Len(pend) + n, \A p \in 1..Len(pend) : pend'[p] = pend[p],
         \A p \in (Len(pend) + 1)..Len(pend') : pend'[p].op \notin Commits,
         \A p \in (Len(pend) + 1)..Len(pend') : pend'[p].op \in Execs => p = Len(pend')
  PROVE  Once(i)' /\ Uncommitted(i)'
<1>0. Len(pend) \in Nat /\ Len(pend') \in Nat
  OBVIOUS
<1>1. \A p \in 1..Len(pend') : InFlight(i, p)' => p = Len(pend')
  BY <1>0 DEF InFlight, Untouched
<1>2. srv' = srv /\ applied' = applied /\ (\A h \in 1..Len(srv') : ~Doing(i, h)') /\ applied'[i] = 0
  BY DEF srvVars, Doing, Untouched
<1>3. \A p \in 1..Len(pend') : CommitAsked(p)' => p \in 1..Len(pend)
  BY <1>0 DEF CommitAsked
<1> QED
  BY <1>0, <1>1, <1>2, <1>3 DEF Once, Uncommitted

\* What the server's answer does to the unanswered requests.
LEMMA Unanswered ==
  ASSUME IInv, NEW j \in 1..Len(pend), NextAsked(j), NEW st \in {"ok", "err"}, NEW h, Answer(j, st, h), NEW i
  PROVE  /\ Len(pend') = Len(pend) /\ Len(pend) \in Nat
         /\ \A p \in 1..Len(pend) : /\ InFlight(i, p)' => InFlight(i, p) /\ p > j
                                    /\ CommitAsked(p)' => CommitAsked(p) /\ p > j
<1>0. pend \in Seq(Request) /\ Len(pend) \in Nat
  BY WireParts
<1>1. pend' = [pend EXCEPT ![j].st = st, ![j].h = h]
  BY DEF Answer
<1>2. pend[j] \in [op : Ops, h : Nat, w : Nat, st : Status]
  <2>1. pend[j] \in Request
    BY <1>0
  <2> QED
    BY <2>1 DEF Request
<1>3. Len(pend') = Len(pend) /\ pend'[j].st = st /\ \A p \in 1..Len(pend) : p # j => pend'[p] = pend[p]
  BY <1>0, <1>1, <1>2
<1>4. \A p \in 1..(j - 1) : pend[p].st # "asked"
  BY DEF NextAsked
<1>5. ASSUME NEW p \in 1..Len(pend), pend'[p].st = "asked" PROVE pend'[p] = pend[p] /\ p > j
  <2>1. p # j
    BY <1>3, <1>5
  <2>2. pend'[p] = pend[p] /\ ~(p < j)
    BY <1>0, <1>3, <1>4, <1>5, <2>1
  <2> QED
    BY <1>0, <2>1, <2>2
<1>6. \A p \in 1..Len(pend) : /\ InFlight(i, p)' => InFlight(i, p) /\ p > j
                              /\ CommitAsked(p)' => CommitAsked(p) /\ p > j
  BY <1>0, <1>5 DEF InFlight, CommitAsked
<1> QED
  BY <1>0, <1>3, <1>6

\* The server's work for other calls, and its rollbacks.
LEMMA KeepsLess ==
  ASSUME NEW i, Len(pend') = Len(pend), Len(pend) \in Nat,
         \A p \in 1..Len(pend) : /\ InFlight(i, p)' => InFlight(i, p)
                                 /\ CommitAsked(p)' => CommitAsked(p),
         applied'[i] = applied[i],
         \A h : Doing(i, h)' => Doing(i, h)
  PROVE  Keeps(i)
<1>1. \A h \in 1..Len(srv') : Doing(i, h)' => h \in 1..Len(srv) /\ Doing(i, h)
  BY DEF Doing
<1>2. Once(i) => Once(i)'
  BY <1>1 DEF Once
<1>3. Untouched(i) => Untouched(i)'
  BY <1>1 DEF Untouched
<1>4. Uncommitted(i) => Uncommitted(i)'
  BY <1>1 DEF Uncommitted
<1> QED
  BY <1>2, <1>3, <1>4 DEF Keeps

\* The server does the work of call i, ...
LEMMA KeepsDone ==
  ASSUME IInv, NEW i \in Calls, NEW j \in 1..Len(pend), InFlight(i, j), Len(pend') = Len(pend), Len(pend) \in Nat,
         \A p \in 1..Len(pend) : /\ InFlight(i, p)' => InFlight(i, p) /\ p > j
                                 /\ CommitAsked(p)' => CommitAsked(p) /\ p > j,
         UNCHANGED applied, NEW k, \A h : Doing(i, h)' => Doing(i, h) \/ h = k
  PROVE  Keeps(i)
<1>1. \A h \in 1..Len(srv') : Doing(i, h)' => (h \in 1..Len(srv) /\ Doing(i, h)) \/ h = k
  BY DEF Doing
<1>2. Once(i) => Once(i)'
  <2> SUFFICES ASSUME Once(i) PROVE Once(i)'
    OBVIOUS
  <2>1. applied[i] = 0 /\ (\A h \in 1..Len(srv) : ~Doing(i, h)) /\ \A q \in 1..Len(pend) : InFlight(i, q) => q = j
    BY DEF Once
  <2>2. \A p \in 1..Len(pend') : ~InFlight(i, p)'
    BY <2>1
  <2>3. \A h \in 1..Len(srv') : Doing(i, h)' => h = k
    BY <1>1, <2>1
  <2> QED
    BY <2>1, <2>2, <2>3 DEF Once
<1>3. ~Untouched(i)
  BY DEF Untouched
<1>4. Uncommitted(i) => Uncommitted(i)'
  <2> SUFFICES ASSUME Uncommitted(i) PROVE Uncommitted(i)'
    OBVIOUS
  <2>1. \A p \in 1..Len(pend') : ~CommitAsked(p)'
    <3>1. ASSUME NEW p \in 1..Len(pend'), CommitAsked(p)' PROVE FALSE
      <4>1. CommitAsked(p) /\ p > j
        BY <3>1
      <4>2. p < j
        BY <4>1 DEF Uncommitted
      <4> QED
        BY <4>1, <4>2
    <3> QED
      BY <3>1
  <2> QED
    BY <2>1 DEF Uncommitted
<1> QED
  BY <1>2, <1>3, <1>4 DEF Keeps

\* ... or commits it.
LEMMA KeepsCommitted ==
  ASSUME IInv, NEW i \in Calls, NEW j \in 1..Len(pend), CommitAsked(j), Len(pend') = Len(pend), Len(pend) \in Nat,
         \A p \in 1..Len(pend) : InFlight(i, p)' => InFlight(i, p),
         NEW k, Doing(i, k), applied'[i] = applied[i] + 1, \A h : Doing(i, h)' => Doing(i, h) /\ h # k
  PROVE  Keeps(i)
<1>0. k \in 1..Len(srv)
  BY DEF Doing
<1>1. \A h \in 1..Len(srv') : Doing(i, h)' => h \in 1..Len(srv) /\ Doing(i, h) /\ h # k
  BY DEF Doing
<1>2. Once(i) => Once(i)'
  <2> SUFFICES ASSUME Once(i) PROVE Once(i)'
    OBVIOUS
  <2>1. applied[i] = 0 /\ \A h \in 1..Len(srv) : Doing(i, h) => h = k
    BY <1>0 DEF Once
  <2>2. \A h \in 1..Len(srv') : ~Doing(i, h)'
    BY <1>1, <2>1
  <2>3. \A p \in 1..Len(pend') : ~InFlight(i, p)'
    BY <1>0 DEF Once
  <2>4. applied'[i] = 1
    BY <2>1
  <2> QED
    BY <2>2, <2>3, <2>4 DEF Once
<1>3. ~Untouched(i) /\ ~Uncommitted(i)
  BY <1>0 DEF Untouched, Uncommitted
<1> QED
  BY <1>2, <1>3 DEF Keeps

\* Whatever the server carries out, ...
LEMMA EffectKeeps ==
  ASSUME IInv, NEW i \in Calls, NEW j \in 1..Len(pend), pend[j].op \in InTransaction => Open(pend[j].h), pend[j].st = "asked",
         Effect(pend[j]), Len(pend') = Len(pend), Len(pend) \in Nat,
         \A p \in 1..Len(pend) : /\ InFlight(i, p)' => InFlight(i, p) /\ p > j
                                 /\ CommitAsked(p)' => CommitAsked(p) /\ p > j
  PROVE  Keeps(i)
<1> DEFINE t == pend[j]
<1>0. srv \in Seq(ServerTx) /\ applied \in [Calls -> Nat] /\ Len(srv) \in Nat
  BY DEF IInv, SrvType
<1>1. t.op \in {"execute", "execute_immediate", "commit", "commit_retaining", "rollback"} => t.h \in 1..Len(srv)
  BY DEF InTransaction, Open
<1>2. \A h \in 1..Len(srv) : srv[h] \in [open : BOOLEAN, work : SUBSET Calls]
  <2>1. \A h \in 1..Len(srv) : srv[h] \in ServerTx
    BY <1>0
  <2> QED
    BY <2>1 DEF ServerTx
<1>3. CASE t.op = "transaction"
  <2>1. srv' = Append(srv, [open |-> TRUE, work |-> {}]) /\ applied' = applied
    BY <1>3 DEF Effect
  <2>2. Len(srv') = Len(srv) + 1 /\ srv'[Len(srv) + 1].work = {} /\ \A h \in 1..Len(srv) : srv'[h] = srv[h]
    BY <1>0, <2>1
  <2>3. \A h : Doing(i, h)' => Doing(i, h)
    BY <1>0, <2>2 DEF Doing
  <2> QED
    BY <2>1, <2>3, KeepsLess
<1>4. CASE t.op \in Execs
  <2>1. srv' = [srv EXCEPT ![t.h].work = @ \cup ({t.w} \cap Calls)] /\ applied' = applied
    BY <1>4 DEF Effect, Execs
  <2>2. t.h \in 1..Len(srv)
    BY <1>1, <1>4 DEF Execs
  <2>3. /\ Len(srv') = Len(srv) /\ srv'[t.h].work = srv[t.h].work \cup ({t.w} \cap Calls)
        /\ \A h \in 1..Len(srv) : h # t.h => srv'[h] = srv[h]
    BY <1>0, <1>2, <2>1, <2>2
  <2>4. \A h : Doing(i, h)' => Doing(i, h) \/ (h = t.h /\ t.w = i)
    BY <2>2, <2>3 DEF Doing
  <2>5. CASE t.w = i
    <3>1. InFlight(i, j)
      BY <1>4, <2>5 DEF InFlight
    <3>2. \A h : Doing(i, h)' => Doing(i, h) \/ h = t.h
      BY <2>4
    <3> HIDE DEF t
    <3> QED
      BY <2>1, <3>1, <3>2, KeepsDone
  <2>6. CASE t.w # i
    <3>1. \A h : Doing(i, h)' => Doing(i, h)
      BY <2>4, <2>6
    <3> QED
      BY <2>1, <3>1, KeepsLess
  <2> QED
    BY <2>5, <2>6
<1>5. CASE t.op \in Commits
  <2>1. /\ srv' = [srv EXCEPT ![t.h] = [open |-> t.op = "commit_retaining", work |-> {}]]
        /\ applied' = [c \in Calls |-> IF c \in srv[t.h].work THEN applied[c] + 1 ELSE applied[c]]
    BY <1>5 DEF Effect, Commits
  <2>2. t.h \in 1..Len(srv)
    BY <1>1, <1>5 DEF Commits
  <2>3. /\ Len(srv') = Len(srv) /\ srv'[t.h].work = {} /\ \A h \in 1..Len(srv) : h # t.h => srv'[h] = srv[h]
    BY <1>0, <1>2, <2>1, <2>2
  <2>4. \A h : Doing(i, h)' => Doing(i, h) /\ h # t.h
    BY <2>2, <2>3 DEF Doing
  <2>5. CASE i \in srv[t.h].work
    <3>1. Doing(i, t.h) /\ CommitAsked(j) /\ applied'[i] = applied[i] + 1
      BY <1>5, <2>1, <2>2, <2>5 DEF Doing, CommitAsked
    <3>2. \A p \in 1..Len(pend) : InFlight(i, p)' => InFlight(i, p)
      OBVIOUS
    <3> HIDE DEF t
    <3> QED
      BY <2>4, <3>1, <3>2, KeepsCommitted
  <2>6. CASE i \notin srv[t.h].work
    <3>1. applied'[i] = applied[i]
      BY <2>1, <2>6
    <3> QED
      BY <2>4, <3>1, KeepsLess
  <2> QED
    BY <2>5, <2>6
<1>6. CASE t.op \in {"rollback", "detach"}
  <2>1. applied' = applied
    BY <1>6 DEF Effect
  <2>2. \A h : Doing(i, h)' => Doing(i, h)
    <3>1. CASE t.op = "rollback"
      <4>1. srv' = [srv EXCEPT ![t.h] = [open |-> FALSE, work |-> {}]] /\ t.h \in 1..Len(srv)
        BY <1>1, <3>1 DEF Effect
      <4>2. Len(srv') = Len(srv) /\ srv'[t.h].work = {} /\ \A h \in 1..Len(srv) : h # t.h => srv'[h] = srv[h]
        BY <1>0, <4>1
      <4> QED
        BY <4>1, <4>2 DEF Doing
    <3>2. CASE t.op = "detach"
      <4>1. srv' = [h \in DOMAIN srv |-> [open |-> FALSE, work |-> {}]] /\ DOMAIN srv = 1..Len(srv)
        BY <1>0, <3>2 DEF Effect
      <4>2. srv' \in Seq({[open |-> FALSE, work |-> {}]})
        BY <1>0, <4>1
      <4>3. Len(srv') = Len(srv) /\ \A h \in 1..Len(srv) : srv'[h].work = {}
        BY <1>0, <4>1, <4>2
      <4> QED
        BY <4>3 DEF Doing
    <3> QED
      BY <1>6, <3>1, <3>2
  <2> QED
    BY <2>1, <2>2, KeepsLess
<1>7. CASE t.op \notin {"transaction", "rollback", "detach"} \cup Execs \cup Commits
  <2>1. UNCHANGED srvVars
    BY <1>7 DEF Effect, Execs, Commits
  <2>2. applied' = applied /\ \A h : Doing(i, h)' => Doing(i, h)
    BY <2>1 DEF srvVars, Doing
  <2> QED
    BY <2>2, KeepsLess
<1> QED
  BY <1>3, <1>4, <1>5, <1>6, <1>7

\* ... or refuses, the work of a call stays in one place.
LEMMA ServerKeeps ==
  ASSUME IInv, Server, NEW i \in Calls
  PROVE  Keeps(i)
<1>1. PICK j \in 1..Len(pend) :
         /\ NextAsked(j)
         /\ LET t == pend[j]
            IN  \/ /\ t.op \in InTransaction => Open(t.h)
                   /\ Answer(j, "ok", IF t.op = "transaction" THEN Len(srv) + 1 ELSE 0)
                   /\ Effect(t)
                \/ Answer(j, "err", 0) /\ UNCHANGED srvVars
  BY DEF Server
<1>2. PICK st, h : st \in {"ok", "err"} /\ Answer(j, st, h)
  BY <1>1
<1>3. /\ Len(pend') = Len(pend) /\ Len(pend) \in Nat
      /\ \A p \in 1..Len(pend) : /\ InFlight(i, p)' => InFlight(i, p) /\ p > j
                                 /\ CommitAsked(p)' => CommitAsked(p) /\ p > j
  BY <1>1, <1>2, Unanswered
<1>4. CASE UNCHANGED srvVars
  <2>1. applied' = applied /\ \A k : Doing(i, k)' => Doing(i, k)
    BY <1>4 DEF srvVars, Doing
  <2> QED
    BY <1>3, <2>1, KeepsLess
<1>5. CASE (pend[j].op \in InTransaction => Open(pend[j].h)) /\ Effect(pend[j])
  <2>1. pend[j].st = "asked"
    BY <1>1 DEF NextAsked
  <2> QED
    BY <1>3, <1>5, <2>1, EffectKeeps
<1> QED
  BY <1>1, <1>4, <1>5

\* Requests that neither do work nor commit it.
Harmless == Ops \ (Execs \cup Commits)

\* A step of the call that writes at most one such request, none on a broken
\* connection.
Adds == /\ UNCHANGED srvVars
        /\ \/ pend' = pend
           \/ ~Broken /\ \E op \in Harmless : \E h, w : pend' = pend \o <<Asked(op, h, w)>>
        /\ Broken => Broken'

\* It keeps all three; ...
LEMMA AddsKeeps ==
  ASSUME IInv, Adds, NEW i
  PROVE  Keeps(i)
<1>0. pend \in Seq(Request) /\ UNCHANGED srvVars
  BY WireParts DEF Adds
<1>1. CASE pend' = pend
  BY <1>0, <1>1, KeepsSame
<1>2. ASSUME NEW op \in Harmless, NEW h, NEW w, pend' = pend \o <<Asked(op, h, w)>>
      PROVE  Keeps(i)
  <2>1. Asked(op, h, w).op = op
    BY DEF Asked
  <2>2. /\ Len(pend') = Len(pend) + 1 /\ Len(pend) \in Nat /\ (\A p \in 1..Len(pend) : pend'[p] = pend[p])
        /\ pend'[Len(pend) + 1] = Asked(op, h, w)
    BY <1>0, <1>2, Extended
  <2>3. \A p \in (Len(pend) + 1)..Len(pend') : pend'[p].op \notin Execs /\ pend'[p].op \notin Commits
    BY <2>1, <2>2 DEF Harmless
  <2> QED
    BY <1>0, <2>2, <2>3, KeepsAppended
<1> QED
  BY <1>1, <1>2 DEF Adds

\* ... so does every write of one, ...
LEMMA WritesHarmless ==
  ASSUME UNCHANGED srvVars, NEW op \in Harmless, NEW h, NEW w, NEW awaited, NEW c, NEW d, NEW k,
         Write(<<Asked(op, h, w)>>, awaited, c, d, k)
  PROVE  Adds
<1>1. /\ pend' = pend \/ (writer = "ok" /\ CanWrite /\ pend' = pend \o <<Asked(op, h, w)>>)
      /\ sock' = sock /\ (writer = "sticky" => writer' = "sticky")
  BY WriteMoves
<1> QED
  BY <1>1 DEF Adds, Broken, CanWrite

\* ... they are these, ...
LEMMA HarmlessOps ==
  {"transaction", "allocate", "prepare", "bindinfo", "info", "fetch", "slice", "open_blob", "get_segment", "close_blob",
   "create_blob", "put_segment", "put_slice", "free", "rollback", "ping", "detach"} \subseteq Harmless
  BY DEF Harmless, Ops, Execs, Commits

\* ... and these write them.
LEMMA AsksHarmless ==
  ASSUME UNCHANGED srvVars, NEW op \in Harmless, NEW h
  PROVE  /\ \A w, d : Ask(op, h, w, d) => Adds
         /\ AskBlindly(op, h) => Adds
         /\ \A b : AskLazily(op, b) => Adds
         /\ \A e : AskReclaiming(e, op, h) => Adds
<1>1. \A w, d : Ask(op, h, w, d) => Adds
  BY WritesHarmless DEF Ask
<1>2. AskBlindly(op, h) => Adds
  BY WritesHarmless DEF AskBlindly
<1>3. \A b : AskLazily(op, b) => Adds
  BY WritesHarmless DEF AskLazily
<1>4. \A e : AskReclaiming(e, op, h) => Adds
  BY WritesHarmless DEF AskReclaiming
<1> QED
  BY <1>1, <1>2, <1>3, <1>4

\* What a call does on the wire without a request.
LEMMA SilentAdds ==
  ASSUME UNCHANGED srvVars, \/ UNCHANGED wireVars \/ (\E d : SetDeadline(d)) \/ Disarm \/ ReadTimeoutCleared
                            \/ WatcherCancel \/ \E op : CancelAndDrain(op)
  PROVE  Adds
<1>1. pend' = pend /\ sock' = sock /\ (writer' = writer \/ writer' = "sticky")
  BY DEF wireVars, SetDeadline, Disarm, ReadTimeoutCleared, WatcherCancel, CancelWritten, CancelAndDrain
<1> QED
  BY <1>1 DEF Adds, Broken

\* Steps of the call that ask for neither.
LEMMA TransactionAdds ==
  ASSUME IInv, Transaction, ~Commit, ~CommitRetaining
  PROVE  Adds
<1>1. UNCHANGED srvVars
  BY DEF Transaction, Begin, BeginRead, BeginTx, BeginTxDone, CommitRetainingRead, CommitRead, Rollback, RollbackRead, dataVars
<1>2. CASE Begin
  BY <1>1, <1>2, AsksHarmless, HarmlessOps DEF Begin
<1>3. CASE Rollback
  BY <1>1, <1>3, AsksHarmless, HarmlessOps DEF Rollback
<1>4. CASE BeginRead \/ BeginTx \/ BeginTxDone \/ CommitRetainingRead \/ CommitRead \/ RollbackRead
  BY <1>1, <1>4, SilentAdds DEF BeginRead, BeginTx, BeginTxDone, CommitRetainingRead, CommitRead, RollbackRead
<1> QED
  BY <1>2, <1>3, <1>4 DEF Transaction

\* statement.go and execute_immediate.go, but for the execution, ...
LEMMA StatementAdds ==
  ASSUME IInv, Statement, ~Execute, ~ImmediateSend
  PROVE  Adds
<1>1. UNCHANGED srvVars
  BY DEF Statement, Prepare, PrepareBegun, Allocate, PrepareStatement, PrepareRead, ScrollRefused, Run, RunBegun,
        Bind, BindRead, Upload, UploadRead, UploadClosed, SliceStored, ExecuteRead, DrainRead, InfoRead,
        ExecCommitted, ExecDone, Immediate, ImmediateBegun, ImmediateRead, ImmediateDone,
        Free, FreeRead, Freed, dataVars, txVars
<1>2. CASE Prepare \/ PrepareBegun \/ PrepareRead \/ ScrollRefused \/ Run \/ RunBegun \/ BindRead \/ UploadClosed
           \/ SliceStored \/ ExecDone \/ Immediate \/ ImmediateBegun \/ Freed
  <2>1. UNCHANGED wireVars
    BY <1>2 DEF Prepare, PrepareBegun, PrepareRead, ScrollRefused, Run, RunBegun, BindRead, UploadClosed, SliceStored,
                ExecDone, Immediate, ImmediateBegun, Freed
  <2> QED
    BY <1>1, <2>1, SilentAdds
<1>3. CASE DrainRead \/ ExecCommitted \/ ImmediateRead \/ ImmediateDone \/ FreeRead
  <2>1. UNCHANGED wireVars \/ SetDeadline("none") \/ Disarm \/ ReadTimeoutCleared
    BY <1>3 DEF DrainRead, ExecCommitted, ImmediateRead, ImmediateDone, FreeRead
  <2> QED
    BY <1>1, <2>1, SilentAdds
<1>4. CASE Allocate \/ PrepareStatement
  <2>1. \/ UNCHANGED wireVars \/ AskLazily("allocate", TRUE) \/ (\E h : AskReclaiming("allocate", "prepare", h))
        \/ \E op \in {"allocate", "prepare"} : \E h : Ask(op, h, 0, armed)
    BY <1>4 DEF Allocate, PrepareStatement
  <2> QED
    BY <1>1, <2>1, SilentAdds, AsksHarmless, HarmlessOps
<1>5. CASE Bind \/ Upload \/ UploadRead
  <2>1. \/ UNCHANGED wireVars \/ (\E h : AskBlindly("create_blob", h))
        \/ \E op \in {"bindinfo", "put_slice", "put_segment", "close_blob"} : \E h : Ask(op, h, 0, armed)
    BY <1>5 DEF Bind, Upload, UploadRead
  <2> QED
    BY <1>1, <2>1, SilentAdds, AsksHarmless, HarmlessOps
<1>6. CASE ExecuteRead \/ InfoRead
  <2>1. \/ UNCHANGED wireVars \/ Disarm \/ (\E op : CancelAndDrain(op)) \/ Ask("info", 0, 0, armed)
    BY <1>6, Abandons DEF ExecuteRead, InfoRead
  <2> QED
    BY <1>1, <2>1, SilentAdds, AsksHarmless, HarmlessOps
<1>7. CASE Free
  <2>1. AskLazily("free", TRUE) \/ Ask("free", 0, 0, "fixed")
    BY <1>7 DEF Free
  <2> QED
    BY <1>1, <2>1, AsksHarmless, HarmlessOps
<1> QED
  BY <1>2, <1>3, <1>4, <1>5, <1>6, <1>7 DEF Statement

\* ... rows.go, ...
LEMMA CursorAdds ==
  ASSUME IInv, Cursor
  PROVE  Adds
<1>1. UNCHANGED srvVars
  BY DEF Cursor, RowsClose, RowsExpired, RowsNext, Fetch, FetchRead, Row, BlobRead, SegmentRead, ColumnRead, ColumnFails,
         ScrollFetch, ScrollClose, rowsElse, dataVars
<1>2. CASE RowsClose \/ RowsNext \/ FetchRead \/ ColumnRead \/ ScrollFetch \/ ScrollClose \/ RowsExpired
  <2>1. UNCHANGED wireVars \/ SetDeadline(CtxDeadline) \/ Disarm \/ WatcherCancel
    BY <1>2 DEF RowsClose, RowsNext, FetchRead, ColumnRead, ColumnFails, NextReturns, ScrollFetch, ScrollClose, RowsExpired
  <2> QED
    BY <1>1, <2>1, SilentAdds
<1>3. CASE Fetch \/ Row \/ BlobRead \/ SegmentRead
  <2>1. \/ UNCHANGED wireVars \/ Disarm \/ (\E op \in {"fetch", "slice"} : \E h : Ask(op, h, 0, armed))
        \/ (\E op \in {"open_blob", "get_segment", "close_blob"} : \E h : AskBlindly(op, h))
        \/ AskLazily("close_blob", FALSE)
    BY <1>3 DEF Fetch, Row, BlobRead, SegmentRead, ColumnFails, NextReturns
  <2> QED
    BY <1>1, <2>1, SilentAdds, AsksHarmless, HarmlessOps
<1> QED
  BY <1>2, <1>3 DEF Cursor

\* ... Ping and Close.
LEMMA OthersAdd ==
  ASSUME IInv, Ping \/ PingRead \/ Teardown
  PROVE  Adds
<1>1. UNCHANGED srvVars
  BY DEF Ping, PingRead, Teardown, Close, CloseRead, DetachRead, dataVars
<1>2. CASE PingRead \/ CloseRead \/ DetachRead
  BY <1>1, <1>2, SilentAdds DEF PingRead, CloseRead, DetachRead
<1>3. CASE Ping \/ Close
  <2>1. UNCHANGED wireVars \/ \E op \in {"ping", "rollback", "detach"} : \E h, d : Ask(op, h, 0, d)
    BY <1>3 DEF Ping, Close
  <2> QED
    BY <1>1, <2>1, SilentAdds, AsksHarmless, HarmlessOps
<1> QED
  BY <1>2, <1>3 DEF Teardown

\* A commit.
LEMMA CommitKeeps ==
  ASSUME IInv, Commit \/ CommitRetaining, NEW i
  PROVE  /\ Once(i) => Once(i)'
         /\ Untouched(i) => Untouched(i)'
         /\ writer = "sticky" \/ res' = "unsent" => Keeps(i)
         /\ writer = "sticky" => writer' = "sticky"
<1>0. pend \in Seq(Request) /\ UNCHANGED srvVars
  BY WireParts DEF Commit, CommitRetaining, dataVars
<1>1. PICK op \in Commits : \E h, d : Write(<<Asked(op, h, 0)>>, <<op>>, 0, d, TRUE)
  BY DEF Commit, CommitRetaining, Ask, Commits
<1>2. PICK h, d : Write(<<Asked(op, h, 0)>>, <<op>>, 0, d, TRUE)
  BY <1>1
<1>3. /\ pend' = pend \/ pend' = pend \o <<Asked(op, h, 0)>>
      /\ writer = "sticky" \/ res' = "unsent" => pend' = pend /\ writer' = writer
  BY <1>2, WriteMoves
<1>4. CASE pend' = pend
  BY <1>0, <1>3, <1>4, KeepsSame DEF Keeps
<1>5. CASE pend' = pend \o <<Asked(op, h, 0)>>
  <2>1. Asked(op, h, 0).op = op /\ op \notin Execs
    BY DEF Asked, Execs, Commits
  <2>2. /\ Len(pend') = Len(pend) + 1 /\ Len(pend) \in Nat /\ (\A p \in 1..Len(pend) : pend'[p] = pend[p])
        /\ pend'[Len(pend) + 1] = Asked(op, h, 0)
    BY <1>0, <1>5, Extended
  <2>3. \A p \in (Len(pend) + 1)..Len(pend') : pend'[p].op \notin Execs
    BY <2>1, <2>2
  <2>4. (Once(i) => Once(i)') /\ (Untouched(i) => Untouched(i)')
    BY <1>0, <2>2, <2>3, KeepsAppended
  <2>5. pend' # pend
    BY <2>2
  <2> QED
    BY <1>3, <2>4, <2>5
<1> QED
  BY <1>3, <1>4, <1>5

\* An execution.
LEMMA ExecuteKeeps ==
  ASSUME IInv, Execute \/ ImmediateSend, NEW i
  PROVE  /\ Work # i => Keeps(i)
         /\ Untouched(i) => Once(i)' /\ Uncommitted(i)'
<1>0. pend \in Seq(Request) /\ UNCHANGED srvVars
  BY WireParts DEF Execute, ImmediateSend, dataVars
<1>1. PICK op \in Execs : \E h, awaited, d :
         \/ Write(<<Asked(op, h, Work)>>, awaited, 0, d, TRUE)
         \/ Write(<<Asked("sql", 0, 0), Asked(op, h, Work)>>, awaited, 0, d, TRUE)
  <2>1. "execute" \in Execs /\ "execute_immediate" \in Execs
    BY DEF Execs
  <2> QED
    BY <2>1 DEF Execute, ImmediateSend, Ask
<1>2. PICK h, awaited, d :
         \/ Write(<<Asked(op, h, Work)>>, awaited, 0, d, TRUE)
         \/ Write(<<Asked("sql", 0, 0), Asked(op, h, Work)>>, awaited, 0, d, TRUE)
  BY <1>1
<1>3. pend' = pend \/ pend' = pend \o <<Asked(op, h, Work)>> \/ pend' = pend \o <<Asked("sql", 0, 0), Asked(op, h, Work)>>
  BY <1>2, WriteMoves
<1>4. CASE pend' = pend
  BY <1>0, <1>4, KeepsSame, UntouchedIs DEF Keeps
<1>5. Asked(op, h, Work).op = op /\ Asked(op, h, Work).w = Work /\ op \notin Commits
      /\ Asked("sql", 0, 0).op = "sql" /\ "sql" \notin Commits /\ "sql" \notin Execs
  BY DEF Asked, Execs, Commits
<1>6. CASE pend' # pend
  <2>1. PICK n \in {1, 2} :
          /\ Len(pend') = Len(pend) + n /\ Len(pend) \in Nat /\ (\A p \in 1..Len(pend) : pend'[p] = pend[p])
          /\ pend'[Len(pend')] = Asked(op, h, Work)
          /\ n = 2 => pend'[Len(pend) + 1] = Asked("sql", 0, 0)
    BY <1>0, <1>3, <1>6, Extended, ExtendedTwice
  <2>2. \A p \in (Len(pend) + 1)..Len(pend') : p = Len(pend') \/ pend'[p] = Asked("sql", 0, 0)
    BY <2>1
  <2>3. /\ \A p \in (Len(pend) + 1)..Len(pend') : pend'[p].op \notin Commits
        /\ \A p \in (Len(pend) + 1)..Len(pend') : pend'[p].op \in Execs => p = Len(pend')
    BY <1>5, <2>1, <2>2
  <2>4. Work # i => Keeps(i)
    <3>1. ASSUME Work # i PROVE \A p \in (Len(pend) + 1)..Len(pend') : pend'[p].op \notin Execs \/ pend'[p].w # i
      BY <1>5, <2>1, <2>2, <3>1
    <3> QED
      BY <1>0, <2>1, <2>3, <3>1, KeepsAppended
  <2>5. Untouched(i) => Once(i)' /\ Uncommitted(i)'
    BY <1>0, <2>1, <2>3, KeepsExecuted
  <2> QED
    BY <2>4, <2>5
<1> QED
  BY <1>4, <1>6

\* A read takes answers away, ...
LEMMA ReceiveKeeps ==
  ASSUME IInv, Receive, NEW i
  PROVE  Keeps(i)
<1>0. pend \in Seq(Request) /\ Len(pend) \in Nat /\ UNCHANGED srvVars
  BY WireParts, ReceivesMore DEF dataVars
<1>1. CASE pend' = pend
  BY <1>0, <1>1, KeepsSame
<1>2. CASE pend # <<>> /\ pend' = Tail(pend)
  <2>1. Len(pend') = Len(pend) - 1 /\ Len(pend) \in Nat \ {0} /\ \A p \in 1..Len(pend') : pend'[p] = pend[p + 1]
    BY <1>0, <1>2, Shortened
  <2>2. Len(pend') \in Nat /\ \A p \in 1..Len(pend') : p + 1 \in 1..Len(pend) /\ pend'[p] = pend[p + 1]
    BY <2>1
  <2> QED
    BY <1>0, <2>2, KeepsShift
<1> QED
  BY <1>1, <1>2, ReceivesPend

\* ... and the death of the socket takes the last ones.
LEMMA DeathKeeps ==
  ASSUME IInv, SocketDeath, NEW i
  PROVE  Keeps(i)
<1>0. pend \in Seq(Request) /\ Len(pend) \in Nat /\ UNCHANGED srvVars
  BY WireParts DEF SocketDeath, dataVars
<1>1. PICK n \in 0..Len(pend) : pend' = SubSeq(pend, 1, n)
  BY DEF SocketDeath, SocketDies
<1>2. Len(pend') = n /\ \A j \in 1..n : pend'[j] = pend[j]
  BY <1>0, <1>1
<1>3. Len(pend') \in Nat /\ \A p \in 1..Len(pend') : p + 0 \in 1..Len(pend) /\ pend'[p] = pend[p + 0]
  BY <1>0, <1>2
<1> QED
  BY <1>0, <1>3, KeepsShift

-----------------------------------------------------------------------------
(***************************************************************************)
(* A call that is retried has not been committed.                          *)
(***************************************************************************)

\* Where the work of a call has not been asked for.
Unasked == {"prepare", "prepare.begun", "allocate", "allocate.read", "prepare.read", "run", "run.begun", "bind", "bind.read",
           "execute", "upload.blob", "upload.segment", "upload.closed", "upload.slice", "immediate", "immediate.begun",
           "immediate.send", "tx.begin", "tx.begun", "begin", "begin.done", "ping", "ping.read"}

\* Where a call is that database/sql does not retry.
Unretried == {"rows", "fetch", "fetch.read", "row", "blob.read", "segment.read", "blob.closed", "slice.read", "freed", "immediate",
          "immediate.begun", "immediate.send", "immediate.read", "immediate.done", "commit", "commit.read",
          "rollback", "rollback.read"}

\* database/sql retries none of them: rows, ExecImmediate, the end of a Tx, the Close of
\* a prepared statement.
KindOK == /\ pc \in Unretried => job.kind \notin Retried
          /\ pc \in {"free", "free.read"} /\ stack = <<>> => job.kind \notin Retried
          /\ stack \in {<<"freed">>, <<"immediate.done">>, <<"immediate.begun">>} => job.kind \notin Retried

\* The outcomes exec and stmtExec end with.
ResPlaces == {"bind.read", "upload.slice", "drain.read", "info.read", "commitRetaining.read", "exec.committed"}

\* It is never driver.ErrBadConn of the read itself, where stmt.exec looks at it.
ResOK == /\ pc \in ResPlaces => res # "bad"
         /\ pc = "execute.read" /\ job.kind = "exec" => res # "bad" /\ expect \in {<<>>, <<"execute">>}

\* The work of calls to come, and of the call that has not sent it, is untouched.
FreshOK == /\ \A i \in Calls : i > calls => Untouched(i)
           /\ pc \in Unasked /\ job.id # 0 => Untouched(job.id)

\* The execution may have been asked for, its commit has not; ...
Waiting   == \/ pc \in {"execute.read", "drain.read", "info.read"}
             \/ pc = "commitRetaining" /\ stack = <<"exec.committed">>

\* ... the commit has been asked for, or refused by the writer; ...
Committed == pc = "exec.committed" \/ (pc = "commitRetaining.read" /\ stack = <<"exec.committed">>)

\* ... the error of fc.exec is decided, its statement is being closed.
Decided   == pc = "exec.done" \/ stack = <<"exec.done">>

\* Where a call may still end in ErrBadConn and be retried, no commit is under way.
Safe == job.id # 0 /\ job.kind \in Retried /\ ~expired =>
          /\ Waiting => Uncommitted(job.id)
          /\ Committed /\ IsBad(res) => Uncommitted(job.id)
          /\ Decided /\ IsBad(err) => Uncommitted(job.id) /\ writer = "sticky"

\* Where no call is in progress.
AtRest == Closing \cup {"idle"}

\* The call to be retried has not been committed, and its old connection is gone
\* before it starts again.
AgainOK == /\ again # NoJob => job = NoJob /\ pc \in AtRest /\ holder \in {"pool", "closing", "gone"}
           /\ again.id # 0 => /\ Uncommitted(again.id)
                              /\ holder = "pool" => Untouched(again.id)
           /\ again.id <= calls /\ job.id <= calls

\* The work of every call is in one place.
Singles == \A i \in Calls : Once(i)

\* The invariant.
OnceInv == Singles /\ FreshOK /\ Safe /\ AgainOK /\ KindOK

\* Return addresses differ.
LEMMA Stacked ==
  /\ \A a, b : <<a>> = <<b>> => a = b
  /\ \A a : <<a>> # <<>>
<1>1. \A a, b : <<a>> = <<b>> => a = b
  OBVIOUS
<1>2. \A a : <<a>> # <<>>
  OBVIOUS
<1> QED
  BY <1>1, <1>2

\* How the reads that end a statement may end.
LEMMA DriverRes ==
  ASSUME IInv, ResOK, Transaction \/ Statement \/ Cursor \/ Ping \/ PingRead \/ Teardown
  PROVE  ResOK'
<1>1. CASE pc' \notin ResPlaces \cup {"execute.read"}
  BY <1>1 DEF ResOK
<1>2. ASSUME Transaction, pc' \in ResPlaces \cup {"execute.read"} PROVE ResOK'
  <2>1. CASE CommitRetaining
    <3>1. pc' = "commitRetaining.read" /\ res' # "bad"
      BY <2>1, Asks DEF CommitRetaining, Goto
    <3> QED
      BY <3>1 DEF ResOK
  <2>2. CASE CommitRetainingRead
    <3>1. pc = "commitRetaining.read" /\ res' = res /\ pc' # "execute.read"
      BY <2>2, RetainedMoves, Clears
    <3> QED
      BY <3>1 DEF ResOK, ResPlaces
  <2>3. CASE BeginRead
    BY <1>2, <2>3, BegunMoves DEF ResPlaces
  <2>4. CASE Begin \/ Commit \/ Rollback \/ BeginTx
    BY <1>2, <2>4 DEF Begin, Commit, Rollback, BeginTx, Goto, Call, Enter, ResPlaces
  <2>5. CASE CommitRead \/ RollbackRead \/ BeginTxDone
    BY <1>2, <2>5, EndMoves DEF CommitRead, RollbackRead, BeginTxDone, ResPlaces
  <2> QED
    BY <1>2, <2>1, <2>2, <2>3, <2>4, <2>5 DEF Transaction
<1>3. ASSUME NEW e, Leave(e) PROVE pc' \notin ResPlaces \cup {"execute.read"}
  BY <1>3, LeaveMoves, FinishMoves, EndMoves DEF ResPlaces
<1>4. ASSUME NEW e, Finish(e) PROVE pc' \notin ResPlaces \cup {"execute.read"}
  BY <1>4, FinishMoves, EndMoves DEF ResPlaces
<1>5. ASSUME Statement, pc' \in ResPlaces \cup {"execute.read"} PROVE ResOK'
  <2>1. CASE Prepare \/ PrepareBegun \/ Allocate \/ PrepareStatement \/ PrepareRead \/ Run \/ RunBegun \/ UploadRead
             \/ UploadClosed
    BY <1>4, <1>5, <2>1 DEF Prepare, PrepareBegun, Allocate, PrepareStatement, PrepareRead, Run, RunBegun, UploadRead,
       UploadClosed, Call, Enter, Continue, Goto, Panic, ResPlaces
  <2>2. CASE ScrollRefused \/ BindRead \/ SliceStored \/ DrainRead \/ ExecCommitted \/ ExecDone \/ Freed \/ ImmediateDone
    BY <1>3, <1>4, <1>5, <2>2 DEF ScrollRefused, BindRead, SliceStored, DrainRead, ExecCommitted, ExecDone, Freed,
       ImmediateDone, Continue, Goto, Panic, ResPlaces
  <2>3. CASE Bind \/ Upload
    <3>1. pc' \in {"execute", "upload.blob"} \/ (pc' # "execute.read" /\ \E op, h : Ask(op, h, 0, armed))
      BY <2>3 DEF Bind, Upload, Goto
    <3> QED
      BY <1>5, <3>1, Asks DEF ResOK, ResPlaces
  <2>4. CASE Execute
    <3>1. PICK run, d :
            IF job.kind \in {"query", "stmtQuery"} /\ job.shape = "proc"
            THEN Write(<<Asked("sql", 0, 0), run>>, <<"sql", "execute">>, 0, d, TRUE)
            ELSE Write(<<run>>, <<"execute">>, 0, d, TRUE)
      BY <2>4 DEF Execute
    <3>2. pc' = "execute.read" /\ job' = job
      BY <2>4 DEF Execute, Goto, dataVars, callVars
    <3>3. expect = <<>> /\ res' # "bad"
      BY <3>1, WriteMoves
    <3>4. job.kind = "exec" => expect' \in {<<>>, <<"execute">>}
      BY <3>1, <3>3, WriteMoves
    <3> QED
      BY <3>2, <3>3, <3>4 DEF ResOK, ResPlaces
  <2>5. ASSUME NEW op, Abandon(op) PROVE ResOK'
    <3>1. pc' = "drain.read" /\ res' = "timeout"
      BY <1>3, <1>5, <2>5, Abandons DEF CancelAndDrain, Continue, Goto
    <3> QED
      BY <3>1 DEF ResOK
  <2>6. CASE ExecuteRead
    <3>1. CASE Ask("info", 0, 0, armed) /\ pc' = "info.read"
      BY <3>1, Asks DEF ResOK
    <3> QED
      BY <1>3, <1>5, <2>5, <2>6, <3>1 DEF ExecuteRead, Continue, Goto
  <2>7. CASE InfoRead
    <3>1. Call("commitRetaining", "exec.committed") => pc' = "commitRetaining"
      BY DEF Call, Enter
    <3>2. pc' # "commitRetaining"
      BY <1>5 DEF ResPlaces
    <3> QED
      BY <1>3, <1>5, <2>5, <2>7, <3>1, <3>2 DEF InfoRead
  <2>8. CASE Immediate \/ ImmediateBegun \/ ImmediateSend \/ ImmediateRead
    BY <1>4, <1>5, <2>8 DEF Immediate, ImmediateBegun, ImmediateSend, ImmediateRead, Call, Enter, Continue, Goto, ResPlaces
  <2>9. CASE Free
    BY <1>5, <2>9 DEF Free, Goto, ResPlaces
  <2>10. CASE FreeRead
    BY <1>5, <2>10, FreedMoves DEF ResPlaces
  <2> QED
    BY <1>5, <2>1, <2>2, <2>3, <2>4, <2>6, <2>7, <2>8, <2>9, <2>10 DEF Statement
<1>6. Cursor => pc' \notin ResPlaces \cup {"execute.read"}
  BY <1>4 DEF Cursor, RowsClose, RowsExpired, RowsNext, Fetch, FetchRead, Row, BlobRead, SegmentRead, ColumnRead, ColumnFails,
         ScrollFetch, ScrollClose, RowsFail, NextColumn, Continue, Goto, ResPlaces
<1>7. Ping \/ PingRead \/ Teardown => pc' \notin ResPlaces \cup {"execute.read"}
  BY <1>4 DEF Ping, PingRead, Teardown, Close, CloseRead, DetachRead, Continue, Goto, ResPlaces
<1> QED
  BY <1>1, <1>2, <1>5, <1>6, <1>7

\* Every step keeps ResOK.
LEMMA StepRes ==
  ASSUME IInv, Owed, ResOK, [Next]_vars
  PROVE  ResOK'
<1>1. CASE Receive
  <2>1. UNCHANGED <<pc, job>> /\ expect # <<>> /\ expect' \in {expect, Tail(expect), <<>>}
    BY <1>1, ReceivesMore DEF ctlVars, dataVars, callVars
  <2>2. ASSUME NEW op \in Untyped, expect = <<op>> PROVE res' = "bad" => res = "bad"
    <3>1. Head(expect) = op /\ op \notin Typed \cup {"sql"}
      BY <2>2, Tails DEF Untyped, StopsAtError
    <3>2. op # "fetch"
      BY <3>1 DEF Typed
    <3> QED
      BY <1>1, <3>1, <3>2 DEF Receive, RecvSkip, RecvOwn, OutcomeOf, ReadEnds, RecvMalformed, RecvGarbage, DeadlineFires,
         RecvTimeout, GiveUp
  <2>3. CASE pc \in ResPlaces
    <3>1. PICK op \in Untyped : expect = <<op>>
      BY <2>1, <2>3 DEF Owed, ExpectOK, ResPlaces, ReadPlaces
    <3> QED
      BY <2>1, <2>2, <2>3, <3>1 DEF ResOK, ResPlaces
  <2>4. CASE pc = "execute.read" /\ job.kind = "exec"
    <3>1. expect = <<"execute">> /\ "execute" \in Untyped
      BY <2>1, <2>4, UntypedOps DEF ResOK
    <3>2. Tail(expect) = <<>>
      BY <3>1, Tails
    <3> QED
      BY <2>1, <2>2, <2>4, <3>1, <3>2 DEF ResOK, ResPlaces
  <2> QED
    BY <2>1, <2>3, <2>4 DEF ResOK
<1>2. CASE Server \/ CtxDone \/ Watcher \/ PingWatcher \/ SocketDeath \/ Stopped \/ UNCHANGED vars
  <2>1. UNCHANGED <<pc, job, res, expect>>
    BY <1>2 DEF Server, Answer, CtxDone, Watcher, WatcherCancel, PingWatcher, SetDeadline, SocketDeath, SocketDies, Stopped,
       vars, ctlVars, wireVars, callVars, dataVars
  <2> QED
    BY <2>1 DEF ResOK
<1>3. CASE CallStart \/ Retry \/ TxEnd \/ Reconnect
  <2>1. pc' \notin ResPlaces \cup {"execute.read"}
    BY <1>3, CallMoves, Starts, RetryMoves, StartsAgain DEF TxEnd, Reconnect, Goto, ctlVars, ResPlaces
  <2> QED
    BY <2>1 DEF ResOK
<1> QED
  BY <1>1, <1>2, <1>3, DriverRes DEF Next, Driver, Application, Environment

\* A step that moves the work of no call.
AllKept == \A i \in Calls : Keeps(i)

\* Calls have numbers from 1; 0 is no call.
LEMMA Ids ==
  ASSUME IInv
  PROVE  /\ job.id # 0 => job.id \in Calls
         /\ again.id # 0 => again.id \in Calls
         /\ job.id \in Nat /\ again.id \in Nat /\ calls \in Nat
         /\ NoJob.id = 0 /\ NoJob.kind = "none" /\ "none" \notin Retried
<1>1. job \in [kind : CallKinds \cup {"none", "rows"}, shape : {"dml", "select", "proc"}, ctx : CtxKinds, id : 0..MaxCalls]
      /\ again \in [kind : CallKinds \cup {"none", "rows"}, shape : {"dml", "select", "proc"}, ctx : CtxKinds, id : 0..MaxCalls]
      /\ calls \in 0..MaxCalls /\ MaxCalls \in Nat
  BY SessionAssumption DEF IInv, CallType, Jobs
<1>2. job.id \in 0..MaxCalls /\ again.id \in 0..MaxCalls
  BY <1>1
<1>3. NoJob.id = 0 /\ NoJob.kind = "none" /\ "none" \notin Retried
  BY DEF NoJob, Retried
<1> QED
  BY <1>1, <1>2, <1>3 DEF Calls

\* A job that is inside a call is the only one.
LEMMA Alone ==
  ASSUME IInv, AgainOK, pc \notin AtRest
  PROVE  again = NoJob
  BY DEF AgainOK

\* Such a step keeps what is said of all calls, ...
LEMMA SinglesKept ==
  ASSUME AllKept, Singles
  PROVE  Singles'
  BY DEF AllKept, Singles, Keeps

\* ... and of those to come.
LEMMA FreshKept ==
  ASSUME AllKept, FreshOK, calls' = calls
  PROVE  \A i \in Calls : i > calls' => Untouched(i)'
  BY DEF AllKept, FreshOK, Keeps

\* As long as its work is not asked for a call goes on, or panics.
LEMMA AheadOnce ==
  ASSUME IInv, OnceInv, AllKept, UNCHANGED <<job, again, calls, holder>>, pc \in Unasked, pc' \in Unasked \cup {"panic"},
         stack' \notin {<<"exec.done">>, <<"exec.committed">>, <<"freed">>, <<"immediate.done">>},
         pc' \in Unretried \/ stack' = <<"immediate.begun">> => job.kind \notin Retried
  PROVE  OnceInv'
<1>1. again = NoJob
  BY Alone DEF OnceInv, AtRest, Unasked, Closing
<1>2. Singles'
  BY SinglesKept DEF OnceInv
<1>3. FreshOK'
  <2>1. job.id # 0 => Untouched(job.id)
    BY DEF OnceInv, FreshOK
  <2>2. job.id # 0 => Untouched(job.id)'
    BY <2>1, Ids DEF AllKept, Keeps
  <2> QED
    BY <2>2, FreshKept DEF OnceInv, FreshOK
<1>4. Safe'
  BY DEF Safe, Waiting, Committed, Decided, Unasked
<1>5. AgainOK'
  BY <1>1, Ids DEF OnceInv, AgainOK
<1>6. KindOK'
  BY DEF KindOK, Unasked
<1> QED
  BY <1>2, <1>3, <1>4, <1>5, <1>6 DEF OnceInv

\* A call that is not retried goes on.
LEMMA OtherOnce ==
  ASSUME IInv, OnceInv, Singles', \A i \in Calls : i > calls => Untouched(i)',
         UNCHANGED <<again, calls>>, job'.id = job.id, job'.kind \notin Retried, pc \notin AtRest, pc' \notin Unasked
  PROVE  OnceInv'
<1>1. again = NoJob
  BY Alone DEF OnceInv
<1>2. FreshOK'
  BY DEF FreshOK
<1>3. Safe' /\ KindOK'
  BY DEF Safe, KindOK
<1>4. AgainOK'
  BY <1>1, Ids DEF OnceInv, AgainOK
<1> QED
  BY <1>2, <1>3, <1>4 DEF OnceInv

\* Where calls end.
EndPlaces == Unasked \cup Unretried \cup {"execute.read", "drain.read", "info.read", "exec.committed", "exec.done"}

\* A call that ends in ErrBadConn and is retried has not been committed.
LEMMA EndOnce ==
  ASSUME IInv, OnceInv, AllKept, NEW e, NEW next, Ends(e, next), pc \in EndPlaces,
         pc = "exec.committed" => e = res, pc = "exec.done" => e = err
  PROVE  OnceInv'
<1>0. calls' = calls /\ job' = NoJob /\ stack' = <<>> /\ pc' \in {"idle", "close"}
  BY EndMoves DEF Ends
<1>1. Singles' /\ FreshOK' /\ Safe' /\ KindOK'
  BY <1>0, SinglesKept, FreshKept, Ids, Stacked DEF OnceInv, FreshOK, Safe, KindOK, Unasked, Unretried
<1>2. AgainOK'
  <2>1. CASE again' = NoJob
    BY <1>0, <2>1, Ids DEF AgainOK
  <2>2. CASE again' # NoJob
    <3>1. again' = job /\ holder' = "closing" /\ pc' = "close" /\ job.kind \in Retried /\ ~expired /\ IsBad(e)
      BY <2>2 DEF Ends
    <3>2. job.id # 0 => Uncommitted(job.id)
      <4>1. CASE pc \in Unasked
        BY <4>1, UntouchedIs DEF OnceInv, FreshOK
      <4>2. CASE pc \in Unretried
        BY <3>1, <4>2 DEF OnceInv, KindOK
      <4>3. CASE pc \in {"execute.read", "drain.read", "info.read"}
        BY <3>1, <4>3 DEF OnceInv, Safe, Waiting
      <4>4. CASE pc \in {"exec.committed", "exec.done"}
        BY <3>1, <4>4 DEF OnceInv, Safe, Committed, Decided
      <4> QED
        BY <4>1, <4>2, <4>3, <4>4 DEF EndPlaces
    <3>3. \A i \in Calls : i = job.id => Uncommitted(i)'
      BY <3>2, Ids DEF AllKept, Keeps, Calls
    <3>4. again'.id # 0 => Uncommitted(again.id)'
      <4> SUFFICES ASSUME NEW i, i = again'.id, i # 0 PROVE Uncommitted(i)'
        OBVIOUS
      <4>1. i = job.id /\ i \in Calls
        BY <3>1, Ids
      <4> QED
        BY <3>3, <4>1
    <3>5. again'.id <= calls' /\ job'.id <= calls'
      BY <1>0, <3>1, Ids DEF OnceInv, AgainOK
    <3> QED
      BY <1>0, <3>1, <3>4, <3>5 DEF AgainOK, AtRest, Closing
  <2> QED
    BY <2>1, <2>2
<1> QED
  BY <1>1, <1>2 DEF OnceInv

\* Where stmt.exec and stmt.query end.
LeavePlaces == {"prepare.read", "bind.read", "upload.slice", "execute.read", "drain.read", "info.read", "exec.committed"}

\* Where stmt.exec and stmt.query lead.
LEMMA LeavesTo ==
  ASSUME IInv, NEW e, Leave(e)
  PROVE  \/ Finish(e)
         \/ /\ pc' = "free" /\ stack' = <<"exec.done">> /\ err' = e /\ job.kind \in {"exec", "scroll"}
            /\ UNCHANGED <<job, expired, again, calls>>
         \/ /\ pc' = "rows" /\ job'.id = job.id /\ job'.kind \in {"rows", "scroll"}
            /\ UNCHANGED <<again, calls>>
<1>1. job \in [kind : CallKinds \cup {"none", "rows"}, shape : {"dml", "select", "proc"}, ctx : CtxKinds, id : 0..MaxCalls]
  BY DEF IInv, CallType, Jobs
<1>2. [job EXCEPT !.kind = "rows"].id = job.id /\ [job EXCEPT !.kind = "rows"].kind = "rows"
  BY <1>1
<1> QED
  BY <1>2 DEF Leave, Goto

\* An error that fc.exec ends with because the writer refused a request is
\* remembered by the writer, so the commit of its deferred stmt.Close is refused too.
LEMMA LeaveOnce ==
  ASSUME IInv, Owed, ResOK, OnceInv, AllKept, NEW e, Leave(e), writer' = writer, pc \in LeavePlaces,
         e \in {res, "nil", "other"} \/ (e = "bad" /\ expired),
         pc = "exec.committed" => e = res, pc = "prepare.read" => e = "other"
  PROVE  OnceInv'
<1>0. again = NoJob
  BY Alone DEF OnceInv, LeavePlaces, AtRest, Closing
<1>1. CASE Finish(e)
  <2>1. PICK next : Ends(e, next)
    BY <1>1, FinishMoves
  <2>2. pc \in EndPlaces /\ pc # "exec.done"
    BY DEF LeavePlaces, EndPlaces, Unasked
  <2> QED
    BY <2>1, <2>2, EndOnce
<1>2. CASE /\ pc' = "free" /\ stack' = <<"exec.done">> /\ err' = e /\ job.kind \in {"exec", "scroll"}
           /\ UNCHANGED <<job, expired, again, calls>>
  <2>1. Singles' /\ FreshOK'
    BY <1>2, SinglesKept, FreshKept DEF OnceInv, FreshOK, Unasked
  <2>2. KindOK' /\ AgainOK'
    BY <1>0, <1>2, Ids, Stacked DEF OnceInv, KindOK, AgainOK, Unretried
  <2>3. Safe'
    <3> SUFFICES ASSUME job.id # 0, job.kind \in Retried, ~expired
                 PROVE  IsBad(e) => Uncommitted(job.id)' /\ writer' = "sticky"
      BY <1>2, Stacked DEF Safe, Waiting, Committed, Decided
    <3> SUFFICES ASSUME IsBad(e) PROVE Uncommitted(job.id)' /\ writer' = "sticky"
      OBVIOUS
    <3>1. job.kind = "exec" /\ e = res /\ pc # "prepare.read"
      BY <1>2 DEF IsBad, Retried
    <3>2. res # "bad"
      BY <3>1 DEF ResOK, ResPlaces, LeavePlaces
    <3>3. writer = "sticky"
      BY <3>1, <3>2 DEF IsBad, Owed
    <3>4. Uncommitted(job.id)
      <4>1. CASE pc \in Unasked
        BY <4>1, UntouchedIs DEF OnceInv, FreshOK
      <4>2. CASE pc \notin Unasked
        BY <3>1, <4>2 DEF OnceInv, Safe, Waiting, Committed, LeavePlaces, Unasked
      <4> QED
        BY <4>1, <4>2
    <3>5. Uncommitted(job.id)'
      BY <1>2, <3>4, Ids DEF AllKept, Keeps
    <3> QED
      BY <3>3, <3>5
  <2> QED
    BY <2>1, <2>2, <2>3 DEF OnceInv
<1>3. CASE /\ pc' = "rows" /\ job'.id = job.id /\ job'.kind \in {"rows", "scroll"}
           /\ UNCHANGED <<again, calls>>
  <2>1. job'.kind \notin Retried /\ pc \notin AtRest /\ pc' \notin Unasked
    BY <1>3 DEF Retried, LeavePlaces, AtRest, Closing, Unasked
  <2>2. Singles' /\ \A i \in Calls : i > calls => Untouched(i)'
    BY <1>3, SinglesKept, FreshKept DEF OnceInv
  <2> QED
    BY <1>3, <2>1, <2>2, OtherOnce
<1> QED
  BY <1>1, <1>2, <1>3, LeavesTo

\* Between the request for its work and the end of a call.
LEMMA GoesOnOnce ==
  ASSUME IInv, OnceInv, Singles', \A i \in Calls : i > calls => Untouched(i)', UNCHANGED <<job, again, calls>>,
         pc \notin AtRest, pc' \notin Unasked \cup Unretried, pc' \in {"free", "free.read"} => stack' # <<>>,
         stack' \notin {<<"freed">>, <<"immediate.done">>, <<"immediate.begun">>}, Safe'
  PROVE  OnceInv'
<1>1. again = NoJob
  BY Alone DEF OnceInv
<1>2. FreshOK'
  BY DEF FreshOK
<1>3. KindOK'
  BY DEF KindOK
<1>4. AgainOK'
  BY <1>1, Ids DEF OnceInv, AgainOK
<1> QED
  BY <1>2, <1>3, <1>4 DEF OnceInv

\* Every step of transaction.go keeps the invariant, ...
LEMMA TransactionOnce ==
  ASSUME IInv, Owed, ResOK, OnceInv, Transaction
  PROVE  OnceInv'
<1>0. ~Commit /\ ~CommitRetaining => AllKept
  BY TransactionAdds, AddsKeeps DEF AllKept
<1>1. CASE Begin
  <2>1. pc = "tx.begin" /\ pc' = "tx.begun" /\ stack' = stack /\ UNCHANGED <<job, again, calls, holder>> /\ AllKept
    BY <1>0, <1>1 DEF Begin, At, Goto, dataVars, callVars, Commit, CommitRetaining
  <2>2. stack \in {<<"prepare.begun">>, <<"run.begun">>, <<"immediate.begun">>, <<"begin.done">>}
    BY <2>1, Stacks
  <2>3. stack = <<"immediate.begun">> => job.kind \notin Retried
    BY DEF OnceInv, KindOK
  <2> QED
    BY <2>1, <2>2, <2>3, AheadOnce, Stacked DEF Unasked, Unretried
<1>2. CASE BeginRead
  <2>1. /\ pc = "tx.begun" /\ stack = <<pc'>> /\ stack' = <<>> /\ AllKept /\ UNCHANGED <<job, again, calls, holder>>
        /\ pc' \in {"prepare.begun", "run.begun", "immediate.begun", "begin.done"}
    BY <1>0, <1>2, BegunMoves DEF callVars, BeginRead, At, Commit, CommitRetaining
  <2>2. pc' = "immediate.begun" => job.kind \notin Retried
    BY <2>1 DEF OnceInv, KindOK
  <2> QED
    BY <2>1, <2>2, AheadOnce, Stacked DEF Unasked, Unretried
<1>3. CASE BeginTx
  <2>1. /\ pc = "begin" /\ pc' = "tx.begin" /\ stack' = <<"begin.done">> /\ UNCHANGED <<job, again, calls, holder>> /\ AllKept
    BY <1>0, <1>3, Entered, Stacks DEF BeginTx, Call, At, callVars, Plain, Places, Commit, CommitRetaining
  <2> QED
    BY <2>1, AheadOnce, Stacked DEF Unasked, Unretried
<1>4. CASE BeginTxDone \/ CommitRead \/ RollbackRead
  <2>1. /\ pc \in {"begin.done", "commit.read", "rollback.read"} /\ AllKept /\ \E e, next : Ends(e, next)
    BY <1>0, <1>4 DEF BeginTxDone, CommitRead, RollbackRead, At, Commit, CommitRetaining
  <2>2. pc \in EndPlaces /\ pc # "exec.committed" /\ pc # "exec.done"
    BY <2>1 DEF EndPlaces, Unasked, Unretried
  <2> QED
    BY <2>1, <2>2, EndOnce
<1>5. CASE Rollback
  <2>1. /\ pc = "rollback" /\ pc' = "rollback.read" /\ UNCHANGED <<job, again, calls, stack>> /\ AllKept
    BY <1>0, <1>5 DEF Rollback, At, Goto, dataVars, callVars, Commit, CommitRetaining
  <2>2. job.kind \notin Retried /\ pc \notin AtRest /\ pc' \notin Unasked
    BY <2>1 DEF OnceInv, KindOK, Unretried, AtRest, Closing, Unasked
  <2> QED
    BY <2>1, <2>2, OtherOnce, SinglesKept, FreshKept DEF OnceInv
<1>6. CASE Commit \/ CommitRetaining
  <2>1. /\ pc \in {"commit", "commitRetaining"} /\ UNCHANGED <<job, again, calls, stack, err, expired>>
        /\ pc' \in {"commit.read", "commitRetaining.read"}
        /\ pc = "commitRetaining" <=> pc' = "commitRetaining.read"
    BY <1>6 DEF Commit, CommitRetaining, At, Goto, dataVars, callVars
  <2>2. Singles' /\ \A i \in Calls : i > calls => Untouched(i)'
    BY <1>6, CommitKeeps DEF OnceInv, Singles, FreshOK
  <2>3. pc \notin AtRest /\ pc' \notin Unasked
    BY <2>1 DEF AtRest, Closing, Unasked
  <2>4. CASE job.kind \notin Retried
    BY <2>1, <2>2, <2>3, <2>4, OtherOnce
  <2>5. CASE job.kind \in Retried
    <3>1. pc = "commitRetaining" /\ CommitRetaining /\ stack \in {<<"exec.committed">>, <<"exec.done">>}
      BY <1>6, <2>1, <2>5, Stacks DEF OnceInv, KindOK, Unretried, Commit, At
    <3>2. pc' = "commitRetaining.read" /\ res' \in {"nil", "unsent"}
      BY <2>1, <3>1, Asks DEF CommitRetaining
    <3>3. Safe'
      <4> SUFFICES ASSUME job.id # 0, job.kind \in Retried, ~expired
                   PROVE  /\ stack = <<"exec.committed">> /\ IsBad(res') => Uncommitted(job.id)'
                          /\ stack = <<"exec.done">> /\ IsBad(err) => Uncommitted(job.id)' /\ writer' = "sticky"
        BY <2>1, <3>2, Stacked DEF Safe, Waiting, Committed, Decided
      <4>1. job.id \in Calls /\ job' = job
        BY <2>1, Ids
      <4>2. ASSUME stack = <<"exec.committed">>, IsBad(res') PROVE Uncommitted(job.id)'
        <5>1. res' = "unsent" /\ Uncommitted(job.id)
          BY <3>1, <3>2, <4>2 DEF IsBad, OnceInv, Safe, Waiting
        <5>2. Keeps(job.id)
          BY <3>1, <4>1, <5>1, CommitKeeps
        <5> QED
          BY <4>1, <5>1, <5>2 DEF Keeps
      <4>3. ASSUME stack = <<"exec.done">>, IsBad(err) PROVE Uncommitted(job.id)' /\ writer' = "sticky"
        <5>1. writer = "sticky" /\ Uncommitted(job.id)
          BY <4>3 DEF OnceInv, Safe, Decided
        <5>2. Keeps(job.id) /\ writer' = "sticky"
          BY <3>1, <4>1, <5>1, CommitKeeps
        <5> QED
          BY <4>1, <5>1, <5>2 DEF Keeps
      <4> QED
        BY <4>2, <4>3
    <3>4. pc' \notin Unasked \cup Unretried /\ pc' \notin {"free", "free.read"}
          /\ stack' \notin {<<"freed">>, <<"immediate.done">>, <<"immediate.begun">>}
      BY <2>1, <3>1, <3>2, Stacked DEF Unasked, Unretried
    <3> QED
      BY <2>1, <2>2, <2>3, <3>3, <3>4, GoesOnOnce
  <2> QED
    BY <2>4, <2>5
<1>7. CASE CommitRetainingRead
  <2>1. /\ pc = "commitRetaining.read" /\ stack = <<pc'>> /\ stack' = <<>> /\ res' = res /\ writer' = writer
        /\ pc' \in {"exec.committed", "immediate.done", "exec.done", "freed"}
        /\ UNCHANGED <<job, again, calls, err, expired>>
    BY <1>7, RetainedMoves, Clears DEF callVars
  <2>2. AllKept
    BY <1>0, <1>7 DEF CommitRetainingRead, At, Commit, CommitRetaining
  <2>3. Singles' /\ \A i \in Calls : i > calls => Untouched(i)'
    BY <2>1, <2>2, SinglesKept, FreshKept DEF OnceInv
  <2>4. pc \notin AtRest /\ pc' \notin Unasked
    BY <2>1 DEF AtRest, Closing, Unasked
  <2>5. CASE job.kind \notin Retried
    BY <2>1, <2>3, <2>4, <2>5, OtherOnce
  <2>6. CASE job.kind \in Retried
    <3>1. pc' \in {"exec.committed", "exec.done"}
      BY <2>1, <2>6 DEF OnceInv, KindOK
    <3>2. Safe'
      <4> SUFFICES ASSUME job.id # 0, job.kind \in Retried, ~expired
                   PROVE  /\ pc' = "exec.committed" /\ IsBad(res) => Uncommitted(job.id)'
                          /\ pc' = "exec.done" /\ IsBad(err) => Uncommitted(job.id)' /\ writer' = "sticky"
        BY <2>1, <3>1, Stacked DEF Safe, Waiting, Committed, Decided
      <4>1. job.id \in Calls /\ job' = job
        BY <2>1, Ids
      <4>2. Uncommitted(job.id) => Uncommitted(job.id)'
        BY <2>2, <4>1 DEF AllKept, Keeps
      <4>3. /\ pc' = "exec.committed" /\ IsBad(res) => Uncommitted(job.id)
            /\ pc' = "exec.done" /\ IsBad(err) => Uncommitted(job.id) /\ writer = "sticky"
        BY <2>1 DEF OnceInv, Safe, Committed, Decided
      <4> QED
        BY <2>1, <4>2, <4>3
    <3> QED
      BY <2>1, <2>3, <2>4, <3>1, <3>2, GoesOnOnce, Stacked DEF Unretried
  <2> QED
    BY <2>5, <2>6
<1> QED
  BY <1>1, <1>2, <1>3, <1>4, <1>5, <1>6, <1>7 DEF Transaction

\* The end of a call outside transaction.go.
LEMMA FinishOnce ==
  ASSUME IInv, OnceInv, AllKept, NEW e, Finish(e), pc \in EndPlaces,
         pc = "exec.committed" => e = res, pc = "exec.done" => e = err
  PROVE  OnceInv'
<1>1. PICK next : Ends(e, next)
  BY FinishMoves
<1> QED
  BY <1>1, EndOnce

\* Inside a subroutine of its own, or out of any, a call has the stack that place has.
AheadStep == /\ pc \in Unasked /\ pc' \in Unasked \cup {"panic"} /\ UNCHANGED <<job, again, calls, holder>>
             /\ stack' \in {<<>>, <<"prepare.begun">>, <<"run.begun">>, <<"immediate.begun">>}
             /\ pc' \in Unretried \/ stack' = <<"immediate.begun">> => pc \in Unretried

\* Such a step keeps the invariant.
LEMMA AheadStepOnce ==
  ASSUME IInv, OnceInv, AllKept, AheadStep
  PROVE  OnceInv'
<1>1. stack' \notin {<<"exec.done">>, <<"exec.committed">>, <<"freed">>, <<"immediate.done">>}
  BY Stacked DEF AheadStep
<1>2. pc' \in Unretried \/ stack' = <<"immediate.begun">> => job.kind \notin Retried
  BY DEF AheadStep, OnceInv, KindOK
<1> QED
  BY <1>1, <1>2, AheadOnce DEF AheadStep

\* Up to the request for its work.
Ahead == \/ Prepare \/ PrepareBegun \/ Allocate \/ PrepareStatement \/ PrepareRead \/ Run \/ RunBegun \/ Bind \/ BindRead
         \/ Upload \/ UploadRead \/ UploadClosed \/ SliceStored \/ Immediate \/ ImmediateBegun

\* Where the steps before the request lead.
LEMMA AheadSteps ==
  ASSUME IInv, Ahead
  PROVE  /\ pc \in Unasked
         /\ \/ \E e : Finish(e)
            \/ pc \in {"bind.read", "upload.slice"} /\ writer' = writer /\ Leave(res)
            \/ AheadStep
<1>1. CASE Prepare \/ Run \/ Immediate
  <2>1. /\ pc \in {"prepare", "run", "immediate"} /\ stack = <<>>
    BY <1>1, Stacks DEF Prepare, Run, Immediate, At, Plain, Places
  <2>2. \/ \E e : Finish(e)
        \/ Panic \/ Continue("allocate") \/ Continue("bind")
        \/ Continue("immediate.send") /\ pc = "immediate"
        \/ Call("tx.begin", "prepare.begun") \/ Call("tx.begin", "run.begun")
        \/ Call("tx.begin", "immediate.begun") /\ pc = "immediate"
    BY <1>1 DEF Prepare, Run, Immediate, At
  <2>3. CASE Panic \/ Continue("allocate") \/ Continue("bind") \/ (Continue("immediate.send") /\ pc = "immediate")
    BY <2>1, <2>3, Stacked DEF Panic, Continue, Goto, callVars, AheadStep, Unasked, Unretried
  <2>4. CASE \/ Call("tx.begin", "prepare.begun") \/ Call("tx.begin", "run.begun")
             \/ (Call("tx.begin", "immediate.begun") /\ pc = "immediate")
    <3>1. pc' = "tx.begin" /\ UNCHANGED callVars
          /\ \/ stack' \in {<<"prepare.begun">>, <<"run.begun">>}
             \/ stack' = <<"immediate.begun">> /\ pc = "immediate"
      BY <2>1, <2>4, Entered DEF Call
    <3> QED
      BY <2>1, <3>1, Stacked DEF callVars, AheadStep, Unasked, Unretried
  <2> QED
    BY <2>1, <2>2, <2>3, <2>4 DEF Unasked
<1>2. CASE PrepareBegun \/ RunBegun \/ ImmediateBegun \/ PrepareRead
  <2>1. pc \in {"prepare.begun", "run.begun", "immediate.begun", "prepare.read"} /\ stack = <<>>
    BY <1>2, Stacks DEF PrepareBegun, RunBegun, ImmediateBegun, PrepareRead, At, Plain, Places
  <2>2. \/ \E e : Finish(e)
        \/ Continue("allocate") \/ Continue("bind") \/ (Continue("immediate.send") /\ pc = "immediate.begun")
    BY <1>2 DEF PrepareBegun, RunBegun, ImmediateBegun, PrepareRead, At
  <2> QED
    BY <2>1, <2>2, Stacked DEF Continue, Goto, callVars, AheadStep, Unasked, Unretried
<1>3. CASE Allocate \/ Bind \/ Upload \/ UploadRead \/ UploadClosed
  <2>1. pc \in {"allocate", "bind", "execute", "upload.blob", "upload.segment", "upload.closed"} /\ stack = <<>>
    BY <1>3, Stacks DEF Allocate, Bind, Upload, UploadRead, UploadClosed, At, Plain, Places
  <2>2. /\ pc' \in {"allocate.read", "execute", "bind.read", "upload.blob", "upload.slice", "upload.segment", "upload.closed"}
        /\ stack' = stack /\ UNCHANGED callVars
    BY <1>3 DEF Allocate, Bind, Upload, UploadRead, UploadClosed, Goto, dataVars
  <2> QED
    BY <2>1, <2>2 DEF callVars, AheadStep, Unasked, Unretried
<1>4. CASE PrepareStatement
  <2>1. pc = "allocate.read" /\ stack = <<>>
    BY <1>4, Stacks DEF PrepareStatement, At, Plain, Places
  <2>2. (\E e : Finish(e)) \/ Continue("prepare.read")
    BY <1>4 DEF PrepareStatement
  <2> QED
    BY <2>1, <2>2 DEF Continue, Goto, callVars, AheadStep, Unasked, Unretried
<1>5. CASE BindRead \/ SliceStored
  <2>1. pc \in {"bind.read", "upload.slice"} /\ stack = <<>> /\ writer' = writer
    BY <1>5, Stacks DEF BindRead, SliceStored, At, Plain, Places, wireVars
  <2>2. Leave(res) \/ Continue("execute")
    BY <1>5 DEF BindRead, SliceStored
  <2> QED
    BY <2>1, <2>2 DEF Continue, Goto, callVars, AheadStep, Unasked, Unretried
<1> QED
  BY <1>1, <1>2, <1>3, <1>4, <1>5 DEF Ahead

\* They keep the invariant, ...
LEMMA AheadStepsOnce ==
  ASSUME IInv, Owed, ResOK, OnceInv, Ahead
  PROVE  OnceInv'
<1>1. Statement /\ ~Execute /\ ~ImmediateSend
  <2>1. Statement /\ ~ImmediateSend
    BY AheadSteps DEF Ahead, Statement, ImmediateSend, Prepare, PrepareBegun, Allocate, PrepareStatement, PrepareRead, Run,
       RunBegun, Bind, BindRead, Upload, UploadRead, UploadClosed, SliceStored, Immediate, ImmediateBegun, At
  <2>2. ~Execute
    <3>1. Execute => pc = "execute" /\ pc' = "execute.read"
      BY DEF Execute, At, Goto
    <3>2. pc = "execute" => pc' # "execute.read"
      BY DEF Ahead, Prepare, PrepareBegun, Allocate, PrepareStatement, PrepareRead, Run,
         RunBegun, Bind, BindRead, Upload, UploadRead, UploadClosed, SliceStored, Immediate, ImmediateBegun, At, Goto
    <3> QED
      BY <3>1, <3>2
  <2> QED
    BY <2>1, <2>2
<1>2. AllKept
  BY <1>1, StatementAdds, AddsKeeps DEF AllKept
<1>3. pc \in EndPlaces /\ pc # "exec.committed" /\ pc # "exec.done"
  BY AheadSteps DEF EndPlaces, Unasked
<1>4. CASE \E e : Finish(e)
  BY <1>2, <1>3, <1>4, FinishOnce
<1>5. CASE pc \in {"bind.read", "upload.slice"} /\ writer' = writer /\ Leave(res)
  BY <1>2, <1>5, LeaveOnce DEF LeavePlaces
<1>6. CASE AheadStep
  BY <1>2, <1>6, AheadStepOnce
<1> QED
  BY <1>4, <1>5, <1>6, AheadSteps

\* Steps that leave the writer's state as it is, or broken.
LEMMA StaysBroken ==
  ASSUME writer = "sticky"
  PROVE  /\ \A op, h, w, d : Ask(op, h, w, d) => writer' = "sticky"
         /\ \A op, b : AskLazily(op, b) => writer' = "sticky"
         /\ Disarm => writer' = "sticky"
         /\ ReadTimeoutCleared => writer' = "sticky"
         /\ UNCHANGED wireVars => writer' = "sticky"
<1>1. \A rs, awaited, counted, d, checked : Write(rs, awaited, counted, d, checked) => writer' = "sticky"
  BY DEF Write
<1>2. \A d : SetDeadline(d) => writer' = "sticky"
  BY DEF SetDeadline
<1> QED
  BY <1>1, <1>2 DEF Ask, AskLazily, Disarm, ReadTimeoutCleared, wireVars

\* A call that waits for the server's answer goes on waiting, or gives up.
LEMMA WaitingOnce ==
  ASSUME IInv, OnceInv, AllKept, pc \in {"execute.read", "drain.read", "info.read"}, UNCHANGED <<job, again, calls, expired>>,
         \/ pc' \in {"drain.read", "info.read", "panic"} /\ stack' = <<>>
         \/ pc' = "commitRetaining" /\ stack' = <<"exec.committed">>
  PROVE  OnceInv'
<1>1. Singles' /\ \A i \in Calls : i > calls => Untouched(i)'
  BY SinglesKept, FreshKept DEF OnceInv
<1>2. Safe'
  <2> SUFFICES ASSUME job.id # 0, job.kind \in Retried, ~expired PROVE Uncommitted(job.id)'
    BY Stacked DEF Safe, Committed, Decided
  <2>1. Uncommitted(job.id) /\ job.id \in Calls
    BY Ids DEF OnceInv, Safe, Waiting
  <2>2. Uncommitted(job.id)'
    BY <2>1 DEF AllKept, Keeps
  <2> QED
    BY <2>2
<1> QED
  BY <1>1, <1>2, GoesOnOnce, Stacked DEF AtRest, Closing, Unasked, Unretried

\* ... so do the reads that follow it, ...
LEMMA ReadsOnce ==
  ASSUME IInv, Owed, ResOK, OnceInv, ExecuteRead \/ DrainRead \/ InfoRead \/ ExecCommitted \/ ScrollRefused
  PROVE  OnceInv'
<1>1. /\ pc \in {"execute.read", "drain.read", "info.read", "exec.committed", "prepare.read"} /\ stack = <<>>
      /\ pc = "prepare.read" <=> ScrollRefused
      /\ pc = "exec.committed" <=> ExecCommitted
  BY Stacks DEF ExecuteRead, DrainRead, InfoRead, ExecCommitted, ScrollRefused, At, Plain, Places
<1>2. AllKept
  BY <1>1, StatementAdds, AddsKeeps DEF AllKept, Statement, Execute, ImmediateSend, At
<1>3. Disarm => writer' = writer
  BY DEF Disarm, SetDeadline
<1>4. ASSUME NEW e, Leave(e), writer' = writer, e \in {res, "nil", "other"} \/ (e = "bad" /\ expired),
             pc = "exec.committed" => e = res, pc = "prepare.read" => e = "other"
      PROVE  OnceInv'
  BY <1>1, <1>2, <1>4, LeaveOnce DEF LeavePlaces
<1>5. ASSUME NEW op, Abandon(op), pc \in {"execute.read", "info.read"} PROVE OnceInv'
  <2>1. CASE Continue("drain.read")
    BY <1>1, <1>2, <1>5, <2>1, WaitingOnce DEF Continue, Goto, callVars
  <2>2. CASE Disarm /\ Leave(IF expired THEN "bad" ELSE res)
    <3>1. CASE expired
      BY <1>3, <1>4, <1>5, <2>2, <3>1
    <3>2. CASE ~expired
      BY <1>3, <1>4, <1>5, <2>2, <3>2
    <3> QED
      BY <3>1, <3>2
  <2> QED
    BY <1>5, <2>1, <2>2, Abandons
<1>6. CASE ExecuteRead
  <2>1. pc = "execute.read"
    BY <1>6 DEF ExecuteRead, At
  <2>2. CASE res = "unsent" /\ Leave(res) /\ UNCHANGED wireVars
    BY <1>4, <2>1, <2>2 DEF wireVars
  <2>3. CASE Abandon("execute")
    BY <1>5, <2>1, <2>3
  <2>4. CASE expired /\ Disarm /\ Leave("bad")
    BY <1>3, <1>4, <2>1, <2>4
  <2>5. CASE Continue("info.read")
    BY <1>1, <1>2, <2>1, <2>5, WaitingOnce DEF Continue, Goto, callVars
  <2>6. CASE Disarm /\ Leave("nil")
    BY <1>3, <1>4, <2>1, <2>6
  <2> QED
    BY <1>6, <2>2, <2>3, <2>4, <2>5, <2>6 DEF ExecuteRead
<1>7. CASE DrainRead
  <2>1. pc = "drain.read" /\ writer' = writer
    BY <1>7 DEF DrainRead, At, SetDeadline
  <2>2. CASE Panic
    BY <1>1, <1>2, <2>1, <2>2, WaitingOnce DEF Panic, Continue, Goto, callVars
  <2>3. CASE Leave(IF expired THEN "bad" ELSE res)
    <3>1. CASE expired
      BY <1>4, <2>1, <2>3, <3>1
    <3>2. CASE ~expired
      BY <1>4, <2>1, <2>3, <3>2
    <3> QED
      BY <3>1, <3>2
  <2> QED
    BY <1>7, <2>2, <2>3 DEF DrainRead
<1>8. CASE InfoRead
  <2>1. pc = "info.read"
    BY <1>8 DEF InfoRead, At
  <2>2. CASE Disarm /\ Leave(res)
    BY <1>3, <1>4, <2>1, <2>2
  <2>3. CASE Abandon("info")
    BY <1>5, <2>1, <2>3
  <2>4. CASE Call("commitRetaining", "exec.committed")
    <3>1. pc' = "commitRetaining" /\ stack' = <<"exec.committed">> /\ UNCHANGED callVars
      BY <1>1, <2>4, Entered DEF Call
    <3> QED
      BY <1>2, <2>1, <3>1, WaitingOnce DEF callVars
  <2>5. CASE Disarm /\ Leave("nil")
    BY <1>3, <1>4, <2>1, <2>5
  <2> QED
    BY <1>8, <2>2, <2>3, <2>4, <2>5 DEF InfoRead
<1>9. CASE ExecCommitted
  <2>1. pc = "exec.committed" /\ Disarm /\ Leave(res)
    BY <1>9 DEF ExecCommitted, At
  <2> QED
    BY <1>3, <1>4, <2>1
<1>10. CASE ScrollRefused
  <2>1. pc = "prepare.read" /\ writer' = writer /\ Leave("other")
    BY <1>10 DEF ScrollRefused, At, wireVars
  <2> QED
    BY <1>4, <2>1
<1> QED
  BY <1>6, <1>7, <1>8, <1>9, <1>10

\* ... the request itself, ...
LEMMA ExecuteOnce ==
  ASSUME IInv, OnceInv, Execute \/ ImmediateSend
  PROVE  OnceInv'
<1>1. /\ UNCHANGED <<job, again, calls, expired, stack>> /\ stack = <<>>
      /\ \/ pc = "execute" /\ pc' = "execute.read"
         \/ pc = "immediate.send" /\ pc' = "immediate.read"
  BY Stacks DEF Execute, ImmediateSend, At, Goto, dataVars, callVars, Plain, Places
<1>2. job.id # 0 => Untouched(job.id)
  BY <1>1 DEF OnceInv, FreshOK, Unasked
<1>3. Work \in {0, job.id}
  BY DEF Work
<1>4. Singles'
  <2> SUFFICES ASSUME NEW i \in Calls PROVE Once(i)'
    BY DEF Singles
  <2>1. CASE Work # i
    BY <2>1, ExecuteKeeps DEF Keeps, OnceInv, Singles
  <2>2. CASE Work = i
    <3>1. i = job.id /\ i # 0
      BY <1>3, <2>2, SessionAssumption DEF Calls
    <3>2. Untouched(i)
      BY <1>2, <3>1
    <3> QED
      BY <3>2, ExecuteKeeps
  <2> QED
    BY <2>1, <2>2
<1>5. \A i \in Calls : i > calls => Untouched(i)'
  <2> SUFFICES ASSUME NEW i \in Calls, i > calls PROVE Untouched(i)'
    OBVIOUS
  <2>1. Untouched(i)
    BY DEF OnceInv, FreshOK
  <2>2. Work # i
    <3>1. job.id <= calls /\ i \in Nat \ {0}
      BY SessionAssumption DEF OnceInv, AgainOK, Calls
    <3> QED
      BY <1>3, <3>1, Ids
  <2> QED
    BY <2>1, <2>2, ExecuteKeeps DEF Keeps
<1>6. CASE pc = "immediate.send" /\ pc' = "immediate.read"
  <2>1. job.kind \notin Retried /\ pc \notin AtRest /\ pc' \notin Unasked
    BY <1>6 DEF OnceInv, KindOK, Unretried, AtRest, Closing, Unasked
  <2> QED
    BY <1>1, <1>4, <1>5, <2>1, OtherOnce
<1>7. CASE pc = "execute" /\ pc' = "execute.read"
  <2>1. Safe'
    <3> SUFFICES ASSUME job.id # 0 PROVE Uncommitted(job.id)'
      BY <1>1, <1>7, Stacked DEF Safe, Committed, Decided
    <3>1. Untouched(job.id)
      BY <1>2
    <3>2. \A i \in Calls : Untouched(i) => Uncommitted(i)'
      BY ExecuteKeeps
    <3>3. job.id \in Calls /\ job' = job
      BY <1>1, Ids
    <3> QED
      BY <3>1, <3>2, <3>3
  <2> QED
    BY <1>1, <1>4, <1>5, <1>7, <2>1, GoesOnOnce, Stacked DEF AtRest, Closing, Unasked, Unretried
<1> QED
  BY <1>1, <1>6, <1>7

\* The end of fc.exec, whose statement is closed first.
LEMMA ClosingOnce ==
  ASSUME IInv, OnceInv, AllKept, UNCHANGED <<job, again, calls, expired, err>>, writer = "sticky" => writer' = "sticky",
         stack = <<"exec.done">>, pc \in {"free", "free.read"},
         \/ pc' \in {"free.read", "panic", "commitRetaining"} /\ stack' = <<"exec.done">>
         \/ pc' = "exec.done" /\ stack' = <<>>
  PROVE  OnceInv'
<1>1. Singles' /\ \A i \in Calls : i > calls => Untouched(i)'
  BY SinglesKept, FreshKept DEF OnceInv
<1>2. Safe'
  <2> SUFFICES ASSUME job.id # 0, job.kind \in Retried, ~expired, IsBad(err)
               PROVE  Uncommitted(job.id)' /\ writer' = "sticky"
    BY Stacked DEF Safe, Waiting, Committed, Decided
  <2>1. Uncommitted(job.id) /\ job.id \in Calls /\ writer = "sticky"
    BY Ids DEF OnceInv, Safe, Decided
  <2>2. Uncommitted(job.id)'
    BY <2>1 DEF AllKept, Keeps
  <2> QED
    BY <2>1, <2>2
<1> QED
  BY <1>1, <1>2, GoesOnOnce, Stacked DEF AtRest, Closing, Unasked, Unretried

\* ... and what follows the answer.
LEMMA EndingOnce ==
  ASSUME IInv, OnceInv, ExecDone \/ ImmediateRead \/ ImmediateDone \/ Free \/ FreeRead \/ Freed
  PROVE  OnceInv'
<1>1. AllKept
  BY StatementAdds, AddsKeeps DEF AllKept, Statement, Execute, ImmediateSend, ExecDone, ImmediateRead, ImmediateDone, Free, FreeRead,
     Freed, At
<1>2. Singles' /\ (calls' = calls => \A i \in Calls : i > calls => Untouched(i)')
  BY <1>1, SinglesKept, FreshKept DEF OnceInv
<1>3. CASE ExecDone
  <2>1. pc = "exec.done" /\ Finish(err)
    BY <1>3 DEF ExecDone, At
  <2> QED
    BY <1>1, <2>1, FinishOnce DEF EndPlaces
<1>4. CASE ImmediateDone \/ Freed
  <2>1. pc \in {"immediate.done", "freed"} /\ \E e : Finish(e)
    BY <1>4 DEF ImmediateDone, Freed, At
  <2>2. pc \in EndPlaces /\ pc # "exec.committed" /\ pc # "exec.done"
    BY <2>1 DEF EndPlaces, Unretried
  <2> QED
    BY <1>1, <2>1, <2>2, FinishOnce
<1>5. CASE ImmediateRead
  <2>1. pc = "immediate.read" /\ ((\E e : Finish(e)) \/ Call("commitRetaining", "immediate.done"))
    BY <1>5 DEF ImmediateRead, At
  <2>2. pc \in EndPlaces /\ pc # "exec.committed" /\ pc # "exec.done"
    BY <2>1 DEF EndPlaces, Unretried
  <2>3. CASE \E e : Finish(e)
    BY <1>1, <2>2, <2>3, FinishOnce
  <2>4. CASE Call("commitRetaining", "immediate.done")
    <3>1. pc' = "commitRetaining" /\ UNCHANGED <<job, again, calls>>
      BY <2>4 DEF Call, Enter, callVars
    <3>2. job.kind \notin Retried /\ pc \notin AtRest /\ pc' \notin Unasked
      BY <2>1, <3>1 DEF OnceInv, KindOK, Unretried, AtRest, Closing, Unasked
    <3> QED
      BY <1>2, <3>1, <3>2, OtherOnce
  <2> QED
    BY <2>1, <2>3, <2>4
<1>6. CASE Free \/ FreeRead
  <2>1. /\ pc \in {"free", "free.read"} /\ UNCHANGED <<job, again, calls, expired>>
        /\ writer = "sticky" => writer' = "sticky"
        /\ \/ pc' \in {"free.read", "panic"} /\ stack' = stack /\ err' = err
           \/ pc' = "commitRetaining" /\ stack = <<>> /\ stack' = <<"freed">>
           \/ pc' = "commitRetaining" /\ stack = <<"exec.done">> /\ stack' = <<"exec.done">> /\ err' = err
           \/ pc' = "freed" /\ stack = <<>> /\ stack' = <<>>
           \/ pc' = "exec.done" /\ stack = <<"exec.done">> /\ stack' = <<>> /\ err' = err
    <3>1. CASE Free
      BY <3>1, StaysBroken DEF Free, At, Goto, dataVars, callVars
    <3>2. CASE FreeRead
      BY <3>2, FreedMoves, StaysBroken
    <3> QED
      BY <1>6, <3>1, <3>2
  <2>2. stack \in {<<>>, <<"exec.done">>} /\ pc \notin AtRest /\ pc' \notin Unasked
    BY <2>1, Stacks DEF AtRest, Closing, Unasked
  <2>3. CASE stack = <<>>
    <3>1. job.kind \notin Retried
      BY <2>1, <2>3 DEF OnceInv, KindOK
    <3> QED
      BY <1>2, <2>1, <2>2, <3>1, OtherOnce
  <2>4. CASE stack = <<"exec.done">>
    <3>1. /\ UNCHANGED err
          /\ \/ pc' \in {"free.read", "panic", "commitRetaining"} /\ stack' = <<"exec.done">>
             \/ pc' = "exec.done" /\ stack' = <<>>
      BY <2>1, <2>4, Stacked
    <3> QED
      BY <1>1, <2>1, <2>4, <3>1, ClosingOnce
  <2> QED
    BY <2>2, <2>3, <2>4
<1> QED
  BY <1>3, <1>4, <1>5, <1>6

\* So does statement.go, ...
LEMMA StatementOnce ==
  ASSUME IInv, Owed, ResOK, OnceInv, Statement
  PROVE  OnceInv'
  BY AheadStepsOnce, ReadsOnce, ExecuteOnce, EndingOnce DEF Statement, Ahead

\* ... rows.go, ...
LEMMA CursorOnce ==
  ASSUME IInv, OnceInv, Cursor
  PROVE  OnceInv'
<1>1. AllKept
  BY CursorAdds, AddsKeeps DEF AllKept
<1>2. /\ pc \in {"rows", "fetch", "fetch.read", "row", "blob.read", "segment.read", "blob.closed", "slice.read"}
      /\ \/ \E e : Finish(e)
         \/ UNCHANGED <<job, again, calls>> /\ pc' \notin Unasked
  <2>1. CASE RowsClose \/ ScrollClose
    BY <2>1 DEF RowsClose, ScrollClose, Continue, Goto, callVars, At, Unasked
  <2>2. CASE Fetch \/ ScrollFetch
    BY <2>2 DEF Fetch, ScrollFetch, Goto, dataVars, callVars, At, Unasked
  <2>3. CASE RowsExpired \/ RowsNext \/ FetchRead
    BY <2>3 DEF RowsExpired, RowsNext, FetchRead, RowsFail, Goto, rowsElse, At, Unasked
  <2>4. CASE Row \/ BlobRead \/ SegmentRead \/ ColumnRead
    BY <2>4 DEF Row, BlobRead, SegmentRead, ColumnRead, ColumnFails, RowsFail, NextColumn, Goto, rowsElse, At, Unasked
  <2> QED
    BY <2>1, <2>2, <2>3, <2>4 DEF Cursor
<1>3. CASE \E e : Finish(e)
  <2>1. pc \in EndPlaces /\ pc # "exec.committed" /\ pc # "exec.done"
    BY <1>2 DEF EndPlaces, Unretried
  <2> QED
    BY <1>1, <1>3, <2>1, FinishOnce
<1>4. CASE UNCHANGED <<job, again, calls>> /\ pc' \notin Unasked
  <2>1. job.kind \notin Retried /\ pc \notin AtRest
    BY <1>2 DEF OnceInv, KindOK, Unretried, AtRest, Closing
  <2>2. Singles' /\ \A i \in Calls : i > calls => Untouched(i)'
    BY <1>1, <1>4, SinglesKept, FreshKept DEF OnceInv
  <2> QED
    BY <1>4, <2>1, <2>2, OtherOnce
<1> QED
  BY <1>2, <1>3, <1>4

\* ... Ping, ...
LEMMA PingOnce ==
  ASSUME IInv, OnceInv, Ping \/ PingRead
  PROVE  OnceInv'
<1>1. AllKept
  BY OthersAdd, AddsKeeps DEF AllKept
<1>2. pc \in {"ping", "ping.read"} /\ ((\E e : Finish(e)) \/ Continue("ping.read"))
  BY DEF Ping, PingRead, At
<1>3. CASE \E e : Finish(e)
  <2>1. pc \in EndPlaces /\ pc # "exec.committed" /\ pc # "exec.done"
    BY <1>2 DEF EndPlaces, Unasked
  <2> QED
    BY <1>1, <1>3, <2>1, FinishOnce
<1>4. CASE Continue("ping.read")
  <2>1. AheadStep
    BY <1>2, <1>4, Stacks DEF AheadStep, Continue, Goto, callVars, Unasked, Unretried, Plain, Places
  <2> QED
    BY <1>1, <2>1, AheadStepOnce
<1> QED
  BY <1>2, <1>3, <1>4

\* While the connection is closed, or lies idle, only what is to be tried again matters.
LEMMA RestOnce ==
  ASSUME IInv, OnceInv, AllKept, UNCHANGED <<job, again, calls>>, pc \in AtRest, pc' \in AtRest, stack' = stack,
         again # NoJob => holder' \in {"pool", "closing", "gone"},
         again.id # 0 /\ holder' = "pool" => Untouched(again.id)'
  PROVE  OnceInv'
<1>0. stack = <<>>
  BY Stacks DEF AtRest, Closing, Plain, Places
<1>1. Singles' /\ FreshOK'
  BY SinglesKept, FreshKept DEF OnceInv, FreshOK, AtRest, Closing, Unasked
<1>2. Safe'
  BY <1>0, Stacked DEF Safe, Waiting, Committed, Decided, AtRest, Closing
<1>3. KindOK'
  BY <1>0, Stacked DEF KindOK, AtRest, Closing, Unretried
<1>4. AgainOK'
  <2>1. again.id # 0 => Uncommitted(again.id)'
    <3>1. again.id # 0 => Uncommitted(again.id) /\ again.id \in Calls
      BY Ids DEF OnceInv, AgainOK
    <3> QED
      BY <3>1 DEF AllKept, Keeps
  <2> QED
    BY <2>1 DEF OnceInv, AgainOK
<1> QED
  BY <1>1, <1>2, <1>3, <1>4 DEF OnceInv

\* ... Close, ...
LEMMA TeardownOnce ==
  ASSUME IInv, OnceInv, Teardown
  PROVE  OnceInv'
<1>1. AllKept
  BY OthersAdd, AddsKeeps DEF AllKept
<1>2. /\ pc \in AtRest /\ pc' \in AtRest /\ stack' = stack /\ UNCHANGED <<job, again, calls>>
      /\ holder' = holder \/ holder' = "gone"
  BY DEF Teardown, Close, CloseRead, DetachRead, At, Goto, callVars, dataVars, AtRest, Closing
<1>3. again.id # 0 /\ holder' = "pool" => Untouched(again.id)'
  <2> SUFFICES ASSUME again.id # 0, holder' = "pool" PROVE Untouched(again.id)'
    OBVIOUS
  <2>1. Untouched(again.id) /\ again.id \in Calls
    BY <1>2, Ids DEF OnceInv, AgainOK
  <2> QED
    BY <1>1, <1>2, <2>1 DEF AllKept, Keeps
<1>4. again # NoJob => holder' \in {"pool", "closing", "gone"}
  BY <1>2 DEF OnceInv, AgainOK
<1> QED
  BY <1>1, <1>2, <1>3, <1>4, RestOnce

\* Steps that move no call.
LEMMA SteadyOnce ==
  ASSUME IInv, OnceInv, AllKept, UNCHANGED <<pc, stack, job, again, calls, holder, err>>, expired => expired',
         expired \in BOOLEAN, expired' \in BOOLEAN,
         writer = "sticky" => writer' = "sticky", Committed /\ IsBad(res') => IsBad(res)
  PROVE  OnceInv'
<1>1. Singles' /\ KindOK'
  BY SinglesKept DEF OnceInv, KindOK
<1>2. FreshOK'
  <2>1. pc \in Unasked /\ job.id # 0 => Untouched(job.id) /\ job.id \in Calls
    BY Ids DEF OnceInv, FreshOK
  <2>2. pc \in Unasked /\ job.id # 0 => Untouched(job.id)'
    BY <2>1 DEF AllKept, Keeps
  <2> QED
    BY <2>2, FreshKept DEF OnceInv, FreshOK
<1>3. Safe'
  <2> SUFFICES ASSUME job.id # 0, job.kind \in Retried, ~expired
               PROVE  /\ Waiting => Uncommitted(job.id)'
                      /\ Committed /\ IsBad(res') => Uncommitted(job.id)'
                      /\ Decided /\ IsBad(err) => Uncommitted(job.id)' /\ writer' = "sticky"
    BY DEF Safe, Waiting, Committed, Decided
  <2>1. Uncommitted(job.id) => Uncommitted(job.id)'
    BY Ids DEF AllKept, Keeps
  <2>2. /\ Waiting => Uncommitted(job.id)
        /\ Committed /\ IsBad(res') => Uncommitted(job.id)
        /\ Decided /\ IsBad(err) => Uncommitted(job.id) /\ writer' = "sticky"
    BY DEF OnceInv, Safe
  <2> QED
    BY <2>1, <2>2
<1>4. AgainOK'
  <2>1. again.id # 0 => Uncommitted(again.id) /\ again.id \in Calls /\ (holder = "pool" => Untouched(again.id))
    BY Ids DEF OnceInv, AgainOK
  <2>2. again.id # 0 => Uncommitted(again.id)' /\ (holder = "pool" => Untouched(again.id)')
    BY <2>1 DEF AllKept, Keeps
  <2> QED
    BY <2>2 DEF OnceInv, AgainOK
<1> QED
  BY <1>1, <1>2, <1>3, <1>4 DEF OnceInv

\* A read keeps the invariant, ...
LEMMA ReceiveOnce ==
  ASSUME IInv, Owed, OnceInv, ResOK', Receive
  PROVE  OnceInv'
<1>1. AllKept
  BY ReceiveKeeps DEF AllKept
<1>2. /\ UNCHANGED <<pc, stack, job, again, calls, holder, err, expired, writer>> /\ expired \in BOOLEAN
      /\ expect # <<>> /\ (res' = "unsent" => res = "unsent")
  BY ReceivesMore, Receives DEF ctlVars, dataVars, callVars, IInv, CallType
<1>3. Committed /\ IsBad(res') => IsBad(res)
  <2> SUFFICES ASSUME Committed, IsBad(res') PROVE IsBad(res)
    OBVIOUS
  <2>1. pc' \in ResPlaces
    BY <1>2 DEF Committed, ResPlaces
  <2>2. res' # "bad"
    BY <2>1 DEF ResOK
  <2> QED
    BY <1>2, <2>2 DEF IsBad
<1> QED
  BY <1>1, <1>2, <1>3, SteadyOnce

\* ... the environment, ...
LEMMA EnvironmentOnce ==
  ASSUME IInv, OnceInv, Environment
  PROVE  OnceInv'
<1>1. UNCHANGED <<pc, stack, job, again, calls, holder, err, res>>
  BY DEF Environment, Server, Answer, CtxDone, Watcher, WatcherCancel, PingWatcher, SetDeadline, SocketDeath, SocketDies,
     ctlVars, callVars, dataVars, wireVars
<1>2. expired \in BOOLEAN /\ (expired' = expired \/ expired' = TRUE)
  BY DEF IInv, CallType, Environment, Server, CtxDone, Watcher, PingWatcher, SocketDeath, callVars, dataVars
<1>3. writer = "sticky" => writer' = "sticky"
  BY DEF Environment, Server, Answer, CtxDone, Watcher, WatcherCancel, CancelWritten, PingWatcher, SetDeadline, SocketDeath,
     SocketDies, wireVars
<1>4. AllKept
  <2>1. CASE Server
    BY <2>1, ServerKeeps DEF AllKept
  <2>2. CASE SocketDeath
    BY <2>2, DeathKeeps DEF AllKept
  <2>3. CASE CtxDone \/ Watcher \/ PingWatcher
    BY <2>3, KeepsSame DEF CtxDone, Watcher, WatcherCancel, PingWatcher, SetDeadline, wireVars, AllKept
  <2> QED
    BY <2>1, <2>2, <2>3 DEF Environment
<1>5. (expired => expired') /\ expired' \in BOOLEAN
  BY <1>2
<1>6. IsBad(res') => IsBad(res)
  BY <1>1
<1> QED
  BY <1>1, <1>2, <1>3, <1>4, <1>5, <1>6, SteadyOnce

\* ... a call that starts, ...
LEMMA CallStartOnce ==
  ASSUME IInv, OnceInv, CallStart
  PROVE  OnceInv'
<1>1. /\ again = NoJob /\ again' = NoJob /\ stack' = stack /\ stack = <<>> /\ calls' = calls + 1 /\ job'.id = calls + 1
      /\ calls + 1 \in Calls
  <2>1. pc = "idle" /\ again' = again /\ stack' = stack /\ calls' = calls + 1 /\ again = NoJob
    BY CallMoves DEF CallStart
  <2>2. job'.id = calls + 1
    BY DEF CallStart
  <2>3. calls + 1 \in Calls
    BY Ids, SessionAssumption DEF CallStart, Calls
  <2> QED
    BY <2>1, <2>2, <2>3, Stacks DEF Plain, Places
<1>2. /\ pc' = StartOf(job'.kind) /\ job'.kind \in Kinds \ {"commit", "rollback"} /\ job'.kind \in CallKinds
      /\ UNCHANGED <<pend, srvVars>>
  BY CallMoves DEF wireVars, txVars
<1>3. \A i \in Calls : Keeps(i)
  BY <1>2, KeepsSame
<1>4. Singles'
  BY <1>3, SinglesKept DEF OnceInv, AllKept
<1>5. FreshOK'
  <2>1. \A i \in Calls : i > calls => Untouched(i)'
    BY <1>3 DEF OnceInv, FreshOK, Keeps
  <2>2. calls + 1 > calls /\ \A i \in Calls : i > calls + 1 => i > calls
    BY Ids, SessionAssumption DEF Calls
  <2>3. \A i \in Calls : i = calls + 1 => Untouched(i)'
    BY <2>1, <2>2
  <2>4. Untouched(job.id)'
    <3> SUFFICES ASSUME NEW i, i = job'.id PROVE Untouched(i)'
      BY DEF Untouched, InFlight, Doing
    <3> QED
      BY <1>1, <2>3
  <2> QED
    BY <1>1, <2>1, <2>2, <2>4 DEF FreshOK
<1>6. pc' \in {"prepare", "run", "begin", "ping"} \/ (pc' = "free" /\ job'.kind = "stmtClose")
      \/ (pc' = "immediate" /\ job'.kind = "immediate")
  BY <1>2, Starts
<1>7. Safe' /\ KindOK'
  BY <1>1, <1>6, Stacked DEF Safe, KindOK, Waiting, Committed, Decided, Unretried, Retried
<1>8. AgainOK'
  BY <1>1, Ids DEF AgainOK
<1> QED
  BY <1>4, <1>5, <1>7, <1>8 DEF OnceInv

\* ... one that is tried again, on a connection of its own, ...
LEMMA RetryOnce ==
  ASSUME IInv, OnceInv, Retry
  PROVE  OnceInv'
<1>1. /\ pc = "idle" /\ holder = "pool" /\ again.kind \in Retried /\ job' = again /\ again' = NoJob
      /\ pc' = StartOf(again.kind) /\ stack' = stack /\ stack = <<>> /\ calls' = calls
      /\ UNCHANGED <<pend, srvVars>>
  BY RetryMoves, Stacks DEF wireVars, Plain, Places
<1>2. \A i \in Calls : Keeps(i)
  BY <1>1, KeepsSame
<1>3. Singles'
  BY <1>2, SinglesKept DEF OnceInv, AllKept
<1>4. FreshOK'
  <2>1. job'.id # 0 => Untouched(again.id) /\ again.id \in Calls
    BY <1>1, Ids DEF OnceInv, AgainOK
  <2>2. job'.id # 0 => \A i \in Calls : i = again.id => Untouched(i)'
    BY <1>2, <2>1 DEF Keeps
  <2>3. ASSUME job'.id # 0 PROVE Untouched(job.id)'
    <3> SUFFICES ASSUME NEW i, i = job'.id PROVE Untouched(i)'
      BY DEF Untouched, InFlight, Doing
    <3> QED
      BY <1>1, <2>1, <2>2, <2>3
  <2> QED
    BY <1>1, <1>2, <2>3, FreshKept DEF OnceInv, FreshOK, AllKept
<1>5. Safe' /\ KindOK'
  BY <1>1, StartsAgain, Stacked DEF Safe, KindOK, Waiting, Committed, Decided, Unretried
<1>6. AgainOK'
  BY <1>1, Ids DEF OnceInv, AgainOK
<1> QED
  BY <1>3, <1>4, <1>5, <1>6 DEF OnceInv

\* ... Tx.Commit and Tx.Rollback, ...
LEMMA TxEndOnce ==
  ASSUME IInv, OnceInv, TxEnd
  PROVE  OnceInv'
<1>1. /\ pc = "idle" /\ holder = "tx" /\ again' = again /\ stack' = stack /\ stack = <<>> /\ calls' = calls
      /\ UNCHANGED <<pend, srvVars>> /\ pc' \in {"commit", "rollback"}
      /\ job'.id = 0 /\ job'.kind \in {"commit", "rollback"}
  <2>1. \A k : [NoJob EXCEPT !.kind = k].id = 0 /\ [NoJob EXCEPT !.kind = k].kind = k
    BY DEF NoJob
  <2>2. PICK k \in {"commit", "rollback"} : job' = [NoJob EXCEPT !.kind = k] /\ pc' = k /\ stack' = stack
    BY DEF TxEnd, Goto
  <2>3. pc = "idle" /\ holder = "tx" /\ again' = again /\ calls' = calls /\ UNCHANGED <<pend, srvVars>>
    BY DEF TxEnd, wireVars
  <2> QED
    BY <2>1, <2>2, <2>3, Stacks DEF Plain, Places
<1>2. Singles' /\ \A i \in Calls : i > calls' => Untouched(i)'
  BY <1>1, KeepsSame, SinglesKept, FreshKept DEF OnceInv, AllKept
<1>3. again = NoJob
  BY <1>1 DEF OnceInv, AgainOK
<1>4. FreshOK' /\ Safe'
  BY <1>1, <1>2 DEF FreshOK, Safe
<1>5. KindOK'
  BY <1>1, Stacked DEF KindOK, Retried
<1>6. AgainOK'
  BY <1>1, <1>3, Ids DEF AgainOK
<1> QED
  BY <1>2, <1>4, <1>5, <1>6 DEF OnceInv

\* ... and a new connection.
LEMMA ReconnectOnce ==
  ASSUME IInv, OnceInv, Reconnect
  PROVE  OnceInv'
<1>1. /\ pc = "idle" /\ UNCHANGED <<pc, stack, job, again, calls, applied>> /\ pend' = <<>> /\ srv' = <<>> /\ holder' = "pool"
  BY DEF Reconnect, WireReset, ctlVars
<1>2. Len(pend') = 0 /\ Len(srv') = 0
  BY <1>1
<1>3. \A i \in Calls : /\ Once(i) => Once(i)'
                       /\ applied[i] = 0 => Untouched(i)' /\ Uncommitted(i)'
  BY <1>1, <1>2 DEF Once, Untouched, Uncommitted
<1>4. AllKept
  BY <1>3 DEF AllKept, Keeps, Untouched, Uncommitted
<1>5. ASSUME again'.id # 0 PROVE Untouched(again.id)'
  <2> SUFFICES ASSUME NEW i, i = again'.id PROVE Untouched(i)'
    BY DEF Untouched, InFlight, Doing
  <2>1. applied[i] = 0 /\ i \in Calls
    BY <1>1, <1>5, Ids DEF OnceInv, AgainOK, Uncommitted
  <2> QED
    BY <1>3, <2>1
<1>6. again.id # 0 /\ holder' = "pool" => Untouched(again.id)'
  BY <1>1, <1>5
<1> QED
  BY <1>1, <1>4, <1>6, RestOnce DEF AtRest

\* So does the application.
LEMMA ApplicationOnce ==
  ASSUME IInv, OnceInv, Application \/ UNCHANGED vars
  PROVE  OnceInv'
<1>1. CASE UNCHANGED vars
  <2>1. UNCHANGED <<pc, stack, job, again, calls, holder, err, expired, writer, res, pend, srvVars>>
    BY <1>1 DEF vars, ctlVars, callVars, dataVars, wireVars
  <2>2. AllKept
    BY <2>1, KeepsSame DEF AllKept
  <2>3. expired \in BOOLEAN
    BY DEF IInv, CallType
  <2> QED
    BY <2>1, <2>2, <2>3, SteadyOnce
<1>2. CASE Stopped
  BY <1>1, <1>2 DEF Stopped
<1> QED
  BY <1>1, <1>2, CallStartOnce, RetryOnce, TxEndOnce, ReconnectOnce DEF Application

\* Nothing has been asked for at first.
LEMMA InitOnce == Init => ResOK /\ OnceInv
<1> SUFFICES ASSUME Init PROVE ResOK /\ OnceInv
  OBVIOUS
<1>1. /\ pend = <<>> /\ srv = <<>> /\ applied = [i \in Calls |-> 0] /\ pc = "idle" /\ stack = <<>>
      /\ job = NoJob /\ again = NoJob /\ calls = 0 /\ NoJob.id = 0
  BY DEF Init, WireInit, NoJob
<1>2. Len(pend) = 0 /\ Len(srv) = 0
  BY <1>1
<1>3. \A i \in Calls : Untouched(i) /\ Once(i)
  BY <1>1, <1>2 DEF Untouched, Once
<1>4. ResOK
  BY <1>1 DEF ResOK, ResPlaces
<1>5. OnceInv
  BY <1>1, <1>3, Stacked DEF OnceInv, Singles, FreshOK, Safe, AgainOK, KindOK, Unasked, Unretried, Waiting, Committed, Decided
<1> QED
  BY <1>4, <1>5

\* Every step keeps the invariant.
LEMMA StepOnce ==
  ASSUME IInv, Owed, ResOK, OnceInv, [Next]_vars
  PROVE  OnceInv'
<1>1. CASE Receive
  BY <1>1, StepRes, ReceiveOnce
<1>2. CASE Application \/ UNCHANGED vars
  BY <1>2, ApplicationOnce
<1>3. CASE Environment
  BY <1>3, EnvironmentOnce
<1> QED
  BY <1>1, <1>2, <1>3, TransactionOnce, StatementOnce, CursorOnce, PingOnce, TeardownOnce DEF Next, Driver

\* database/sql repeats a call whose driver function returned driver.ErrBadConn, up to
\* MaxTries times and each time on another connection (statement.go exec, query;
\* connection.go exec).  The work of a call is committed at most once all the same:
\* ErrBadConn is returned only where no commit has been written, or where ctx is done
\* and database/sql does not retry.
THEOREM AtMostOnceAlways == Spec => []AtMostOnce
<1> DEFINE I == IInv /\ Owed /\ ResOK /\ OnceInv
<1>1. Init => I
  BY InitInv, InitOwed, InitOnce
<1>2. I /\ [Next]_vars => I'
  BY NextInv, StepOwed, StepRes, StepOnce
<1>3. I => AtMostOnce
  BY DEF OnceInv, Singles, Once, AtMostOnce
<1> QED
  BY <1>1, <1>2, <1>3, PTL DEF Spec

-----------------------------------------------------------------------------
(***************************************************************************)
(* The work of an explicit transaction: on its own transaction of the      *)
(* server and nowhere else while it runs, and followed by a rollback, or   *)
(* cut off, once Tx.Rollback was called.                                   *)
(***************************************************************************)

\* The rollback of transaction h waits for the server at place r.
RollbackAsked(r, h) == r \in 1..Len(pend) /\ pend[r].st = "asked" /\ pend[r].op = "rollback" /\ pend[r].h = h

\* The work of call i is on transaction h, wherever it is.
OnHandle(i, h) == /\ \A q \in 1..Len(pend) : InFlight(i, q) => pend[q].h = h
                  /\ \A k \in 1..Len(srv) : Doing(i, k) => k = h

\* No commit comes between place q and the rollback of transaction h.
UndoneAfter(q, h) == \E r \in 1..Len(pend) : /\ RollbackAsked(r, h) /\ q < r
                                             /\ \A p \in 1..Len(pend) : CommitAsked(p) => p < q \/ r < p

\* Wherever it is, a rollback comes before the next commit.
Undone(i) == /\ applied[i] = 0
             /\ \A q \in 1..Len(pend) : InFlight(i, q) => UndoneAfter(q, pend[q].h)
             /\ \A h \in 1..Len(srv) : Doing(i, h) => UndoneAfter(0, h)

\* What every step that does not execute, commit or roll back keeps.
Follows(i) == /\ Undone(i) => Undone(i)'
              /\ \A h : OnHandle(i, h) => OnHandle(i, h)'

\* Work nobody was asked for satisfies the rest.
LEMMA UntouchedUndone ==
  ASSUME NEW i, Untouched(i)
  PROVE  Undone(i) /\ Uncommitted(i) /\ \A h : OnHandle(i, h)
  BY UntouchedIs DEF Untouched, Undone, OnHandle

\* Undone, in terms of the places of the next state.
LEMMA UndoneNext ==
  ASSUME NEW i, applied'[i] = 0,
         \A q \in 1..Len(pend') : InFlight(i, q)' => \A h : h = pend'[q].h => UndoneAfter(q, h)',
         \A h \in 1..Len(srv') : Doing(i, h)' => UndoneAfter(0, h)'
  PROVE  Undone(i)'
  BY DEF Undone, UndoneAfter, RollbackAsked

\* What leaves the requests and the server alone keeps both, ...
LEMMA FollowsSame ==
  ASSUME NEW i, UNCHANGED <<pend, srvVars>>
  PROVE  Follows(i)
<1>1. Undone(i) => Undone(i)'
  BY DEF Undone, UndoneAfter, RollbackAsked, InFlight, Doing, CommitAsked, srvVars
<1>2. \A h : OnHandle(i, h) => OnHandle(i, h)'
  BY DEF OnHandle, InFlight, Doing, srvVars
<1> QED
  BY <1>1, <1>2 DEF Follows

\* ... and so do one or two requests more that do not the work of call i.
LEMMA FollowsAppended ==
  ASSUME NEW i, pend \in Seq(Request), NEW n \in {1, 2}, UNCHANGED srvVars,
         Len(pend') = Len(pend) + n, \A p \in 1..Len(pend) : pend'[p] = pend[p],
         \A p \in (Len(pend) + 1)..Len(pend') : pend'[p].op \notin Execs \/ pend'[p].w # i
  PROVE  Follows(i)
<1>0. Len(pend) \in Nat
  OBVIOUS
<1>1. \A q \in 1..Len(pend') : InFlight(i, q)' => q \in 1..Len(pend) /\ InFlight(i, q) /\ pend'[q] = pend[q]
  BY <1>0 DEF InFlight
<1>2. srv' = srv /\ applied' = applied /\ \A h : Doing(i, h)' <=> Doing(i, h)
  BY DEF srvVars, Doing
<1>3. ASSUME NEW q \in 0..Len(pend), NEW h, UndoneAfter(q, h) PROVE UndoneAfter(q, h)'
  <2>1. PICK r \in 1..Len(pend) : /\ RollbackAsked(r, h) /\ q < r
                                  /\ \A p \in 1..Len(pend) : CommitAsked(p) => p < q \/ r < p
    BY <1>3 DEF UndoneAfter
  <2>2. r \in 1..Len(pend') /\ RollbackAsked(r, h)'
    BY <1>0, <2>1 DEF RollbackAsked
  <2>3. ASSUME NEW p \in 1..Len(pend'), CommitAsked(p)' PROVE p < q \/ r < p
    <3>1. CASE p \in 1..Len(pend)
      BY <2>1, <2>3, <3>1 DEF CommitAsked
    <3>2. CASE p \notin 1..Len(pend)
      BY <1>0, <3>2
    <3> QED
      BY <3>1, <3>2
  <2> QED
    BY <2>1, <2>2, <2>3 DEF UndoneAfter
<1>4. ASSUME Undone(i) PROVE Undone(i)'
  <2>1. ASSUME NEW q \in 1..Len(pend'), InFlight(i, q)', NEW h, h = pend'[q].h PROVE UndoneAfter(q, h)'
    <3>1. q \in 0..Len(pend) /\ UndoneAfter(q, h)
      BY <1>0, <1>1, <1>4, <2>1 DEF Undone
    <3> QED
      BY <1>3, <3>1
  <2>2. ASSUME NEW h \in 1..Len(srv'), Doing(i, h)' PROVE UndoneAfter(0, h)'
    BY <1>0, <1>2, <1>3, <1>4, <2>2 DEF Undone
  <2>3. applied'[i] = 0
    BY <1>2, <1>4 DEF Undone
  <2> QED
    BY <2>1, <2>2, <2>3, UndoneNext
<1>5. ASSUME NEW h, OnHandle(i, h) PROVE OnHandle(i, h)'
  BY <1>1, <1>2, <1>5 DEF OnHandle
<1> QED
  BY <1>4, <1>5 DEF Follows

\* So requests that execute and commit nothing keep both, ...
LEMMA AddsFollows ==
  ASSUME IInv, Adds, NEW i
  PROVE  Follows(i)
<1>0. pend \in Seq(Request) /\ UNCHANGED srvVars
  BY WireParts DEF Adds
<1>1. CASE pend' = pend
  BY <1>0, <1>1, FollowsSame
<1>2. ASSUME NEW op \in Harmless, NEW h, NEW w, pend' = pend \o <<Asked(op, h, w)>>
      PROVE  Follows(i)
  <2>1. Asked(op, h, w).op = op
    BY DEF Asked
  <2>2. /\ Len(pend') = Len(pend) + 1 /\ Len(pend) \in Nat /\ (\A p \in 1..Len(pend) : pend'[p] = pend[p])
        /\ pend'[Len(pend) + 1] = Asked(op, h, w)
    BY <1>0, <1>2, Extended
  <2>3. \A p \in (Len(pend) + 1)..Len(pend') : pend'[p].op \notin Execs
    BY <2>1, <2>2 DEF Harmless
  <2> QED
    BY <1>0, <2>2, <2>3, FollowsAppended
<1> QED
  BY <1>1, <1>2 DEF Adds

\* ... so does the request of a commit, which a dead connection does not even send, ...
LEMMA CommitFollows ==
  ASSUME IInv, Commit \/ CommitRetaining, NEW i
  PROVE  Follows(i) /\ (Broken => Broken' /\ pend' = pend) /\ UNCHANGED srvVars
<1>0. pend \in Seq(Request) /\ UNCHANGED srvVars
  BY WireParts DEF Commit, CommitRetaining, dataVars
<1>1. PICK op \in Commits : \E h, d : Write(<<Asked(op, h, 0)>>, <<op>>, 0, d, TRUE)
  BY DEF Commit, CommitRetaining, Ask, Commits
<1>2. PICK h, d : Write(<<Asked(op, h, 0)>>, <<op>>, 0, d, TRUE)
  BY <1>1
<1>3. /\ pend' = pend \/ (writer = "ok" /\ CanWrite /\ pend' = pend \o <<Asked(op, h, 0)>>)
      /\ sock' = sock /\ (writer = "sticky" => writer' = "sticky")
  BY <1>2, WriteMoves
<1>4. Broken => Broken' /\ pend' = pend
  BY <1>3 DEF Broken, CanWrite
<1>5. CASE pend' = pend
  BY <1>0, <1>4, <1>5, FollowsSame
<1>6. CASE pend' = pend \o <<Asked(op, h, 0)>>
  <2>1. Asked(op, h, 0).op = op /\ op \notin Execs
    BY DEF Asked, Execs, Commits
  <2>2. /\ Len(pend') = Len(pend) + 1 /\ Len(pend) \in Nat /\ (\A p \in 1..Len(pend) : pend'[p] = pend[p])
        /\ pend'[Len(pend) + 1] = Asked(op, h, 0)
    BY <1>0, <1>6, Extended
  <2>3. \A p \in (Len(pend) + 1)..Len(pend') : pend'[p].op \notin Execs
    BY <2>1, <2>2
  <2> QED
    BY <1>0, <1>4, <2>2, <2>3, FollowsAppended
<1> QED
  BY <1>3, <1>5, <1>6

\* ... and so does an execution, of another call; a call's own goes to the transaction of the connection.
LEMMA ExecuteFollows ==
  ASSUME IInv, Execute \/ ImmediateSend, NEW i
  PROVE  /\ Work # i => Follows(i)
         /\ Untouched(i) => OnHandle(i, txs[cur].h)'
         /\ Broken => Broken'
         /\ UNCHANGED srvVars
<1>0. pend \in Seq(Request) /\ UNCHANGED <<srvVars, txVars>>
  BY WireParts DEF Execute, ImmediateSend, dataVars
<1> DEFINE h == txs[cur].h
<1>1. PICK op \in Execs : \E awaited, d :
         \/ Write(<<Asked(op, h, Work)>>, awaited, 0, d, TRUE)
         \/ Write(<<Asked("sql", 0, 0), Asked(op, h, Work)>>, awaited, 0, d, TRUE)
  <2>1. "execute" \in Execs /\ "execute_immediate" \in Execs
    BY DEF Execs
  <2> QED
    BY <2>1 DEF Execute, ImmediateSend, Ask
<1>2. PICK awaited, d :
         \/ Write(<<Asked(op, h, Work)>>, awaited, 0, d, TRUE)
         \/ Write(<<Asked("sql", 0, 0), Asked(op, h, Work)>>, awaited, 0, d, TRUE)
  BY <1>1
<1>3. /\ pend' = pend \/ pend' = pend \o <<Asked(op, h, Work)>> \/ pend' = pend \o <<Asked("sql", 0, 0), Asked(op, h, Work)>>
      /\ Broken => Broken'
  BY <1>2, WriteMoves DEF Broken
<1>4. CASE pend' = pend
  <2>1. Untouched(i) => \A k : OnHandle(i, k)'
    BY <1>0, <1>4, UntouchedUndone, FollowsSame DEF Follows
  <2>2. ASSUME Untouched(i) PROVE OnHandle(i, txs[cur].h)'
    <3> SUFFICES ASSUME NEW k, k = txs'[cur'].h PROVE OnHandle(i, k)'
      BY DEF OnHandle
    <3> QED
      BY <2>1, <2>2
  <2> QED
    BY <1>0, <1>3, <1>4, <2>2, FollowsSame
<1>5. /\ Asked(op, h, Work).op = op /\ Asked(op, h, Work).w = Work /\ Asked(op, h, Work).h = h
      /\ Asked("sql", 0, 0).op = "sql" /\ "sql" \notin Execs
  BY DEF Asked, Execs
<1>6. CASE pend' # pend
  <2>1. PICK n \in {1, 2} :
          /\ Len(pend') = Len(pend) + n /\ Len(pend) \in Nat /\ (\A p \in 1..Len(pend) : pend'[p] = pend[p])
          /\ pend'[Len(pend')] = Asked(op, h, Work)
          /\ n = 2 => pend'[Len(pend) + 1] = Asked("sql", 0, 0)
    BY <1>0, <1>3, <1>6, Extended, ExtendedTwice
  <2>2. \A p \in (Len(pend) + 1)..Len(pend') : p = Len(pend') \/ pend'[p] = Asked("sql", 0, 0)
    BY <2>1
  <2>3. Work # i => Follows(i)
    <3>1. ASSUME Work # i PROVE \A p \in (Len(pend) + 1)..Len(pend') : pend'[p].op \notin Execs \/ pend'[p].w # i
      BY <1>5, <2>1, <2>2, <3>1
    <3> QED
      BY <1>0, <2>1, <3>1, FollowsAppended
  <2>4. ASSUME Untouched(i) PROVE OnHandle(i, txs[cur].h)'
    <3> SUFFICES ASSUME NEW k, k = txs'[cur'].h PROVE OnHandle(i, k)'
      BY DEF OnHandle
    <3>1. k = h
      BY <1>0 DEF txVars
    <3>2. ASSUME NEW q \in 1..Len(pend'), InFlight(i, q)' PROVE pend'[q].h = k
      <4>1. ~(q \in 1..Len(pend))
        BY <2>1, <2>4, <3>2 DEF Untouched, InFlight
      <4>2. pend'[q] # Asked("sql", 0, 0)
        BY <1>5, <3>2 DEF InFlight
      <4>3. q = Len(pend')
        BY <2>1, <2>2, <4>1, <4>2
      <4> QED
        BY <1>5, <2>1, <3>1, <4>3
    <3>3. \A j \in 1..Len(srv') : ~Doing(i, j)'
      BY <1>0, <2>4 DEF Untouched, Doing, srvVars
    <3> QED
      BY <3>2, <3>3 DEF OnHandle
  <2> QED
    BY <1>0, <1>3, <2>3, <2>4
<1> QED
  BY <1>4, <1>6

\* A transaction of the server that has ended holds no work.
SrvOK == \A h \in 1..Len(srv) : ~srv[h].open => srv[h].work = {}

\* What one request carried out does to the work of call i.
LEMMA EffectMoves ==
  ASSUME IInv, NEW i \in Calls, NEW j \in 1..Len(pend), pend[j].op \in InTransaction => Open(pend[j].h), Effect(pend[j])
  PROVE  /\ \A k : Doing(i, k)' => \/ Doing(i, k) /\ ~(pend[j].op = "rollback" /\ k = pend[j].h)
                                   \/ pend[j].op \in Execs /\ pend[j].w = i /\ k = pend[j].h
         /\ applied'[i] = applied[i] \/ (pend[j].op \in Commits /\ Doing(i, pend[j].h))
         /\ SrvOK => SrvOK'
<1> DEFINE t == pend[j]
<1>0. srv \in Seq(ServerTx) /\ applied \in [Calls -> Nat] /\ Len(srv) \in Nat
  BY DEF IInv, SrvType
<1>1. t.op \in {"execute", "execute_immediate", "commit", "commit_retaining", "rollback"} => t.h \in 1..Len(srv) /\ srv[t.h].open
  BY DEF InTransaction, Open
<1>2. \A h \in 1..Len(srv) : srv[h] \in [open : BOOLEAN, work : SUBSET Calls]
  <2>1. \A h \in 1..Len(srv) : srv[h] \in ServerTx
    BY <1>0
  <2> QED
    BY <2>1 DEF ServerTx
<1>3. CASE t.op = "transaction"
  <2>1. srv' = Append(srv, [open |-> TRUE, work |-> {}]) /\ applied' = applied
    BY <1>3 DEF Effect
  <2>2. /\ Len(srv') = Len(srv) + 1 /\ srv'[Len(srv) + 1].work = {} /\ srv'[Len(srv) + 1].open
        /\ \A h \in 1..Len(srv) : srv'[h] = srv[h]
    BY <1>0, <2>1
  <2>3. \A k : Doing(i, k)' => Doing(i, k)
    BY <1>0, <2>2 DEF Doing
  <2>4. SrvOK => SrvOK'
    BY <1>0, <2>2 DEF SrvOK
  <2> QED
    BY <1>3, <2>1, <2>3, <2>4
<1>4. CASE t.op \in Execs
  <2>1. srv' = [srv EXCEPT ![t.h].work = @ \cup ({t.w} \cap Calls)] /\ applied' = applied
    BY <1>4 DEF Effect, Execs
  <2>2. t.h \in 1..Len(srv) /\ srv[t.h].open
    BY <1>1, <1>4 DEF Execs
  <2>3. /\ Len(srv') = Len(srv) /\ srv'[t.h].work = srv[t.h].work \cup ({t.w} \cap Calls) /\ srv'[t.h].open = srv[t.h].open
        /\ \A h \in 1..Len(srv) : h # t.h => srv'[h] = srv[h]
    <3>1. /\ Len(srv') = Len(srv) /\ srv'[t.h].work = srv[t.h].work \cup ({t.w} \cap Calls)
          /\ \A h \in 1..Len(srv) : h # t.h => srv'[h] = srv[h]
      BY <1>0, <1>2, <2>1, <2>2
    <3>2. srv'[t.h].open = srv[t.h].open
      <4>1. \A k, W : k \in 1..Len(srv) => [srv EXCEPT ![k].work = W][k].open = srv[k].open
        BY <1>0, <1>2
      <4> QED
        BY <2>1, <2>2, <4>1
    <3> QED
      BY <3>1, <3>2
  <2>4. \A k : Doing(i, k)' => Doing(i, k) \/ (k = t.h /\ t.w = i)
    BY <2>2, <2>3 DEF Doing
  <2>5. SrvOK => SrvOK'
    BY <2>2, <2>3 DEF SrvOK
  <2>6. t.op # "rollback"
    BY <1>4 DEF Execs
  <2> QED
    BY <1>4, <2>1, <2>4, <2>5, <2>6
<1>5. CASE t.op \in Commits \cup {"rollback"}
  <2>1. /\ srv' = [srv EXCEPT ![t.h] = [open |-> t.op = "commit_retaining", work |-> {}]]
        /\ t.op = "rollback" => applied' = applied
        /\ t.op # "rollback" => applied' = [c \in Calls |-> IF c \in srv[t.h].work THEN applied[c] + 1 ELSE applied[c]]
    BY <1>5 DEF Effect, Commits
  <2>2. t.h \in 1..Len(srv)
    BY <1>1, <1>5 DEF Commits
  <2>3. /\ Len(srv') = Len(srv) /\ srv'[t.h].work = {} /\ \A h \in 1..Len(srv) : h # t.h => srv'[h] = srv[h]
    BY <1>0, <1>2, <2>1, <2>2
  <2>4. \A k : Doing(i, k)' => Doing(i, k) /\ k # t.h
    BY <2>2, <2>3 DEF Doing
  <2>5. applied'[i] = applied[i] \/ (t.op \in Commits /\ Doing(i, t.h))
    BY <1>5, <2>1, <2>2 DEF Doing
  <2>6. SrvOK => SrvOK'
    BY <2>2, <2>3 DEF SrvOK
  <2> QED
    BY <2>4, <2>5, <2>6
<1>6. CASE t.op = "detach"
  <2>1. srv' = [h \in DOMAIN srv |-> [open |-> FALSE, work |-> {}]] /\ DOMAIN srv = 1..Len(srv) /\ applied' = applied
    BY <1>0, <1>6 DEF Effect
  <2>2. srv' \in Seq({[open |-> FALSE, work |-> {}]})
    BY <1>0, <2>1
  <2>3. Len(srv') = Len(srv) /\ \A h \in 1..Len(srv) : srv'[h].work = {}
    BY <1>0, <2>1, <2>2
  <2>4. SrvOK' /\ \A k : ~Doing(i, k)'
    BY <2>3 DEF SrvOK, Doing
  <2> QED
    BY <2>1, <2>4
<1>7. CASE t.op \notin {"transaction", "rollback", "detach"} \cup Execs \cup Commits
  <2>1. UNCHANGED srvVars
    BY <1>7 DEF Effect, Execs, Commits
  <2>2. applied' = applied /\ (\A k : Doing(i, k)' => Doing(i, k)) /\ (SrvOK => SrvOK')
    BY <2>1 DEF srvVars, Doing, SrvOK
  <2> QED
    BY <1>7, <2>2
<1> QED
  BY <1>3, <1>4, <1>5, <1>6, <1>7

\* A server that does not refuse to roll back carries out what comes first: the rollback before a later commit.
LEMMA ServerFollows ==
  ASSUME IInv, SrvOK, "rollback" \notin Fallible, Server, NEW i \in Calls
  PROVE  Follows(i) /\ SrvOK'
<1>0. pend \in Seq(Request) /\ Len(pend) \in Nat
  BY WireParts
<1>1. PICK j \in 1..Len(pend) :
         /\ NextAsked(j)
         /\ LET t == pend[j]
            IN  \/ /\ t.op \in InTransaction => Open(t.h)
                   /\ Answer(j, "ok", IF t.op = "transaction" THEN Len(srv) + 1 ELSE 0)
                   /\ Effect(t)
                \/ /\ t.op \in Fallible \/ (t.op \in InTransaction /\ ~Open(t.h))
                   /\ Answer(j, "err", 0) /\ UNCHANGED srvVars
  BY DEF Server
<1>2. PICK st, h : st \in {"ok", "err"} /\ Answer(j, st, h)
  BY <1>1
<1>3. /\ Len(pend') = Len(pend)
      /\ \A p \in 1..Len(pend) : /\ InFlight(i, p)' => InFlight(i, p) /\ p > j
                                 /\ CommitAsked(p)' => CommitAsked(p) /\ p > j
  BY <1>1, <1>2, Unanswered
<1>4. \A p \in 1..Len(pend) : p # j => pend'[p] = pend[p]
  BY <1>0, <1>2 DEF Answer
<1>5. pend[j].st = "asked" /\ \A p \in 1..Len(pend) : p < j => pend[p].st # "asked"
  <2>1. \A p \in 1..(j - 1) : pend[p].st # "asked"
    BY <1>1 DEF NextAsked
  <2> QED
    BY <1>0, <1>1, <2>1 DEF NextAsked
<1>6. \/ UNCHANGED srvVars /\ (pend[j].op = "rollback" => ~Open(pend[j].h))
      \/ (pend[j].op \in InTransaction => Open(pend[j].h)) /\ Effect(pend[j])
  BY <1>1 DEF InTransaction
<1>7. /\ \A k : Doing(i, k)' => \/ Doing(i, k) /\ ~(pend[j].op = "rollback" /\ k = pend[j].h)
                                \/ pend[j].op \in Execs /\ pend[j].w = i /\ k = pend[j].h
      /\ applied'[i] = applied[i] \/ (pend[j].op \in Commits /\ Doing(i, pend[j].h))
      /\ SrvOK'
  <2>1. CASE UNCHANGED srvVars /\ (pend[j].op = "rollback" => ~Open(pend[j].h))
    <3>1. \A k : Doing(i, k)' => Doing(i, k) /\ ~(pend[j].op = "rollback" /\ k = pend[j].h)
      BY <2>1 DEF srvVars, Doing, SrvOK, Open
    <3> QED
      BY <2>1, <3>1 DEF srvVars, SrvOK
  <2>2. CASE (pend[j].op \in InTransaction => Open(pend[j].h)) /\ Effect(pend[j])
    BY <2>2, EffectMoves
  <2> QED
    BY <1>6, <2>1, <2>2
<1>8. ASSUME NEW q \in 0..Len(pend), NEW k, UndoneAfter(q, k), q < j => ~(pend[j].op = "rollback" /\ pend[j].h = k)
      PROVE  UndoneAfter(q, k)'
  <2>1. PICK r \in 1..Len(pend) : /\ RollbackAsked(r, k) /\ q < r
                                  /\ \A p \in 1..Len(pend) : CommitAsked(p) => p < q \/ r < p
    BY <1>8 DEF UndoneAfter
  <2>2. r # j
    BY <1>8, <2>1 DEF RollbackAsked
  <2>3. RollbackAsked(r, k)'
    BY <1>3, <1>4, <2>1, <2>2 DEF RollbackAsked
  <2>4. \A p \in 1..Len(pend') : CommitAsked(p)' => p < q \/ r < p
    BY <1>3, <2>1
  <2> QED
    BY <1>3, <2>1, <2>3, <2>4 DEF UndoneAfter
<1>9. ASSUME Undone(i) PROVE Undone(i)'
  <2>1. ASSUME NEW q \in 1..Len(pend'), InFlight(i, q)', NEW k, k = pend'[q].h PROVE UndoneAfter(q, k)'
    <3>1. q \in 1..Len(pend) /\ InFlight(i, q) /\ q > j
      BY <1>3, <2>1
    <3>2. k = pend[q].h /\ UndoneAfter(q, k)
      BY <1>4, <1>9, <2>1, <3>1 DEF Undone
    <3>3. q \in 0..Len(pend) /\ ~(q < j)
      BY <1>0, <3>1
    <3> QED
      BY <1>8, <3>2, <3>3
  <2>2. ASSUME NEW k \in 1..Len(srv'), Doing(i, k)' PROVE UndoneAfter(0, k)'
    <3>1. CASE Doing(i, k) /\ ~(pend[j].op = "rollback" /\ k = pend[j].h)
      <4>1. UndoneAfter(0, k)
        BY <1>9, <3>1 DEF Undone, Doing
      <4> QED
        BY <1>0, <1>8, <3>1, <4>1
    <3>2. CASE pend[j].op \in Execs /\ pend[j].w = i /\ k = pend[j].h
      <4>1. InFlight(i, j) /\ pend[j].op # "rollback"
        BY <1>5, <3>2 DEF InFlight, Execs
      <4>2. UndoneAfter(j, k)
        BY <1>9, <3>2, <4>1 DEF Undone
      <4>3. j \in 0..Len(pend)
        BY <1>0
      <4>4. UndoneAfter(j, k)'
        BY <1>8, <4>1, <4>2, <4>3
      <4>5. PICK r \in 1..Len(pend') : /\ RollbackAsked(r, k)' /\ j < r
                                       /\ \A p \in 1..Len(pend') : CommitAsked(p)' => p < j \/ r < p
        BY <4>4 DEF UndoneAfter
      <4>6. \A p \in 1..Len(pend') : CommitAsked(p)' => r < p
        BY <1>3, <4>5
      <4>7. 0 < r
        BY <1>0, <4>5
      <4> QED
        BY <4>5, <4>6, <4>7 DEF UndoneAfter
    <3> QED
      BY <1>7, <2>2, <3>1, <3>2
  <2>3. ~(pend[j].op \in Commits /\ Doing(i, pend[j].h))
    <3>1. ASSUME pend[j].op \in Commits, Doing(i, pend[j].h) PROVE FALSE
      <4>1. UndoneAfter(0, pend[j].h)
        BY <1>9, <3>1 DEF Undone, Doing
      <4>2. CommitAsked(j)
        BY <1>5, <3>1 DEF CommitAsked
      <4>3. PICK r \in 1..Len(pend) : RollbackAsked(r, pend[j].h) /\ (j < 0 \/ r < j)
        BY <4>1, <4>2 DEF UndoneAfter
      <4>4. r < j /\ pend[r].st = "asked"
        BY <1>0, <4>3 DEF RollbackAsked
      <4> QED
        BY <1>5, <4>4
    <3> QED
      BY <3>1
  <2>4. applied'[i] = 0
    BY <1>7, <1>9, <2>3 DEF Undone
  <2> QED
    BY <2>1, <2>2, <2>4, UndoneNext
<1>10. ASSUME NEW k, OnHandle(i, k) PROVE OnHandle(i, k)'
  <2>1. \A q \in 1..Len(pend') : InFlight(i, q)' => pend'[q].h = k
    <3>1. \A q \in 1..Len(pend') : InFlight(i, q)' => q \in 1..Len(pend) /\ InFlight(i, q) /\ q # j
      BY <1>0, <1>3
    <3> QED
      BY <1>4, <1>10, <3>1 DEF OnHandle
  <2>2. \A m \in 1..Len(srv') : Doing(i, m)' => m = k
    <3>1. pend[j].op \in Execs /\ pend[j].w = i => pend[j].h = k
      BY <1>5, <1>10 DEF OnHandle, InFlight
    <3>2. \A m : Doing(i, m) => m = k
      BY <1>10 DEF OnHandle, Doing
    <3> QED
      BY <1>7, <3>1, <3>2
  <2> QED
    BY <2>1, <2>2 DEF OnHandle
<1> QED
  BY <1>7, <1>9, <1>10 DEF Follows

\* A response read takes away a request that has been answered, ...
LEMMA ReceiveFollows ==
  ASSUME IInv, Receive, NEW i
  PROVE  Follows(i)
<1>0. pend \in Seq(Request) /\ Len(pend) \in Nat /\ UNCHANGED srvVars
  BY WireParts, ReceivesMore DEF dataVars
<1>1. CASE pend' = pend
  BY <1>0, <1>1, FollowsSame
<1>2. CASE pend # <<>> /\ Head(pend).st # "asked" /\ pend' = Tail(pend)
  <2>1. /\ Len(pend') = Len(pend) - 1 /\ Len(pend) \in Nat \ {0} /\ \A p \in 1..Len(pend') : pend'[p] = pend[p + 1]
        /\ pend[1].st # "asked"
    BY <1>0, <1>2, Shortened
  <2>2. srv' = srv /\ applied' = applied /\ \A h : Doing(i, h)' <=> Doing(i, h)
    BY <1>0 DEF srvVars, Doing
  <2>3. \A p \in 1..Len(pend') : /\ p + 1 \in 1..Len(pend) /\ p \in Int
                                 /\ InFlight(i, p)' => InFlight(i, p + 1)
                                 /\ CommitAsked(p)' => CommitAsked(p + 1)
    BY <2>1 DEF InFlight, CommitAsked
  <2>4. ASSUME NEW r \in 1..Len(pend), NEW h, RollbackAsked(r, h) PROVE r - 1 \in 1..Len(pend') /\ RollbackAsked(r - 1, h)'
    <3>1. r # 1
      BY <2>1, <2>4 DEF RollbackAsked
    <3>2. r - 1 \in 1..Len(pend') /\ r = (r - 1) + 1
      BY <2>1, <3>1
    <3>3. pend'[r - 1] = pend[r]
      BY <2>1, <3>2
    <3> QED
      BY <2>4, <3>2, <3>3 DEF RollbackAsked
  <2>5. ASSUME NEW q \in 0..Len(pend'), NEW h, UndoneAfter(q + 1, h) \/ (q = 0 /\ UndoneAfter(0, h)) PROVE UndoneAfter(q, h)'
    <3>1. CASE UndoneAfter(q + 1, h)
      <4>1. PICK r \in 1..Len(pend) : /\ RollbackAsked(r, h) /\ q + 1 < r
                                      /\ \A p \in 1..Len(pend) : CommitAsked(p) => p < q + 1 \/ r < p
        BY <3>1 DEF UndoneAfter
      <4>2. r - 1 \in 1..Len(pend') /\ RollbackAsked(r - 1, h)'
        BY <2>4, <4>1
      <4>3. ASSUME NEW p \in 1..Len(pend'), CommitAsked(p)' PROVE p < q \/ r - 1 < p
        <5>1. p + 1 < q + 1 \/ r < p + 1
          BY <2>3, <4>1, <4>3
        <5> QED
          BY <5>1
      <4>4. q < r - 1
        BY <4>1
      <4> QED
        BY <4>2, <4>3, <4>4 DEF UndoneAfter
    <3>2. CASE q = 0 /\ UndoneAfter(0, h)
      <4>1. PICK r \in 1..Len(pend) : /\ RollbackAsked(r, h) /\ 0 < r
                                      /\ \A p \in 1..Len(pend) : CommitAsked(p) => p < 0 \/ r < p
        BY <3>2 DEF UndoneAfter
      <4>2. r - 1 \in 1..Len(pend') /\ RollbackAsked(r - 1, h)'
        BY <2>4, <4>1
      <4>3. ASSUME NEW p \in 1..Len(pend'), CommitAsked(p)' PROVE r - 1 < p
        <5>1. p + 1 < 0 \/ r < p + 1
          BY <2>3, <4>1, <4>3
        <5> QED
          BY <5>1
      <4>4. 0 < r - 1
        BY <4>2
      <4> QED
        BY <3>2, <4>2, <4>3, <4>4 DEF UndoneAfter
    <3> QED
      BY <2>5, <3>1, <3>2
  <2>6. ASSUME Undone(i) PROVE Undone(i)'
    <3>1. ASSUME NEW q \in 1..Len(pend'), InFlight(i, q)', NEW h, h = pend'[q].h PROVE UndoneAfter(q, h)'
      <4>1. q + 1 \in 1..Len(pend) /\ InFlight(i, q + 1) /\ h = pend[q + 1].h /\ q \in 0..Len(pend')
        BY <2>1, <2>3, <3>1
      <4>2. UndoneAfter(q + 1, h)
        BY <2>6, <4>1 DEF Undone
      <4> QED
        BY <2>5, <4>1, <4>2
    <3>2. ASSUME NEW h \in 1..Len(srv'), Doing(i, h)' PROVE UndoneAfter(0, h)'
      <4>1. UndoneAfter(0, h)
        BY <2>2, <2>6, <3>2 DEF Undone
      <4>2. 0 \in 0..Len(pend')
        BY <2>1
      <4> QED
        BY <2>5, <4>1, <4>2
    <3>3. applied'[i] = 0
      BY <2>2, <2>6 DEF Undone
    <3> QED
      BY <3>1, <3>2, <3>3, UndoneNext
  <2>7. ASSUME NEW h, OnHandle(i, h) PROVE OnHandle(i, h)'
    <3>1. \A q \in 1..Len(pend') : InFlight(i, q)' => pend'[q].h = h
      BY <2>1, <2>3, <2>7 DEF OnHandle
    <3> QED
      BY <2>2, <2>7, <3>1 DEF OnHandle
  <2> QED
    BY <2>6, <2>7 DEF Follows
<1> QED
  BY <1>1, <1>2, ReceivesPend

\* ... and a socket that dies takes away only requests not carried out; the rollback may be among them.
LEMMA DeathFollows ==
  ASSUME IInv, SocketDeath, NEW i
  PROVE  /\ \A h : OnHandle(i, h) => OnHandle(i, h)'
         /\ Undone(i) => Uncommitted(i)'
         /\ Broken' /\ UNCHANGED srvVars
<1>0. pend \in Seq(Request) /\ Len(pend) \in Nat /\ UNCHANGED srvVars /\ Broken'
  BY WireParts DEF SocketDeath, SocketDies, dataVars, Broken
<1>1. PICK n \in 0..Len(pend) : pend' = SubSeq(pend, 1, n) /\ \A p \in 1..n : pend[p].st # "asked"
  BY DEF SocketDeath, SocketDies
<1>2. Len(pend') = n /\ \A j \in 1..n : pend'[j] = pend[j]
  BY <1>0, <1>1
<1>3. \A p \in 1..Len(pend') : ~CommitAsked(p)' /\ ~InFlight(i, p)'
  BY <1>1, <1>2 DEF CommitAsked, InFlight
<1>4. srv' = srv /\ applied' = applied /\ \A h : Doing(i, h)' <=> Doing(i, h)
  BY <1>0 DEF srvVars, Doing
<1>5. \A h : OnHandle(i, h) => OnHandle(i, h)'
  BY <1>3, <1>4 DEF OnHandle
<1>6. Undone(i) => Uncommitted(i)'
  BY <1>3, <1>4 DEF Undone, Uncommitted
<1> QED
  BY <1>0, <1>5, <1>6

\* Where no call inside an explicit transaction comes.
OutsideTx == Closing \cup {"begin", "begin.done", "tx.begin", "tx.begun", "commitRetaining", "commitRetaining.read"}

\* The transaction of the application has begun and is no autocommit.
TxOK == InTx => /\ pc \notin OutsideTx
                /\ ~txs[cur].auto /\ ~txs[cur].needBegin
                /\ holder = "tx" => pc = "idle"

\* So will the one BeginTx is making.
BeginOK == pc = "begin.done" \/ stack = <<"begin.done">> => ~txs[Len(txs)].auto /\ ~txs[Len(txs)].needBegin

\* Where the explicit transaction ends.
Ending == {"commit", "commit.read", "rollback", "rollback.read"}

\* What a statement of the call in progress leads to.
LEMMA LeaveStays ==
  ASSUME IInv, NEW e, Leave(e)
  PROVE  \/ Finish(e)
         \/ /\ pc' \in {"free", "rows"} /\ job'.id = job.id /\ job'.shape = job.shape
            /\ UNCHANGED <<holder, calls, again, fate>>
<1>1. job \in [kind : CallKinds \cup {"none", "rows"}, shape : {"dml", "select", "proc"}, ctx : CtxKinds, id : 0..MaxCalls]
  BY DEF IInv, CallType, Jobs
<1>2. [job EXCEPT !.kind = "rows"].id = job.id /\ [job EXCEPT !.kind = "rows"].shape = job.shape
  BY <1>1
<1>3. Leave(e) => \/ Finish(e)
                  \/ pc' = "free" /\ UNCHANGED <<job, holder, calls, again, fate>>
                  \/ pc' = "rows" /\ job' \in {job, [job EXCEPT !.kind = "rows"]} /\ UNCHANGED <<holder, calls, again, fate>>
  BY DEF Leave, Goto
<1> QED
  BY <1>2, <1>3

\* A step of the call that does not end it.
Goes == /\ UNCHANGED <<calls, again, fate>> /\ job'.id = job.id /\ job'.shape = job.shape
        /\ holder' = holder \/ (holder' = "gone" /\ DetachRead)
        /\ pc' \in Ending => pc \in Ending
        /\ pc' # "rollback"

\* A step of the call, if it is not one of those ends.
LEMMA StatementGoes ==
  ASSUME IInv, Statement
  PROVE  (Goes /\ pc' \notin Ending) \/ \E e : Finish(e)
<1>1. ASSUME NEW e, Leave(e) PROVE (Goes /\ pc' \notin Ending) \/ Finish(e)
  BY <1>1, LeaveStays DEF Goes, Ending
<1>2. ASSUME UNCHANGED callVars, pc' \notin Ending PROVE Goes /\ pc' \notin Ending
  BY <1>2 DEF Goes, callVars, Ending
<1>3. CASE Prepare \/ PrepareBegun \/ PrepareStatement \/ PrepareRead \/ Run \/ RunBegun \/ Immediate \/ ImmediateBegun
           \/ ImmediateRead \/ ImmediateDone \/ ExecDone \/ Freed
  <2>1. (UNCHANGED callVars /\ pc' \notin Ending) \/ \E e : Finish(e)
    BY <1>3 DEF Prepare, PrepareBegun, PrepareStatement, PrepareRead, Run, RunBegun, Immediate, ImmediateBegun,
       ImmediateRead, ImmediateDone, ExecDone, Freed, Continue, Goto, Call, Enter, Panic, Ending
  <2> QED
    BY <1>2, <2>1
<1>4. CASE Allocate \/ Bind \/ Upload \/ UploadRead \/ UploadClosed \/ Execute \/ ImmediateSend \/ Free
  <2>1. UNCHANGED callVars /\ pc' \notin Ending
    BY <1>4 DEF Allocate, Bind, Upload, UploadRead, UploadClosed, Execute, ImmediateSend, Free, Goto, Ending, dataVars
  <2> QED
    BY <1>2, <2>1
<1>5. CASE ScrollRefused \/ BindRead \/ SliceStored \/ ExecCommitted \/ DrainRead
  <2>1. (UNCHANGED callVars /\ pc' \notin Ending) \/ \E e : Leave(e)
    BY <1>5 DEF ScrollRefused, BindRead, SliceStored, ExecCommitted, DrainRead, Continue, Goto, Panic, Ending
  <2> QED
    BY <1>1, <1>2, <2>1
<1>6. CASE ExecuteRead \/ InfoRead
  <2>1. ASSUME NEW op, Abandon(op) PROVE (UNCHANGED callVars /\ pc' \notin Ending) \/ \E e : Leave(e)
    BY <2>1, Abandons DEF Continue, Goto, Ending
  <2>2. (UNCHANGED callVars /\ pc' \notin Ending) \/ \E e : Leave(e)
    BY <1>6, <2>1 DEF ExecuteRead, InfoRead, Continue, Goto, Call, Enter, Ending
  <2> QED
    BY <1>1, <1>2, <2>2
<1>7. CASE FreeRead
  BY <1>7, FreedMoves DEF Goes, Ending
<1> QED
  BY <1>3, <1>4, <1>5, <1>6, <1>7 DEF Statement

\* So is a step of rows, of Ping and of Close, ...
LEMMA OthersGo ==
  ASSUME IInv, Cursor \/ Ping \/ PingRead \/ Teardown
  PROVE  (Goes /\ pc' \notin Ending) \/ \E e : Finish(e)
<1>1. ASSUME UNCHANGED <<job, holder, calls, again, fate>>, pc' \notin Ending PROVE Goes /\ pc' \notin Ending
  BY <1>1 DEF Goes, Ending
<1>2. CASE Cursor
  <2>1. (UNCHANGED <<job, holder, calls, again, fate>> /\ pc' \notin Ending) \/ \E e : Finish(e)
    BY <1>2 DEF Cursor, RowsClose, RowsExpired, RowsNext, Fetch, FetchRead, Row, BlobRead, SegmentRead, ColumnRead, ColumnFails,
         ScrollFetch, ScrollClose, RowsFail, NextColumn, Continue, Goto, rowsElse, dataVars, callVars, Ending
  <2> QED
    BY <1>1, <2>1
<1>3. CASE Ping \/ PingRead \/ Close \/ CloseRead
  <2>1. (UNCHANGED <<job, holder, calls, again, fate>> /\ pc' \notin Ending) \/ \E e : Finish(e)
    BY <1>3 DEF Ping, PingRead, Close, CloseRead, Continue, Goto, dataVars, callVars, Ending
  <2> QED
    BY <1>1, <2>1
<1>4. CASE DetachRead
  <2>1. UNCHANGED <<job, calls, again, fate>> /\ pc' = "idle" /\ holder' = "gone"
    BY <1>4 DEF DetachRead, Goto
  <2> QED
    BY <1>4, <2>1 DEF Goes, Ending
<1> QED
  BY <1>2, <1>3, <1>4 DEF Teardown

\* ... and one of transaction.go.
LEMMA TransactionGoes ==
  ASSUME IInv, Transaction, ~CommitRead, ~RollbackRead, ~BeginTxDone
  PROVE  Goes /\ (pc' \notin Ending \/ Commit \/ Rollback)
<1>1. CASE Begin \/ CommitRetaining \/ BeginTx
  BY <1>1 DEF Begin, CommitRetaining, BeginTx, Call, Enter, Goto, dataVars, callVars, Goes, Ending
<1>2. CASE Commit \/ Rollback
  BY <1>2 DEF Commit, Rollback, Goto, dataVars, callVars, Goes, Ending, At
<1>3. CASE BeginRead
  BY <1>3, BegunMoves DEF callVars, Goes, Ending
<1>4. CASE CommitRetainingRead
  BY <1>4, RetainedMoves DEF callVars, Goes, Ending
<1> QED
  BY <1>1, <1>2, <1>3, <1>4 DEF Transaction

\* Where the statements of a call lead, and when they begin or commit a transaction.
StatementWays == \/ pc' \notin OutsideTx
                 \/ \E e : Finish(e)
                 \/ pc' = "tx.begin" /\ stack' # <<"begin.done">> /\ txs[cur].needBegin
                 \/ pc' = "commitRetaining" /\ stack' # <<"begin.done">> /\ txs[cur].auto

\* So begin and commitRetaining are reached from a statement only as the flags of its transaction say, ...
LEMMA StatementEnters ==
  ASSUME IInv, Statement
  PROVE  StatementWays /\ UNCHANGED txVars
<1>0. UNCHANGED txVars
  BY DEF Statement, Prepare, PrepareBegun, Allocate, PrepareStatement, PrepareRead, ScrollRefused, Run, RunBegun,
        Bind, BindRead, Upload, UploadRead, UploadClosed, SliceStored, Execute, ExecuteRead, DrainRead, InfoRead,
        ExecCommitted, ExecDone, Immediate, ImmediateBegun, ImmediateSend, ImmediateRead, ImmediateDone,
        Free, FreeRead, Freed, dataVars
<1> SUFFICES StatementWays
  BY <1>0
<1>1. ASSUME NEW e, Leave(e) PROVE StatementWays
  BY <1>1, LeaveStays DEF StatementWays, OutsideTx, Closing
<1>2. ASSUME NEW l, Goto(l), l \notin OutsideTx PROVE StatementWays
  BY <1>2 DEF Goto, StatementWays
<1>3. ASSUME NEW r, Call("tx.begin", r), stack = <<>>, r # "begin.done", txs[cur].needBegin PROVE StatementWays
  <2>1. pc' = "tx.begin" /\ stack' = <<r>>
    BY <1>3, Entered DEF Call
  <2> QED
    BY <1>3, <2>1, Stacked DEF StatementWays
<1>4. ASSUME NEW r, Call("commitRetaining", r), stack = <<>>, r # "begin.done", txs[cur].auto PROVE StatementWays
  <2>1. pc' = "commitRetaining" /\ stack' = <<r>>
    BY <1>4, Entered DEF Call
  <2> QED
    BY <1>4, <2>1, Stacked DEF StatementWays
<1>5. pc \in {"prepare", "run", "immediate", "info.read", "immediate.read"} => stack = <<>>
  BY Stacks DEF Plain, Places
<1>6. CASE Prepare \/ Run \/ Immediate
  <2>1. \/ \E e : Finish(e)
        \/ \E l \in {"panic", "allocate", "bind", "immediate.send"} : Goto(l)
        \/ txs[cur].needBegin /\ pc \in {"prepare", "run", "immediate"}
           /\ \E r \in {"prepare.begun", "run.begun", "immediate.begun"} : Call("tx.begin", r)
    BY <1>6 DEF Prepare, Run, Immediate, Panic, Continue, At
  <2>2. (\E e : Finish(e)) => StatementWays
    BY DEF StatementWays
  <2>3. \A l \in {"panic", "allocate", "bind", "immediate.send"} : l \notin OutsideTx
    BY DEF OutsideTx, Closing
  <2> QED
    BY <1>2, <1>3, <1>5, <2>1, <2>2, <2>3
<1>7. CASE PrepareBegun \/ PrepareStatement \/ PrepareRead \/ RunBegun \/ ImmediateBegun \/ ImmediateDone \/ ExecDone \/ Freed
  <2>1. (\E e : Finish(e)) \/ \E l \in {"allocate", "prepare.read", "bind", "immediate.send"} : Goto(l)
    BY <1>7 DEF PrepareBegun, PrepareStatement, PrepareRead, RunBegun, ImmediateBegun, ImmediateDone, ExecDone, Freed, Continue
  <2>2. (\E e : Finish(e)) => StatementWays
    BY DEF StatementWays
  <2>3. \A l \in {"allocate", "prepare.read", "bind", "immediate.send"} : l \notin OutsideTx
    BY DEF OutsideTx, Closing
  <2> QED
    BY <1>2, <2>1, <2>2, <2>3
<1>8. CASE Allocate \/ Bind \/ Upload \/ UploadRead \/ UploadClosed \/ Execute \/ ImmediateSend \/ Free
  <2>1. pc' \notin OutsideTx
    BY <1>8 DEF Allocate, Bind, Upload, UploadRead, UploadClosed, Execute, ImmediateSend, Free, Goto, OutsideTx, Closing
  <2> QED
    BY <2>1 DEF StatementWays
<1>9. CASE ScrollRefused \/ BindRead \/ SliceStored \/ ExecCommitted \/ DrainRead
  <2>1. (\E l \in {"execute", "panic"} : Goto(l)) \/ \E e : Leave(e)
    BY <1>9 DEF ScrollRefused, BindRead, SliceStored, ExecCommitted, DrainRead, Continue, Panic
  <2>2. \A l \in {"execute", "panic"} : l \notin OutsideTx
    BY DEF OutsideTx, Closing
  <2> QED
    BY <1>1, <1>2, <2>1, <2>2
<1>10. CASE ExecuteRead \/ InfoRead
  <2>1. ASSUME NEW op, Abandon(op) PROVE Goto("drain.read") \/ \E e : Leave(e)
    BY <2>1, Abandons DEF Continue
  <2>2. \/ \E l \in {"drain.read", "info.read"} : Goto(l)
        \/ \E e : Leave(e)
        \/ pc = "info.read" /\ txs[cur].auto /\ Call("commitRetaining", "exec.committed")
    BY <1>10, <2>1 DEF ExecuteRead, InfoRead, Continue, At
  <2>3. \A l \in {"drain.read", "info.read"} : l \notin OutsideTx
    BY DEF OutsideTx, Closing
  <2> QED
    BY <1>1, <1>2, <1>4, <1>5, <2>2, <2>3
<1>11. CASE ImmediateRead
  <2>1. (\E e : Finish(e)) \/ (pc = "immediate.read" /\ txs[cur].auto /\ Call("commitRetaining", "immediate.done"))
    BY <1>11 DEF ImmediateRead, At
  <2>2. (\E e : Finish(e)) => StatementWays
    BY DEF StatementWays
  <2> QED
    BY <1>4, <1>5, <2>1, <2>2
<1>12. CASE FreeRead
  <2>1. pc' \in {"panic", "freed", "exec.done"}
        \/ (pc' = "commitRetaining" /\ txs[cur].auto /\ (stack' = <<"freed">> \/ stack' = <<"exec.done">>))
    BY <1>12, FreedMoves
  <2> QED
    BY <2>1, CallStacks DEF StatementWays, OutsideTx, Closing
<1> QED
  BY <1>0, <1>6, <1>7, <1>8, <1>9, <1>10, <1>11, <1>12 DEF Statement

\* ... and from rows and Ping not at all.
LEMMA CursorEnters ==
  ASSUME IInv, Cursor \/ Ping \/ PingRead
  PROVE  (pc' \notin OutsideTx \/ \E e : Finish(e)) /\ UNCHANGED txVars
<1>1. CASE Cursor
  BY <1>1 DEF Cursor, RowsClose, RowsExpired, RowsNext, Fetch, FetchRead, Row, BlobRead, SegmentRead, ColumnRead, ColumnFails,
         ScrollFetch, ScrollClose, RowsFail, NextColumn, Continue, Goto, rowsElse, dataVars, OutsideTx, Closing
<1>2. CASE Ping \/ PingRead
  BY <1>2 DEF Ping, PingRead, Continue, Goto, OutsideTx, Closing
<1> QED
  BY <1>1, <1>2

\* A call that ends stays in the transaction, or gives the connection up.
LEMMA FinishTx ==
  ASSUME NEW e, Finish(e)
  PROVE  /\ stack' = <<>> /\ pc' \in {"idle", "close"}
         /\ InTx' => holder = "txcall" /\ holder' = "tx" /\ pc' = "idle"
         /\ holder = "txcall" => InTx'
  BY FinishMoves, EndMoves DEF InTx

\* A call inside an explicit transaction leaves its object as it is until the end.
LEMMA TxObjects ==
  ASSUME IInv, TxOK, InTx, Transaction \/ Statement \/ Cursor \/ Ping \/ PingRead \/ Teardown
  PROVE  UNCHANGED txVars \/ CommitRead \/ RollbackRead
<1>1. CASE Transaction
  BY <1>1 DEF Transaction, Begin, BeginRead, BeginTx, BeginTxDone, CommitRetaining, CommitRetainingRead, Commit, Rollback, At,
              TxOK, OutsideTx, dataVars
<1>2. CASE Teardown
  BY <1>2 DEF Teardown, Close, CloseRead, DetachRead, At, TxOK, OutsideTx, Closing
<1> QED
  BY <1>1, <1>2, StatementEnters, CursorEnters

\* ... and begins and commits no other.
LEMMA TxPlaces ==
  ASSUME IInv, TxOK, InTx, InTx', Transaction \/ Statement \/ Cursor \/ Ping \/ PingRead \/ Teardown
  PROVE  pc' \notin OutsideTx /\ UNCHANGED txVars /\ (holder' = "tx" => pc' = "idle")
<1>0. pc \notin OutsideTx /\ ~txs[cur].auto /\ ~txs[cur].needBegin
  BY DEF TxOK
<1>1. ASSUME NEW e, Finish(e) PROVE pc' \notin OutsideTx
  BY <1>1, FinishTx DEF OutsideTx, Closing
<1>2. ASSUME holder = "tx" PROVE pc = "idle"
  BY <1>2 DEF TxOK
<1>3. pc # "idle"
  BY DEF Transaction, Begin, BeginRead, BeginTx, BeginTxDone, CommitRetaining, CommitRetainingRead, Commit, CommitRead, Rollback,
     RollbackRead, Statement, Prepare, PrepareBegun, Allocate, PrepareStatement, PrepareRead, ScrollRefused, Run, RunBegun,
        Bind, BindRead, Upload, UploadRead, UploadClosed, SliceStored, Execute, ExecuteRead, DrainRead, InfoRead,
        ExecCommitted, ExecDone, Immediate, ImmediateBegun, ImmediateSend, ImmediateRead, ImmediateDone,
        Free, FreeRead, Freed, Cursor, RowsClose, RowsExpired, RowsNext, Fetch, FetchRead, Row, BlobRead, SegmentRead, ColumnRead, ColumnFails,
         ScrollFetch, ScrollClose, Ping, PingRead, Teardown, Close, CloseRead, DetachRead, At
<1>4. holder = "txcall"
  BY <1>2, <1>3 DEF InTx
<1>5. CASE Transaction
  <2>1. ~CommitRead /\ ~RollbackRead
    <3>1. Ends(res, "pool") => holder' \in {"pool", "closing"}
      BY EndMoves
    <3>2. ~Ends(res, "pool")
      BY <3>1 DEF InTx
    <3> QED
      BY <3>2 DEF CommitRead, RollbackRead
  <2>2. Commit \/ Rollback
    BY <1>0, <1>5, <2>1 DEF Transaction, Begin, BeginRead, BeginTx, BeginTxDone, CommitRetaining, CommitRetainingRead, At, OutsideTx
  <2> QED
    BY <1>4, <2>2 DEF Commit, Rollback, Goto, dataVars, callVars, OutsideTx, Closing
<1>6. CASE Statement
  <2>1. StatementWays /\ UNCHANGED txVars
    BY <1>6, StatementEnters
  <2>2. pc' \notin OutsideTx
    BY <1>0, <1>1, <2>1 DEF StatementWays
  <2>3. holder' = "tx" => pc' = "idle"
    BY <1>4, <1>6, StatementGoes, FinishTx DEF Goes
  <2> QED
    BY <2>1, <2>2, <2>3
<1>7. CASE Cursor \/ Ping \/ PingRead
  <2>1. pc' \notin OutsideTx /\ UNCHANGED txVars
    BY <1>1, <1>7, CursorEnters
  <2>2. holder' = "tx" => pc' = "idle"
    BY <1>4, <1>7, OthersGo, FinishTx DEF Goes
  <2> QED
    BY <2>1, <2>2
<1>8. CASE Teardown
  BY <1>0, <1>8 DEF Teardown, Close, CloseRead, DetachRead, At, OutsideTx, Closing
<1> QED
  BY <1>5, <1>6, <1>7, <1>8

\* The call in progress does not notice what happens around it.
LEMMA StaysAround ==
  ASSUME Receive \/ Environment \/ Stopped \/ UNCHANGED vars
  PROVE  UNCHANGED <<pc, stack, job, holder, calls, again, fate, txs, cur>>
  BY DEF Receive, Environment, Server, CtxDone, Watcher, PingWatcher, SocketDeath, Stopped, vars, ctlVars, dataVars, callVars, txVars

\* Where database/sql and the application lead.
LEMMA ApplicationMoves ==
  ASSUME IInv, CallStart \/ Retry \/ TxEnd \/ Reconnect
  PROVE  /\ pc = "idle" /\ stack' = stack /\ pc' \notin OutsideTx \ {"begin"}
         /\ pc' = "begin" => ~InTx'
         /\ InTx' => holder = "tx" /\ holder' = "txcall" /\ UNCHANGED txVars
<1>1. CASE CallStart
  <2>1. pc' = StartOf(job'.kind) /\ job'.kind \in Kinds \ {"commit", "rollback"} /\ job'.kind \in CallKinds
    BY <1>1, CallMoves
  <2>2. /\ pc' \in {"prepare", "run", "free", "begin", "ping", "immediate"}
        /\ pc' = "begin" => job'.kind = "begin"
    BY <2>1, Starts
  <2>3. /\ pc = "idle" /\ stack' = stack /\ UNCHANGED txVars
        /\ (holder = "pool" /\ holder' = "call") \/ (holder = "tx" /\ holder' = "txcall")
        /\ holder = "tx" => job'.kind \in {"exec", "query"}
    BY <1>1, CallMoves
  <2> QED
    BY <2>2, <2>3 DEF InTx, OutsideTx, Closing
<1>2. CASE Retry
  <2>1. pc = "idle" /\ stack' = stack /\ pc' = StartOf(again.kind) /\ again.kind \in Retried /\ holder' = "call"
    BY <1>2, RetryMoves
  <2>2. pc' \in {"prepare", "run", "begin", "ping"}
    BY <2>1, StartsAgain
  <2> QED
    BY <2>1, <2>2 DEF InTx, OutsideTx, Closing
<1>3. CASE TxEnd
  BY <1>3 DEF TxEnd, Goto, InTx, OutsideTx, Closing
<1>4. CASE Reconnect
  BY <1>4 DEF Reconnect, ctlVars, InTx, OutsideTx, Closing
<1> QED
  BY <1>1, <1>2, <1>3, <1>4

\* Every step keeps TxOK, ...
LEMMA StepTx ==
  ASSUME IInv, TxOK, BeginOK, [Next]_vars
  PROVE  TxOK'
<1> SUFFICES ASSUME InTx' PROVE TxOK'
  BY DEF TxOK
<1>1. CASE Transaction \/ Statement \/ Cursor \/ Ping \/ PingRead \/ Teardown
  <2>1. CASE InTx
    <3>1. pc' \notin OutsideTx /\ UNCHANGED txVars /\ (holder' = "tx" => pc' = "idle")
      BY <1>1, <2>1, TxPlaces
    <3> QED
      BY <2>1, <3>1 DEF TxOK, txVars
  <2>2. CASE BeginTxDone /\ res = "nil"
    <3>1. pc = "begin.done" /\ txs' = txs /\ cur' = Len(txs) /\ Ends(res, "tx")
      BY <2>2 DEF BeginTxDone, At
    <3>2. pc' = "idle" /\ ~txs[Len(txs)].auto /\ ~txs[Len(txs)].needBegin
      BY <2>2, <3>1, EndMoves DEF BeginOK, IsBad
    <3>3. ~txs'[cur'].auto /\ ~txs'[cur'].needBegin
      BY <3>1, <3>2
    <3> QED
      BY <3>2, <3>3 DEF TxOK, OutsideTx, Closing
  <2> QED
    BY <1>1, <2>1, <2>2, HolderMoves
<1>2. CASE Receive \/ Environment \/ Stopped \/ UNCHANGED vars
  BY <1>2, StaysAround DEF TxOK, InTx
<1>3. CASE CallStart \/ Retry \/ TxEnd \/ Reconnect
  BY <1>3, ApplicationMoves DEF TxOK, InTx, txVars
<1> QED
  BY <1>1, <1>2, <1>3 DEF Next, Driver, Application

\* ... and BeginOK.
LEMMA StepBegin ==
  ASSUME IInv, IInv', BeginOK, [Next]_vars
  PROVE  BeginOK'
<1> SUFFICES ASSUME pc' = "begin.done" \/ stack' = <<"begin.done">> PROVE ~txs'[Len(txs')].auto /\ ~txs'[Len(txs')].needBegin
  BY DEF BeginOK
<1>0. /\ pc' \in {"begin.done", "tx.begin", "tx.begun"}
      /\ pc' = "begin.done" => stack' = <<>>
  <2>1. pc' \in Places /\ stack' \in StacksAt(pc')
    BY DEF IInv, ControlOK
  <2>2. pc' \in Plain \/ pc' \in {"tx.begin", "tx.begun"} \/ pc' \in {"commitRetaining", "commitRetaining.read"}
        \/ pc' \in {"free", "free.read", "panic"}
    BY <2>1 DEF Plain, Places
  <2>3. pc' \in {"commitRetaining", "commitRetaining.read", "free", "free.read", "panic"} => stack' # <<"begin.done">>
    BY <2>1, StackAt, CallStacks
  <2>4. pc' \in Plain => stack' = <<>>
    BY <2>1, StackAt
  <2>5. "begin.done" \in Plain
    BY DEF Plain, Places
  <2> QED
    BY <2>2, <2>3, <2>4, <2>5, CallStacks DEF Plain, Places
<1>1. CASE Transaction
  <2>1. CASE BeginTx
    <3>1. txs' = Append(txs, [auto |-> FALSE, needBegin |-> FALSE, h |-> 0, begun |-> FALSE]) /\ txs \in Seq(TxObject)
      BY <2>1 DEF BeginTx, IInv, TxType
    <3>2. Len(txs') = Len(txs) + 1 /\ Len(txs) \in Nat
          /\ txs'[Len(txs) + 1] = [auto |-> FALSE, needBegin |-> FALSE, h |-> 0, begun |-> FALSE]
      BY <3>1
    <3> QED
      BY <3>2
  <2>2. CASE Begin
    <3>1. pc = "tx.begin" /\ stack' = stack /\ txs' = txs /\ pc' = "tx.begun"
      BY <2>2 DEF Begin, At, Goto, dataVars, txVars
    <3> QED
      BY <3>1 DEF BeginOK
  <2>3. CASE BeginRead
    <3>1. stack = <<pc'>> /\ stack' = <<>>
      BY <2>3, BegunMoves
    <3>2. stack = <<"begin.done">>
      BY <3>1, CallStacks
    <3>3. ~txs[Len(txs)].auto /\ ~txs[Len(txs)].needBegin /\ txs \in Seq(TxObject) /\ txs # <<>>
      BY <3>2 DEF BeginOK, IInv, TxType, ControlOK
    <3>4. Len(txs) \in 1..Len(txs) /\ txs[Len(txs)] \in TxObject
      BY <3>3
    <3>5. \/ txs' = txs
          \/ txs' = [txs EXCEPT ![Target].h = reply, ![Target].needBegin = FALSE, ![Target].begun = TRUE]
      BY <2>3 DEF BeginRead
    <3>6. Target \in 1..Len(txs) => Len(txs') = Len(txs) /\ txs'[Len(txs)].auto = txs[Len(txs)].auto
                                    /\ (txs'[Len(txs)].needBegin = txs[Len(txs)].needBegin \/ txs'[Len(txs)].needBegin = FALSE)
      BY <3>3, <3>4, <3>5 DEF TxObject
    <3>7. Target \notin 1..Len(txs) => txs' = txs
      BY <3>3, <3>5
    <3> QED
      BY <3>3, <3>6, <3>7
  <2>4. CASE BeginTxDone \/ CommitRead \/ RollbackRead
    <3>1. pc' \in {"idle", "close"}
      BY <2>4, EndMoves DEF BeginTxDone, CommitRead, RollbackRead
    <3> QED
      BY <1>0, <3>1
  <2>5. CASE CommitRetaining \/ Commit \/ Rollback
    BY <1>0, <2>5 DEF CommitRetaining, Commit, Rollback, Goto
  <2>6. CASE CommitRetainingRead
    BY <1>0, <2>6, RetainedMoves
  <2> QED
    BY <1>1, <2>1, <2>2, <2>3, <2>4, <2>5, <2>6 DEF Transaction
<1>2. CASE Statement
  BY <1>0, <1>2, StatementEnters, FinishTx DEF StatementWays, OutsideTx, Closing
<1>3. CASE Cursor \/ Ping \/ PingRead
  BY <1>0, <1>3, CursorEnters, FinishTx DEF OutsideTx
<1>4. CASE Teardown
  BY <1>0, <1>4 DEF Teardown, Close, CloseRead, DetachRead, Goto
<1>5. CASE Receive \/ Environment \/ Stopped \/ UNCHANGED vars
  BY <1>5, StaysAround DEF BeginOK
<1>6. CASE CallStart \/ Retry \/ TxEnd \/ Reconnect
  BY <1>0, <1>6, ApplicationMoves DEF OutsideTx
<1> QED
  BY <1>1, <1>2, <1>3, <1>4, <1>5, <1>6 DEF Next, Driver, Application

\* The work of call i is that of an explicit transaction that has not ended.
Running(i) == fate[i] \in {"txrun", "txdone"}

\* What the application knows of its calls, and where they are.
FateOK == /\ \A i \in Calls : Running(i) => InTx /\ pc \notin Ending
          /\ Work # 0 => fate[Work] = IF InTx THEN "txrun" ELSE "run"
          /\ again.id # 0 /\ again.shape # "select" => fate[again.id] = "run"
          /\ \A i \in Calls : i > calls => fate[i] = "none"

\* A step of the call ends it or goes on.
LEMMA DriverWays ==
  ASSUME IInv, Transaction \/ Statement \/ Cursor \/ Ping \/ PingRead \/ Teardown
  PROVE  /\ Goes \/ CommitRead \/ RollbackRead \/ BeginTxDone \/ \E e : Finish(e)
         /\ pc # "idle"
<1>1. pc # "idle"
  BY DEF Transaction, Begin, BeginRead, BeginTx, BeginTxDone, CommitRetaining, CommitRetainingRead, Commit, CommitRead, Rollback,
     RollbackRead, Statement, Prepare, PrepareBegun, Allocate, PrepareStatement, PrepareRead, ScrollRefused, Run, RunBegun,
        Bind, BindRead, Upload, UploadRead, UploadClosed, SliceStored, Execute, ExecuteRead, DrainRead, InfoRead,
        ExecCommitted, ExecDone, Immediate, ImmediateBegun, ImmediateSend, ImmediateRead, ImmediateDone,
        Free, FreeRead, Freed, Cursor, RowsClose, RowsExpired, RowsNext, Fetch, FetchRead, Row, BlobRead, SegmentRead, ColumnRead, ColumnFails,
         ScrollFetch, ScrollClose, Ping, PingRead, Teardown, Close, CloseRead, DetachRead, At
<1> QED
  BY <1>1, TransactionGoes, StatementGoes, OthersGo

\* The call in progress and its work.
LEMMA WorkIs ==
  ASSUME IInv, OnceInv
  PROVE  /\ Work \in Nat /\ Work <= calls /\ (Work # 0 => Work \in Calls /\ Work = job.id /\ job.shape # "select")
         /\ job.shape # "select" => Work = job.id
         /\ NoJob.shape = "select" /\ NoJob.id = 0 /\ calls \in 0..MaxCalls /\ MaxCalls \in Nat
         /\ fate \in [Calls -> Fates]
<1>1. calls \in 0..MaxCalls /\ MaxCalls \in Nat /\ fate \in [Calls -> Fates]
  BY SessionAssumption DEF IInv, CallType
<1>2. job.id <= calls /\ job.id \in Nat /\ (job.id # 0 => job.id \in Calls) /\ calls \in Nat
  BY Ids DEF OnceInv, AgainOK
<1>3. NoJob.shape = "select" /\ NoJob.id = 0
  BY DEF NoJob
<1> QED
  BY <1>1, <1>2, <1>3 DEF Work

\* A step that does not end the call keeps FateOK, ...
LEMMA GoesFate ==
  ASSUME IInv, OnceInv, TxOK, FateOK, Goes
  PROVE  FateOK' /\ (InTx' <=> InTx)
<1>1. InTx' <=> InTx
  BY DEF Goes, InTx, TxOK, DetachRead, At, OutsideTx, Closing
<1>2. Work' = Work
  BY DEF Goes, Work
<1>3. \A i \in Calls : Running(i)' => InTx' /\ pc' \notin Ending
  BY <1>1 DEF Goes, FateOK, Running
<1>4. Work' # 0 => fate'[Work'] = IF InTx' THEN "txrun" ELSE "run"
  BY <1>1, <1>2 DEF Goes, FateOK
<1>5. /\ again'.id # 0 /\ again'.shape # "select" => fate'[again'.id] = "run"
      /\ \A i \in Calls : i > calls' => fate'[i] = "none"
  BY DEF Goes, FateOK
<1> QED
  BY <1>1, <1>3, <1>4, <1>5 DEF FateOK

\* ... so does the end of a call, given what becomes of the fates, ...
LEMMA EndFate ==
  ASSUME IInv, OnceInv, TxOK, FateOK, NEW e, NEW next, Ends(e, next),
         \A i \in Calls : Running(i)' => InTx' /\ pc' \notin Ending,
         fate' = fate \/ again' = NoJob, again' # NoJob => ~InTx,
         \A i \in Calls : i > calls => fate'[i] = "none"
  PROVE  FateOK'
<1>1. job' = NoJob /\ calls' = calls /\ again' \in {job, NoJob}
  BY EndMoves DEF Ends
<1>2. Work' = 0
  BY <1>1, WorkIs DEF Work
<1>3. again'.id # 0 /\ again'.shape # "select" => fate'[again'.id] = "run"
  <2>1. CASE again' = NoJob
    BY <2>1, WorkIs
  <2>2. CASE again' # NoJob
    BY <1>1, <2>2, WorkIs DEF FateOK
  <2> QED
    BY <2>1, <2>2
<1> QED
  BY <1>1, <1>2, <1>3 DEF FateOK

\* ... as it is in Finish, ...
LEMMA FinishFate ==
  ASSUME IInv, OnceInv, TxOK, FateOK, pc # "idle", NEW e, Finish(e)
  PROVE  FateOK' /\ (InTx' <=> InTx)
<1>0. PICK next \in {"pool", "tx"} : Ends(e, next) /\ (next = "tx" <=> holder = "txcall")
  BY FinishMoves
<1>1. InTx <=> holder = "txcall"
  BY DEF InTx, TxOK
<1>2. (InTx' <=> InTx) /\ pc' \in {"idle", "close"}
  BY <1>0, <1>1, EndMoves DEF InTx
<1>3. fate' = IF e # "nil" \/ Work = 0 THEN fate ELSE [fate EXCEPT ![Work] = IF @ = "run" THEN "acked" ELSE "txdone"]
  BY DEF Finish
<1>4. ASSUME NEW i \in Calls, Running(i)' PROVE InTx
  <2>1. CASE fate'[i] = fate[i]
    BY <1>4, <2>1 DEF Running, FateOK
  <2>2. CASE fate'[i] # fate[i]
    <3>1. i = Work /\ Work # 0 /\ fate[Work] # "run"
      BY <1>3, <1>4, <2>2, WorkIs DEF Running
    <3> QED
      BY <3>1 DEF FateOK
  <2> QED
    BY <2>1, <2>2
<1>5. again' # NoJob => fate' = fate /\ ~InTx
  BY <1>0, <1>1, <1>3, EndMoves DEF IsBad
<1>6. \A i \in Calls : i > calls => fate'[i] = "none"
  BY <1>3, WorkIs DEF FateOK
<1>7. \A i \in Calls : Running(i)' => InTx' /\ pc' \notin Ending
  BY <1>2, <1>4 DEF Ending
<1> QED
  BY <1>0, <1>2, <1>5, <1>6, <1>7, EndFate

\* ... and in what transaction.go does at its ends.
LEMMA TransactionFate ==
  ASSUME IInv, OnceInv, TxOK, FateOK, CommitRead \/ RollbackRead \/ BeginTxDone
  PROVE  FateOK'
<1>1. CASE CommitRead \/ RollbackRead
  <2>1. Ends(res, "pool") /\ pc \in {"commit.read", "rollback.read"}
    BY <1>1 DEF CommitRead, RollbackRead, At
  <2>2. again' = NoJob
    BY <2>1 DEF Ends, OnceInv, KindOK, Unretried
  <2>3. /\ \A i \in Calls : Running(i)' => Running(i)
        /\ \A i \in Calls : fate[i] = "none" => fate'[i] = "none"
    BY <1>1 DEF CommitRead, RollbackRead, Running
  <2>4. \A i \in Calls : ~Running(i)'
    BY <2>1, <2>3 DEF FateOK, Ending
  <2>5. \A i \in Calls : i > calls => fate'[i] = "none"
    BY <2>3 DEF FateOK
  <2> QED
    BY <2>1, <2>2, <2>4, <2>5, EndFate
<1>2. CASE BeginTxDone
  <2>1. fate' = fate /\ pc = "begin.done" /\ ~InTx
    BY <1>2 DEF BeginTxDone, At, TxOK, OutsideTx
  <2>2. \A i \in Calls : ~Running(i)'
    BY <2>1 DEF FateOK, Running
  <2>3. PICK next : Ends(res, next)
    BY <1>2 DEF BeginTxDone
  <2>4. \A i \in Calls : i > calls => fate'[i] = "none"
    BY <2>1 DEF FateOK
  <2> QED
    BY <2>1, <2>2, <2>3, <2>4, EndFate
<1> QED
  BY <1>1, <1>2

\* A call that starts is the first of its number, ...
LEMMA CallStartFate ==
  ASSUME IInv, OnceInv, TxOK, FateOK, CallStart
  PROVE  /\ FateOK'
         /\ \A i \in Calls : i # calls + 1 => fate'[i] = fate[i]
         /\ calls + 1 \in Calls /\ fate'[calls + 1] # "denied"
<1>1. \E s : /\ job'.shape = s /\ job'.id = calls + 1
              /\ fate' = IF s = "select" THEN fate
                         ELSE [fate EXCEPT ![calls + 1] = IF holder = "tx" THEN "txrun" ELSE "run"]
  <2>1. PICK k \in Kinds \ {"commit", "rollback"} :
          \E c \in CtxKinds \cup ContextsOf(k), s \in ShapesOf(k) :
            /\ job' = [kind |-> k, shape |-> s, ctx |-> c, id |-> calls + 1]
            /\ fate' = IF s = "select" THEN fate
                       ELSE [fate EXCEPT ![calls + 1] = IF holder = "tx" THEN "txrun" ELSE "run"]
    BY DEF CallStart
  <2> QED
    BY <2>1
<1>2. PICK s : /\ job'.shape = s /\ job'.id = calls + 1
               /\ fate' = IF s = "select" THEN fate
                          ELSE [fate EXCEPT ![calls + 1] = IF holder = "tx" THEN "txrun" ELSE "run"]
  BY <1>1
<1>3. /\ calls < MaxCalls /\ calls' = calls + 1 /\ again = NoJob /\ again' = again
      /\ holder' = IF holder = "tx" THEN "txcall" ELSE "call"
      /\ holder \in {"pool", "tx"}
  BY DEF CallStart
<1>4. calls + 1 \in Calls /\ calls \in Nat /\ NoJob.id = 0 /\ fate \in [Calls -> Fates]
  BY <1>3, WorkIs DEF Calls
<1>5. InTx' <=> InTx
  BY <1>3 DEF InTx
<1>6. \A i \in Calls : i # calls + 1 => fate'[i] = fate[i]
  BY <1>2, <1>4
<1>7. fate'[calls + 1] \in {"none", IF holder = "tx" THEN "txrun" ELSE "run"}
  <2>1. fate[calls + 1] = "none"
    BY <1>4 DEF FateOK
  <2> QED
    BY <1>2, <1>4, <2>1
<1>8. pc' \notin Ending
  <2>1. pc' = StartOf(job'.kind) /\ job'.kind \in Kinds \ {"commit", "rollback"} /\ job'.kind \in CallKinds
    BY CallMoves
  <2>2. pc' \in {"prepare", "run", "free", "begin", "ping", "immediate"}
    BY <2>1, Starts
  <2> QED
    BY <2>2 DEF Ending
<1>9. ASSUME NEW i \in Calls, Running(i)' PROVE InTx' /\ pc' \notin Ending
  <2>1. CASE i = calls + 1
    BY <1>3, <1>5, <1>7, <1>8, <1>9, <2>1 DEF Running, InTx
  <2>2. CASE i # calls + 1
    BY <1>5, <1>6, <1>8, <1>9, <2>2 DEF Running, FateOK
  <2> QED
    BY <2>1, <2>2
<1>10. Work' # 0 => fate'[Work'] = IF InTx' THEN "txrun" ELSE "run"
  <2>1. Work' = IF s = "select" THEN 0 ELSE calls + 1
    BY <1>2 DEF Work
  <2>2. s # "select" => fate'[calls + 1] = IF holder = "tx" THEN "txrun" ELSE "run"
    BY <1>2, <1>4
  <2>3. InTx' <=> holder = "tx"
    BY <1>3 DEF InTx
  <2> QED
    BY <2>1, <2>2, <2>3
<1>11. again'.id = 0
  BY <1>3, <1>4
<1>12. \A i \in Calls : i > calls' => fate'[i] = "none"
  <2>1. ASSUME NEW i \in Calls, i > calls' PROVE fate'[i] = "none"
    <3>1. i \in Nat /\ calls' = calls + 1 /\ MaxCalls \in Nat
      BY <1>3, WorkIs DEF Calls
    <3>2. i > calls /\ i # calls + 1
      BY <1>4, <2>1, <3>1
    <3> QED
      BY <1>6, <3>2 DEF FateOK
  <2> QED
    BY <2>1
<1>13. fate'[calls + 1] # "denied"
  BY <1>7
<1> QED
  BY <1>4, <1>6, <1>9, <1>10, <1>11, <1>12, <1>13 DEF FateOK

\* ... and the application's other steps keep FateOK.
LEMMA ApplicationFate ==
  ASSUME IInv, OnceInv, TxOK, FateOK, Retry \/ TxEnd \/ Reconnect
  PROVE  FateOK'
<1>1. CASE Retry
  <2>1. /\ holder = "pool" /\ holder' = "call" /\ job' = again /\ again' = NoJob /\ UNCHANGED <<calls, fate>>
    BY <1>1, RetryMoves
  <2>2. ~InTx /\ ~InTx' /\ again'.id = 0
    BY <2>1, WorkIs DEF InTx
  <2>3. Work' = IF again.shape = "select" THEN 0 ELSE again.id
    BY <2>1 DEF Work
  <2>4. \A i \in Calls : ~Running(i)'
    BY <2>1, <2>2 DEF FateOK, Running
  <2>5. Work' # 0 => fate'[Work'] = "run"
    BY <2>1, <2>3 DEF FateOK
  <2>6. \A i \in Calls : i > calls' => fate'[i] = "none"
    BY <2>1 DEF FateOK
  <2> QED
    BY <2>2, <2>4, <2>5, <2>6 DEF FateOK
<1>2. CASE TxEnd
  <2>1. /\ holder = "tx" /\ UNCHANGED <<calls, again>> /\ job'.shape = "select"
        /\ \E k : fate' = [i \in Calls |-> IF fate[i] \notin {"txrun", "txdone"} THEN fate[i]
                                           ELSE IF k = "rollback" THEN "denied"
                                           ELSE IF fate[i] = "txdone" THEN "committing" ELSE "unsure"]
    BY <1>2 DEF TxEnd, NoJob
  <2>2. again.id = 0
    BY <2>1, WorkIs DEF OnceInv, AgainOK
  <2>3. \A i \in Calls : ~Running(i)'
    BY <2>1 DEF Running
  <2>4. \A i \in Calls : i > calls => fate'[i] = "none"
    BY <2>1 DEF FateOK
  <2>5. Work' = 0
    BY <2>1 DEF Work
  <2> QED
    BY <2>1, <2>2, <2>3, <2>4, <2>5 DEF FateOK
<1>3. CASE Reconnect
  <2>1. holder = "gone" /\ holder' = "pool" /\ UNCHANGED <<job, again, calls, fate>>
    BY <1>3 DEF Reconnect
  <2>2. ~InTx /\ ~InTx' /\ Work' = Work
    BY <2>1 DEF InTx, Work
  <2>3. \A i \in Calls : ~Running(i)'
    BY <2>1, <2>2 DEF FateOK, Running
  <2> QED
    BY <2>1, <2>2, <2>3 DEF FateOK
<1> QED
  BY <1>1, <1>2, <1>3

\* Every step keeps FateOK.
LEMMA StepFate ==
  ASSUME IInv, OnceInv, TxOK, FateOK, [Next]_vars
  PROVE  FateOK'
<1>1. CASE Transaction \/ Statement \/ Cursor \/ Ping \/ PingRead \/ Teardown
  BY <1>1, DriverWays, GoesFate, FinishFate, TransactionFate
<1>2. CASE Receive \/ Environment \/ Stopped \/ UNCHANGED vars
  <2>1. UNCHANGED <<pc, job, holder, calls, again, fate>>
    BY <1>2, StaysAround
  <2>2. Work' = Work /\ (InTx' <=> InTx)
    BY <2>1 DEF Work, InTx
  <2> QED
    BY <2>1, <2>2 DEF FateOK, Running
<1>3. CASE CallStart \/ Retry \/ TxEnd \/ Reconnect
  BY <1>3, CallStartFate, ApplicationFate
<1> QED
  BY <1>1, <1>2, <1>3 DEF Next, Driver, Application

\* The work of call i is not committed, and is on the transaction of the connection.
OnOurs(i) == Uncommitted(i) /\ OnHandle(i, txs[cur].h)

\* Nobody will commit the work of call i: a rollback comes first, nothing can be asked for
\* any more, or the rollback is to be asked for.
NoCommit(i) == \/ Undone(i)
               \/ Broken /\ Uncommitted(i)
               \/ pc = "rollback" /\ OnOurs(i)

\* What becomes of the work of call i.
Guarded(i) == /\ Running(i) => OnOurs(i)
              /\ fate[i] = "denied" => NoCommit(i)

\* What keeps the parts of OnOurs keeps it.
LEMMA OursKept ==
  ASSUME NEW i, OnOurs(i), Uncommitted(i)', \A h : OnHandle(i, h) => OnHandle(i, h)', UNCHANGED txVars
  PROVE  OnOurs(i)'
<1> DEFINE h == txs[cur].h
<1>1. OnHandle(i, h)'
  BY DEF OnOurs, OnHandle, txVars
<1>2. txs'[cur'].h = h
  BY DEF txVars
<1>3. \A g : OnHandle(i, g) => OnHandle(i, g)'
  OBVIOUS
<1>4. ASSUME NEW g, g = txs[cur].h, NEW k, k = txs'[cur'].h PROVE OnHandle(i, g)' /\ k = g
  BY <1>3, <1>4 DEF OnOurs, txVars
<1>5. \A q \in 1..Len(pend') : InFlight(i, q)' => pend'[q].h = txs'[cur'].h
  BY <1>4 DEF OnHandle
<1>6. \A k \in 1..Len(srv') : Doing(i, k)' => k = txs'[cur'].h
  BY <1>4 DEF OnHandle
<1> QED
  BY <1>5, <1>6 DEF OnOurs, OnHandle

\* A step that executes, rolls back and reconnects nothing.
LEMMA SteadyGuarded ==
  ASSUME NEW i, Guarded(i), Keeps(i), Follows(i), Broken => Broken',
         Running(i)' => Running(i) /\ UNCHANGED txVars,
         fate'[i] = "denied" => fate[i] = "denied",
         pc # "rollback" \/ UNCHANGED <<pc, txVars>>
  PROVE  Guarded(i)'
<1>1. ASSUME Running(i)' PROVE OnOurs(i)'
  BY <1>1, OursKept DEF Guarded, OnOurs, Keeps, Follows
<1>2. ASSUME fate'[i] = "denied" PROVE NoCommit(i)'
  <2>1. CASE Undone(i)
    BY <2>1 DEF Follows, NoCommit
  <2>2. CASE Broken /\ Uncommitted(i)
    BY <2>2 DEF Keeps, NoCommit
  <2>3. CASE pc = "rollback" /\ OnOurs(i)
    <3>1. OnOurs(i)'
      BY <2>3, OursKept DEF OnOurs, Keeps, Follows
    <3> QED
      BY <2>3, <3>1 DEF NoCommit
  <2> QED
    BY <1>2, <2>1, <2>2, <2>3 DEF Guarded, NoCommit
<1> QED
  BY <1>1, <1>2 DEF Guarded

\* What the call in progress does to the fates.
LEMMA DriverFates ==
  ASSUME IInv, OnceInv, TxOK, FateOK, Transaction \/ Statement \/ Cursor \/ Ping \/ PingRead \/ Teardown, NEW i \in Calls
  PROVE  /\ Running(i)' => Running(i) /\ UNCHANGED txVars
         /\ fate'[i] = "denied" => fate[i] = "denied"
<1>1. (Running(i)' => Running(i)) /\ (fate'[i] = "denied" => fate[i] = "denied")
  <2>1. CASE Goes
    BY <2>1 DEF Goes, Running
  <2>2. CASE CommitRead \/ RollbackRead \/ BeginTxDone
    BY <2>2 DEF CommitRead, RollbackRead, BeginTxDone, Running
  <2>3. ASSUME NEW e, Finish(e)
        PROVE  (Running(i)' => Running(i)) /\ (fate'[i] = "denied" => fate[i] = "denied")
    <3>1. fate' = IF e # "nil" \/ Work = 0 THEN fate ELSE [fate EXCEPT ![Work] = IF @ = "run" THEN "acked" ELSE "txdone"]
      BY <2>3 DEF Finish
    <3>2. CASE fate'[i] = fate[i]
      BY <3>2 DEF Running
    <3>3. CASE fate'[i] # fate[i]
      <4>1. i = Work /\ Work # 0 /\ fate'[i] = IF fate[i] = "run" THEN "acked" ELSE "txdone"
        BY <3>1, <3>3, WorkIs
      <4>2. fate[i] = IF InTx THEN "txrun" ELSE "run"
        BY <4>1 DEF FateOK
      <4> QED
        BY <4>1, <4>2 DEF Running
    <3> QED
      BY <3>2, <3>3
  <2> QED
    BY <2>1, <2>2, <2>3, DriverWays
<1>2. ASSUME Running(i)' PROVE UNCHANGED txVars
  <2>1. InTx /\ pc \notin Ending
    BY <1>1, <1>2 DEF FateOK
  <2> QED
    BY <2>1, TxObjects DEF CommitRead, RollbackRead, At, Ending
<1> QED
  BY <1>1, <1>2

\* Most steps of it add nothing but what concerns nobody's work.
LEMMA AddsGuarded ==
  ASSUME IInv, OnceInv, TxOK, FateOK, Transaction \/ Statement \/ Cursor \/ Ping \/ PingRead \/ Teardown, Adds,
         pc # "rollback", NEW i \in Calls, Guarded(i)
  PROVE  Guarded(i)'
<1>1. Keeps(i) /\ Follows(i) /\ (Broken => Broken')
  BY AddsKeeps, AddsFollows DEF Adds
<1> QED
  BY <1>1, DriverFates, SteadyGuarded

\* Commit and commitRetaining belong to no explicit transaction with work in progress.
LEMMA CommitGuarded ==
  ASSUME IInv, OnceInv, TxOK, FateOK, Commit \/ CommitRetaining, NEW i \in Calls, Guarded(i)
  PROVE  Guarded(i)'
<1>1. /\ Follows(i) /\ (Broken => Broken' /\ pend' = pend) /\ UNCHANGED <<srvVars, fate>>
      /\ pc \in {"commit", "commitRetaining"}
  BY CommitFollows DEF Commit, CommitRetaining, At, dataVars, callVars
<1>2. ~Running(i)'
  BY <1>1 DEF FateOK, TxOK, Running, Ending, OutsideTx
<1>3. ASSUME fate'[i] = "denied" PROVE NoCommit(i)'
  <2>1. CASE Undone(i)
    BY <1>1, <2>1 DEF Follows, NoCommit
  <2>2. CASE Broken /\ Uncommitted(i)
    <3>1. Keeps(i)
      BY <1>1, <2>2, KeepsSame
    <3> QED
      BY <1>1, <2>2, <3>1 DEF Keeps, NoCommit
  <2> QED
    BY <1>1, <1>3, <2>1, <2>2 DEF Guarded, NoCommit
<1> QED
  BY <1>2, <1>3 DEF Guarded

\* An execution in an explicit transaction is sent on that transaction.
LEMMA ExecuteGuarded ==
  ASSUME IInv, OnceInv, TxOK, FateOK, Execute \/ ImmediateSend, NEW i \in Calls, Guarded(i)
  PROVE  Guarded(i)'
<1>0. pc \in {"execute", "immediate.send"} /\ Statement
  BY DEF Execute, ImmediateSend, At, Statement
<1>1. (Running(i)' => Running(i) /\ UNCHANGED txVars) /\ (fate'[i] = "denied" => fate[i] = "denied")
  BY <1>0, DriverFates
<1>2. CASE Work # i
  <2>1. Keeps(i) /\ Follows(i) /\ (Broken => Broken')
    BY <1>2, ExecuteKeeps, ExecuteFollows
  <2> QED
    BY <1>0, <1>1, <2>1, SteadyGuarded
<1>3. CASE Work = i
  <2>1. job.id = i /\ i # 0
    BY <1>3, WorkIs DEF Calls
  <2>2. Untouched(i)
    BY <1>0, <2>1 DEF OnceInv, FreshOK, Unasked
  <2>3. OnOurs(i)'
    <3>1. Uncommitted(i)'
      BY <2>2, ExecuteKeeps
    <3>2. OnHandle(i, txs[cur].h)'
      BY <2>2, ExecuteFollows
    <3> QED
      BY <3>1, <3>2 DEF OnOurs
  <2>4. fate[i] # "denied"
    BY <1>3, <2>1 DEF FateOK
  <2> QED
    BY <1>1, <2>3, <2>4 DEF Guarded
<1> QED
  BY <1>2, <1>3

\* A rollback that is sent comes after the work it undoes; one that is not finds nothing to be sent any more.
LEMMA RollbackGuarded ==
  ASSUME IInv, OnceInv, TxOK, FateOK, Rollback, NEW i \in Calls, Guarded(i)
  PROVE  Guarded(i)'
<1>0. pend \in Seq(Request) /\ Len(pend) \in Nat
  BY WireParts
<1>1. pc = "rollback" /\ Transaction /\ ~Commit /\ ~CommitRetaining /\ UNCHANGED <<srvVars, fate>>
  BY DEF Rollback, Transaction, Commit, CommitRetaining, At, dataVars, callVars
<1>2. Keeps(i) /\ Follows(i) /\ (Broken => Broken')
  BY <1>1, TransactionAdds, AddsKeeps, AddsFollows DEF Adds
<1>3. ~Running(i)'
  BY <1>1 DEF FateOK, Running, Ending
<1> SUFFICES ASSUME fate'[i] = "denied" PROVE NoCommit(i)'
  BY <1>3 DEF Guarded
<1>4. CASE Undone(i) \/ (Broken /\ Uncommitted(i))
  BY <1>2, <1>4 DEF Keeps, Follows, NoCommit
<1>5. CASE OnOurs(i)
  <2>0. PICK h, n, r : h = txs[cur].h /\ n = Len(pend) + 1 /\ r = Asked("rollback", h, 0)
    OBVIOUS
  <2>1. Write(<<r>>, <<"rollback">>, 0, "fixed", TRUE)
    BY <2>0 DEF Rollback, Ask
  <2>2. \/ pend' = pend /\ writer' = "sticky"
        \/ pend' = pend \o <<r>>
    BY <2>1, WriteMoves
  <2>3. CASE pend' = pend /\ writer' = "sticky"
    BY <1>2, <1>5, <2>3 DEF Keeps, OnOurs, NoCommit, Broken
  <2>4. CASE pend' = pend \o <<r>>
    <3>1. Len(pend') = n /\ (\A p \in 1..Len(pend) : pend'[p] = pend[p]) /\ pend'[n] = r /\ n \in Nat
      BY <1>0, <2>0, <2>4, Extended
    <3>2. RollbackAsked(n, h)' /\ n \in 1..Len(pend') /\ ~CommitAsked(n)' /\ ~InFlight(i, n)'
      <4>1. r.op = "rollback" /\ r.st = "asked" /\ r.h = h
        BY <2>0 DEF Asked
      <4> QED
        BY <1>0, <2>0, <3>1, <4>1 DEF RollbackAsked, CommitAsked, InFlight, Commits, Execs
    <3>3. \A p \in 1..Len(pend') : p = n \/ p \in 1..Len(pend)
      BY <1>0, <2>0, <3>1
    <3>4. /\ applied'[i] = 0
          /\ \A p \in 1..Len(pend') : CommitAsked(p)' => p \in 1..Len(pend) /\ CommitAsked(p)
          /\ \A q \in 1..Len(pend') : InFlight(i, q)' => q \in 1..Len(pend) /\ InFlight(i, q) /\ pend'[q].h = h
          /\ \A k \in 1..Len(srv') : Doing(i, k)' => k \in 1..Len(srv) /\ Doing(i, k) /\ k = h
      BY <1>1, <1>5, <2>0, <3>1, <3>2, <3>3 DEF OnOurs, OnHandle, Uncommitted, CommitAsked, InFlight, Doing, srvVars
    <3>5. ASSUME NEW q \in 1..Len(pend'), InFlight(i, q)', NEW g, g = pend'[q].h PROVE UndoneAfter(q, g)'
      <4>1. q < n /\ g = h
        BY <1>0, <2>0, <3>4, <3>5
      <4>2. \A p \in 1..Len(pend') : CommitAsked(p)' => p < q
        BY <1>5, <3>4, <3>5 DEF OnOurs, Uncommitted
      <4> QED
        BY <3>2, <4>1, <4>2 DEF UndoneAfter
    <3>6. ASSUME NEW k \in 1..Len(srv'), Doing(i, k)' PROVE UndoneAfter(0, k)'
      <4>1. k = h /\ 0 < n
        BY <1>0, <2>0, <3>4, <3>6
      <4>2. \A p \in 1..Len(pend') : ~CommitAsked(p)'
        BY <1>5, <3>4, <3>6 DEF OnOurs, Uncommitted
      <4> QED
        BY <3>2, <4>1, <4>2 DEF UndoneAfter
    <3> QED
      BY <3>4, <3>5, <3>6, UndoneNext DEF NoCommit
  <2> QED
    BY <2>2, <2>3, <2>4
<1> QED
  BY <1>1, <1>4, <1>5 DEF Guarded, NoCommit

\* So every step of the call keeps the promise.
LEMMA DriverGuarded ==
  ASSUME IInv, OnceInv, TxOK, FateOK, Transaction \/ Statement \/ Cursor \/ Ping \/ PingRead \/ Teardown,
         NEW i \in Calls, Guarded(i)
  PROVE  Guarded(i)'
<1>1. CASE Commit \/ CommitRetaining
  BY <1>1, CommitGuarded
<1>2. CASE Execute \/ ImmediateSend
  BY <1>2, ExecuteGuarded
<1>3. CASE Rollback
  BY <1>3, RollbackGuarded
<1>4. CASE ~(Commit \/ CommitRetaining \/ Execute \/ ImmediateSend \/ Rollback)
  <2>1. Adds
    BY <1>4, TransactionAdds, StatementAdds, CursorAdds, OthersAdd
  <2>2. pc # "rollback"
    BY <1>4 DEF Transaction, Begin, BeginRead, BeginTx, BeginTxDone, CommitRetainingRead, CommitRead,
     RollbackRead, Statement, Prepare, PrepareBegun, Allocate, PrepareStatement, PrepareRead, ScrollRefused, Run, RunBegun,
        Bind, BindRead, Upload, UploadRead, UploadClosed, SliceStored, ExecuteRead, DrainRead, InfoRead,
        ExecCommitted, ExecDone, Immediate, ImmediateBegun, ImmediateRead, ImmediateDone,
        Free, FreeRead, Freed, Cursor, RowsClose, RowsExpired, RowsNext, Fetch, FetchRead, Row, BlobRead, SegmentRead, ColumnRead, ColumnFails,
         ScrollFetch, ScrollClose, Ping, PingRead, Teardown, Close, CloseRead, DetachRead, At
  <2> QED
    BY <2>1, <2>2, AddsGuarded
<1> QED
  BY <1>1, <1>2, <1>3, <1>4

\* So do a response, the server and the environment ...
LEMMA AroundGuarded ==
  ASSUME IInv, SrvOK, "rollback" \notin Fallible, Receive \/ Environment \/ Stopped \/ UNCHANGED vars, NEW i \in Calls, Guarded(i)
  PROVE  Guarded(i)'
<1>0. UNCHANGED <<pc, fate, txVars>>
  BY StaysAround DEF txVars
<1>1. CASE SocketDeath
  <2>1. /\ Keeps(i) /\ (\A h : OnHandle(i, h) => OnHandle(i, h)') /\ (Undone(i) => Uncommitted(i)') /\ Broken'
    BY <1>1, DeathKeeps, DeathFollows
  <2>2. ASSUME Running(i)' PROVE OnOurs(i)'
    BY <1>0, <2>1, <2>2, OursKept DEF Guarded, OnOurs, Keeps, Running
  <2>3. ASSUME fate'[i] = "denied" PROVE NoCommit(i)'
    BY <1>0, <2>1, <2>3 DEF Guarded, NoCommit, OnOurs, Keeps
  <2> QED
    BY <2>2, <2>3 DEF Guarded
<1>2. CASE ~SocketDeath
  <2>1. Keeps(i) /\ Follows(i) /\ (Broken => Broken')
    <3>1. CASE Receive
      <4>1. sock' = sock /\ writer' = writer
        BY <3>1, ReceivesMore
      <4> QED
        BY <3>1, <4>1, ReceiveKeeps, ReceiveFollows DEF Broken
    <3>2. CASE Server
      BY <3>2, ServerKeeps, ServerFollows DEF Server, Answer, Broken
    <3>3. CASE CtxDone \/ Watcher \/ PingWatcher \/ Stopped \/ UNCHANGED vars
      <4>1. UNCHANGED <<pend, srvVars, sock>> /\ (writer' = writer \/ writer' = "sticky")
        BY <3>3 DEF CtxDone, Watcher, WatcherCancel, CancelWritten, PingWatcher, SetDeadline, Stopped, vars, wireVars, dataVars
      <4> QED
        BY <4>1, KeepsSame, FollowsSame DEF Broken
    <3> QED
      BY <1>2, <3>1, <3>2, <3>3 DEF Environment
  <2> QED
    BY <1>0, <2>1, SteadyGuarded DEF Running
<1> QED
  BY <1>1, <1>2

\* ... and the application.
LEMMA ApplicationGuarded ==
  ASSUME IInv, OnceInv, TxOK, FateOK, CallStart \/ Retry \/ TxEnd \/ Reconnect, NEW i \in Calls, Guarded(i)
  PROVE  Guarded(i)'
<1>0. pc = "idle"
  BY ApplicationMoves
<1>1. CASE CallStart \/ Retry
  <2>1. UNCHANGED <<pend, sock, writer, srvVars, txVars>>
    BY <1>1 DEF CallStart, Retry, wireVars
  <2>2. Keeps(i) /\ Follows(i) /\ (Broken => Broken')
    BY <2>1, KeepsSame, FollowsSame DEF Broken
  <2>3. CASE fate'[i] = fate[i]
    BY <1>0, <2>1, <2>2, <2>3, SteadyGuarded DEF Running
  <2>4. CASE fate'[i] # fate[i]
    <3>1. CallStart /\ i = calls + 1 /\ fate'[i] # "denied"
      BY <1>1, <2>4, CallStartFate DEF Retry
    <3>2. Untouched(i)
      BY <3>1, WorkIs DEF OnceInv, FreshOK, Calls
    <3>3. Uncommitted(i) /\ OnOurs(i)
      BY <3>2, UntouchedUndone DEF OnOurs
    <3>4. OnOurs(i)'
      BY <2>1, <2>2, <3>3, OursKept DEF Keeps, Follows
    <3> QED
      BY <3>1, <3>4 DEF Guarded
  <2> QED
    BY <2>3, <2>4
<1>2. CASE TxEnd
  <2>1. /\ UNCHANGED <<pend, sock, writer, srvVars, txVars>> /\ pc' \in {"commit", "rollback"}
        /\ fate' = [k \in Calls |-> IF fate[k] \notin {"txrun", "txdone"} THEN fate[k]
                                    ELSE IF pc' = "rollback" THEN "denied"
                                    ELSE IF fate[k] = "txdone" THEN "committing" ELSE "unsure"]
    BY <1>2 DEF TxEnd, wireVars, Goto
  <2>2. Keeps(i) /\ Follows(i) /\ (Broken => Broken')
    BY <2>1, KeepsSame, FollowsSame DEF Broken
  <2>3. ~Running(i)'
    BY <2>1 DEF Running
  <2>4. ASSUME fate'[i] = "denied" PROVE NoCommit(i)'
    <3>1. CASE fate[i] = "denied"
      BY <1>0, <2>2, <3>1 DEF Guarded, NoCommit, Keeps, Follows
    <3>2. CASE fate[i] # "denied"
      <4>1. Running(i) /\ pc' = "rollback"
        BY <2>1, <2>4, <3>2 DEF Running
      <4>2. OnOurs(i)'
        BY <2>1, <2>2, <4>1, OursKept DEF Guarded, OnOurs, Keeps, Follows
      <4> QED
        BY <4>1, <4>2 DEF NoCommit
    <3> QED
      BY <3>1, <3>2
  <2> QED
    BY <2>3, <2>4 DEF Guarded
<1>3. CASE Reconnect
  <2>1. pend' = <<>> /\ srv' = <<>> /\ UNCHANGED <<applied, fate>> /\ holder = "gone"
    BY <1>3 DEF Reconnect, WireReset
  <2>2. Len(pend') = 0 /\ Len(srv') = 0
    BY <2>1
  <2>3. ~Running(i)'
    BY <2>1 DEF FateOK, Running, InTx
  <2>4. ASSUME fate'[i] = "denied" PROVE NoCommit(i)'
    <3>1. applied'[i] = 0
      BY <2>1, <2>4 DEF Guarded, NoCommit, Undone, OnOurs, Uncommitted
    <3>2. Undone(i)'
      BY <2>2, <3>1 DEF Undone
    <3> QED
      BY <3>2 DEF NoCommit
  <2> QED
    BY <2>3, <2>4 DEF Guarded
<1> QED
  BY <1>1, <1>2, <1>3

\* Only the server ends its transactions, and a new connection forgets them.
LEMMA StepSrv ==
  ASSUME IInv, SrvOK, "rollback" \notin Fallible, [Next]_vars
  PROVE  SrvOK'
<1>1. ASSUME UNCHANGED srvVars PROVE SrvOK'
  BY <1>1 DEF SrvOK, srvVars
<1>2. CASE Transaction
  <2>1. CASE Commit \/ CommitRetaining
    BY <1>1, <2>1 DEF Commit, CommitRetaining, dataVars
  <2>2. CASE ~Commit /\ ~CommitRetaining
    BY <1>1, <1>2, <2>2, TransactionAdds DEF Adds
  <2> QED
    BY <2>1, <2>2
<1>3. CASE Statement
  <2>1. CASE Execute \/ ImmediateSend
    BY <1>1, <2>1 DEF Execute, ImmediateSend, dataVars
  <2>2. CASE ~Execute /\ ~ImmediateSend
    BY <1>1, <1>3, <2>2, StatementAdds DEF Adds
  <2> QED
    BY <2>1, <2>2
<1>4. CASE Cursor \/ Ping \/ PingRead \/ Teardown
  BY <1>1, <1>4, CursorAdds, OthersAdd DEF Adds
<1>5. CASE Receive
  BY <1>1, <1>5, ReceivesMore DEF dataVars
<1>6. CASE Server
  <2>1. CASE \E i \in Calls : TRUE
    BY <1>6, <2>1, ServerFollows
  <2>2. CASE Calls = {}
    <3>1. srv' \in Seq(ServerTx)
      BY NextInv DEF IInv, SrvType
    <3>2. \A h \in 1..Len(srv') : srv'[h].work = {}
      <4>1. \A r \in ServerTx : r.work \subseteq Calls
        BY DEF ServerTx
      <4>2. \A h \in 1..Len(srv') : srv'[h] \in ServerTx
        BY <3>1
      <4> QED
        BY <2>2, <4>1, <4>2
    <3> QED
      BY <3>2 DEF SrvOK
  <2> QED
    BY <2>1, <2>2
<1>7. CASE CtxDone \/ Watcher \/ PingWatcher \/ SocketDeath
  BY <1>1, <1>7 DEF CtxDone, Watcher, PingWatcher, SocketDeath, dataVars
<1>8. CASE CallStart \/ Retry \/ TxEnd \/ Stopped \/ UNCHANGED vars
  BY <1>1, <1>8 DEF CallStart, Retry, TxEnd, Stopped, vars, dataVars
<1>9. CASE Reconnect
  <2>1. srv' = <<>> /\ Len(<<>>) = 0
    BY <1>9 DEF Reconnect
  <2> QED
    BY <2>1 DEF SrvOK
<1> QED
  BY <1>2, <1>3, <1>4, <1>5, <1>6, <1>7, <1>8, <1>9 DEF Next, Driver, Application, Environment

\* ... and every step keeps the promise.
LEMMA StepGuarded ==
  ASSUME IInv, OnceInv, SrvOK, TxOK, FateOK, "rollback" \notin Fallible, \A i \in Calls : Guarded(i), [Next]_vars
  PROVE  \A i \in Calls : Guarded(i)'
<1> TAKE i \in Calls
<1>1. CASE Transaction \/ Statement \/ Cursor \/ Ping \/ PingRead \/ Teardown
  BY <1>1, DriverGuarded
<1>2. CASE Receive \/ Environment \/ Stopped \/ UNCHANGED vars
  BY <1>2, AroundGuarded
<1>3. CASE CallStart \/ Retry \/ TxEnd \/ Reconnect
  BY <1>3, ApplicationGuarded
<1> QED
  BY <1>1, <1>2, <1>3 DEF Next, Driver, Application

\* Nothing has been asked for at first.
LEMMA InitGuarded ==
  ASSUME Init
  PROVE  SrvOK /\ TxOK /\ BeginOK /\ FateOK /\ \A i \in Calls : Guarded(i)
<1>1. srv = <<>> /\ Len(<<>>) = 0 /\ holder = "pool" /\ pc = "idle" /\ stack = <<>> /\ calls = 0 /\ job = NoJob /\ again = NoJob
  BY DEF Init
<1>2. \A i \in Calls : fate[i] = "none"
  BY DEF Init
<1>3. SrvOK /\ TxOK
  BY <1>1 DEF SrvOK, TxOK, InTx
<1>4. BeginOK
  BY <1>1, Stacked DEF BeginOK
<1>5. NoJob.shape = "select" /\ NoJob.id = 0
  BY DEF NoJob
<1>6. FateOK
  BY <1>1, <1>2, <1>5 DEF FateOK, Running, Work
<1>7. \A i \in Calls : Guarded(i)
  BY <1>2 DEF Guarded, Running
<1> QED
  BY <1>3, <1>4, <1>6, <1>7

\* transaction.go Commit and Rollback: the work of a call inside an explicit transaction
\* is not committed before Tx.Commit, and never once Tx.Rollback was called, on a server
\* that does not refuse to roll back.  (If it refuses, Rollback all the same leaves the
\* object as ended: autocommit, to begin again, with the handle of a transaction the server
\* still has open; closing a prepared statement then commits that transaction,
\* retaining.)
THEOREM OnlyByCommitAlways ==
  ASSUME "rollback" \notin Fallible
  PROVE  Spec => []OnlyByCommit
<1> DEFINE I == /\ IInv /\ Owed /\ ResOK /\ OnceInv
                /\ SrvOK /\ TxOK /\ BeginOK /\ FateOK /\ \A i \in Calls : Guarded(i)
<1>1. Init => I
  BY InitInv, InitOwed, InitOnce, InitGuarded
<1>2. I /\ [Next]_vars => I'
  <2> SUFFICES ASSUME I, [Next]_vars PROVE I'
    OBVIOUS
  <2>1. IInv' /\ Owed' /\ ResOK' /\ OnceInv'
    BY NextInv, StepOwed, StepRes, StepOnce
  <2>2. SrvOK' /\ TxOK' /\ FateOK'
    BY StepSrv, StepTx, StepFate
  <2>3. BeginOK'
    BY <2>1, StepBegin
  <2>4. \A i \in Calls : Guarded(i)'
    BY StepGuarded
  <2> QED
    BY <2>1, <2>2, <2>3, <2>4
<1>3. I => OnlyByCommit
  BY DEF OnlyByCommit, Guarded, Running, OnOurs, NoCommit, Undone, Uncommitted
<1> QED
  BY <1>1, <1>2, <1>3, PTL DEF Spec

-----------------------------------------------------------------------------
(***************************************************************************)
(* The work of a call that succeeds.  On a connection that is kept the     *)
(* server agrees with the driver about it: while its execution is awaited  *)
(* the request carries the transaction of the connection; once it is       *)
(* answered the work is on that transaction; once the commit is answered   *)
(* it is committed.  First what is awaited where, then the paths of a call *)
(* that has work, then each step.                                          *)
(***************************************************************************)

\* Requests that end a transaction, or commit it.
Enders == Commits \cup {"rollback", "detach"}

\* Where their responses are awaited.
EndReads == {"commitRetaining.read", "commit.read", "rollback.read", "close.read", "detach.read"}

\* None of them is awaited.
Mild(s) == \A k \in 1..Len(s) : s[k] \notin Enders

\* What is awaited where.
AwaitOK ==
  /\ pc \notin EndReads => Mild(expect)
  /\ pc = "immediate.read" => expect \in {<<>>, <<"execute_immediate">>}
  /\ pc = "commitRetaining.read" => expect \in {<<>>, <<"commit_retaining">>}
  /\ pc = "commit.read" => expect \in {<<>>, <<"commit">>}

\* Short sequences of harmless requests.
LEMMA MildOnes ==
  /\ Mild(<<>>)
  /\ \A op \in Ops \ Enders : Mild(<<op>>)
  /\ \A a, b \in Ops \ Enders : Mild(<<a, b>>)
<1>1. Mild(<<>>)
  <2>1. Len(<<>>) = 0
    OBVIOUS
  <2> QED
    BY <2>1 DEF Mild
<1>2. ASSUME NEW op \in Ops \ Enders PROVE Mild(<<op>>)
  BY Tails DEF Mild
<1>3. ASSUME NEW a \in Ops \ Enders, NEW b \in Ops \ Enders PROVE Mild(<<a, b>>)
  <2>1. Len(<<a, b>>) = 2 /\ <<a, b>>[1] = a /\ <<a, b>>[2] = b
    BY Tails
  <2>2. \A k \in 1..2 : k = 1 \/ k = 2
    OBVIOUS
  <2> QED
    BY <2>1, <2>2 DEF Mild
<1> QED
  BY <1>1, <1>2, <1>3

\* The ways of writing a request that is none of them.
LEMMA WritesMild ==
  ASSUME NEW op \in Ops \ Enders
  PROVE  /\ \A h, w, d : Ask(op, h, w, d) => Mild(expect')
         /\ \A h : AskBlindly(op, h) => Mild(expect')
         /\ \A b : AskLazily(op, b) => Mild(expect')
         /\ \A e \in Ops \ Enders : \A h : AskReclaiming(e, op, h) => Mild(expect')
         /\ CancelAndDrain(op) => Mild(expect')
<1>0. ASSUME NEW rs, NEW awaited, NEW c, NEW d, NEW k, Write(rs, awaited, c, d, k), Mild(awaited)
      PROVE  Mild(expect')
  <2>1. expect' = <<>> \/ expect' = awaited
    BY <1>0, WriteMoves
  <2> QED
    BY <1>0, <2>1, MildOnes
<1>1. ASSUME NEW h, NEW w, NEW d, Ask(op, h, w, d) PROVE Mild(expect')
  BY <1>0, <1>1, MildOnes DEF Ask
<1>2. ASSUME NEW h, AskBlindly(op, h) PROVE Mild(expect')
  BY <1>0, <1>2, MildOnes DEF AskBlindly
<1>3. ASSUME NEW b, AskLazily(op, b) PROVE Mild(expect')
  BY <1>0, <1>3, MildOnes DEF AskLazily
<1>4. ASSUME NEW e \in Ops \ Enders, NEW h, AskReclaiming(e, op, h) PROVE Mild(expect')
  BY <1>0, <1>4, MildOnes DEF AskReclaiming
<1>5. CancelAndDrain(op) => Mild(expect')
  BY MildOnes DEF CancelAndDrain
<1> QED
  BY <1>1, <1>2, <1>3, <1>4, <1>5

\* The requests that are none of them.
LEMMA MildOps ==
  {"transaction", "allocate", "prepare", "bindinfo", "execute", "sql", "execute_immediate", "info", "fetch", "slice", "open_blob",
   "get_segment", "close_blob", "create_blob", "put_segment", "put_slice", "free", "ping"} \subseteq Ops \ Enders
  BY DEF Ops, Enders, Commits

\* Steps that write no request.
LEMMA SilentMild ==
  ASSUME expect = <<>>, \/ UNCHANGED wireVars \/ (\E d : SetDeadline(d)) \/ Disarm \/ ReadTimeoutCleared \/ WatcherCancel
  PROVE  Mild(expect') /\ expect' = <<>>
<1>1. expect' = <<>>
  BY DEF wireVars, SetDeadline, Disarm, ReadTimeoutCleared, WatcherCancel
<1> QED
  BY <1>1, MildOnes

\* What transaction.go waits for, ...
LEMMA TransactionAwait ==
  ASSUME IInv, AwaitOK, Transaction
  PROVE  AwaitOK'
<1>0. expect = <<>>
  BY TransactionWire
<1>1. CASE Begin
  <2>1. Mild(expect') /\ pc' = "tx.begun"
    BY <1>1, WritesMild, MildOps DEF Begin, Goto
  <2> QED
    BY <2>1 DEF AwaitOK
<1>2. CASE CommitRetaining
  <2>1. expect' \in {<<>>, <<"commit_retaining">>} /\ pc' = "commitRetaining.read"
    BY <1>0, <1>2, WriteMoves DEF CommitRetaining, Goto, Ask
  <2> QED
    BY <2>1 DEF AwaitOK, EndReads
<1>3. CASE Commit
  <2>1. expect' \in {<<>>, <<"commit">>} /\ pc' = "commit.read"
    BY <1>0, <1>3, WriteMoves DEF Commit, Goto, Ask
  <2> QED
    BY <2>1 DEF AwaitOK, EndReads
<1>4. CASE Rollback
  <2>1. pc' = "rollback.read"
    BY <1>4 DEF Rollback, Goto
  <2> QED
    BY <2>1 DEF AwaitOK, EndReads
<1>5. CASE BeginRead \/ CommitRetainingRead \/ BeginTx \/ BeginTxDone \/ CommitRead \/ RollbackRead
  <2>1. UNCHANGED wireVars \/ ReadTimeoutCleared
    BY <1>5 DEF BeginRead, CommitRetainingRead, BeginTx, BeginTxDone, CommitRead, RollbackRead
  <2>2. Mild(expect') /\ expect' = <<>>
    BY <1>0, <2>1, SilentMild
  <2> QED
    BY <2>2 DEF AwaitOK
<1> QED
  BY <1>1, <1>2, <1>3, <1>4, <1>5 DEF Transaction

\* ... statement.go and execute_immediate.go, ...
LEMMA StatementAwait ==
  ASSUME IInv, Statement
  PROVE  Mild(expect') /\ pc' \notin EndReads /\ (pc' = "immediate.read" => ImmediateSend)
<1>0. expect = <<>>
  BY StatementWire
<1> DEFINE Fine == pc' \notin EndReads /\ pc' # "immediate.read"
<1>1. ASSUME NEW e, Finish(e) PROVE Fine
  BY <1>1, FinishMoves, EndMoves DEF EndReads
<1>2. ASSUME NEW e, Leave(e) PROVE Fine
  BY <1>1, <1>2, LeaveMoves DEF EndReads
<1>3. CASE Prepare \/ PrepareBegun \/ PrepareRead \/ ScrollRefused \/ Run \/ RunBegun \/ BindRead \/ UploadClosed
           \/ SliceStored \/ ExecDone \/ Immediate \/ ImmediateBegun \/ Freed
  <2>1. UNCHANGED wireVars
    BY <1>3 DEF Prepare, PrepareBegun, PrepareRead, ScrollRefused, Run, RunBegun, BindRead, UploadClosed, SliceStored,
                ExecDone, Immediate, ImmediateBegun, Freed
  <2>2. Fine
    BY <1>1, <1>2, <1>3 DEF Prepare, PrepareBegun, PrepareRead, ScrollRefused, Run, RunBegun, BindRead, UploadClosed, SliceStored,
                ExecDone, Immediate, ImmediateBegun, Freed, Panic, Continue, Goto, Call, Enter, EndReads
  <2> QED
    BY <1>0, <2>1, <2>2, SilentMild
<1>4. CASE DrainRead \/ ExecCommitted \/ ImmediateRead \/ ImmediateDone \/ FreeRead
  <2>1. UNCHANGED wireVars \/ SetDeadline("none") \/ Disarm \/ ReadTimeoutCleared
    BY <1>4 DEF DrainRead, ExecCommitted, ImmediateRead, ImmediateDone, FreeRead
  <2>2. CASE FreeRead
    <3>1. Fine
      BY <2>2, FreedMoves DEF EndReads
    <3> QED
      BY <1>0, <2>1, <3>1, SilentMild
  <2>3. CASE ~FreeRead
    <3>1. Fine
      BY <1>1, <1>2, <1>4, <2>3 DEF DrainRead, ExecCommitted, ImmediateRead, ImmediateDone, Panic, Continue, Goto, Call, Enter,
         EndReads
    <3> QED
      BY <1>0, <2>1, <3>1, SilentMild
  <2> QED
    BY <2>2, <2>3
<1>5. CASE Allocate \/ PrepareStatement
  <2>1. \/ UNCHANGED wireVars \/ AskLazily("allocate", TRUE) \/ (\E h : AskReclaiming("allocate", "prepare", h))
        \/ \E op \in {"allocate", "prepare"} : \E h : Ask(op, h, 0, armed)
    BY <1>5 DEF Allocate, PrepareStatement
  <2>2. Fine
    BY <1>1, <1>5 DEF Allocate, PrepareStatement, Continue, Goto, EndReads
  <2> QED
    BY <1>0, <2>1, <2>2, SilentMild, WritesMild, MildOps
<1>6. CASE Bind \/ Upload \/ UploadRead
  <2>1. \/ UNCHANGED wireVars \/ (\E h : AskBlindly("create_blob", h))
        \/ \E op \in {"bindinfo", "put_slice", "put_segment", "close_blob"} : \E h : Ask(op, h, 0, armed)
    BY <1>6 DEF Bind, Upload, UploadRead
  <2>2. Fine
    BY <1>6 DEF Bind, Upload, UploadRead, Goto, EndReads
  <2> QED
    BY <1>0, <2>1, <2>2, SilentMild, WritesMild, MildOps
<1>7. CASE Execute
  <2>1. PICK run, d :
          IF job.kind \in {"query", "stmtQuery"} /\ job.shape = "proc"
          THEN Write(<<Asked("sql", 0, 0), run>>, <<"sql", "execute">>, 0, d, TRUE)
          ELSE Write(<<run>>, <<"execute">>, 0, d, TRUE)
    BY <1>7 DEF Execute
  <2>2. expect' = <<>> \/ expect' = <<"sql", "execute">> \/ expect' = <<"execute">>
    BY <1>0, <2>1, WriteMoves
  <2>3. Fine
    BY <1>7 DEF Execute, Goto, EndReads
  <2> QED
    BY <2>2, <2>3, MildOnes, MildOps
<1>8. CASE ExecuteRead \/ InfoRead
  <2>1. ASSUME NEW op \in {"execute", "info"}, Abandon(op) PROVE (Disarm \/ CancelAndDrain(op)) /\ Fine
    BY <1>2, <2>1, Abandons DEF Continue, Goto, EndReads
  <2>2. \/ UNCHANGED wireVars \/ Disarm \/ (\E op \in {"execute", "info"} : CancelAndDrain(op)) \/ Ask("info", 0, 0, armed)
    BY <1>8, <2>1 DEF ExecuteRead, InfoRead
  <2>3. Fine
    BY <1>2, <1>8, <2>1 DEF ExecuteRead, InfoRead, Continue, Goto, Call, Enter, EndReads
  <2> QED
    BY <1>0, <2>2, <2>3, SilentMild, WritesMild, MildOps
<1>9. CASE ImmediateSend
  <2>1. PICK h, w, d : Ask("execute_immediate", h, w, d)
    BY <1>9 DEF ImmediateSend
  <2>2. pc' = "immediate.read"
    BY <1>9 DEF ImmediateSend, Goto
  <2> QED
    BY <1>9, <2>1, <2>2, WritesMild, MildOps DEF EndReads
<1>10. CASE Free
  <2>1. AskLazily("free", TRUE) \/ Ask("free", 0, 0, "fixed")
    BY <1>10 DEF Free
  <2>2. Fine
    BY <1>10 DEF Free, Goto, EndReads
  <2> QED
    BY <2>1, <2>2, WritesMild, MildOps
<1> QED
  BY <1>3, <1>4, <1>5, <1>6, <1>7, <1>8, <1>9, <1>10 DEF Statement

\* ... rows.go and Ping.
LEMMA CursorAwait ==
  ASSUME IInv, Cursor \/ Ping \/ PingRead
  PROVE  Mild(expect') /\ pc' \notin EndReads /\ pc' # "immediate.read"
<1>0. expect = <<>>
  BY CursorWire, OthersWire
<1>1. pc' \notin EndReads /\ pc' # "immediate.read"
  <2>1. ASSUME NEW e, Finish(e) PROVE pc' \notin EndReads /\ pc' # "immediate.read"
    BY <2>1, FinishMoves, EndMoves DEF EndReads
  <2> QED
    BY <2>1 DEF Cursor, RowsClose, RowsExpired, RowsNext, Fetch, FetchRead, Row, BlobRead, SegmentRead, ColumnRead, ColumnFails,
         ScrollFetch, ScrollClose, RowsFail, NextColumn, Ping, PingRead, Continue, Goto, EndReads
<1>2. CASE RowsClose \/ RowsNext \/ FetchRead \/ ColumnRead \/ ScrollFetch \/ ScrollClose \/ RowsExpired \/ PingRead
  <2>1. UNCHANGED wireVars \/ SetDeadline(CtxDeadline) \/ Disarm \/ WatcherCancel
    BY <1>2 DEF RowsClose, RowsNext, FetchRead, ColumnRead, ColumnFails, NextReturns, ScrollFetch, ScrollClose, RowsExpired, PingRead
  <2> QED
    BY <1>0, <1>1, <2>1, SilentMild
<1>3. CASE Fetch \/ Row \/ BlobRead \/ SegmentRead \/ Ping
  <2>1. \/ UNCHANGED wireVars \/ Disarm \/ (\E op \in {"fetch", "slice", "ping"} : \E h, d : Ask(op, h, 0, d))
        \/ (\E op \in {"open_blob", "get_segment", "close_blob"} : \E h : AskBlindly(op, h))
        \/ AskLazily("close_blob", FALSE)
    BY <1>3 DEF Fetch, Row, BlobRead, SegmentRead, ColumnFails, NextReturns, Ping
  <2> QED
    BY <1>0, <1>1, <2>1, SilentMild, WritesMild, MildOps
<1> QED
  BY <1>2, <1>3 DEF Cursor

\* The tail of a sequence of harmless requests.
LEMMA TailMild ==
  ASSUME expect \in Seq(Ops), expect # <<>>, Mild(expect)
  PROVE  Mild(Tail(expect))
<1>1. Len(Tail(expect)) = Len(expect) - 1 /\ \A k \in 1..Len(Tail(expect)) : Tail(expect)[k] = expect[k + 1]
  OBVIOUS
<1>2. Len(expect) \in Nat
  OBVIOUS
<1>3. ASSUME NEW k \in 1..Len(Tail(expect)) PROVE Tail(expect)[k] \notin Enders
  <2>1. k + 1 \in 1..Len(expect)
    BY <1>1, <1>2
  <2> QED
    BY <1>1, <2>1 DEF Mild
<1> QED
  BY <1>3 DEF Mild

\* Every step keeps AwaitOK.
LEMMA StepAwait ==
  ASSUME IInv, Owed, AwaitOK, [Next]_vars
  PROVE  AwaitOK'
<1>1. CASE Transaction
  BY <1>1, TransactionAwait
<1>2. CASE Statement
  <2>1. CASE ImmediateSend
    <3>1. PICK h, w, d : Ask("execute_immediate", h, w, d)
      BY <2>1 DEF ImmediateSend
    <3>2. expect' \in {<<>>, <<"execute_immediate">>}
      BY <3>1, WriteMoves DEF Ask
    <3>3. pc' = "immediate.read"
      BY <2>1 DEF ImmediateSend, Goto
    <3> QED
      BY <1>2, <3>2, <3>3, StatementAwait DEF AwaitOK, EndReads
  <2>2. CASE ~ImmediateSend
    BY <1>2, <2>2, StatementAwait DEF AwaitOK, EndReads
  <2> QED
    BY <2>1, <2>2
<1>3. CASE Cursor \/ Ping \/ PingRead
  BY <1>3, CursorAwait DEF AwaitOK, EndReads
<1>4. CASE Teardown
  <2>1. CASE Close
    BY <2>1 DEF Close, Goto, AwaitOK, EndReads
  <2>2. CASE CloseRead \/ DetachRead
    <3>1. expect = <<>> /\ pc' \in {"close", "idle"} /\ (UNCHANGED wireVars \/ ReadTimeoutCleared)
      BY <2>2 DEF CloseRead, DetachRead, At, Goto
    <3>2. Mild(expect')
      BY <3>1, SilentMild
    <3> QED
      BY <3>1, <3>2 DEF AwaitOK
  <2> QED
    BY <1>4, <2>1, <2>2 DEF Teardown
<1>5. CASE Receive
  <2>1. pc' = pc /\ expect # <<>> /\ expect' \in {expect, Tail(expect), <<>>} /\ expect \in Seq(Ops)
    BY <1>5, ReceivesMore, WireParts DEF ctlVars
  <2>2. Mild(expect) => Mild(expect')
    BY <2>1, TailMild, MildOnes
  <2>3. \A op : expect \in {<<>>, <<op>>} => expect' \in {<<>>, <<op>>}
    BY <2>1, Tails
  <2> QED
    BY <2>1, <2>2, <2>3 DEF AwaitOK
<1>6. CASE Environment \/ Stopped \/ UNCHANGED vars
  <2>1. pc' = pc /\ expect' = expect
    BY <1>6 DEF Environment, Server, Answer, CtxDone, Watcher, WatcherCancel, PingWatcher, SetDeadline, SocketDeath, SocketDies,
       Stopped, vars, ctlVars, wireVars
  <2> QED
    BY <2>1 DEF AwaitOK
<1>7. CASE CallStart \/ Retry \/ TxEnd \/ Reconnect
  <2>1. pc = "idle" /\ (expect' = expect \/ expect' = <<>>)
    BY <1>7 DEF CallStart, Retry, TxEnd, Reconnect, WireReset, wireVars
  <2>2. expect' = <<>>
    BY <2>1 DEF Owed, ExpectOK, ReadPlaces
  <2> QED
    BY <2>2, MildOnes DEF AwaitOK
<1> QED
  BY <1>1, <1>2, <1>3, <1>4, <1>5, <1>6, <1>7 DEF Next, Driver, Application

\* Queries have no work of their own to report: no EXECUTE PROCEDURE is run by one.
PlainQueries == "proc" \notin Shapes \/ Kinds \cap {"query", "stmtQuery", "scroll"} = {}

\* The calls whose work is reported, and places they do not reach.
Workers  == {"exec", "stmtExec", "immediate"}
Workless == {"rows", "fetch", "fetch.read", "row", "blob.read", "segment.read", "blob.closed", "slice.read", "freed",
             "ping", "ping.read"}

\* A call that has work goes only where the code takes it.
WorkPath == /\ job.kind \in Workers /\ pc \notin Workless
            /\ pc \in {"free", "free.read"} => stack # <<>>
            /\ stack # <<"freed">>
WorkOK == /\ Work # 0 => WorkPath
          /\ again.id # 0 /\ again.shape # "select" => again.kind \in Workers

\* The connection is in autocommit outside an explicit transaction.
AutoOK == holder \in {"pool", "call"} /\ cur # 0 => txs[cur].auto

\* What is being committed is committed by Tx.Commit.
CommitPlaces == \A i \in Calls : fate[i] = "committing" => pc \in {"commit", "commit.read"}

\* A call that has work and runs one of the driver's steps goes on or ends.
LEMMA StatementWork ==
  ASSUME IInv, Work # 0, WorkPath, Statement
  PROVE  (job' = job /\ WorkPath') \/ \E e : Finish(e)
<1> DEFINE Fine == (job' = job /\ WorkPath') \/ \E e : Finish(e)
<1>1. ASSUME NEW e, Leave(e) PROVE Fine
  <2>1. CASE pc' = "free" /\ stack' = <<"exec.done">> /\ UNCHANGED <<job, expired, holder, again, rows>>
    BY <2>1, StackApart DEF WorkPath, Workless
  <2>2. ~(job.kind \in {"query", "stmtQuery", "scroll"})
    BY DEF WorkPath, Workers
  <2> QED
    BY <1>1, <2>1, <2>2, LeaveMoves
<1>2. ASSUME UNCHANGED job, pc' \notin Workless, stack' = stack, pc' \notin {"free", "free.read"} PROVE Fine
  BY <1>2 DEF WorkPath
<1>3. ASSUME NEW r, r # "freed", UNCHANGED job, pc' \in {"tx.begin", "commitRetaining"}, stack' = <<r>> PROVE Fine
  BY <1>3, Stacked DEF WorkPath, Workless
<1>4. CASE Prepare \/ PrepareBegun \/ Run \/ RunBegun \/ Immediate \/ ImmediateBegun
  <2>1. pc \in Plain
    BY <1>4 DEF Prepare, PrepareBegun, Run, RunBegun, Immediate, ImmediateBegun, At, Plain, Places
  <2>2. stack = <<>>
    BY <2>1, Stacks
  <2>3. ASSUME NEW r \in {"prepare.begun", "run.begun", "immediate.begun"}, Call("tx.begin", r) PROVE Fine
    BY <1>3, <2>2, <2>3, Entered DEF Call, callVars
  <2> QED
    BY <1>2, <1>4, <2>3 DEF Prepare, PrepareBegun, Run, RunBegun, Immediate, ImmediateBegun, Panic, Continue, Goto, callVars, Workless
<1>5. CASE Allocate \/ PrepareStatement \/ PrepareRead \/ ScrollRefused \/ Bind \/ BindRead \/ Upload \/ UploadRead
           \/ UploadClosed \/ SliceStored \/ Execute \/ ImmediateSend
  BY <1>1, <1>2, <1>5 DEF Allocate, PrepareStatement, PrepareRead, ScrollRefused, Bind, BindRead, Upload, UploadRead,
     UploadClosed, SliceStored, Execute, ImmediateSend, Continue, Goto, dataVars, callVars, Workless
<1>6. CASE ExecuteRead \/ DrainRead \/ ExecCommitted \/ ExecDone \/ ImmediateDone
  <2>1. ASSUME NEW op, Abandon(op) PROVE Fine
    BY <1>1, <1>2, <2>1 DEF Abandon, Continue, Goto, callVars, Workless
  <2> QED
    BY <1>1, <1>2, <1>6, <2>1 DEF ExecuteRead, DrainRead, ExecCommitted, ExecDone, ImmediateDone, Panic, Continue, Goto,
       callVars, Workless
<1>7. CASE InfoRead \/ ImmediateRead
  <2>1. pc \in Plain
    BY <1>7 DEF InfoRead, ImmediateRead, At, Plain, Places
  <2>2. stack = <<>>
    BY <2>1, Stacks
  <2>3. ASSUME NEW r \in {"exec.committed", "immediate.done"}, Call("commitRetaining", r) PROVE Fine
    BY <1>3, <2>2, <2>3, Entered DEF Call, callVars
  <2>4. ASSUME NEW op, Abandon(op) PROVE Fine
    BY <1>1, <1>2, <2>4 DEF Abandon, Continue, Goto, callVars, Workless
  <2> QED
    BY <1>1, <1>7, <2>3, <2>4 DEF InfoRead, ImmediateRead
<1>8. CASE Free
  BY <1>8 DEF Free, At, Goto, dataVars, callVars, WorkPath, Workless
<1>9. CASE FreeRead
  BY <1>9, FreedMoves, StackApart DEF WorkPath, Workless
<1>10. CASE Freed
  BY <1>10 DEF Freed
<1> QED
  BY <1>4, <1>5, <1>6, <1>7, <1>8, <1>9, <1>10 DEF Statement

\* So does any step of the driver, unless it ends an explicit transaction or begins one.
LEMMA DriverWork ==
  ASSUME IInv, Work # 0, WorkPath, Transaction \/ Statement \/ Cursor \/ Ping \/ PingRead \/ Teardown
  PROVE  \/ job' = job /\ WorkPath'
         \/ \E e : Finish(e)
         \/ CommitRead \/ RollbackRead \/ BeginTxDone
<1>1. ~Cursor /\ ~Ping /\ ~PingRead
  BY DEF WorkPath, Workless, Cursor, RowsClose, RowsExpired, RowsNext, Fetch, FetchRead, Row, BlobRead, SegmentRead, ColumnRead, ColumnFails,
         ScrollFetch, ScrollClose, Ping, PingRead, At
<1>2. CASE Teardown
  <2>1. job' = job /\ stack' = stack /\ pc' \in Closing \cup {"idle"}
    BY <1>2 DEF Teardown, Close, CloseRead, DetachRead, Goto, dataVars, callVars, Closing
  <2> QED
    BY <2>1 DEF WorkPath, Workless, Closing
<1>3. CASE Transaction /\ ~CommitRead /\ ~RollbackRead /\ ~BeginTxDone
  <2>1. CASE Begin \/ CommitRetaining \/ Commit \/ Rollback
    BY <2>1 DEF Begin, CommitRetaining, Commit, Rollback, Goto, dataVars, callVars, WorkPath, Workless
  <2>2. CASE BeginTx
    <3>1. stack = <<>>
      BY <2>2, Stacks DEF BeginTx, At, Plain, Places
    <3>2. pc' = "tx.begin" /\ stack' = <<"begin.done">> /\ job' = job
      BY <2>2, <3>1, Entered DEF BeginTx, Call, callVars
    <3> QED
      BY <3>2, StackApart DEF WorkPath, Workless
  <2>3. CASE BeginRead
    BY <2>3, BegunMoves, StackApart DEF WorkPath, Workless, callVars
  <2>4. CASE CommitRetainingRead
    <3>1. /\ stack = <<pc'>> /\ stack' = <<>> /\ job' = job
          /\ pc' \in {"exec.committed", "immediate.done", "exec.done", "freed"}
      BY <2>4, RetainedMoves DEF callVars
    <3>2. pc' # "freed"
      BY <3>1 DEF WorkPath
    <3> QED
      BY <3>1, <3>2, StackApart DEF WorkPath, Workless
  <2> QED
    BY <1>3, <2>1, <2>2, <2>3, <2>4 DEF Transaction
<1> QED
  BY <1>1, <1>2, <1>3, StatementWork

\* A call that ends has no more work; what database/sql repeats is the same call.
LEMMA EndWork ==
  ASSUME IInv, OnceInv, WorkOK, NEW e, NEW next, Ends(e, next)
  PROVE  Work' = 0 /\ WorkOK'
<1>1. job' = NoJob /\ again' \in {job, NoJob}
  BY EndMoves
<1>2. Work' = 0
  BY <1>1, WorkIs DEF Work
<1>3. again'.id # 0 /\ again'.shape # "select" => again'.kind \in Workers
  <2>1. CASE again' = job
    <3>1. job.id # 0 /\ job.shape # "select" => Work # 0
      BY DEF Work
    <3> QED
      BY <2>1, <3>1 DEF WorkOK, WorkPath
  <2>2. CASE again' = NoJob
    BY <2>2, WorkIs
  <2> QED
    BY <1>1, <2>1, <2>2
<1> QED
  BY <1>2, <1>3 DEF WorkOK

\* Every step keeps WorkOK, ...
LEMMA StepWork ==
  ASSUME PlainQueries, IInv, OnceInv, WorkOK, [Next]_vars
  PROVE  WorkOK'
<1>1. CASE Transaction \/ Statement \/ Cursor \/ Ping \/ PingRead \/ Teardown
  <2>1. ASSUME NEW e, NEW next, Ends(e, next) PROVE WorkOK'
    BY <2>1, EndWork
  <2>2. CASE CommitRead \/ RollbackRead \/ BeginTxDone \/ \E e : Finish(e)
    BY <2>1, <2>2 DEF CommitRead, RollbackRead, BeginTxDone, Finish
  <2>3. CASE Goes /\ ~(CommitRead \/ RollbackRead \/ BeginTxDone \/ \E e : Finish(e))
    <3>1. again' = again /\ job'.id = job.id /\ job'.shape = job.shape
      BY <2>3 DEF Goes
    <3>2. Work' = Work
      BY <3>1 DEF Work
    <3>3. Work # 0 => WorkPath'
      BY <1>1, <2>3, DriverWork DEF WorkOK
    <3> QED
      BY <3>1, <3>2, <3>3 DEF WorkOK
  <2> QED
    BY <1>1, <2>2, <2>3, DriverWays
<1>2. CASE Receive \/ Environment \/ Stopped \/ UNCHANGED vars
  <2>1. UNCHANGED <<pc, stack, job, again>>
    BY <1>2, StaysAround
  <2> QED
    BY <2>1 DEF WorkOK, WorkPath, Work
<1>3. CASE CallStart
  <2>1. /\ pc' = StartOf(job'.kind) /\ stack' = stack /\ again' = again /\ pc = "idle"
        /\ job'.kind \in Kinds \ {"commit", "rollback"} /\ job'.kind \in CallKinds
    BY <1>3, CallMoves
  <2>2. job'.shape \in ShapesOf(job'.kind)
    BY <1>3 DEF CallStart
  <2>3. stack = <<>>
    BY <2>1, Stacks DEF Plain, Places
  <2>4. Work' # 0 => job'.kind \in Workers
    <3>1. Work' # 0 => job'.shape # "select"
      BY DEF Work
    <3>2. job'.kind \notin Workers => job'.shape = "select"
      <4>1. CASE job'.kind \in {"query", "stmtQuery", "scroll"}
        <5>1. job'.shape \in Shapes \ {"dml"} /\ "proc" \notin Shapes
          BY <2>1, <2>2, <4>1 DEF ShapesOf, PlainQueries
        <5> QED
          BY <5>1, SessionAssumption
      <4>2. CASE job'.kind \in {"stmtClose", "begin", "ping"}
        BY <2>2, <4>2 DEF ShapesOf
      <4> QED
        BY <2>1, <4>1, <4>2 DEF CallKinds, Workers
    <3> QED
      BY <3>1, <3>2
  <2>5. job'.kind \in Workers => pc' \in {"prepare", "run", "immediate"}
    BY <2>1, Starts DEF Workers
  <2> QED
    BY <2>1, <2>3, <2>4, <2>5, Stacked DEF WorkOK, WorkPath, Workless
<1>4. CASE Retry
  <2>1. /\ pc = "idle" /\ again.kind \in Retried /\ job' = again /\ again' = NoJob /\ pc' = StartOf(again.kind)
        /\ stack' = stack
    BY <1>4, RetryMoves
  <2>2. stack = <<>>
    BY <2>1, Stacks DEF Plain, Places
  <2>3. Work' # 0 => again.id # 0 /\ again.shape # "select"
    BY <2>1 DEF Work
  <2>4. again.kind \in Workers => pc' \in {"prepare", "run"}
    BY <2>1, StartsAgain DEF Workers
  <2> QED
    BY <2>1, <2>2, <2>3, <2>4, Stacked, WorkIs DEF WorkOK, WorkPath, Workless
<1>5. CASE TxEnd
  <2>1. again' = again /\ job'.id = 0
    BY <1>5 DEF TxEnd, NoJob
  <2> QED
    BY <2>1 DEF WorkOK, Work
<1>6. CASE Reconnect
  <2>1. UNCHANGED <<pc, stack, job, again>>
    BY <1>6 DEF Reconnect, ctlVars
  <2> QED
    BY <2>1 DEF WorkOK, WorkPath, Work
<1> QED
  BY <1>1, <1>2, <1>3, <1>4, <1>5, <1>6 DEF Next, Driver, Application

\* What Commit and Rollback leave, unless they could not be sent.
LEMMA EndedAuto ==
  ASSUME IInv, cur # 0, txs' = Ended, UNCHANGED cur, Ends(res, "pool")
  PROVE  AutoOK'
<1>1. CASE res = "unsent"
  BY <1>1, EndMoves DEF AutoOK, IsBad
<1>2. CASE res # "unsent"
  <2>1. txs \in Seq(TxObject) /\ cur \in 1..Len(txs)
    BY DEF IInv, TxType
  <2>2. txs' = [txs EXCEPT ![cur].auto = TRUE, ![cur].needBegin = TRUE]
    BY <1>2 DEF Ended
  <2>3. txs'[cur].auto = TRUE
    BY <2>1, <2>2
  <2> QED
    BY <2>3 DEF AutoOK
<1> QED
  BY <1>1, <1>2

\* ... AutoOK, ...
LEMMA StepAuto ==
  ASSUME IInv, Deadlines, AutoOK, [Next]_vars
  PROVE  AutoOK'
<1>0. txs \in Seq(TxObject) /\ cur \in 0..Len(txs)
  BY DEF IInv, TxType
<1>1. ASSUME UNCHANGED cur, cur # 0 /\ txs[cur].auto => txs'[cur].auto,
             holder' \in {"pool", "call"} => holder \in {"pool", "call"}
      PROVE  AutoOK'
  BY <1>1 DEF AutoOK
<1>2. CASE Statement \/ Cursor \/ Ping \/ PingRead
  <2>1. UNCHANGED txVars
    BY <1>2, StatementEnters, CursorEnters
  <2>2. holder \in {"call", "txcall"}
    BY <1>2, Occupied DEF Deadlines, HolderOK, Closing, IInv, CallType
  <2>3. holder' = holder \/ holder' = "gone" \/ (holder' \in {"pool", "call"} => holder # "txcall")
    <3>1. ASSUME NEW e, Finish(e) PROVE holder' \in {"pool", "call"} => holder # "txcall"
      BY <3>1, FinishMoves, EndMoves
    <3> QED
      BY <1>2, <3>1, StatementGoes, OthersGo DEF Goes
  <2> QED
    BY <1>1, <2>1, <2>2, <2>3 DEF txVars
<1>3. CASE Begin \/ CommitRetaining \/ Commit \/ Rollback
  BY <1>3 DEF Begin, CommitRetaining, Commit, Rollback, dataVars, callVars, txVars, AutoOK
<1>4. CASE BeginRead
  <2>1. UNCHANGED <<holder, cur>>
    BY <1>4 DEF BeginRead, callVars
  <2>2. \/ txs' = txs
        \/ \E t : txs' = [txs EXCEPT ![t].h = reply, ![t].needBegin = FALSE, ![t].begun = TRUE]
    BY <1>4 DEF BeginRead
  <2>3. ASSUME cur # 0, txs[cur].auto PROVE txs'[cur].auto
    <3>1. cur \in 1..Len(txs) /\ txs[cur] \in TxObject
      BY <1>0, <2>3
    <3>2. CASE txs' = txs
      BY <2>3, <3>2
    <3>3. ASSUME NEW t, txs' = [txs EXCEPT ![t].h = reply, ![t].needBegin = FALSE, ![t].begun = TRUE] PROVE txs'[cur].auto
      <4>1. CASE t = cur
        BY <1>0, <2>3, <3>1, <3>3, <4>1 DEF TxObject
      <4>2. CASE t # cur
        BY <1>0, <2>3, <3>1, <3>3, <4>2
      <4> QED
        BY <4>1, <4>2
    <3> QED
      BY <2>2, <3>2, <3>3
  <2> QED
    BY <1>1, <2>1, <2>3
<1>5. CASE CommitRetainingRead
  <2>1. UNCHANGED <<holder, cur>> /\ (txs' = txs \/ txs' = [txs EXCEPT ![cur].auto = TRUE])
    BY <1>5 DEF CommitRetainingRead, callVars
  <2>2. ASSUME cur # 0, txs[cur].auto PROVE txs'[cur].auto
    <3>1. cur \in 1..Len(txs) /\ txs[cur] \in TxObject
      BY <1>0, <2>2
    <3>2. CASE txs' = txs
      BY <2>2, <3>2
    <3>3. CASE txs' = [txs EXCEPT ![cur].auto = TRUE]
      BY <1>0, <3>1, <3>3 DEF TxObject
    <3> QED
      BY <2>1, <3>2, <3>3
  <2> QED
    BY <1>1, <2>1, <2>2
<1>6. CASE CommitRead \/ RollbackRead
  <2>1. cur # 0 /\ txs' = Ended /\ UNCHANGED cur /\ Ends(res, "pool")
    BY <1>6, TxThere DEF CommitRead, RollbackRead, At, Places, NilTxPlaces
  <2> QED
    BY <2>1, EndedAuto
<1>7. CASE BeginTx
  <2>1. UNCHANGED <<holder, cur>> /\ txs' = Append(txs, [auto |-> FALSE, needBegin |-> FALSE, h |-> 0, begun |-> FALSE])
    BY <1>7 DEF BeginTx, Call, callVars
  <2>2. cur # 0 => txs'[cur] = txs[cur]
    BY <1>0, <2>1
  <2> QED
    BY <1>1, <2>1, <2>2
<1>8. CASE BeginTxDone
  <2>1. cur' = (IF res = "nil" THEN Len(txs) ELSE 0) /\ Ends(res, IF res = "nil" THEN "tx" ELSE "pool")
    BY <1>8 DEF BeginTxDone
  <2>2. CASE res = "nil"
    <3>1. holder' = "tx"
      BY <2>1, <2>2, EndMoves DEF IsBad
    <3> QED
      BY <3>1 DEF AutoOK
  <2>3. CASE res # "nil"
    BY <2>1, <2>3 DEF AutoOK
  <2> QED
    BY <2>2, <2>3
<1>9. CASE Teardown
  <2>1. pc \in Closing /\ (holder' = holder \/ holder' = "gone")
    BY <1>9 DEF Teardown, Close, CloseRead, DetachRead, At, Closing, dataVars, callVars
  <2> QED
    BY <2>1 DEF AutoOK, Deadlines, HolderOK
<1>10. CASE Receive \/ Environment \/ Stopped \/ UNCHANGED vars
  BY <1>10, StaysAround DEF AutoOK
<1>11. CASE CallStart \/ Retry \/ TxEnd
  <2>1. UNCHANGED txVars /\ (holder' \in {"pool", "call"} => holder = "pool")
    <3>1. CallStart => UNCHANGED txVars /\ (holder' \in {"pool", "call"} => holder = "pool")
      BY CallMoves
    <3>2. Retry => UNCHANGED txVars /\ (holder' \in {"pool", "call"} => holder = "pool")
      BY RetryMoves
    <3>3. TxEnd => UNCHANGED txVars /\ (holder' \in {"pool", "call"} => holder = "pool")
      BY DEF TxEnd
    <3> QED
      BY <1>11, <3>1, <3>2, <3>3
  <2> QED
    BY <1>1, <2>1 DEF txVars
<1>12. CASE Reconnect
  BY <1>12 DEF Reconnect, NewConnection, AutoOK
<1> QED
  BY <1>2, <1>3, <1>4, <1>5, <1>6, <1>7, <1>8, <1>9, <1>10, <1>11, <1>12 DEF Next, Driver, Application, Transaction

\* Only Tx.Commit runs while its response is owed.
LEMMA OnlyCommits ==
  ASSUME pc \in {"commit", "commit.read"}, Transaction \/ Statement \/ Cursor \/ Ping \/ PingRead \/ Teardown
  PROVE  Commit \/ CommitRead
<1>1. Transaction => Commit \/ CommitRead
  BY DEF Transaction, Begin, BeginRead, CommitRetaining, CommitRetainingRead, BeginTx, BeginTxDone, Rollback, RollbackRead, At
<1>2. ~Statement
  BY DEF Statement, Prepare, PrepareBegun, Allocate, PrepareStatement, PrepareRead, ScrollRefused, Run, RunBegun,
        Bind, BindRead, Upload, UploadRead, UploadClosed, SliceStored, Execute, ExecuteRead, DrainRead, InfoRead,
        ExecCommitted, ExecDone, Immediate, ImmediateBegun, ImmediateSend, ImmediateRead, ImmediateDone,
        Free, FreeRead, Freed, At
<1>3. ~Cursor /\ ~Ping /\ ~PingRead /\ ~Teardown
  BY DEF Cursor, RowsClose, RowsExpired, RowsNext, Fetch, FetchRead, Row, BlobRead, SegmentRead, ColumnRead, ColumnFails,
         ScrollFetch, ScrollClose, Ping, PingRead, Teardown, Close, CloseRead, DetachRead, At
<1> QED
  BY <1>1, <1>2, <1>3

\* What a call that ends without an error is told.
LEMMA FinishTold ==
  ASSUME IInv, OnceInv, FateOK, NEW e, Finish(e), NEW i \in Calls
  PROVE  \/ fate'[i] = fate[i]
         \/ e = "nil" /\ Work = i /\ fate'[i] = IF InTx THEN "txdone" ELSE "acked"
<1>1. fate' = IF e # "nil" \/ Work = 0 THEN fate ELSE [fate EXCEPT ![Work] = IF @ = "run" THEN "acked" ELSE "txdone"]
  BY DEF Finish
<1>2. CASE fate'[i] # fate[i]
  <2>1. e = "nil" /\ i = Work /\ Work # 0 /\ fate'[i] = IF fate[i] = "run" THEN "acked" ELSE "txdone"
    BY <1>1, <1>2, WorkIs
  <2>2. fate[i] = IF InTx THEN "txrun" ELSE "run"
    BY <2>1 DEF FateOK
  <2> QED
    BY <2>1, <2>2
<1> QED
  BY <1>2

\* ... and CommitPlaces.
LEMMA StepPlaces ==
  ASSUME IInv, OnceInv, FateOK, CommitPlaces, [Next]_vars
  PROVE  CommitPlaces'
<1> SUFFICES ASSUME NEW i \in Calls, fate'[i] = "committing" PROVE pc' \in {"commit", "commit.read"}
  BY DEF CommitPlaces
<1>1. CASE Transaction \/ Statement \/ Cursor \/ Ping \/ PingRead \/ Teardown
  <2>1. CASE Commit
    BY <2>1 DEF Commit, Goto
  <2>2. CASE CommitRead
    BY <2>2 DEF CommitRead
  <2>3. CASE ~Commit /\ ~CommitRead
    <3>1. fate[i] # "committing"
      BY <1>1, <2>3, OnlyCommits DEF CommitPlaces
    <3>2. CASE Goes \/ RollbackRead \/ BeginTxDone
      BY <3>1, <3>2 DEF Goes, RollbackRead, BeginTxDone
    <3>3. ASSUME NEW e, Finish(e) PROVE FALSE
      BY <3>1, <3>3, FinishTold
    <3> QED
      BY <1>1, <2>3, <3>2, <3>3, DriverWays
  <2> QED
    BY <2>1, <2>2, <2>3
<1>2. CASE Receive \/ Environment \/ Stopped \/ UNCHANGED vars
  BY <1>2, StaysAround DEF CommitPlaces
<1>3. CASE CallStart \/ Retry \/ Reconnect
  <2>1. pc = "idle"
    BY <1>3, CallMoves, RetryMoves DEF Reconnect
  <2>2. fate[i] # "committing"
    BY <2>1 DEF CommitPlaces
  <2>3. CASE CallStart
    <3>1. \E s : fate' = IF s = "select" THEN fate ELSE [fate EXCEPT ![calls + 1] = IF holder = "tx" THEN "txrun" ELSE "run"]
      BY <2>3 DEF CallStart
    <3> QED
      BY <2>2, <3>1, WorkIs
  <2>4. CASE Retry \/ Reconnect
    BY <2>2, <2>4 DEF Retry, Reconnect
  <2> QED
    BY <1>3, <2>3, <2>4
<1>4. CASE TxEnd
  <2>1. PICK k \in {"commit", "rollback"} :
          /\ pc' = k
          /\ fate' = [n \in Calls |->
                        IF fate[n] \notin {"txrun", "txdone"} THEN fate[n]
                        ELSE IF k = "rollback" THEN "denied"
                        ELSE IF fate[n] = "txdone" THEN "committing" ELSE "unsure"]
    BY <1>4 DEF TxEnd, Goto
  <2>2. pc = "idle"
    BY <1>4 DEF TxEnd
  <2>3. fate[i] # "committing"
    BY <2>2 DEF CommitPlaces
  <2> QED
    BY <2>1, <2>3
<1> QED
  BY <1>1, <1>2, <1>3, <1>4 DEF Next, Driver, Application

\* A commit-retaining that autocommit asked for.
AutoStacks == {<<"exec.committed">>, <<"immediate.done">>}

\* The response awaited has been read, and says nothing wrong.
Got == expect = <<>> /\ res = "nil"

\* Places where the work of the call is being done, is done or is committed.
Stages == {"execute.read", "immediate.read", "info.read", "exec.committed", "immediate.done"}

\* The work has been done, and nothing is left to commit.
Succeeds == \/ pc \in {"exec.committed", "immediate.done"} /\ res = "nil"
            \/ (pc = "info.read" \/ (pc = "immediate.read" /\ Got)) /\ ~txs[cur].auto

\* The steps of a call that has work.
Counted == /\ pc = "execute.read" /\ Got
           /\ pc' = "info.read" /\ stack' = <<>> /\ job' = job
Retains == /\ pc = "info.read" \/ (pc = "immediate.read" /\ Got)
           /\ pc' = "commitRetaining" /\ stack' \in AutoStacks /\ job' = job
Reports == /\ Succeeds
           /\ Finish("nil") \/ (pc' = "free" /\ stack' = <<"exec.done">> /\ job' = job)
CleansUp == /\ Decided
            /\ Finish(err) \/ (Decided' /\ err' = err /\ job' = job /\ pc' \notin Stages /\ stack' \notin AutoStacks)
Fails    == \E e \in Outcome \ {"nil"} : Finish(e)
Wanders  == job' = job /\ pc' \notin Stages /\ stack' \notin AutoStacks /\ (Decided' => err' # "nil")

Turns == Execute \/ ImmediateSend \/ Counted \/ Retains \/ Reports \/ CleansUp \/ Fails \/ Wanders

\* The stacks of a subroutine tell who called it.
LEMMA AutoApart ==
  /\ <<>> \notin AutoStacks /\ <<"exec.done">> \notin AutoStacks /\ <<"freed">> \notin AutoStacks
  /\ \A r \in {"prepare.begun", "run.begun", "immediate.begun", "begin.done"} : <<r>> \notin AutoStacks
  BY Stacked DEF AutoStacks

\* A call that leaves its statement with an error.
LEMMA LeaveFails ==
  ASSUME IInv, WorkPath, NEW e \in Outcome \ {"nil"}, Leave(e)
  PROVE  Fails \/ Wanders
<1>1. CASE pc' = "free" /\ stack' = <<"exec.done">> /\ err' = e /\ UNCHANGED <<job, expired, holder, again, rows>>
  BY <1>1, AutoApart DEF Wanders, Stages
<1>2. CASE Finish(e)
  BY <1>2 DEF Fails
<1> QED
  BY <1>1, <1>2, LeaveMoves

\* ... or without.
LEMMA LeaveReports ==
  ASSUME IInv, WorkPath, Succeeds, Leave("nil")
  PROVE  Reports
<1>1. ~(job.kind \in {"query", "stmtQuery", "scroll"})
  BY DEF WorkPath, Workers
<1> QED
  BY <1>1, LeaveMoves DEF Reports

\* statement.go and execute_immediate.go, ...
LEMMA StatementTurns ==
  ASSUME IInv, Deadlines, Work # 0, WorkPath, Statement
  PROVE  Turns
<1>0. res \in Outcome /\ expect = <<>>
  BY StatementWire DEF IInv, WireInv, WireTypeOK
<1>1. ASSUME UNCHANGED <<job, stack>>, stack = <<>>, pc' \notin Stages, pc' # "exec.done" PROVE Wanders
  BY <1>1, AutoApart, Stacked DEF Wanders, Decided
<1>2. ASSUME NEW e \in Outcome \ {"nil"}, Leave(e) PROVE Turns
  BY <1>2, LeaveFails DEF Turns
<1>3. ASSUME res # "nil", Finish(res) PROVE Turns
  BY <1>0, <1>3 DEF Turns, Fails
<1>4. ASSUME pc \in Plain PROVE stack = <<>>
  BY <1>4, Stacks
<1>5. CASE Prepare \/ PrepareBegun \/ Run \/ RunBegun \/ Immediate \/ ImmediateBegun
  <2>1. pc \in Plain
    BY <1>5 DEF Prepare, PrepareBegun, Run, RunBegun, Immediate, ImmediateBegun, At, Plain, Places
  <2>2. ASSUME NEW r \in {"prepare.begun", "run.begun", "immediate.begun"}, Call("tx.begin", r) PROVE Wanders
    <3>1. pc' = "tx.begin" /\ stack' = <<r>> /\ job' = job
      BY <1>4, <2>1, <2>2, Entered DEF Call, callVars
    <3> QED
      BY <3>1, AutoApart, StackApart DEF Wanders, Stages, Decided
  <2>3. ASSUME Finish("bad") PROVE Fails
    BY <2>3 DEF Fails, Outcome
  <2>4. ASSUME NEW l \in {"panic", "allocate", "bind", "immediate.send"}, Continue(l) PROVE Wanders
    BY <1>1, <1>4, <2>1, <2>4 DEF Continue, Goto, callVars, Stages
  <2> QED
    BY <1>3, <1>5, <2>2, <2>3, <2>4 DEF Prepare, PrepareBegun, Run, RunBegun, Immediate, ImmediateBegun, Panic, Turns
<1>6. CASE Allocate \/ PrepareStatement \/ PrepareRead \/ Bind \/ BindRead \/ Upload \/ UploadRead
           \/ UploadClosed \/ SliceStored
  <2>1. pc \in Plain
    BY <1>6 DEF Allocate, PrepareStatement, PrepareRead, Bind, BindRead, Upload, UploadRead,
       UploadClosed, SliceStored, At, Plain, Places
  <2>2. ASSUME NEW l \in {"allocate.read", "prepare.read", "bind", "execute", "bind.read", "upload.blob", "upload.slice",
                         "upload.segment", "upload.closed"}, Goto(l), UNCHANGED job
        PROVE Wanders
    BY <1>1, <1>4, <2>1, <2>2 DEF Goto, Stages
  <2>3. ASSUME res # "nil", Leave(res) PROVE Turns
    BY <1>0, <1>2, <2>3
  <2> QED
    BY <1>3, <1>6, <2>2, <2>3 DEF Allocate, PrepareStatement, PrepareRead, Bind, BindRead, Upload, UploadRead,
       UploadClosed, SliceStored, Continue, dataVars, callVars, Turns
<1>7. CASE ScrollRefused
  BY <1>2, <1>7 DEF ScrollRefused, Outcome
<1>8. ASSUME NEW op, Abandon(op), res # "nil", pc \in Plain PROVE Turns
  <2>1. CASE Continue("drain.read")
    BY <1>1, <1>4, <1>8, <2>1 DEF Continue, Goto, callVars, Stages, Turns
  <2>2. CASE Leave(IF expired THEN "bad" ELSE res)
    BY <1>0, <1>2, <1>8, <2>2 DEF Outcome
  <2> QED
    BY <1>8, <2>1, <2>2, Abandons
<1>9. CASE ExecuteRead
  <2>1. pc = "execute.read" /\ pc \in Plain
    BY <1>9 DEF ExecuteRead, At, Plain, Places
  <2>2. CASE res # "nil"
    BY <1>0, <1>2, <1>8, <1>9, <2>1, <2>2 DEF ExecuteRead
  <2>3. CASE res = "nil" /\ expired
    BY <1>2, <1>9, <2>3 DEF ExecuteRead, Outcome
  <2>4. CASE res = "nil" /\ ~expired
    <3>1. CASE job.kind \in {"exec", "stmtExec"}
      <4>1. Continue("info.read")
        BY <1>9, <2>4, <3>1 DEF ExecuteRead
      <4>2. Counted
        BY <1>0, <1>4, <2>1, <2>4, <4>1 DEF Continue, Goto, callVars, Counted, Got
      <4> QED
        BY <4>2 DEF Turns
    <3>2. CASE job.kind \notin {"exec", "stmtExec"}
      <4>1. Leave("nil") /\ job.kind = "immediate"
        BY <1>9, <2>4, <3>2 DEF ExecuteRead, WorkPath, Workers
      <4> QED
        BY <4>1 DEF Leave
    <3> QED
      BY <3>1, <3>2
  <2> QED
    BY <2>2, <2>3, <2>4
<1>10. CASE DrainRead
  <2>1. expired
    BY <1>10 DEF DrainRead, At, Deadlines, TimeoutOK
  <2>2. Leave("bad")
    BY <1>10, <2>1 DEF DrainRead
  <2> QED
    BY <1>2, <2>2 DEF Outcome
<1>11. CASE InfoRead
  <2>1. pc = "info.read" /\ pc \in Plain
    BY <1>11 DEF InfoRead, At, Plain, Places
  <2>2. CASE res # "nil"
    BY <1>0, <1>2, <1>8, <1>11, <2>1, <2>2 DEF InfoRead
  <2>3. CASE res = "nil" /\ txs[cur].auto
    <3>1. Call("commitRetaining", "exec.committed")
      BY <1>11, <2>3 DEF InfoRead
    <3>2. pc' = "commitRetaining" /\ stack' = <<"exec.committed">> /\ job' = job
      BY <1>4, <2>1, <3>1, Entered DEF Call, callVars
    <3> QED
      BY <2>1, <3>2 DEF Turns, Retains, AutoStacks
  <2>4. CASE res = "nil" /\ ~txs[cur].auto
    <3>1. Leave("nil")
      BY <1>11, <2>4 DEF InfoRead
    <3> QED
      BY <2>1, <2>4, <3>1, LeaveReports DEF Succeeds, Turns
  <2> QED
    BY <2>2, <2>3, <2>4
<1>12. CASE ExecCommitted
  <2>1. pc = "exec.committed" /\ Leave(res)
    BY <1>12 DEF ExecCommitted, At
  <2>2. CASE res = "nil"
    BY <2>1, <2>2, LeaveReports DEF Succeeds, Turns
  <2>3. CASE res # "nil"
    BY <1>0, <1>2, <2>1, <2>3
  <2> QED
    BY <2>2, <2>3
<1>13. CASE ExecDone
  BY <1>13 DEF ExecDone, At, Decided, CleansUp, Turns
<1>14. CASE ImmediateRead
  <2>1. pc = "immediate.read" /\ pc \in Plain
    BY <1>14 DEF ImmediateRead, At, Plain, Places
  <2>2. CASE res # "nil"
    BY <1>3, <1>14, <2>2 DEF ImmediateRead
  <2>3. CASE res = "nil" /\ txs[cur].auto
    <3>1. Call("commitRetaining", "immediate.done")
      BY <1>14, <2>3 DEF ImmediateRead
    <3>2. pc' = "commitRetaining" /\ stack' = <<"immediate.done">> /\ job' = job
      BY <1>4, <2>1, <3>1, Entered DEF Call, callVars
    <3> QED
      BY <1>0, <2>1, <2>3, <3>2 DEF Turns, Retains, AutoStacks, Got
  <2>4. CASE res = "nil" /\ ~txs[cur].auto
    <3>1. Finish("nil")
      BY <1>14, <2>4 DEF ImmediateRead
    <3> QED
      BY <1>0, <2>1, <2>4, <3>1 DEF Succeeds, Reports, Turns, Got
  <2> QED
    BY <2>2, <2>3, <2>4
<1>15. CASE ImmediateDone
  <2>1. pc = "immediate.done" /\ Finish(res)
    BY <1>15 DEF ImmediateDone, At
  <2>2. CASE res = "nil"
    BY <2>1, <2>2 DEF Succeeds, Reports, Turns
  <2>3. CASE res # "nil"
    BY <1>3, <2>1, <2>3
  <2> QED
    BY <2>2, <2>3
<1>16. CASE Free
  <2>1. /\ pc = "free" /\ pc' = "free.read" /\ stack' = stack /\ err' = err /\ job' = job
    BY <1>16 DEF Free, At, Goto, dataVars, callVars
  <2>2. stack = <<"exec.done">>
    BY <2>1, Stacks DEF WorkPath
  <2> QED
    BY <2>1, <2>2, AutoApart DEF Turns, CleansUp, Decided, Stages
<1>17. CASE FreeRead
  <2>1. /\ pc = "free.read" /\ job' = job
        /\ \/ pc' = "panic" /\ err' = err /\ stack' = stack
           \/ pc' = "commitRetaining" /\ stack = <<>>
           \/ pc' = "commitRetaining" /\ stack' = <<"exec.done">> /\ err' = err
           \/ pc' = "freed" /\ stack = <<>>
           \/ pc' = "exec.done" /\ stack' = <<>> /\ err' = err
    BY <1>17, FreedMoves
  <2>2. stack = <<"exec.done">>
    BY <2>1, Stacks DEF WorkPath
  <2> QED
    BY <2>1, <2>2, AutoApart, StackApart DEF Turns, CleansUp, Decided, Stages
<1>18. CASE Freed
  BY <1>18 DEF Freed, At, WorkPath, Workless
<1> QED
  BY <1>5, <1>6, <1>7, <1>9, <1>10, <1>11, <1>12, <1>13, <1>14, <1>15, <1>16, <1>17, <1>18 DEF Statement, Turns

\* ... and every other step of a call that has work.
LEMMA DriverTurns ==
  ASSUME IInv, Deadlines, Work # 0, WorkPath, Transaction \/ Statement \/ Cursor \/ Ping \/ PingRead \/ Teardown
  PROVE  \/ Turns
         \/ (CommitRetaining \/ CommitRetainingRead) /\ stack \in AutoStacks
         \/ CommitRead \/ RollbackRead \/ BeginTxDone
<1>1. ~Cursor /\ ~Ping /\ ~PingRead
  BY DEF WorkPath, Workless, Cursor, RowsClose, RowsExpired, RowsNext, Fetch, FetchRead, Row, BlobRead, SegmentRead, ColumnRead, ColumnFails,
         ScrollFetch, ScrollClose, Ping, PingRead, At
<1>2. CASE Teardown
  <2>1. job' = job /\ stack' = stack /\ pc' \in Closing \cup {"idle"} /\ pc \in Closing
    BY <1>2 DEF Teardown, Close, CloseRead, DetachRead, Goto, At, dataVars, callVars, Closing
  <2>2. stack = <<>>
    BY <2>1, Stacks DEF Closing, Plain, Places
  <2> QED
    BY <2>1, <2>2, AutoApart, Stacked DEF Turns, Wanders, Stages, Decided, Closing
<1>3. CASE Begin
  <2>1. pc = "tx.begin" /\ pc' = "tx.begun" /\ stack' = stack /\ job' = job
    BY <1>3 DEF Begin, At, Goto, dataVars, callVars
  <2>2. stack \in {<<"prepare.begun">>, <<"run.begun">>, <<"immediate.begun">>, <<"begin.done">>}
    BY <2>1, Stacks
  <2> QED
    BY <2>1, <2>2, AutoApart, StackApart DEF Turns, Wanders, Stages, Decided
<1>4. CASE BeginRead
  <2>1. job' = job /\ stack' = <<>> /\ pc' \in {"prepare.begun", "run.begun", "immediate.begun", "begin.done"}
    BY <1>4, BegunMoves DEF callVars
  <2> QED
    BY <2>1, AutoApart, Stacked DEF Turns, Wanders, Stages, Decided
<1>5. CASE BeginTx
  <2>1. stack = <<>>
    BY <1>5, Stacks DEF BeginTx, At, Plain, Places
  <2>2. pc' = "tx.begin" /\ stack' = <<"begin.done">> /\ job' = job
    BY <1>5, <2>1, Entered DEF BeginTx, Call, callVars
  <2> QED
    BY <2>2, AutoApart, StackApart DEF Turns, Wanders, Stages, Decided
<1>6. CASE Commit \/ Rollback
  <2>1. /\ job' = job /\ stack' = stack /\ pc' \in {"commit.read", "rollback.read"} /\ pc \in {"commit", "rollback"}
    BY <1>6 DEF Commit, Rollback, At, Goto, dataVars, callVars
  <2>2. stack = <<>>
    BY <2>1, Stacks DEF Plain, Places
  <2> QED
    BY <2>1, <2>2, AutoApart, Stacked DEF Turns, Wanders, Stages, Decided
<1>7. CASE CommitRetaining /\ stack \notin AutoStacks
  <2>1. pc = "commitRetaining" /\ pc' = "commitRetaining.read" /\ stack' = stack /\ job' = job /\ err' = err
    BY <1>7 DEF CommitRetaining, At, Goto, dataVars, callVars
  <2>2. stack = <<"exec.done">>
    BY <1>7, <2>1, Stacks DEF WorkPath, AutoStacks
  <2> QED
    BY <2>1, <2>2, AutoApart DEF Turns, CleansUp, Stages, Decided
<1>8. CASE CommitRetainingRead /\ stack \notin AutoStacks
  <2>1. pc = "commitRetaining.read" /\ stack = <<pc'>> /\ stack' = <<>> /\ job' = job /\ err' = err
    BY <1>8, RetainedMoves DEF callVars
  <2>2. stack = <<"exec.done">>
    BY <1>8, <2>1, Stacks DEF WorkPath, AutoStacks
  <2>3. pc' = "exec.done"
    BY <2>1, <2>2, Stacked
  <2> QED
    BY <2>1, <2>2, <2>3, AutoApart DEF Turns, CleansUp, Stages, Decided
<1> QED
  BY <1>1, <1>2, <1>3, <1>4, <1>5, <1>6, <1>7, <1>8, StatementTurns DEF Transaction

\* The work of call i is committed, or done in the transaction of the connection.
Performed(i) == applied[i] >= 1 \/ Doing(i, txs[cur].h)

\* The call has decided to report no error.
Succeeded == Decided /\ err = "nil"

\* A pending request that does the work of call i, ...
Landing(i, p) == pend[p].op \in Execs =>
                   /\ pend[p].st = "asked" => pend[p].w = i /\ pend[p].h = txs[cur].h
                   /\ pend[p].st = "ok" => Performed(i)

\* ... and one that commits it.
Sealing(i, p) == pend[p].op \in Commits =>
                   /\ pend[p].st = "asked" => applied[i] >= 1 \/ Doing(i, pend[p].h)
                   /\ pend[p].st = "ok" => applied[i] >= 1

\* How far the work of call i has got: its execution is awaited, ...
BeingDone(i) == Work = i /\ pc \in {"execute.read", "immediate.read"}

\* ... it is done and still to be committed, ...
Held(i) == \/ Work = i /\ \/ pc = "info.read"
                          \/ pc = "commitRetaining" /\ stack \in AutoStacks
                          \/ InTx /\ Succeeded
           \/ fate[i] = "txdone"
           \/ fate[i] = "committing" /\ pc = "commit"

\* ... its commit is awaited, ...
BeingCommitted(i) == \/ Work = i /\ pc = "commitRetaining.read" /\ stack \in AutoStacks
                     \/ fate[i] = "committing" /\ pc = "commit.read"

\* ... or it is committed.
Settled(i) == Work = i /\ \/ pc \in {"exec.committed", "immediate.done"} /\ res = "nil"
                          \/ ~InTx /\ Succeeded

\* On a connection that is kept, the server agrees with what the driver believes of the work of call i.
Accounted(i) ==
  /\ BeingDone(i) => (\A p \in 1..Len(pend) : Landing(i, p)) /\ (Got => Performed(i))
  /\ Held(i) => Performed(i)
  /\ BeingCommitted(i) => (\A p \in 1..Len(pend) : Sealing(i, p)) /\ (Got => applied[i] >= 1)
  /\ Settled(i) => applied[i] >= 1

\* What has been acknowledged is committed.
AckedOK == \A i \in Calls : fate[i] = "acked" => applied[i] >= 1

\* The unread packets answer requests that are awaited or counted.
LEMMA PendingOps ==
  ASSUME IInv, Agrees, NEW p \in 1..Len(pend)
  PROVE  pend[p].op \in Uncollected \/ \E k \in 1..Len(expect) : pend[p].op = expect[k]
<1>1. /\ Len(pend) <= lazy + Len(expect)
      /\ IF p <= lazy THEN pend[p].op \in Uncollected ELSE pend[p].op = expect[p - lazy]
  BY DEF Agrees, Matches
<1>2. lazy \in Nat /\ Len(expect) \in Nat /\ Len(pend) \in Nat /\ p \in Nat
  BY WireParts
<1>3. p > lazy => p - lazy \in 1..Len(expect)
  BY <1>1, <1>2
<1> QED
  BY <1>1, <1>2, <1>3

\* Nothing that would undo the work is under way.
LEMMA Unthreatened ==
  ASSUME IInv, AwaitOK, Agrees
  PROVE  /\ expect = <<>> => \A p \in 1..Len(pend) : pend[p].op \notin Execs \cup Commits
         /\ pc \notin {"rollback.read", "close.read", "detach.read"} =>
              \A p \in 1..Len(pend) : pend[p].op \notin {"rollback", "detach"}
<1>1. ASSUME NEW p \in 1..Len(pend), expect = <<>> PROVE pend[p].op \notin Execs \cup Commits
  <2>1. Len(expect) = 0
    BY <1>1
  <2> QED
    BY <2>1, PendingOps DEF Uncollected, Execs, Commits
<1>2. ASSUME NEW p \in 1..Len(pend), pc \notin {"rollback.read", "close.read", "detach.read"}
      PROVE  pend[p].op \notin {"rollback", "detach"}
  <2>1. CASE pend[p].op \in Uncollected
    BY <2>1 DEF Uncollected
  <2>2. ASSUME NEW k \in 1..Len(expect), pend[p].op = expect[k] PROVE pend[p].op \notin {"rollback", "detach"}
    <3>1. CASE pc \notin EndReads
      BY <2>2, <3>1 DEF AwaitOK, Mild, Enders
    <3>2. CASE pc \in {"commitRetaining.read", "commit.read"}
      <4>1. expect = <<>> \/ \E op \in {"commit", "commit_retaining"} : expect = <<op>>
        BY <3>2 DEF AwaitOK
      <4>2. Len(<<>>) = 0
        OBVIOUS
      <4>3. \E op \in {"commit", "commit_retaining"} : Len(expect) = 1 /\ expect[1] = op
        BY <2>2, <4>1, <4>2, Tails
      <4> QED
        BY <2>2, <4>3
    <3> QED
      BY <1>2, <3>1, <3>2 DEF EndReads
  <2> QED
    BY <2>1, <2>2, PendingOps
<1> QED
  BY <1>1, <1>2

\* What a step of the driver leaves to the server and to transaction.go.
LEMMA DriverLeaves ==
  ASSUME Transaction \/ Statement \/ Cursor \/ Ping \/ PingRead \/ Teardown
  PROVE  UNCHANGED srvVars
<1>1. Transaction => UNCHANGED srvVars
  BY DEF Transaction, Begin, BeginRead, CommitRetaining, CommitRetainingRead, BeginTx, BeginTxDone, Commit, CommitRead,
     Rollback, RollbackRead, dataVars
<1>2. Statement => UNCHANGED srvVars
  BY DEF Statement, Prepare, PrepareBegun, Allocate, PrepareStatement, PrepareRead, ScrollRefused, Run, RunBegun,
        Bind, BindRead, Upload, UploadRead, UploadClosed, SliceStored, Execute, ExecuteRead, DrainRead, InfoRead,
        ExecCommitted, ExecDone, Immediate, ImmediateBegun, ImmediateSend, ImmediateRead, ImmediateDone,
        Free, FreeRead, Freed, dataVars
<1>3. Cursor => UNCHANGED srvVars
  BY DEF Cursor, RowsClose, RowsExpired, RowsNext, Fetch, FetchRead, Row, BlobRead, SegmentRead, ColumnRead, ColumnFails,
         ScrollFetch, ScrollClose, rowsElse, dataVars
<1>4. Ping \/ PingRead \/ Teardown => UNCHANGED srvVars
  BY DEF Ping, PingRead, Teardown, Close, CloseRead, DetachRead, dataVars
<1> QED
  BY <1>1, <1>2, <1>3, <1>4

\* The transaction object is changed where transaction.go answers, begins or closes, and nowhere else.
LEMMA ObjectStays ==
  ASSUME IInv, Transaction \/ Statement \/ Cursor \/ Ping \/ PingRead \/ Teardown,
         pc \notin {"tx.begun", "commitRetaining.read", "commit.read", "rollback.read", "begin", "begin.done", "close"}
  PROVE  UNCHANGED txVars
<1>1. Transaction => UNCHANGED txVars
  BY DEF Transaction, Begin, BeginRead, CommitRetaining, CommitRetainingRead, BeginTx, BeginTxDone, Commit, CommitRead,
     Rollback, RollbackRead, At, dataVars
<1>2. Teardown => UNCHANGED txVars
  BY DEF Teardown, Close, CloseRead, DetachRead, At, dataVars
<1> QED
  BY <1>1, <1>2, StatementEnters, CursorEnters

\* A call that goes on is the same call.
LEMMA StaysIn ==
  ASSUME IInv, OnceInv, TxOK, Transaction \/ Statement \/ Cursor \/ Ping \/ PingRead \/ Teardown, Work # 0, job' = job
  PROVE  /\ Work' = Work /\ fate' = fate /\ (InTx' <=> InTx)
         /\ ~CommitRead /\ ~RollbackRead /\ ~BeginTxDone
<1>1. ASSUME NEW e, NEW next, Ends(e, next) PROVE FALSE
  BY <1>1, EndMoves, WorkIs
<1>2. ~CommitRead /\ ~RollbackRead /\ ~BeginTxDone /\ \A e : ~Finish(e)
  BY <1>1 DEF CommitRead, RollbackRead, BeginTxDone, Finish
<1>3. Goes
  BY <1>2, DriverWays
<1>4. Work' = Work
  BY DEF Work
<1>5. InTx' <=> InTx
  <2>1. CASE holder' = holder
    BY <2>1 DEF InTx
  <2>2. CASE DetachRead
    BY <2>2 DEF DetachRead, At, InTx, TxOK, OutsideTx, Closing
  <2> QED
    BY <1>3, <2>1, <2>2 DEF Goes
<1> QED
  BY <1>2, <1>3, <1>4, <1>5 DEF Goes

\* A write that awaits a response leaves nothing read, and adds its requests alone.
LEMMA AwaitsOne ==
  ASSUME IInv, NEW awaited, awaited # <<>>, NEW c, NEW d, NEW k, NEW r, Write(<<r>>, awaited, c, d, k)
  PROVE  /\ ~Got'
         /\ \A p \in 1..Len(pend') : (p \in 1..Len(pend) /\ pend'[p] = pend[p]) \/ pend'[p] = r
<1>1. (res' = "nil" /\ expect' = awaited) \/ res' = "unsent"
  BY WriteMoves
<1>2. pend' = pend \/ pend' = pend \o <<r>>
  BY WriteMoves
<1>3. pend \in Seq(Request) /\ Len(pend) \in Nat
  BY WireParts
<1>4. ASSUME NEW p \in 1..Len(pend') PROVE (p \in 1..Len(pend) /\ pend'[p] = pend[p]) \/ pend'[p] = r
  <2>1. CASE pend' = pend
    BY <2>1, <1>4
  <2>2. CASE pend' = pend \o <<r>>
    <3>1. /\ Len(pend') = Len(pend) + 1
          /\ \A n \in 1..(Len(pend) + 1) : pend'[n] = IF n <= Len(pend) THEN pend[n] ELSE r
      BY <1>3, <2>2, Extended
    <3> QED
      BY <1>3, <1>4, <3>1
  <2> QED
    BY <1>2, <2>1, <2>2
<1> QED
  BY <1>1, <1>4 DEF Got

\* The same for the two requests of an execution that describes its rows.
LEMMA AwaitsTwo ==
  ASSUME IInv, NEW h, NEW w, NEW d, NEW k,
         Write(<<Asked("sql", 0, 0), Asked("execute", h, w)>>, <<"sql", "execute">>, 0, d, k)
  PROVE  /\ ~Got'
         /\ \A p \in 1..Len(pend') : \/ p \in 1..Len(pend) /\ pend'[p] = pend[p]
                                     \/ pend'[p] = Asked("sql", 0, 0)
                                     \/ pend'[p] = Asked("execute", h, w)
<1>0. PICK q, r : q = Asked("sql", 0, 0) /\ r = Asked("execute", h, w) /\ Write(<<q, r>>, <<"sql", "execute">>, 0, d, k)
  OBVIOUS
<1>1. (res' = "nil" /\ expect' = <<"sql", "execute">>) \/ res' = "unsent"
  BY <1>0, WriteMoves
<1>2. pend' = pend \/ pend' = pend \o <<q, r>>
  BY <1>0, WriteMoves
<1>3. pend \in Seq(Request) /\ Len(pend) \in Nat
  BY WireParts
<1>4. ASSUME NEW p \in 1..Len(pend') PROVE (p \in 1..Len(pend) /\ pend'[p] = pend[p]) \/ pend'[p] = q \/ pend'[p] = r
  <2>1. CASE pend' = pend
    BY <2>1, <1>4
  <2>2. CASE pend' = pend \o <<q, r>>
    <3>1. /\ Len(pend') = Len(pend) + 2
          /\ \A n \in 1..(Len(pend) + 2) : pend'[n] = IF n <= Len(pend) THEN pend[n] ELSE IF n = Len(pend) + 1 THEN q ELSE r
      BY <1>3, <2>2, ExtendedTwice
    <3> QED
      BY <1>3, <1>4, <3>1
  <2> QED
    BY <1>2, <2>1, <2>2
<1> QED
  BY <1>0, <1>1, <1>4, Tails DEF Got

\* A call whose work is reported done has had it done, and committed outside an explicit transaction.
LEMMA SucceedsWell ==
  ASSUME IInv, Deadlines, AutoOK, NEW i, Work = i, Accounted(i), Succeeds, holder \in {"call", "txcall"}
  PROVE  IF InTx THEN Performed(i) ELSE applied[i] >= 1
<1>1. CASE pc \in {"exec.committed", "immediate.done"} /\ res = "nil"
  BY <1>1 DEF Accounted, Settled, Performed
<1>2. CASE (pc = "info.read" \/ (pc = "immediate.read" /\ Got)) /\ ~txs[cur].auto
  <2>1. Performed(i)
    BY <1>2 DEF Accounted, Held, BeingDone
  <2>2. cur # 0
    BY <1>2, TxThere DEF Places, NilTxPlaces
  <2>3. InTx
    BY <1>2, <2>2 DEF AutoOK, InTx
  <2> QED
    BY <2>1, <2>3
<1> QED
  BY <1>1, <1>2 DEF Succeeds

\* The same of a call that has only to clean up.
LEMMA SucceededWell ==
  ASSUME NEW i, Work = i, Accounted(i), Succeeded
  PROVE  IF InTx THEN Performed(i) ELSE applied[i] >= 1
  BY DEF Accounted, Held, Settled

\* The end of a call.
LEMMA FinishAccounts ==
  ASSUME IInv, OnceInv, TxOK, FateOK, CommitPlaces, NEW i \in Calls, Work = i, NEW e, Finish(e), pc # "idle",
         e = "nil" => IF InTx THEN Performed(i) ELSE applied[i] >= 1,
         e = "nil" /\ InTx => UNCHANGED txVars, UNCHANGED srvVars
  PROVE  Accounted(i)' /\ (fate'[i] = "acked" => applied'[i] >= 1)
<1>0. i # 0 /\ fate[i] = IF InTx THEN "txrun" ELSE "run"
  BY DEF Calls, FateOK
<1>1. Work' = 0 /\ (InTx' <=> InTx)
  <2>1. \E next \in {"pool", "tx"} : Ends(e, next)
    BY FinishMoves
  <2>2. job' = NoJob
    BY <2>1, EndMoves
  <2> QED
    BY <2>2, WorkIs, FinishFate DEF Work
<1>2. fate'[i] = fate[i] \/ (e = "nil" /\ fate'[i] = IF InTx THEN "txdone" ELSE "acked")
  BY FinishTold
<1>3. fate'[i] \in {"txrun", "run"} \/ (e = "nil" /\ fate'[i] = IF InTx THEN "txdone" ELSE "acked")
  BY <1>0, <1>2
<1>4. fate'[i] = "txdone" => Performed(i)'
  <2>1. ASSUME fate'[i] = "txdone" PROVE Performed(i) /\ UNCHANGED <<txVars, srvVars>>
    BY <1>3, <2>1
  <2> QED
    BY <2>1 DEF Performed, Doing, txVars, srvVars
<1>5. fate'[i] = "acked" => applied'[i] >= 1
  BY <1>3 DEF srvVars
<1>6. fate'[i] # "committing"
  BY <1>3
<1> QED
  BY <1>0, <1>1, <1>4, <1>5, <1>6 DEF Accounted, BeingDone, Held, BeingCommitted, Settled

\* A step of a call that goes on and awaits nothing of its work.
LEMMA GoesAccounts ==
  ASSUME IInv, OnceInv, TxOK, FateOK, NEW i \in Calls, Work = i, Transaction \/ Statement \/ Cursor \/ Ping \/ PingRead \/ Teardown,
         job' = job, pc' \notin Stages, stack' \notin AutoStacks,
         Succeeded' => IF InTx THEN Performed(i)' ELSE applied'[i] >= 1
  PROVE  Accounted(i)' /\ (fate'[i] = "acked" => applied'[i] >= 1)
<1>1. i # 0
  BY DEF Calls
<1>2. Work' = i /\ fate' = fate /\ (InTx' <=> InTx)
  BY <1>1, StaysIn
<1>3. fate'[i] \in {"txrun", "run"}
  BY <1>1, <1>2 DEF FateOK
<1> QED
  BY <1>2, <1>3 DEF Accounted, BeingDone, Held, BeingCommitted, Settled, Stages

\* What is asked for when a statement is executed.
LEMMA ExecuteAsks ==
  ASSUME IInv, Execute \/ ImmediateSend
  PROVE  ~Got' /\ \A p \in 1..Len(pend') : \/ p \in 1..Len(pend) /\ pend'[p] = pend[p]
                                         \/ pend'[p] = Asked("sql", 0, 0)
                                         \/ pend'[p] = Asked("execute", txs[cur].h, Work)
                                         \/ pend'[p] = Asked("execute_immediate", txs[cur].h, Work)
<1>0. <<"execute">> # <<>> /\ <<"execute_immediate">> # <<>> /\ <<"sql", "execute">> # <<>>
  BY Tails
<1>1. CASE Write(<<Asked("sql", 0, 0), Asked("execute", txs[cur].h, Work)>>, <<"sql", "execute">>, 0, CtxDeadline, TRUE)
  BY <1>1, AwaitsTwo
<1>2. ASSUME NEW r, r = Asked("execute", txs[cur].h, Work), Write(<<r>>, <<"execute">>, 0, CtxDeadline, TRUE)
      PROVE  ~Got' /\ \A p \in 1..Len(pend') : (p \in 1..Len(pend) /\ pend'[p] = pend[p]) \/ pend'[p] = r
  BY <1>0, <1>2, AwaitsOne
<1>3. ASSUME NEW r, r = Asked("execute_immediate", txs[cur].h, Work),
             Write(<<r>>, <<"execute_immediate">>, 0, CtxDeadline, TRUE)
      PROVE  ~Got' /\ \A p \in 1..Len(pend') : (p \in 1..Len(pend) /\ pend'[p] = pend[p]) \/ pend'[p] = r
  BY <1>0, <1>3, AwaitsOne
<1>4. CASE ImmediateSend
  BY <1>3, <1>4 DEF ImmediateSend, Ask
<1>5. CASE Execute
  <2>1. PICK r : /\ r = Asked("execute", txs[cur].h, Work)
                 /\ \/ Write(<<Asked("sql", 0, 0), r>>, <<"sql", "execute">>, 0, CtxDeadline, TRUE)
                    \/ Write(<<r>>, <<"execute">>, 0, CtxDeadline, TRUE)
    BY <1>5 DEF Execute
  <2> QED
    BY <1>1, <1>2, <2>1
<1> QED
  BY <1>4, <1>5

\* The statement of the call is sent off.
LEMMA ExecuteAccounts ==
  ASSUME IInv, OnceInv, TxOK, FateOK, AwaitOK, Agrees, NEW i \in Calls, Work = i, Execute \/ ImmediateSend
  PROVE  Accounted(i)' /\ (fate'[i] = "acked" => applied'[i] >= 1)
<1>1. Statement
  BY DEF Statement
<1>2. i # 0 /\ fate[i] \in {"run", "txrun"}
  BY DEF Calls, FateOK
<1>3. /\ UNCHANGED <<job, fate, txVars, srvVars>> /\ expect = <<>> /\ stack' = stack
      /\ pc \in {"execute", "immediate.send"} /\ pc' \in {"execute.read", "immediate.read"}
  BY DEF Execute, ImmediateSend, Goto, dataVars, callVars, At
<1>4. stack = <<>>
  BY <1>3, Stacks DEF Plain, Places
<1>5. stack' # <<"exec.done">> /\ stack' \notin AutoStacks
  BY <1>3, <1>4, AutoApart, Stacked
<1>6. \A p \in 1..Len(pend) : pend[p].op \notin Execs
  BY <1>3, Unthreatened
<1>7. ~Got' /\ \A p \in 1..Len(pend') : \/ p \in 1..Len(pend) /\ pend'[p] = pend[p]
                                        \/ pend'[p] = Asked("sql", 0, 0)
                                        \/ pend'[p] = Asked("execute", txs[cur].h, Work)
                                        \/ pend'[p] = Asked("execute_immediate", txs[cur].h, Work)
  BY ExecuteAsks
<1>8. \A p \in 1..Len(pend') : Landing(i, p)'
  <2> SUFFICES ASSUME NEW p \in 1..Len(pend'), pend'[p].op \in Execs
               PROVE  /\ pend'[p].st = "asked" => pend'[p].w = i /\ pend'[p].h = txs'[cur'].h
                      /\ pend'[p].st = "ok" => Performed(i)'
    BY DEF Landing
  <2>1. pend'[p].st = "asked" /\ pend'[p].w = Work /\ pend'[p].h = txs[cur].h
    BY <1>6, <1>7 DEF Asked, Execs
  <2> QED
    BY <1>3, <2>1 DEF txVars
<1>9. ~(Held(i)') /\ ~(BeingCommitted(i)') /\ ~(Settled(i)')
  BY <1>2, <1>3, <1>5 DEF Held, BeingCommitted, Settled, Succeeded, Decided
<1> QED
  BY <1>2, <1>3, <1>7, <1>8, <1>9 DEF Accounted

\* Its response is read, and the work done.
LEMMA CountedAccounts ==
  ASSUME IInv, OnceInv, TxOK, FateOK, NEW i \in Calls, Work = i, Accounted(i), Counted \/ Retains,
         Transaction \/ Statement \/ Cursor \/ Ping \/ PingRead \/ Teardown
  PROVE  Accounted(i)' /\ (fate'[i] = "acked" => applied'[i] >= 1)
<1>1. i # 0 /\ fate[i] \in {"run", "txrun"}
  BY DEF Calls, FateOK
<1>2. Performed(i) /\ job' = job /\ pc \in {"execute.read", "info.read", "immediate.read"}
  BY DEF Counted, Retains, Accounted, BeingDone, Held
<1>3. UNCHANGED <<txVars, srvVars>>
  BY <1>2, ObjectStays, DriverLeaves
<1>4. Performed(i)'
  BY <1>2, <1>3 DEF Performed, Doing, txVars, srvVars
<1>5. Work' = i /\ fate' = fate
  BY <1>1, <1>2, StaysIn
<1>6. pc' \in {"info.read", "commitRetaining"} /\ stack' # <<"exec.done">>
  BY AutoApart, Stacked DEF Counted, Retains
<1>7. ~(BeingDone(i)') /\ ~(BeingCommitted(i)') /\ ~(Settled(i)')
  BY <1>1, <1>5, <1>6 DEF BeingDone, BeingCommitted, Settled, Succeeded, Decided
<1> QED
  BY <1>1, <1>4, <1>5, <1>7 DEF Accounted

\* Nothing is left of it to commit.
LEMMA ReportsAccounts ==
  ASSUME IInv, Deadlines, OnceInv, TxOK, FateOK, CommitPlaces, AutoOK, NEW i \in Calls, Work = i, Accounted(i),
         holder \in {"call", "txcall"}, Reports, Transaction \/ Statement \/ Cursor \/ Ping \/ PingRead \/ Teardown
  PROVE  Accounted(i)' /\ (fate'[i] = "acked" => applied'[i] >= 1)
<1>1. IF InTx THEN Performed(i) ELSE applied[i] >= 1
  BY SucceedsWell DEF Reports
<1>2. UNCHANGED <<txVars, srvVars>> /\ pc # "idle"
  BY ObjectStays, DriverLeaves DEF Reports, Succeeds
<1>3. CASE Finish("nil")
  BY <1>1, <1>2, <1>3, FinishAccounts
<1>4. CASE pc' = "free" /\ stack' = <<"exec.done">> /\ job' = job
  <2>1. IF InTx THEN Performed(i)' ELSE applied'[i] >= 1
    BY <1>1, <1>2 DEF Performed, Doing, txVars, srvVars
  <2>2. pc' \notin Stages /\ stack' \notin AutoStacks
    BY <1>4, AutoApart DEF Stages
  <2> QED
    BY <1>4, <2>1, <2>2, GoesAccounts
<1> QED
  BY <1>3, <1>4 DEF Reports

\* The statement is closed.
LEMMA CleansUpAccounts ==
  ASSUME IInv, OnceInv, TxOK, FateOK, CommitPlaces, NEW i \in Calls, Work = i, Accounted(i), CleansUp,
         Transaction \/ Statement \/ Cursor \/ Ping \/ PingRead \/ Teardown
  PROVE  Accounted(i)' /\ (fate'[i] = "acked" => applied'[i] >= 1)
<1>0. Decided
  BY DEF CleansUp
<1>1. err = "nil" => IF InTx THEN Performed(i) ELSE applied[i] >= 1
  BY <1>0, SucceededWell DEF Succeeded
<1>2. UNCHANGED srvVars /\ pc # "idle"
  BY DriverLeaves, DriverWays
<1>3. InTx => UNCHANGED txVars
  <2>1. pc # "commit.read" /\ pc # "rollback.read"
    BY <1>0, StackParts DEF Decided
  <2> QED
    BY <2>1, TxObjects DEF CommitRead, RollbackRead, At
<1>4. CASE Finish(err)
  BY <1>1, <1>2, <1>3, <1>4, FinishAccounts
<1>5. CASE Decided' /\ err' = err /\ job' = job /\ pc' \notin Stages /\ stack' \notin AutoStacks
  <2>1. Succeeded' => IF InTx THEN Performed(i)' ELSE applied'[i] >= 1
    <3>1. ASSUME err = "nil", InTx PROVE Performed(i)'
      BY <1>1, <1>2, <1>3, <3>1 DEF Performed, Doing, txVars, srvVars
    <3>2. ASSUME err = "nil", ~InTx PROVE applied'[i] >= 1
      BY <1>1, <1>2, <3>2 DEF srvVars
    <3> QED
      BY <1>5, <3>1, <3>2 DEF Succeeded
  <2> QED
    BY <1>5, <2>1, GoesAccounts
<1> QED
  BY <1>4, <1>5 DEF CleansUp

\* An autocommit is sent off ...
LEMMA RetainAccounts ==
  ASSUME IInv, OnceInv, TxOK, FateOK, AwaitOK, Agrees, NEW i \in Calls, Work = i, Accounted(i), CommitRetaining, stack \in AutoStacks
  PROVE  Accounted(i)' /\ (fate'[i] = "acked" => applied'[i] >= 1)
<1>1. i # 0 /\ fate[i] \in {"run", "txrun"}
  BY DEF Calls, FateOK
<1>2. /\ UNCHANGED <<job, fate, txVars, srvVars>> /\ expect = <<>> /\ stack' = stack
      /\ pc = "commitRetaining" /\ pc' = "commitRetaining.read"
      /\ Ask("commit_retaining", txs[cur].h, 0, "fixed")
  BY DEF CommitRetaining, Goto, dataVars, callVars, At
<1>3. stack' # <<"exec.done">>
  BY <1>2, AutoApart
<1>4. Performed(i)
  BY <1>2 DEF Accounted, Held
<1>5. \A p \in 1..Len(pend) : pend[p].op \notin Commits
  BY <1>2, Unthreatened
<1>6. PICK r : r = Asked("commit_retaining", txs[cur].h, 0) /\ Write(<<r>>, <<"commit_retaining">>, 0, "fixed", TRUE)
  BY <1>2 DEF Ask
<1>7. ~Got' /\ \A p \in 1..Len(pend') : (p \in 1..Len(pend) /\ pend'[p] = pend[p]) \/ pend'[p] = r
  <2>1. <<"commit_retaining">> # <<>>
    BY Tails
  <2> QED
    BY <1>6, <2>1, AwaitsOne
<1>8. \A p \in 1..Len(pend') : Sealing(i, p)'
  <2> SUFFICES ASSUME NEW p \in 1..Len(pend'), pend'[p].op \in Commits
               PROVE  /\ pend'[p].st = "asked" => applied'[i] >= 1 \/ (\A h : h = pend'[p].h => Doing(i, h)')
                      /\ pend'[p].st = "ok" => applied'[i] >= 1
    BY DEF Sealing
  <2>1. pend'[p].st = "asked" /\ pend'[p].h = txs[cur].h
    BY <1>5, <1>6, <1>7 DEF Asked
  <2> QED
    BY <1>2, <1>4, <2>1 DEF Performed, Doing, srvVars
<1>9. ~(Held(i)') /\ ~(BeingDone(i)') /\ ~(Settled(i)')
  BY <1>1, <1>2, <1>3 DEF Held, BeingDone, Settled, Succeeded, Decided
<1> QED
  BY <1>1, <1>2, <1>7, <1>8, <1>9 DEF Accounted

\* ... and its response read.
LEMMA RetainedAccounts ==
  ASSUME IInv, OnceInv, TxOK, FateOK, NEW i \in Calls, Work = i, Accounted(i), CommitRetainingRead, stack \in AutoStacks
  PROVE  Accounted(i)' /\ (fate'[i] = "acked" => applied'[i] >= 1)
<1>1. i # 0 /\ fate[i] \in {"run", "txrun"}
  BY DEF Calls, FateOK
<1>2. /\ pc = "commitRetaining.read" /\ stack = <<pc'>> /\ stack' = <<>> /\ job' = job /\ fate' = fate /\ UNCHANGED srvVars
      /\ ReadTimeoutCleared /\ expect = <<>>
  BY RetainedMoves DEF callVars
<1>3. res' = res
  BY <1>2, Clears
<1>4. pc' \in {"exec.committed", "immediate.done"}
  BY <1>2, Stacked DEF AutoStacks
<1>5. stack' # <<"exec.done">>
  BY <1>2, Stacked
<1>6. Work' = i
  BY <1>2 DEF Work
<1>7. res = "nil" => applied[i] >= 1
  BY <1>2 DEF Accounted, BeingCommitted, Got
<1>8. Settled(i)' => applied'[i] >= 1
  BY <1>2, <1>3, <1>4, <1>5, <1>7 DEF Settled, Succeeded, Decided, srvVars
<1>9. ~(Held(i)') /\ ~(BeingDone(i)') /\ ~(BeingCommitted(i)')
  BY <1>1, <1>2, <1>4, <1>5 DEF Held, BeingDone, BeingCommitted, Succeeded, Decided
<1> QED
  BY <1>1, <1>2, <1>8, <1>9 DEF Accounted

\* A call that ends a transaction has no work of its own.
LEMMA EndsAccounts ==
  ASSUME IInv, OnceInv, FateOK, NEW i \in Calls, Work = i, CommitRead \/ RollbackRead \/ BeginTxDone
  PROVE  Accounted(i)' /\ (fate'[i] = "acked" => applied'[i] >= 1)
<1>1. i # 0 /\ fate[i] \in {"run", "txrun"}
  BY DEF Calls, FateOK
<1>2. job' = NoJob
  BY EndMoves DEF CommitRead, RollbackRead, BeginTxDone
<1>3. Work' = 0
  BY <1>2, WorkIs DEF Work
<1>4. fate'[i] = fate[i]
  BY <1>1, WorkIs DEF CommitRead, RollbackRead, BeginTxDone
<1> QED
  BY <1>1, <1>3, <1>4 DEF Accounted, BeingDone, Held, BeingCommitted, Settled

\* The work of a call in progress, ...
LEMMA WorkAccounts ==
  ASSUME IInv, Deadlines, OnceInv, TxOK, FateOK, CommitPlaces, AutoOK, WorkOK, AwaitOK, Agrees, NEW i \in Calls, Work = i,
         Accounted(i), holder \in {"call", "txcall"}, Transaction \/ Statement \/ Cursor \/ Ping \/ PingRead \/ Teardown
  PROVE  Accounted(i)' /\ (fate'[i] = "acked" => applied'[i] >= 1)
<1>1. Work # 0 /\ WorkPath
  BY DEF Calls, WorkOK
<1>2. CASE Execute \/ ImmediateSend
  BY <1>2, ExecuteAccounts
<1>3. CASE Counted \/ Retains
  BY <1>3, CountedAccounts
<1>4. CASE Reports
  BY <1>4, ReportsAccounts
<1>5. CASE CleansUp
  BY <1>5, CleansUpAccounts
<1>6. CASE Fails
  <2>1. PICK e \in Outcome \ {"nil"} : Finish(e)
    BY <1>6 DEF Fails
  <2>2. UNCHANGED srvVars /\ pc # "idle" /\ e # "nil"
    BY DriverLeaves, DriverWays
  <2> QED
    BY <2>1, <2>2, FinishAccounts
<1>7. CASE Wanders
  BY <1>7, GoesAccounts DEF Wanders, Succeeded
<1>8. CASE CommitRetaining /\ stack \in AutoStacks
  BY <1>8, RetainAccounts
<1>9. CASE CommitRetainingRead /\ stack \in AutoStacks
  BY <1>9, RetainedAccounts
<1>10. CASE CommitRead \/ RollbackRead \/ BeginTxDone
  BY <1>10, EndsAccounts
<1> QED
  BY <1>1, <1>2, <1>3, <1>4, <1>5, <1>6, <1>7, <1>8, <1>9, <1>10, DriverTurns DEF Turns

\* A step of one call does not take up another, which learns at most how its Tx.Commit ended.
LEMMA OthersMove ==
  ASSUME IInv, OnceInv, FateOK, CommitPlaces, NEW i \in Calls, Work # i,
         Transaction \/ Statement \/ Cursor \/ Ping \/ PingRead \/ Teardown
  PROVE  /\ Work' # i
         /\ \/ fate'[i] = fate[i]
            \/ CommitRead /\ fate[i] = "committing" /\ fate'[i] = IF res = "nil" THEN "acked" ELSE "unsure"
         /\ fate'[i] = "committing" => Commit /\ fate[i] = "committing"
<1>0. i # 0
  BY DEF Calls
<1>1. Work' # i
  <2>1. CASE Goes
    BY <2>1 DEF Goes, Work
  <2>2. ASSUME NEW e, NEW next, Ends(e, next) PROVE Work' # i
    BY <1>0, <2>2, EndMoves, WorkIs DEF Work
  <2> QED
    BY <2>1, <2>2, DriverWays DEF CommitRead, RollbackRead, BeginTxDone, Finish
<1>2. \/ fate'[i] = fate[i]
      \/ CommitRead /\ fate[i] = "committing" /\ fate'[i] = IF res = "nil" THEN "acked" ELSE "unsure"
  <2>1. CASE Goes \/ RollbackRead \/ BeginTxDone
    BY <2>1 DEF Goes, RollbackRead, BeginTxDone
  <2>2. CASE CommitRead
    BY <2>2, WorkIs DEF CommitRead
  <2>3. ASSUME NEW e, Finish(e) PROVE fate'[i] = fate[i]
    BY <2>3, FinishTold
  <2> QED
    BY <2>1, <2>2, <2>3, DriverWays
<1>3. fate'[i] = "committing" => Commit /\ fate[i] = "committing"
  BY <1>2, OnlyCommits DEF CommitPlaces, CommitRead
<1> QED
  BY <1>1, <1>2, <1>3

\* ... and of one that has ended.
LEMMA OtherAccounts ==
  ASSUME IInv, Deadlines, OnceInv, TxOK, FateOK, CommitPlaces, AwaitOK, Agrees, NEW i \in Calls, Work # i,
         Accounted(i), Transaction \/ Statement \/ Cursor \/ Ping \/ PingRead \/ Teardown
  PROVE  Accounted(i)' /\ (fate'[i] = "acked" /\ fate[i] # "acked" => applied'[i] >= 1)
<1>0. i # 0 /\ UNCHANGED srvVars
  BY DriverLeaves DEF Calls
<1>1. Work' # i
  BY OthersMove
<1>2. \/ fate'[i] = fate[i]
      \/ CommitRead /\ fate[i] = "committing" /\ fate'[i] = IF res = "nil" THEN "acked" ELSE "unsure"
  BY OthersMove
<1>3. fate'[i] = "txdone" => Performed(i)'
  <2> SUFFICES ASSUME fate'[i] = "txdone" PROVE Performed(i)'
    OBVIOUS
  <2>1. fate[i] = "txdone" /\ UNCHANGED txVars
    BY <1>2, DriverFates DEF Running
  <2>2. Performed(i)
    BY <2>1 DEF Accounted, Held
  <2> QED
    BY <1>0, <2>1, <2>2 DEF Performed, Doing, txVars, srvVars
<1>4. fate'[i] = "committing" => Commit /\ fate[i] = "committing"
  BY OthersMove
<1>5. fate'[i] = "committing" => pc' = "commit.read" /\ ~Got' /\ \A p \in 1..Len(pend') : Sealing(i, p)'
  <2> SUFFICES ASSUME Commit, fate[i] = "committing"
               PROVE  pc' = "commit.read" /\ ~Got' /\ \A p \in 1..Len(pend') : Sealing(i, p)'
    BY <1>4
  <2>1. pc = "commit" /\ pc' = "commit.read" /\ expect = <<>> /\ Ask("commit", txs[cur].h, 0, armed)
    BY DEF Commit, Goto, At
  <2>2. Performed(i)
    BY <2>1 DEF Accounted, Held
  <2>3. \A p \in 1..Len(pend) : pend[p].op \notin Commits
    BY <2>1, Unthreatened
  <2>4. PICK r : r = Asked("commit", txs[cur].h, 0) /\ Write(<<r>>, <<"commit">>, 0, armed, TRUE)
    BY <2>1 DEF Ask
  <2>5. ~Got' /\ \A p \in 1..Len(pend') : (p \in 1..Len(pend) /\ pend'[p] = pend[p]) \/ pend'[p] = r
    <3>1. <<"commit">> # <<>>
      BY Tails
    <3> QED
      BY <2>4, <3>1, AwaitsOne
  <2>6. ASSUME NEW p \in 1..Len(pend'), pend'[p].op \in Commits
        PROVE  /\ pend'[p].st = "asked" => applied'[i] >= 1 \/ (\A h : h = pend'[p].h => Doing(i, h)')
               /\ pend'[p].st = "ok" => applied'[i] >= 1
    <3>1. pend'[p].st = "asked" /\ pend'[p].h = txs[cur].h
      BY <2>3, <2>4, <2>5, <2>6 DEF Asked
    <3> QED
      BY <1>0, <2>2, <3>1 DEF Performed, Doing, srvVars
  <2> QED
    BY <2>1, <2>5, <2>6 DEF Sealing
<1>6. fate'[i] = "acked" /\ fate[i] # "acked" => applied'[i] >= 1
  <2> SUFFICES ASSUME CommitRead, fate[i] = "committing", res = "nil" PROVE applied'[i] >= 1
    BY <1>2
  <2>1. pc = "commit.read" /\ Got
    BY DEF CommitRead, At, Got
  <2> QED
    BY <1>0, <2>1 DEF Accounted, BeingCommitted, srvVars
<1>7. BeingCommitted(i)' => fate'[i] = "committing"
  BY <1>1 DEF BeingCommitted
<1>8. Held(i)' => fate'[i] = "txdone"
  BY <1>1, <1>5 DEF Held
<1>9. ~(BeingDone(i)') /\ ~(Settled(i)')
  BY <1>1 DEF BeingDone, Settled
<1> QED
  BY <1>3, <1>5, <1>6, <1>7, <1>8, <1>9 DEF Accounted

\* A connection that is given up stays so, and no call succeeds on it.
LEMMA EvictTells ==
  ASSUME IInv, Deadlines, TimedOK, OnceInv, FateOK, Evict, NEW i \in Calls,
         Transaction \/ Statement \/ Cursor \/ Ping \/ PingRead \/ Teardown
  PROVE  Evict' /\ ~(fate'[i] = "acked" /\ fate[i] # "acked")
<1>1. Evict'
  BY EvictMoves
<1>2. ASSUME NEW next \in {"pool", "tx"}, Ends("nil", next) PROVE FALSE
  <2>1. pc' = "idle" /\ holder' \in {"pool", "tx"}
    BY <1>2, EndMoves DEF IsBad
  <2> QED
    BY <1>1, <2>1 DEF Evict
<1>3. ASSUME fate'[i] = "acked", fate[i] # "acked" PROVE FALSE
  <2>1. CASE Goes \/ RollbackRead \/ BeginTxDone
    BY <1>3, <2>1 DEF Goes, RollbackRead, BeginTxDone
  <2>2. CASE CommitRead
    <3>1. res = "nil"
      BY <1>3, <2>2, WorkIs DEF CommitRead
    <3> QED
      BY <1>2, <2>2, <3>1 DEF CommitRead
  <2>3. ASSUME NEW e, Finish(e) PROVE FALSE
    <3>1. e = "nil"
      BY <1>3, <2>3, FinishTold
    <3> QED
      BY <1>2, <2>3, <3>1, FinishMoves
  <2> QED
    BY <2>1, <2>2, <2>3, DriverWays
<1> QED
  BY <1>1, <1>3

\* The driver's steps, on a connection it may already have given up.
LEMMA DriverAccounts ==
  ASSUME IInv, Deadlines, TimedOK, OnceInv, TxOK, FateOK, CommitPlaces, AutoOK, WorkOK, AwaitOK, Sound, NEW i \in Calls,
         Evict \/ Accounted(i), Transaction \/ Statement \/ Cursor \/ Ping \/ PingRead \/ Teardown
  PROVE  /\ Evict' \/ Accounted(i)'
         /\ fate'[i] = "acked" /\ fate[i] # "acked" => applied'[i] >= 1
<1>1. CASE Evict
  BY <1>1, EvictTells
<1>2. CASE ~Evict
  <2>1. Accounted(i) /\ Agrees
    BY <1>2 DEF Sound, Spoiled
  <2>2. CASE Work = i
    <3>1. holder \in {"call", "txcall"}
      <4>1. pc # "idle" /\ holder # "closing"
        BY <1>2, DriverWays DEF Evict
      <4> QED
        BY <4>1 DEF Deadlines, HolderOK, IInv, CallType
    <3> QED
      BY <2>1, <2>2, <3>1, WorkAccounts
  <2>3. CASE Work # i
    BY <2>1, <2>3, OtherAccounts
  <2> QED
    BY <2>2, <2>3
<1> QED
  BY <1>1, <1>2

\* A response that says nothing wrong is the one awaited, and says ok.
LEMMA Obtained ==
  ASSUME IInv, Owed, SqlOK, LazyOK, Agrees, Receive, Got'
  PROVE  pend # <<>> /\ Head(pend).op = Head(expect) /\ Head(pend).st = "ok" /\ expect # <<>> /\ Tail(expect) = <<>>
<1>1. expect # <<>>
  BY Receives
<1>2. ASSUME NEW o, o # "nil", ReadEnds(o) PROVE FALSE
  BY <1>2 DEF ReadEnds, Got
<1>3. ASSUME NEW o, o # "nil", GiveUp(o) PROVE FALSE
  BY <1>2, <1>3 DEF GiveUp
<1>4. ~RecvGarbage /\ ~RecvMalformed /\ ~RecvTimeout
  BY <1>2, <1>3 DEF RecvGarbage, RecvMalformed, RecvTimeout
<1>5. RecvOwn
  BY <1>1, <1>4 DEF Receive, DeadlineFires, RecvSkip, Got
<1>6. ~misread'
  BY <1>5, OwnSound DEF Agrees
<1>7. /\ pend # <<>> /\ Head(pend).st # "asked" /\ Head(pend).op = Head(expect)
      /\ ReadEnds(OutcomeOf(Head(expect), Head(pend)))
  BY <1>5, <1>6 DEF RecvOwn, Arrived
<1>8. OutcomeOf(Head(expect), Head(pend)) = "nil"
  BY <1>2, <1>7
<1>9. Head(pend).st # "err"
  BY <1>8 DEF OutcomeOf
<1>10. Head(pend).st = "ok"
  <2>1. pend \in Seq(Request)
    BY WireParts
  <2>2. Head(pend) \in Request
    BY <1>7, <2>1
  <2> QED
    BY <1>7, <1>9, <2>2 DEF Request, Status
<1>11. Tail(expect) = <<>>
  BY <1>7, <1>8 DEF ReadEnds, Got
<1> QED
  BY <1>1, <1>7, <1>10, <1>11

\* It answers the request that does or commits the work.
LEMMA ObtainedOps ==
  ASSUME IInv, Owed, AwaitOK, expect # <<>>, Tail(expect) = <<>>
  PROVE  /\ pc \in {"execute.read", "immediate.read"} => Head(expect) \in Execs
         /\ pc \in {"commitRetaining.read", "commit.read"} => Head(expect) \in Commits
<1>1. Tail(<<"sql", "execute">>) = <<"execute">> /\ <<"execute">> # <<>>
  BY Tails
<1>2. pc = "execute.read" => expect = <<"execute">>
  BY <1>1 DEF Owed, ExpectOK, ReadPlaces
<1>3. /\ pc = "immediate.read" => expect = <<"execute_immediate">>
      /\ pc = "commitRetaining.read" => expect = <<"commit_retaining">>
      /\ pc = "commit.read" => expect = <<"commit">>
  BY DEF AwaitOK
<1>4. Head(<<"execute">>) = "execute" /\ Head(<<"execute_immediate">>) = "execute_immediate"
  BY Tails
<1>5. Head(<<"commit_retaining">>) = "commit_retaining" /\ Head(<<"commit">>) = "commit"
  BY Tails
<1> QED
  BY <1>2, <1>3, <1>4, <1>5 DEF Execs, Commits

\* A response is read.
LEMMA ReceiveAccounts ==
  ASSUME IInv, Owed, SqlOK, LazyOK, AwaitOK, Agrees, Receive, NEW i \in Calls, Accounted(i)
  PROVE  Accounted(i)'
<1>1. UNCHANGED <<pc, stack, job, err, holder, fate, txVars, srvVars>> /\ expect # <<>>
  BY Receives DEF ctlVars, dataVars, callVars
<1>2. Work' = Work /\ (InTx' <=> InTx) /\ (Decided' <=> Decided)
  BY <1>1 DEF Work, InTx, Decided
<1>3. (BeingDone(i)' <=> BeingDone(i)) /\ (BeingCommitted(i)' <=> BeingCommitted(i)) /\ (Held(i)' <=> Held(i))
  BY <1>1, <1>2 DEF BeingDone, BeingCommitted, Held, Succeeded
<1>4. pc \in ReadPlaces
  BY <1>1 DEF Owed, ExpectOK
<1>5. Settled(i)' => Settled(i)
  BY <1>1, <1>2, <1>4 DEF Settled, Succeeded, ReadPlaces
<1>6. (Performed(i)' <=> Performed(i)) /\ applied'[i] = applied[i] /\ \A h : Doing(i, h)' <=> Doing(i, h)
  BY <1>1 DEF Performed, Doing, txVars, srvVars
<1>7. pend \in Seq(Request) /\ Len(pend) \in Nat
  BY WireParts
<1>8. PICK c \in {0, 1} : \A p \in 1..Len(pend') : p + c \in 1..Len(pend) /\ pend'[p] = pend[p + c]
  <2>1. CASE pend' = pend
    BY <1>7, <2>1
  <2>2. CASE pend # <<>> /\ pend' = Tail(pend)
    BY <1>7, <2>2
  <2> QED
    BY <2>1, <2>2, ReceivesPend
<1>9. BeingDone(i) => \A p \in 1..Len(pend') : Landing(i, p)'
  <2> SUFFICES ASSUME BeingDone(i), NEW p \in 1..Len(pend'), pend'[p].op \in Execs
               PROVE  /\ pend'[p].st = "asked" => pend'[p].w = i /\ pend'[p].h = txs'[cur'].h
                      /\ pend'[p].st = "ok" => Performed(i)'
    BY DEF Landing
  <2>1. PICK q \in 1..Len(pend) : pend'[p] = pend[q]
    BY <1>8
  <2>2. Landing(i, q)
    BY DEF Accounted
  <2> QED
    BY <1>1, <1>6, <2>1, <2>2 DEF Landing, txVars
<1>10. BeingCommitted(i) => \A p \in 1..Len(pend') : Sealing(i, p)'
  <2> SUFFICES ASSUME BeingCommitted(i), NEW p \in 1..Len(pend'), pend'[p].op \in Commits
               PROVE  /\ pend'[p].st = "asked" => applied'[i] >= 1 \/ (\A h : h = pend'[p].h => Doing(i, h)')
                      /\ pend'[p].st = "ok" => applied'[i] >= 1
    BY DEF Sealing
  <2>1. PICK q \in 1..Len(pend) : pend'[p] = pend[q]
    BY <1>8
  <2>2. Sealing(i, q)
    BY DEF Accounted
  <2> QED
    BY <1>6, <2>1, <2>2 DEF Sealing
<1>11. Got' => \E q \in 1..Len(pend) : pend[q].st = "ok" /\ (BeingDone(i) => pend[q].op \in Execs)
                                       /\ (BeingCommitted(i) => pend[q].op \in Commits)
  <2> SUFFICES ASSUME Got' PROVE \E q \in 1..Len(pend) : pend[q].st = "ok" /\ (BeingDone(i) => pend[q].op \in Execs)
                                       /\ (BeingCommitted(i) => pend[q].op \in Commits)
    OBVIOUS
  <2>1. pend # <<>> /\ Head(pend).op = Head(expect) /\ Head(pend).st = "ok" /\ Tail(expect) = <<>>
    BY Obtained
  <2>2. Head(pend) = pend[1] /\ 1 \in 1..Len(pend)
    BY <1>7, <2>1
  <2>3. /\ BeingDone(i) => Head(expect) \in Execs
        /\ BeingCommitted(i) => Head(expect) \in Commits
    BY <1>1, <2>1, ObtainedOps DEF BeingDone, BeingCommitted
  <2> QED
    BY <2>1, <2>2, <2>3
<1>12. Got' /\ BeingDone(i) => Performed(i)
  BY <1>11 DEF Accounted, Landing
<1>13. Got' /\ BeingCommitted(i) => applied[i] >= 1
  BY <1>11 DEF Accounted, Sealing
<1> QED
  BY <1>3, <1>5, <1>6, <1>9, <1>10, <1>12, <1>13 DEF Accounted

\* What the server carries out is not lost, unless a transaction is undone.
LEMMA EffectGains ==
  ASSUME IInv, NEW i \in Calls, NEW j \in 1..Len(pend), pend[j].op \in InTransaction => Open(pend[j].h), Effect(pend[j])
  PROVE  /\ applied[i] >= 1 => applied'[i] >= 1
         /\ pend[j].op \notin {"rollback", "detach"} => \A h : Doing(i, h) => Doing(i, h)' \/ applied'[i] >= 1
         /\ pend[j].op \in Execs /\ pend[j].w = i => \A h : h = pend[j].h => Doing(i, h)'
         /\ pend[j].op \in Commits /\ Doing(i, pend[j].h) => applied'[i] >= 1
<1>0. srv \in Seq(ServerTx) /\ applied \in [Calls -> Nat] /\ Len(srv) \in Nat /\ applied[i] \in Nat
  BY DEF IInv, SrvType
<1>1. PICK t : t = pend[j]
  OBVIOUS
<1>2. t.op \in {"execute", "execute_immediate", "commit", "commit_retaining", "rollback"} => t.h \in 1..Len(srv)
  BY <1>1 DEF InTransaction, Open
<1>3. \A h \in 1..Len(srv) : srv[h] \in [open : BOOLEAN, work : SUBSET Calls]
  <2>1. \A h \in 1..Len(srv) : srv[h] \in ServerTx
    BY <1>0
  <2> QED
    BY <2>1 DEF ServerTx
<1> DEFINE Gains == /\ applied[i] >= 1 => applied'[i] >= 1
                    /\ t.op \notin {"rollback", "detach"} => \A h : Doing(i, h) => Doing(i, h)' \/ applied'[i] >= 1
                    /\ t.op \in Execs /\ t.w = i => \A h : h = t.h => Doing(i, h)'
                    /\ t.op \in Commits /\ Doing(i, t.h) => applied'[i] >= 1
<1>4. ASSUME t.op = "transaction" PROVE Gains
  <2>1. srv' = Append(srv, [open |-> TRUE, work |-> {}]) /\ applied' = applied
    BY <1>1, <1>4 DEF Effect
  <2>2. Len(srv') = Len(srv) + 1 /\ \A h \in 1..Len(srv) : srv'[h] = srv[h]
    BY <1>0, <2>1
  <2>3. \A h : Doing(i, h) => Doing(i, h)'
    BY <1>0, <2>2 DEF Doing
  <2> QED
    BY <1>4, <2>1, <2>3 DEF Execs, Commits
<1>5. ASSUME t.op \in Execs PROVE Gains
  <2>1. srv' = [srv EXCEPT ![t.h].work = @ \cup ({t.w} \cap Calls)] /\ applied' = applied
    BY <1>1, <1>5 DEF Effect, Execs
  <2>2. t.h \in 1..Len(srv)
    BY <1>2, <1>5 DEF Execs
  <2>3. /\ Len(srv') = Len(srv) /\ srv'[t.h].work = srv[t.h].work \cup ({t.w} \cap Calls)
        /\ \A h \in 1..Len(srv) : h # t.h => srv'[h] = srv[h]
    BY <1>0, <1>3, <2>1, <2>2
  <2>4. \A h : Doing(i, h) => Doing(i, h)'
    BY <2>2, <2>3 DEF Doing
  <2>5. t.w = i => \A h : h = t.h => Doing(i, h)'
    BY <2>2, <2>3 DEF Doing
  <2> QED
    BY <1>5, <2>1, <2>4, <2>5 DEF Execs, Commits
<1>6. ASSUME t.op \in Commits PROVE Gains
  <2>1. /\ srv' = [srv EXCEPT ![t.h] = [open |-> t.op = "commit_retaining", work |-> {}]]
        /\ applied' = [c \in Calls |-> IF c \in srv[t.h].work THEN applied[c] + 1 ELSE applied[c]]
    BY <1>1, <1>6 DEF Effect, Commits
  <2>2. t.h \in 1..Len(srv)
    BY <1>2, <1>6 DEF Commits
  <2>3. Len(srv') = Len(srv) /\ \A h \in 1..Len(srv) : h # t.h => srv'[h] = srv[h]
    BY <1>0, <2>1, <2>2
  <2>4. applied'[i] = IF i \in srv[t.h].work THEN applied[i] + 1 ELSE applied[i]
    BY <2>1
  <2>5. Doing(i, t.h) => applied'[i] >= 1
    BY <1>0, <2>4 DEF Doing
  <2>6. \A h : Doing(i, h) /\ h # t.h => Doing(i, h)'
    BY <2>3 DEF Doing
  <2>7. applied[i] >= 1 => applied'[i] >= 1
    BY <1>0, <2>4
  <2> QED
    BY <1>6, <2>5, <2>6, <2>7 DEF Execs, Commits
<1>7. ASSUME t.op = "rollback" PROVE Gains
  <2>1. applied' = applied
    BY <1>1, <1>7 DEF Effect
  <2> QED
    BY <1>7, <2>1 DEF Execs, Commits
<1>8. ASSUME t.op = "detach" PROVE Gains
  <2>1. applied' = applied
    BY <1>1, <1>8 DEF Effect
  <2> QED
    BY <1>8, <2>1 DEF Execs, Commits
<1>9. ASSUME t.op \notin {"transaction", "rollback", "detach"} \cup Execs \cup Commits PROVE Gains
  <2>1. UNCHANGED srvVars
    BY <1>1, <1>9 DEF Effect, Execs, Commits
  <2> QED
    BY <1>9, <2>1 DEF srvVars, Doing
<1>10. Gains
  BY <1>4, <1>5, <1>6, <1>7, <1>8, <1>9
<1> QED
  BY <1>1, <1>10

\* The server answers a request.
LEMMA ServerAccounts ==
  ASSUME IInv, FateOK, CommitPlaces, AwaitOK, Agrees, ~Evict, Deadlines, Server, NEW i \in Calls, Accounted(i)
  PROVE  Accounted(i)'
<1>1. UNCHANGED <<pc, stack, job, err, holder, fate, expect, res, txVars>>
  BY DEF Server, Answer, ctlVars, callVars
<1>2. Work' = Work /\ (InTx' <=> InTx) /\ (Succeeded' <=> Succeeded) /\ (Got' <=> Got)
  BY <1>1 DEF Work, InTx, Decided, Succeeded, Got
<1>3. /\ BeingDone(i)' <=> BeingDone(i)
      /\ BeingCommitted(i)' <=> BeingCommitted(i)
      /\ Held(i)' <=> Held(i)
      /\ Settled(i)' <=> Settled(i)
  BY <1>1, <1>2 DEF BeingDone, BeingCommitted, Held, Settled
<1>4. CASE pc \in {"rollback.read", "close.read", "detach.read"}
  <2>1. pc = "rollback.read"
    BY <1>4 DEF Evict, Deadlines, HolderOK, Closing
  <2>2. ~Decided
    BY <2>1, StackParts DEF Decided
  <2>3. fate[i] # "txdone" /\ fate[i] # "committing"
    BY <2>1 DEF FateOK, Running, Ending, CommitPlaces
  <2> QED
    BY <1>3, <2>1, <2>2, <2>3 DEF Accounted, BeingDone, BeingCommitted, Held, Settled, Succeeded
<1>5. CASE pc \notin {"rollback.read", "close.read", "detach.read"}
  <2>1. PICK j \in 1..Len(pend), st \in {"ok", "err"}, h \in {0, Len(srv) + 1} :
          /\ NextAsked(j) /\ Answer(j, st, h)
          /\ \/ st = "ok" /\ (pend[j].op \in InTransaction => Open(pend[j].h)) /\ Effect(pend[j])
             \/ st = "err" /\ UNCHANGED srvVars
    BY DEF Server
  <2>2. /\ Len(pend') = Len(pend) /\ pend'[j].st = st /\ pend'[j].op = pend[j].op /\ pend[j].st = "asked"
        /\ \A p \in 1..Len(pend) : p # j => pend'[p] = pend[p]
    <3>1. pend \in Seq(Request) /\ pend' = [pend EXCEPT ![j].st = st, ![j].h = h]
      BY <2>1, WireParts DEF Answer
    <3>2. pend[j] \in Request
      BY <3>1
    <3>3. pend' = [pend EXCEPT ![j] = [pend[j] EXCEPT !.st = st, !.h = h]]
      BY <3>1
    <3>4. LET r == [pend[j] EXCEPT !.st = st, !.h = h]
          IN  r.st = st /\ r.op = pend[j].op
      BY <3>2 DEF Request
    <3> QED
      BY <2>1, <3>1, <3>3, <3>4 DEF NextAsked
  <2>3. pend[j].op \notin {"rollback", "detach"}
    BY <1>5, Unthreatened
  <2>4. applied[i] >= 1 => applied'[i] >= 1
    BY <2>1, EffectGains DEF srvVars
  <2>5. \A k : Doing(i, k) => Doing(i, k)' \/ applied'[i] >= 1
    BY <2>1, <2>3, EffectGains DEF srvVars, Doing
  <2>6. st = "ok" /\ pend[j].op \in Execs /\ pend[j].w = i => \A k : k = pend[j].h => Doing(i, k)'
    BY <2>1, EffectGains
  <2>7. st = "ok" /\ pend[j].op \in Commits /\ Doing(i, pend[j].h) => applied'[i] >= 1
    BY <2>1, EffectGains
  <2>8. Performed(i) => Performed(i)'
    <3>1. PICK k : k = txs[cur].h
      OBVIOUS
    <3>2. k = txs'[cur'].h
      BY <1>1, <3>1 DEF txVars
    <3>3. Performed(i) => applied'[i] >= 1 \/ Doing(i, k)'
      BY <2>4, <2>5, <3>1 DEF Performed
    <3>4. Doing(i, k)' => (\A l : l = txs'[cur'].h => Doing(i, l)')
      BY <3>2
    <3> QED
      BY <3>2, <3>3, <3>4 DEF Performed, Doing
  <2>9. ASSUME NEW p \in 1..Len(pend'), Landing(i, p) PROVE Landing(i, p)'
    <3> SUFFICES ASSUME pend'[p].op \in Execs
                 PROVE  /\ pend'[p].st = "asked" => pend'[p].w = i /\ pend'[p].h = txs'[cur'].h
                        /\ pend'[p].st = "ok" => Performed(i)'
      BY DEF Landing
    <3>1. CASE p # j
      <4>1. pend'[p] = pend[p]
        BY <2>2, <2>9, <3>1
      <4> QED
        BY <1>1, <2>8, <2>9, <4>1 DEF Landing, txVars
    <3>2. CASE p = j
      <4>1. pend[j].op \in Execs /\ pend[j].w = i /\ pend[j].h = txs[cur].h
        BY <2>2, <2>9, <3>2 DEF Landing
      <4>2. st = "ok" => Performed(i)'
        <5>1. st = "ok" => \A k : k = txs[cur].h => Doing(i, k)'
          BY <2>6, <4>1
        <5>2. txs'[cur'].h = txs[cur].h
          BY <1>1 DEF txVars
        <5> QED
          BY <5>1, <5>2 DEF Performed, Doing
      <4> QED
        BY <2>1, <2>2, <3>2, <4>2
    <3> QED
      BY <3>1, <3>2
  <2>10. ASSUME NEW p \in 1..Len(pend'), Sealing(i, p) PROVE Sealing(i, p)'
    <3> SUFFICES ASSUME pend'[p].op \in Commits
                 PROVE  /\ pend'[p].st = "asked" => applied'[i] >= 1 \/ (\A k : k = pend'[p].h => Doing(i, k)')
                        /\ pend'[p].st = "ok" => applied'[i] >= 1
      BY DEF Sealing
    <3>1. CASE p # j
      <4>1. pend'[p] = pend[p]
        BY <2>2, <2>10, <3>1
      <4> QED
        BY <2>4, <2>5, <2>10, <4>1 DEF Sealing
    <3>2. CASE p = j
      <4>1. pend[j].op \in Commits /\ (applied[i] >= 1 \/ Doing(i, pend[j].h))
        BY <2>2, <2>10, <3>2 DEF Sealing
      <4> QED
        BY <2>1, <2>2, <2>4, <2>7, <3>2, <4>1
    <3> QED
      BY <3>1, <3>2
  <2> QED
    BY <1>2, <1>3, <2>2, <2>4, <2>8, <2>9, <2>10 DEF Accounted
<1> QED
  BY <1>4, <1>5

\* The socket dies.
LEMMA DeathAccounts ==
  ASSUME IInv, SocketDeath, NEW i, Accounted(i)
  PROVE  Accounted(i)'
<1>1. UNCHANGED <<pc, stack, job, err, holder, fate, expect, res, txVars, srvVars>>
  BY DEF SocketDeath, SocketDies, ctlVars, dataVars, callVars
<1>2. PICK n \in 0..Len(pend) : pend' = SubSeq(pend, 1, n)
  BY DEF SocketDeath, SocketDies
<1>3. Len(pend') = n /\ Len(pend) \in Nat /\ \A p \in 1..n : pend'[p] = pend[p]
  <2>1. pend \in Seq(Request) /\ Len(pend) \in Nat
    BY WireParts
  <2> QED
    BY <1>2, <2>1
<1>4. Work' = Work /\ (InTx' <=> InTx) /\ (Succeeded' <=> Succeeded) /\ (Got' <=> Got)
  BY <1>1 DEF Work, InTx, Decided, Succeeded, Got
<1>5. /\ BeingDone(i)' <=> BeingDone(i)
      /\ BeingCommitted(i)' <=> BeingCommitted(i)
      /\ Held(i)' <=> Held(i)
      /\ Settled(i)' <=> Settled(i)
  BY <1>1, <1>4 DEF BeingDone, BeingCommitted, Held, Settled
<1>6. (Performed(i)' <=> Performed(i)) /\ applied' = applied
  BY <1>1 DEF Performed, Doing, txVars, srvVars
<1>7. ASSUME NEW p \in 1..Len(pend') PROVE (Landing(i, p) => Landing(i, p)') /\ (Sealing(i, p) => Sealing(i, p)')
  <2>1. pend'[p] = pend[p]
    BY <1>3, <1>7
  <2> QED
    BY <1>1, <1>6, <2>1 DEF Landing, Sealing, Doing, txVars, srvVars
<1>8. \A p \in 1..Len(pend') : p \in 1..Len(pend)
  BY <1>3
<1> QED
  BY <1>4, <1>5, <1>6, <1>7, <1>8 DEF Accounted

\* Nothing around a call undoes what is committed.
LEMMA AroundKeeps ==
  ASSUME IInv, NEW i \in Calls, Receive \/ Environment \/ Stopped \/ UNCHANGED vars
  PROVE  applied[i] >= 1 => applied'[i] >= 1
<1>1. CASE Server
  BY <1>1, EffectGains DEF Server, srvVars
<1>2. CASE ~Server
  BY <1>2 DEF Receive, Environment, CtxDone, Watcher, PingWatcher, SocketDeath, Stopped, vars, dataVars, srvVars
<1> QED
  BY <1>1, <1>2

\* What happens around a call.
LEMMA AroundAccounts ==
  ASSUME IInv, Deadlines, FateOK, CommitPlaces, Owed, SqlOK, LazyOK, AwaitOK, Sound, NEW i \in Calls, Evict \/ Accounted(i),
         Receive \/ Environment \/ Stopped \/ UNCHANGED vars
  PROVE  (Evict' \/ Accounted(i)') /\ fate' = fate /\ (applied[i] >= 1 => applied'[i] >= 1)
<1>1. fate' = fate
  BY StaysAround
<1>2. applied[i] >= 1 => applied'[i] >= 1
  BY AroundKeeps
<1>3. CASE CtxDone \/ Watcher \/ Stopped \/ UNCHANGED vars
  <2>1. UNCHANGED <<pc, stack, job, err, holder, fate, pend, expect, res, txVars, srvVars>>
    BY <1>3 DEF CtxDone, Watcher, WatcherCancel, Stopped, vars, wireVars, ctlVars, dataVars, callVars
  <2>2. Accounted(i) => Accounted(i)'
    BY <2>1 DEF Accounted, BeingDone, BeingCommitted, Held, Settled, Landing, Sealing, Performed, Succeeded, Decided, Got,
       Work, InTx, Doing, txVars, srvVars
  <2>3. Evict => Evict'
    <3>1. CASE CtxDone \/ Watcher
      BY <3>1, EvictAround
    <3>2. CASE Stopped \/ UNCHANGED vars
      BY <3>2 DEF Stopped, vars, wireVars, ctlVars, dataVars, callVars, Evict, GivingUp
    <3> QED
      BY <1>3, <3>1, <3>2
  <2> QED
    BY <1>1, <1>2, <2>2, <2>3
<1>4. ~PingWatcher
  BY DEF PingWatcher, Deadlines, PingOK
<1>5. CASE Receive \/ Server \/ SocketDeath
  <2>1. CASE Evict
    BY <1>1, <1>2, <1>5, <2>1, EvictAround
  <2>2. CASE ~Evict
    <3>1. Agrees /\ Accounted(i)
      BY <2>2 DEF Sound, Spoiled
    <3> QED
      BY <1>1, <1>2, <1>5, <2>2, <3>1, ReceiveAccounts, ServerAccounts, DeathAccounts
  <2> QED
    BY <2>1, <2>2
<1> QED
  BY <1>3, <1>4, <1>5 DEF Environment

\* A call that starts has nothing to account for yet, but what the explicit transaction did.
LEMMA StartAccounts ==
  ASSUME NEW i, stack' = <<>>,
         pc' \in {"prepare", "run", "free", "begin", "ping", "immediate", "idle", "rollback"},
         fate'[i] = "txdone" => Performed(i)', fate'[i] # "committing"
  PROVE  Accounted(i)'
<1>1. stack' # <<"exec.done">>
  BY Stacked
<1>2. ~Decided' /\ ~Succeeded'
  BY <1>1 DEF Decided, Succeeded
<1>3. ~BeingDone(i)' /\ ~BeingCommitted(i)' /\ ~Settled(i)'
  BY <1>2 DEF BeingDone, BeingCommitted, Settled
<1>4. Held(i)' => fate'[i] = "txdone"
  BY <1>2 DEF Held
<1> QED
  BY <1>3, <1>4 DEF Accounted

\* A call that starts has not been told anything.
LEMMA CallStartRuns ==
  ASSUME CallStart, NEW i \in Calls, fate'[i] # fate[i]
  PROVE  fate'[i] \in {"run", "txrun"}
<1>1. PICK k \in Kinds \ {"commit", "rollback"} :
        \E c \in ContextsOf(k), s \in ShapesOf(k) :
          fate' = IF s = "select" THEN fate
                  ELSE [fate EXCEPT ![calls + 1] = IF holder = "tx" THEN "txrun" ELSE "run"]
  BY DEF CallStart
<1>2. PICK s \in ShapesOf(k) : fate' = IF s = "select" THEN fate
                  ELSE [fate EXCEPT ![calls + 1] = IF holder = "tx" THEN "txrun" ELSE "run"]
  BY <1>1
<1>3. fate' = [fate EXCEPT ![calls + 1] = IF holder = "tx" THEN "txrun" ELSE "run"]
  BY <1>2
<1>4. CASE i = calls + 1
  BY <1>3, <1>4
<1>5. CASE i # calls + 1
  BY <1>3, <1>5
<1> QED
  BY <1>4, <1>5

\* The application tells nobody anything, and changes nothing on the server.
LEMMA ApplicationTells ==
  ASSUME IInv, CallStart \/ Retry \/ TxEnd \/ Reconnect, NEW i \in Calls
  PROVE  (fate'[i] = "acked" => fate[i] = "acked") /\ applied' = applied
<1>1. CASE CallStart
  BY <1>1, CallMoves, CallStartRuns DEF srvVars
<1>2. CASE Retry
  BY <1>2, RetryMoves DEF srvVars
<1>3. CASE TxEnd
  BY <1>3 DEF TxEnd, srvVars
<1>4. CASE Reconnect
  BY <1>4 DEF Reconnect
<1> QED
  BY <1>1, <1>2, <1>3, <1>4

\* The application's steps: the calls it starts, ...
LEMMA ApplicationAccounts ==
  ASSUME IInv, OnceInv, TxOK, FateOK, CommitPlaces, CallStart \/ Retry \/ TxEnd \/ Reconnect,
         NEW i \in Calls, Evict \/ Accounted(i)
  PROVE  /\ Accounted(i)'
         /\ fate'[i] = "acked" => fate[i] = "acked"
         /\ applied' = applied
<1>1. pc = "idle" /\ stack = <<>> /\ stack' = <<>>
  BY ApplicationMoves, Stacks DEF Plain, Places
<1>2. fate[i] # "committing"
  BY <1>1 DEF CommitPlaces
<1>3. CASE CallStart \/ Retry
  <2>1. UNCHANGED <<srvVars, txVars>> /\ holder \in {"pool", "tx"}
    BY <1>3, CallMoves, RetryMoves
  <2>2. pc' \in {"prepare", "run", "free", "begin", "ping", "immediate"}
    BY <1>3, CallMoves, RetryMoves, Starts, StartsAgain
  <2>3. Accounted(i)
    BY <1>1, <2>1 DEF Evict
  <2>4. fate'[i] # fate[i] => fate'[i] \in {"run", "txrun"}
    <3>1. CASE Retry
      BY <3>1 DEF Retry
    <3>2. CASE CallStart
      BY <3>2, CallStartRuns
    <3> QED
      BY <1>3, <3>1, <3>2
  <2>5. fate'[i] = "txdone" => Performed(i)'
    <3>1. fate'[i] = "txdone" => Performed(i)
      BY <2>3, <2>4 DEF Accounted, Held
    <3>2. Performed(i) => Performed(i)'
      BY <2>1 DEF Performed, Doing, srvVars, txVars
    <3> QED
      BY <3>1, <3>2
  <2>6. fate'[i] # "committing" /\ (fate'[i] = "acked" => fate[i] = "acked")
    BY <1>2, <2>4
  <2>7. Accounted(i)'
    BY <1>1, <2>2, <2>5, <2>6, StartAccounts
  <2> QED
    BY <2>1, <2>6, <2>7 DEF srvVars
<1>4. CASE TxEnd
  <2>1. /\ UNCHANGED <<srvVars, txVars>> /\ holder = "tx" /\ pc' \in {"commit", "rollback"} /\ job'.shape = "select"
        /\ fate' = [k \in Calls |-> IF fate[k] \notin {"txrun", "txdone"} THEN fate[k]
                                    ELSE IF pc' = "rollback" THEN "denied"
                                    ELSE IF fate[k] = "txdone" THEN "committing" ELSE "unsure"]
    BY <1>4 DEF TxEnd, Goto, NoJob
  <2>2. Accounted(i)
    BY <1>1, <2>1 DEF Evict
  <2>3. Performed(i) => Performed(i)'
    BY <2>1 DEF Performed, Doing, srvVars, txVars
  <2>4. fate'[i] # "txdone" /\ (fate'[i] = "acked" => fate[i] = "acked")
    BY <2>1
  <2>5. fate'[i] = "committing" => pc' = "commit" /\ Performed(i)
    BY <1>2, <2>1, <2>2 DEF Accounted, Held
  <2>6. Accounted(i)'
    <3>1. CASE pc' = "rollback"
      BY <1>1, <2>4, <2>5, <3>1, StartAccounts
    <3>2. CASE pc' = "commit"
      <4>1. stack' # <<"exec.done">>
        BY <1>1, Stacked
      <4>2. ~Decided' /\ ~Succeeded'
        BY <3>2, <4>1 DEF Decided, Succeeded
      <4>3. ~BeingDone(i)' /\ ~BeingCommitted(i)' /\ ~Settled(i)'
        BY <3>2, <4>2 DEF BeingDone, BeingCommitted, Settled
      <4>4. Held(i)' => Performed(i)'
        BY <2>3, <2>4, <2>5, <3>2, <4>2 DEF Held
      <4> QED
        BY <4>3, <4>4 DEF Accounted
    <3> QED
      BY <2>1, <3>1, <3>2
  <2> QED
    BY <2>1, <2>4, <2>6 DEF srvVars
<1>5. CASE Reconnect
  <2>1. holder = "gone" /\ pc' = "idle" /\ UNCHANGED <<fate, applied>>
    BY <1>1, <1>5 DEF Reconnect, ctlVars
  <2>2. fate'[i] # "txdone" /\ fate'[i] # "committing"
    BY <1>2, <2>1 DEF FateOK, Running, InTx
  <2>3. Accounted(i)'
    BY <1>1, <2>1, <2>2, StartAccounts
  <2> QED
    BY <2>1, <2>3
<1> QED
  BY <1>3, <1>4, <1>5

\* ... and every step.
LEMMA StepAccounted ==
  ASSUME IInv, Deadlines, TimedOK, OnceInv, TxOK, FateOK, CommitPlaces, AutoOK, WorkOK, AwaitOK, Owed, SqlOK, LazyOK, Sound,
         AckedOK, \A i \in Calls : Evict \/ Accounted(i), [Next]_vars
  PROVE  AckedOK' /\ \A i \in Calls : Evict' \/ Accounted(i)'
<1> SUFFICES ASSUME NEW i \in Calls
             PROVE  (Evict' \/ Accounted(i)') /\ (fate'[i] = "acked" => applied'[i] >= 1)
  BY DEF AckedOK
<1>0. /\ Evict \/ Accounted(i)
      /\ fate[i] = "acked" => applied[i] >= 1
  BY DEF AckedOK
<1>1. CASE Transaction \/ Statement \/ Cursor \/ Ping \/ PingRead \/ Teardown
  <2>1. /\ Evict' \/ Accounted(i)'
        /\ fate'[i] = "acked" /\ fate[i] # "acked" => applied'[i] >= 1
    BY <1>0, <1>1, DriverAccounts
  <2>2. applied' = applied
    BY <1>1, DriverLeaves DEF srvVars
  <2> QED
    BY <1>0, <2>1, <2>2
<1>2. CASE CallStart \/ Retry \/ TxEnd \/ Reconnect
  BY <1>0, <1>2, ApplicationAccounts
<1>3. CASE Receive \/ Environment \/ Stopped \/ UNCHANGED vars
  <2>1. (Evict' \/ Accounted(i)') /\ fate' = fate /\ (applied[i] >= 1 => applied'[i] >= 1)
    BY <1>0, <1>3, AroundAccounts
  <2> QED
    BY <1>0, <2>1
<1> QED
  BY <1>1, <1>2, <1>3 DEF Next, Driver, Application

-----------------------------------------------------------------------------
(***************************************************************************)
(* The same once a malformed packet has torn the stream of an explicit     *)
(* transaction: no response is obtained any more.                          *)
(***************************************************************************)

\* On a stream that is read no further, no response is obtained any more, and what a
\* call already knows is so.
Spent(i) == /\ BeingDone(i) \/ BeingCommitted(i) => ~Got
            /\ Settled(i) => applied[i] >= 1

\* A write that awaits a response has not obtained it.
LEMMA AwaitsNothing ==
  ASSUME IInv, NEW op, NEW h, NEW w, NEW d, Ask(op, h, w, d)
  PROVE  ~Got'
<1>1. PICK r : r = Asked(op, h, w) /\ Write(<<r>>, <<op>>, 0, d, TRUE)
  BY DEF Ask
<1>2. <<op>> # <<>>
  BY Tails
<1> QED
  BY <1>1, <1>2, AwaitsOne

\* The end of a call.
LEMMA FinishSpent ==
  ASSUME IInv, OnceInv, TxOK, FateOK, CommitPlaces, NEW i \in Calls, Work = i, NEW e, Finish(e), pc # "idle",
         e = "nil" => InTx \/ applied[i] >= 1, UNCHANGED srvVars
  PROVE  Spent(i)' /\ (fate'[i] = "acked" => applied'[i] >= 1)
<1>0. i # 0 /\ fate[i] = IF InTx THEN "txrun" ELSE "run"
  BY DEF Calls, FateOK
<1>1. Work' = 0
  <2>1. \E next \in {"pool", "tx"} : Ends(e, next)
    BY FinishMoves
  <2>2. job' = NoJob
    BY <2>1, EndMoves
  <2> QED
    BY <2>2, WorkIs DEF Work
<1>2. fate'[i] = fate[i] \/ (e = "nil" /\ fate'[i] = IF InTx THEN "txdone" ELSE "acked")
  BY FinishTold
<1>3. fate'[i] \in {"txrun", "run"} \/ (e = "nil" /\ fate'[i] = IF InTx THEN "txdone" ELSE "acked")
  BY <1>0, <1>2
<1>4. fate'[i] = "acked" => applied'[i] >= 1
  BY <1>3 DEF srvVars
<1>5. fate'[i] # "committing"
  BY <1>3
<1> QED
  BY <1>0, <1>1, <1>4, <1>5 DEF Spent, BeingDone, BeingCommitted, Settled

\* A step of a call that goes on and awaits nothing of its work.
LEMMA GoesSpent ==
  ASSUME IInv, OnceInv, TxOK, FateOK, NEW i \in Calls, Work = i, Transaction \/ Statement \/ Cursor \/ Ping \/ PingRead \/ Teardown,
         job' = job, pc' \notin Stages, stack' \notin AutoStacks,
         Succeeded' => InTx \/ applied'[i] >= 1
  PROVE  Spent(i)' /\ (fate'[i] = "acked" => applied'[i] >= 1)
<1>1. i # 0
  BY DEF Calls
<1>2. Work' = i /\ fate' = fate /\ (InTx' <=> InTx)
  BY <1>1, StaysIn
<1>3. fate'[i] \in {"txrun", "run"}
  BY <1>1, <1>2 DEF FateOK
<1> QED
  BY <1>2, <1>3 DEF Spent, BeingDone, BeingCommitted, Settled, Stages

\* The work is sent off, or its commit.
LEMMA SendsSpent ==
  ASSUME IInv, OnceInv, FateOK, NEW i \in Calls, Work = i, Execute \/ ImmediateSend \/ (CommitRetaining /\ stack \in AutoStacks)
  PROVE  Spent(i)' /\ (fate'[i] = "acked" => applied'[i] >= 1)
<1>1. i # 0 /\ fate[i] \in {"run", "txrun"}
  BY DEF Calls, FateOK
<1>2. CASE Execute \/ ImmediateSend
  <2>1. /\ UNCHANGED fate /\ stack' = stack
        /\ pc \in {"execute", "immediate.send"} /\ pc' \in {"execute.read", "immediate.read"}
    BY <1>2 DEF Execute, ImmediateSend, Goto, dataVars, callVars, At
  <2>2. stack = <<>>
    BY <2>1, Stacks DEF Plain, Places
  <2>3. stack' # <<"exec.done">>
    BY <2>1, <2>2, Stacked
  <2>4. ~Got'
    BY <1>2, ExecuteAsks
  <2>5. ~(Settled(i)')
    BY <2>1, <2>3 DEF Settled, Succeeded, Decided
  <2> QED
    BY <1>1, <2>1, <2>4, <2>5 DEF Spent
<1>3. CASE CommitRetaining /\ stack \in AutoStacks
  <2>1. UNCHANGED fate /\ stack' = stack /\ pc' = "commitRetaining.read" /\ Ask("commit_retaining", txs[cur].h, 0, "fixed")
    BY <1>3 DEF CommitRetaining, Goto, dataVars, callVars
  <2>2. stack' # <<"exec.done">>
    BY <1>3, <2>1, AutoApart
  <2>3. ~Got'
    BY <2>1, AwaitsNothing
  <2>4. ~(Settled(i)')
    BY <2>1, <2>2 DEF Settled, Succeeded, Decided
  <2> QED
    BY <1>1, <2>1, <2>3, <2>4 DEF Spent
<1> QED
  BY <1>2, <1>3

\* A call with work that succeeds has nothing left to commit.
LEMMA SucceedsSpent ==
  ASSUME IInv, AutoOK, NEW i, Work = i, Spent(i), Succeeds, holder \in {"call", "txcall"}
  PROVE  InTx \/ applied[i] >= 1
<1>1. CASE pc \in {"exec.committed", "immediate.done"} /\ res = "nil"
  BY <1>1 DEF Spent, Settled
<1>2. CASE pc = "immediate.read" /\ Got
  BY <1>2 DEF Spent, BeingDone
<1>3. CASE pc = "info.read" /\ ~txs[cur].auto
  <2>1. cur # 0
    BY <1>3, TxThere DEF Places, NilTxPlaces
  <2> QED
    BY <1>3, <2>1 DEF AutoOK, InTx
<1> QED
  BY <1>1, <1>2, <1>3 DEF Succeeds

\* The steps of a call with work, ...
LEMMA WorkSpent ==
  ASSUME IInv, Deadlines, OnceInv, TxOK, FateOK, CommitPlaces, AutoOK, WorkOK, NEW i \in Calls, Work = i,
         Spent(i), holder \in {"call", "txcall"}, Transaction \/ Statement \/ Cursor \/ Ping \/ PingRead \/ Teardown
  PROVE  Spent(i)' /\ (fate'[i] = "acked" => applied'[i] >= 1)
<1>1. Work # 0 /\ WorkPath /\ fate[i] \in {"run", "txrun"}
  BY DEF Calls, WorkOK, FateOK
<1>2. UNCHANGED srvVars /\ pc # "idle"
  BY DriverLeaves, DriverWays
<1>3. CASE Counted
  BY <1>3 DEF Counted, Spent, BeingDone
<1>4. CASE Retains
  <2>1. job' = job /\ pc' = "commitRetaining" /\ stack' # <<"exec.done">>
    BY <1>4, AutoApart DEF Retains
  <2>2. Work' = i /\ fate' = fate
    BY <1>1, <2>1, StaysIn
  <2>3. ~(BeingDone(i)') /\ ~(BeingCommitted(i)') /\ ~(Settled(i)')
    BY <2>1 DEF BeingDone, BeingCommitted, Settled, Succeeded, Decided
  <2> QED
    BY <1>1, <2>2, <2>3 DEF Spent
<1>5. CASE Reports
  <2>1. InTx \/ applied[i] >= 1
    BY <1>5, SucceedsSpent DEF Reports
  <2>2. CASE Finish("nil")
    BY <1>2, <2>1, <2>2, FinishSpent
  <2>3. CASE pc' = "free" /\ stack' = <<"exec.done">> /\ job' = job
    <3>1. pc' \notin Stages /\ stack' \notin AutoStacks
      BY <2>3, AutoApart DEF Stages
    <3>2. InTx \/ applied'[i] >= 1
      BY <1>2, <2>1 DEF srvVars
    <3> QED
      BY <2>3, <3>1, <3>2, GoesSpent
  <2> QED
    BY <1>5, <2>2, <2>3 DEF Reports
<1>6. CASE CleansUp
  <2>1. err = "nil" => InTx \/ applied[i] >= 1
    BY <1>6 DEF CleansUp, Spent, Settled, Succeeded
  <2>2. CASE Finish(err)
    BY <1>2, <2>1, <2>2, FinishSpent
  <2>3. CASE Decided' /\ err' = err /\ job' = job /\ pc' \notin Stages /\ stack' \notin AutoStacks
    <3>1. err = "nil" => InTx \/ applied'[i] >= 1
      BY <1>2, <2>1 DEF srvVars
    <3> QED
      BY <2>3, <3>1, GoesSpent DEF Succeeded
  <2> QED
    BY <1>6, <2>2, <2>3 DEF CleansUp
<1>7. CASE Fails
  <2>1. PICK e \in Outcome \ {"nil"} : Finish(e)
    BY <1>7 DEF Fails
  <2> QED
    BY <1>2, <2>1, FinishSpent
<1>8. CASE Wanders
  BY <1>8, GoesSpent DEF Wanders, Succeeded
<1>9. CASE CommitRetainingRead /\ stack \in AutoStacks
  <2>1. /\ pc = "commitRetaining.read" /\ stack = <<pc'>> /\ stack' = <<>> /\ fate' = fate
        /\ ReadTimeoutCleared /\ expect = <<>>
    BY <1>9, RetainedMoves DEF callVars
  <2>2. res # "nil" /\ res' = res
    BY <1>9, <2>1, Clears DEF Spent, BeingCommitted, Got
  <2>3. pc' \in {"exec.committed", "immediate.done"} /\ stack' # <<"exec.done">>
    BY <1>9, <2>1, Stacked DEF AutoStacks
  <2>4. ~(BeingDone(i)') /\ ~(BeingCommitted(i)') /\ ~(Settled(i)')
    BY <2>2, <2>3 DEF BeingDone, BeingCommitted, Settled, Succeeded, Decided
  <2> QED
    BY <1>1, <2>1, <2>4 DEF Spent
<1>10. CASE CommitRead \/ RollbackRead \/ BeginTxDone
  <2>1. job' = NoJob
    BY <1>10, EndMoves DEF CommitRead, RollbackRead, BeginTxDone
  <2>2. Work' = 0
    BY <2>1, WorkIs DEF Work
  <2>3. fate'[i] = fate[i]
    BY <1>1, <1>10, WorkIs DEF CommitRead, RollbackRead, BeginTxDone
  <2> QED
    BY <1>1, <2>2, <2>3 DEF Spent, BeingDone, BeingCommitted, Settled
<1> QED
  BY <1>1, <1>3, <1>4, <1>5, <1>6, <1>7, <1>8, <1>9, <1>10, DriverTurns, SendsSpent DEF Turns

\* ... and of the others.
LEMMA OtherSpent ==
  ASSUME IInv, OnceInv, FateOK, CommitPlaces, NEW i \in Calls, Work # i,
         Spent(i), Transaction \/ Statement \/ Cursor \/ Ping \/ PingRead \/ Teardown
  PROVE  Spent(i)' /\ (fate'[i] = "acked" => fate[i] = "acked")
<1>1. /\ Work' # i
      /\ \/ fate'[i] = fate[i]
         \/ CommitRead /\ fate[i] = "committing" /\ fate'[i] = IF res = "nil" THEN "acked" ELSE "unsure"
      /\ fate'[i] = "committing" => Commit
  BY OthersMove
<1>2. CommitRead /\ fate[i] = "committing" => res # "nil"
  <2> SUFFICES ASSUME CommitRead, fate[i] = "committing", res = "nil" PROVE FALSE
    OBVIOUS
  <2>1. pc = "commit.read" /\ Got
    BY DEF CommitRead, At, Got
  <2> QED
    BY <2>1 DEF Spent, BeingCommitted
<1>3. Commit => ~Got'
  BY AwaitsNothing DEF Commit
<1> QED
  BY <1>1, <1>2, <1>3 DEF Spent, BeingDone, BeingCommitted, Settled

\* The driver's steps, on a connection it may already have given up.
LEMMA DriverSpent ==
  ASSUME IInv, Deadlines, TimedOK, OnceInv, TxOK, FateOK, CommitPlaces, AutoOK, WorkOK, NEW i \in Calls,
         Evict \/ Spent(i), Transaction \/ Statement \/ Cursor \/ Ping \/ PingRead \/ Teardown
  PROVE  /\ Evict' \/ Spent(i)'
         /\ fate'[i] = "acked" /\ fate[i] # "acked" => applied'[i] >= 1
<1>1. CASE Evict
  BY <1>1, EvictTells
<1>2. CASE ~Evict /\ Work # i
  BY <1>2, OtherSpent
<1>3. CASE ~Evict /\ Work = i
  <2>1. pc # "idle" /\ holder # "closing"
    BY <1>3, DriverWays DEF Evict
  <2>2. holder \in {"call", "txcall"}
    BY <2>1 DEF Deadlines, HolderOK, IInv, CallType
  <2> QED
    BY <1>3, <2>2, WorkSpent
<1> QED
  BY <1>1, <1>2, <1>3

\* A read that failed.
LEMMA FailedSpent ==
  ASSUME IInv, Owed, Receive, ~Got', NEW i, Accounted(i) \/ Spent(i)
  PROVE  Spent(i)'
<1>1. UNCHANGED <<pc, stack, job, err, holder, fate, txVars, srvVars>> /\ expect # <<>>
  BY Receives DEF ctlVars, dataVars, callVars
<1>2. pc \in ReadPlaces
  BY <1>1 DEF Owed, ExpectOK
<1>3. Settled(i)' => Settled(i)
  BY <1>1, <1>2 DEF Settled, Succeeded, Decided, Work, InTx, ReadPlaces
<1> QED
  BY <1>1, <1>3 DEF Spent, Accounted, srvVars

\* What happens around a call.
LEMMA AroundSpent ==
  ASSUME IInv, Deadlines, Owed, Torn, NEW i \in Calls, Evict \/ Spent(i),
         Receive \/ Environment \/ Stopped \/ UNCHANGED vars
  PROVE  Evict' \/ Spent(i)'
<1>1. applied[i] >= 1 => applied'[i] >= 1
  BY AroundKeeps
<1>2. CASE Receive
  <2>1. CASE Evict
    BY <1>2, <2>1, EvictAround
  <2>2. CASE ~Evict
    <3>1. ~Arrived
      BY DEF Arrived, Torn
    <3>2. ~RecvSkip /\ ~RecvMalformed /\ ~RecvOwn
      BY <3>1 DEF RecvSkip, RecvMalformed, RecvOwn, ToSkip
    <3>3. GiveUp("other") \/ GiveUp("timeout")
      BY <1>2, <3>2 DEF Receive, RecvGarbage, DeadlineFires, RecvTimeout
    <3>4. res' # "nil"
      BY <3>3 DEF GiveUp, ReadEnds
    <3> QED
      BY <1>2, <2>2, <3>4, FailedSpent DEF Got
  <2> QED
    BY <2>1, <2>2
<1>3. ~PingWatcher
  BY DEF PingWatcher, Deadlines, PingOK
<1>4. CASE CtxDone \/ Watcher \/ SocketDeath \/ Server \/ Stopped \/ UNCHANGED vars
  <2>1. UNCHANGED <<pc, stack, job, err, holder, fate, expect, res>>
    BY <1>4 DEF CtxDone, Watcher, WatcherCancel, SocketDeath, SocketDies, Server, Answer, Stopped, vars, wireVars, ctlVars,
                dataVars, callVars
  <2>2. Spent(i) => Spent(i)'
    BY <1>1, <2>1 DEF Spent, BeingDone, BeingCommitted, Settled, Succeeded, Decided, Got, Work, InTx
  <2>3. Evict => Evict'
    <3>1. CASE CtxDone \/ Watcher \/ SocketDeath \/ Server
      BY <3>1, EvictAround
    <3>2. CASE Stopped \/ UNCHANGED vars
      BY <3>2 DEF Stopped, vars, wireVars, ctlVars, dataVars, callVars, Evict, GivingUp
    <3> QED
      BY <1>4, <3>1, <3>2
  <2> QED
    BY <2>2, <2>3
<1> QED
  BY <1>2, <1>3, <1>4 DEF Environment

\* The application's steps.
LEMMA ApplicationSpent ==
  ASSUME IInv, CallStart \/ Retry \/ TxEnd, NEW i
  PROVE  Spent(i)'
<1>1. stack' = <<>>
  BY ApplicationMoves, Stacks DEF Plain, Places
<1>2. stack' # <<"exec.done">>
  BY <1>1, Stacked
<1>3. pc' \in {"prepare", "run", "free", "begin", "ping", "immediate", "commit", "rollback"}
  <2>1. CASE CallStart \/ Retry
    BY <2>1, CallMoves, RetryMoves, Starts, StartsAgain
  <2>2. CASE TxEnd
    BY <2>2 DEF TxEnd, Goto
  <2> QED
    BY <2>1, <2>2
<1>4. ~(BeingDone(i)') /\ ~(BeingCommitted(i)') /\ ~(Settled(i)')
  BY <1>2, <1>3 DEF BeingDone, BeingCommitted, Settled, Succeeded, Decided
<1> QED
  BY <1>4 DEF Spent

\* A new connection has nothing to account for.
LEMMA InitAccounted ==
  ASSUME Init
  PROVE  AwaitOK /\ WorkOK /\ AutoOK /\ CommitPlaces /\ AckedOK /\ \A i \in Calls : Evict \/ Accounted(i)
<1>1. /\ pc = "idle" /\ stack = <<>> /\ job = NoJob /\ again = NoJob /\ expect = <<>> /\ holder = "pool"
      /\ txs = NewConnection /\ cur = 1
      /\ \A i \in Calls : fate[i] = "none"
  BY DEF Init, WireInit
<1>2. NoJob.shape = "select" /\ NoJob.id = 0
  BY DEF NoJob
<1>3. AwaitOK
  BY <1>1, MildOnes DEF AwaitOK, EndReads
<1>4. WorkOK
  BY <1>1, <1>2 DEF WorkOK, Work
<1>5. AutoOK
  BY <1>1 DEF AutoOK, NewConnection
<1>6. CommitPlaces /\ AckedOK
  BY <1>1 DEF CommitPlaces, AckedOK
<1>7. stack # <<"exec.done">>
  BY <1>1, Stacked
<1>8. \A i \in Calls : Accounted(i)
  BY <1>1, <1>7 DEF Accounted, BeingDone, BeingCommitted, Held, Settled, Succeeded, Decided
<1> QED
  BY <1>3, <1>4, <1>5, <1>6, <1>8

\* What is known of the work of the calls while the stream is in order, and after it is torn.
Orders == Orderly /\ \A i \in Calls : Evict \/ Accounted(i)
Tears  == Torn /\ \A i \in Calls : Evict \/ Spent(i)

\* Every step keeps the one, unless a malformed packet makes it the other; ...
LEMMA StepOrders ==
  ASSUME Served, Basics, Basics', OnceInv, TxOK, FateOK, CommitPlaces, AutoOK, WorkOK, AwaitOK, AckedOK, Orders, [Next]_vars
  PROVE  AckedOK' /\ (Orders' \/ Tears')
<1>0. /\ IInv /\ Deadlines /\ TimedOK /\ Owed /\ SqlOK /\ LazyOK /\ Sound /\ Orderly
      /\ \A i \in Calls : Evict \/ Accounted(i)
  BY DEF Basics, Orders, Orderly
<1>1. AckedOK' /\ \A i \in Calls : Evict' \/ Accounted(i)'
  BY <1>0, StepAccounted
<1>2. CASE ReadsWell
  BY <1>0, <1>1, <1>2, StepOrderly DEF Orders
<1>3. CASE ~ReadsWell
  <2>1. Receive /\ RecvMalformed /\ "begin" \in Kinds /\ "malformed" \in Faults
    BY <1>3 DEF ReadsWell, TxReadsWell
  <2>2. Orderly' \/ Torn'
    BY <1>0, <2>1, MalformedTears
  <2>3. ~Got'
    BY <2>1 DEF RecvMalformed, ReadEnds, Got
  <2>4. ASSUME NEW i \in Calls PROVE Evict' \/ Spent(i)'
    <3>1. CASE Evict
      BY <1>0, <2>1, <3>1, EvictAround
    <3>2. CASE Accounted(i)
      BY <1>0, <2>1, <2>3, <3>2, FailedSpent
    <3> QED
      BY <1>0, <3>1, <3>2
  <2> QED
    BY <1>1, <2>2, <2>4 DEF Orders, Tears
<1> QED
  BY <1>2, <1>3

\* ... and the other, until a new connection.
LEMMA StepTears ==
  ASSUME Basics, OnceInv, TxOK, FateOK, CommitPlaces, AutoOK, WorkOK, AckedOK, Tears, [Next]_vars
  PROVE  AckedOK' /\ (Orders' \/ Tears')
<1>0. /\ IInv /\ Deadlines /\ TimedOK /\ Owed /\ Torn
      /\ \A i \in Calls : Evict \/ Spent(i)
      /\ \A i \in Calls : fate[i] = "acked" => applied[i] >= 1
  BY DEF Basics, Tears, AckedOK
<1>1. CASE Reconnect
  <2>1. Orderly'
    BY <1>0, <1>1, ReconnectOrderly
  <2>2. Evict
    BY <1>1 DEF Reconnect, Evict
  <2>3. ASSUME NEW i \in Calls PROVE Accounted(i)' /\ (fate'[i] = "acked" => fate[i] = "acked") /\ applied' = applied
    BY <1>0, <1>1, <2>2, ApplicationAccounts
  <2> QED
    BY <1>0, <2>1, <2>3 DEF Orders, AckedOK
<1>2. CASE ~Reconnect
  <2>1. Torn'
    BY <1>0, <1>2, StepTorn
  <2>2. ASSUME NEW i \in Calls PROVE (Evict' \/ Spent(i)') /\ (fate'[i] = "acked" => applied'[i] >= 1)
    <3>1. CASE Transaction \/ Statement \/ Cursor \/ Ping \/ PingRead \/ Teardown
      <4>1. /\ Evict' \/ Spent(i)'
            /\ fate'[i] = "acked" /\ fate[i] # "acked" => applied'[i] >= 1
        BY <1>0, <3>1, DriverSpent
      <4>2. applied' = applied
        BY <3>1, DriverLeaves DEF srvVars
      <4> QED
        BY <1>0, <4>1, <4>2
    <3>2. CASE CallStart \/ Retry \/ TxEnd
      <4>1. Spent(i)' /\ (fate'[i] = "acked" => fate[i] = "acked") /\ applied' = applied
        BY <1>0, <3>2, ApplicationSpent, ApplicationTells
      <4> QED
        BY <1>0, <4>1
    <3>3. CASE Receive \/ Environment \/ Stopped \/ UNCHANGED vars
      <4>1. (Evict' \/ Spent(i)') /\ (applied[i] >= 1 => applied'[i] >= 1) /\ fate' = fate
        BY <1>0, <3>3, AroundSpent, AroundKeeps, StaysAround
      <4> QED
        BY <1>0, <4>1
    <3> QED
      BY <1>2, <3>1, <3>2, <3>3 DEF Next, Driver, Application
  <2> QED
    BY <2>1, <2>2 DEF Tears, AckedOK
<1> QED
  BY <1>1, <1>2

\* statement.go Exec, connection.go ExecImmediate, transaction.go Commit: a call that was told
\* that it succeeded has its work committed, exactly once, whatever was lost, retried or cancelled
\* meanwhile, on a connection spared what the hypotheses name: among others, that a row's columns
\* are read before the deadline of the Next that fetched it (rows.go:173).
THEOREM AckedAppliedAlways ==
  ASSUME Served, PlainQueries
  PROVE  Spec => []AckedApplied
<1> DEFINE I == /\ Basics /\ ResOK /\ OnceInv /\ TxOK /\ BeginOK /\ FateOK
                /\ AwaitOK /\ WorkOK /\ AutoOK /\ CommitPlaces
                /\ AckedOK /\ (Orders \/ Tears)
<1>1. Init => I
  BY InitOrderly, InitOnce, InitGuarded, InitAccounted DEF Orders
<1>2. I /\ [Next]_vars => I'
  <2> SUFFICES ASSUME I, [Next]_vars PROVE I'
    OBVIOUS
  <2>1. IInv /\ Deadlines /\ Owed
    BY DEF Basics
  <2>2. Basics' /\ IInv'
    BY StepBasics DEF Basics
  <2>3. ResOK' /\ OnceInv' /\ TxOK' /\ BeginOK' /\ FateOK'
    BY <2>1, <2>2, StepRes, StepOnce, StepTx, StepBegin, StepFate
  <2>4. AwaitOK' /\ WorkOK' /\ AutoOK' /\ CommitPlaces'
    BY <2>1, StepAwait, StepWork, StepAuto, StepPlaces
  <2>5. AckedOK' /\ (Orders' \/ Tears')
    BY <2>2, StepOrders, StepTears
  <2> QED
    BY <2>2, <2>3, <2>4, <2>5
<1>3. I => AckedApplied
  <2> SUFFICES ASSUME I, NEW i \in Calls, fate[i] = "acked" PROVE applied[i] = 1
    BY DEF AckedApplied
  <2>1. applied[i] >= 1
    BY DEF AckedOK
  <2>2. applied[i] <= 1
    BY DEF OnceInv, Singles, Once
  <2>3. applied[i] \in Nat
    BY DEF Basics, IInv, SrvType
  <2> QED
    BY <2>1, <2>2, <2>3
<1> QED
  BY <1>1, <1>2, <1>3, PTL DEF Spec
=============================================================================
