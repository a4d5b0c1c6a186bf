-------------------------- MODULE FbSession_proofs --------------------------
(***************************************************************************)
(* What holds of every behaviour of FbSession, for every choice of calls,  *)
(* faults, contexts, columns and bounds: first TypeOK and StreamAligned,   *)
(* from the inductive invariant IInv (FbWire_proofs says what each exchange*)
(* preserves); then NoPanic, CancelledEvicted, NoMisread and PoolAligned,  *)
(* each from hypotheses on the constants that leave out what the driver    *)
(* does not survive, and from IInv strengthened by Deadlines and what each *)
(* section below adds to it.  FbSessionWork_proofs goes on from here.      *)
(***************************************************************************)
EXTENDS FbSession, FbWire_proofs

CallOK == CallType /\ RetryOK

LEMMA IInvParts ==
  IInv <=> /\ WireInv /\ ControlOK /\ ReclaimOK
           /\ CallOK /\ TxType /\ SrvType /\ SideType
  BY DEF IInv, CallOK

LEMMA WireTypes ==
  ASSUME WireInv
  PROVE  /\ pend \in Seq(Request) /\ lazy \in Nat /\ expect \in Seq(Ops)
         /\ armed \in Deadline /\ res \in Outcome /\ reply \in Nat
  BY DEF WireInv, WireTypeOK

\* What is left alone keeps its type.
LEMMA Kept ==
  ASSUME IInv
  PROVE  /\ UNCHANGED wireVars => WireInv'
         /\ UNCHANGED callVars => CallOK'
         /\ UNCHANGED txVars => TxType'
         /\ UNCHANGED srvVars => SrvType'
         /\ UNCHANGED sideVars => SideType'
<1>1. UNCHANGED wireVars => WireInv'  BY WireStutter DEF IInv
<1>2. UNCHANGED callVars => CallOK'
  BY DEF IInv, callVars, CallOK, CallType, RetryOK
<1>3. UNCHANGED txVars => TxType'  BY DEF IInv, txVars, TxType
<1>4. UNCHANGED srvVars => SrvType'  BY DEF IInv, srvVars, SrvType
<1>5. UNCHANGED sideVars => SideType'  BY DEF IInv, sideVars, SideType
<1> QED  BY <1>1, <1>2, <1>3, <1>4, <1>5

\* The places at which no subroutine is running.
Plain == Places \ {"tx.begin", "tx.begun", "commitRetaining", "commitRetaining.read",
                   "free", "free.read", "panic"}

LEMMA StackAt ==
  /\ \A l \in Plain : StacksAt(l) = {<<>>}
  /\ \A l \in {"tx.begin", "tx.begun"} :
        StacksAt(l) = {<<"prepare.begun">>, <<"run.begun">>, <<"immediate.begun">>,
                       <<"begin.done">>}
  /\ \A l \in {"commitRetaining", "commitRetaining.read"} :
        StacksAt(l) = {<<"exec.committed">>, <<"immediate.done">>, <<"exec.done">>,
                       <<"freed">>}
  /\ \A l \in {"free", "free.read", "panic"} : StacksAt(l) = {<<>>, <<"exec.done">>}
  BY DEF StacksAt, Plain

LEMMA ReturnsSeq == ControlOK => stack \in Seq(Returns)
<1> SUFFICES ASSUME ControlOK PROVE stack \in Seq(Returns)
  OBVIOUS
<1>1. pc \in Plain \/ pc \in {"tx.begin", "tx.begun"}
      \/ pc \in {"commitRetaining", "commitRetaining.read"}
      \/ pc \in {"free", "free.read", "panic"}
  BY DEF ControlOK, Plain
<1>2. stack \in {<<>>, <<"prepare.begun">>, <<"run.begun">>, <<"immediate.begun">>,
                 <<"begin.done">>, <<"exec.committed">>, <<"immediate.done">>,
                 <<"exec.done">>, <<"freed">>}
  BY <1>1, StackAt DEF ControlOK
<1>3. /\ <<>> \in Seq(Returns) /\ <<"prepare.begun">> \in Seq(Returns)
      /\ <<"run.begun">> \in Seq(Returns) /\ <<"begin.done">> \in Seq(Returns)
      /\ <<"exec.committed">> \in Seq(Returns) /\ <<"exec.done">> \in Seq(Returns)
      /\ <<"freed">> \in Seq(Returns) /\ <<"immediate.begun">> \in Seq(Returns)
      /\ <<"immediate.done">> \in Seq(Returns)
  BY DEF Returns
<1> QED  BY <1>2, <1>3

\* IInv has the type invariant and the alignment of the stream as conjuncts.
LEMMA IInvImplies == IInv => TypeOK /\ StreamAligned
  BY ReturnsSeq DEF IInv, TypeOK, ControlOK, WireInv

-----------------------------------------------------------------------------
(***************************************************************************)
(* Moving on inside a call.                                                *)
(***************************************************************************)
LEMMA MovedInv ==
  ASSUME WireInv', CallOK', TxType', SrvType', SideType',
         ControlOK', pc' # "allocate.read"
  PROVE  IInv'
  BY DEF ReclaimOK, IInv, CallOK

\* A goroutine that goes on to l with its stack.
LEMMA GotoInv ==
  ASSUME IInv, NEW l \in Plain \ {"allocate.read"}, Goto(l), stack = <<>>,
         cur = 0 => l \in NilTxPlaces,
         UNCHANGED <<cur, holder>>, txs' # <<>>,
         WireInv', CallOK', TxType', SrvType', SideType'
  PROVE  IInv'
<1>1. pc' = l /\ stack' = <<>>  BY DEF Goto
<1>2. ControlOK'
  BY <1>1, StackAt DEF IInv, ControlOK, Plain
<1> QED  BY <1>1, <1>2, MovedInv

\* Entering a subroutine, and returning from one.
LEMMA EnterInv ==
  ASSUME IInv, NEW l \in Places \ {"allocate.read"}, NEW r, Enter(l, r),
         stack = <<>>, <<r>> \in StacksAt(l), cur # 0,
         UNCHANGED <<cur, holder>>, txs' # <<>>,
         WireInv', CallOK', TxType', SrvType', SideType'
  PROVE  IInv'
<1>1. pc' = l /\ stack' = <<r>>  BY DEF Enter
<1>2. ControlOK'
  BY <1>1 DEF IInv, ControlOK
<1> QED  BY <1>1, <1>2, MovedInv

LEMMA Returning ==
  ASSUME NEW r, stack = <<r>>, Return
  PROVE  pc' = r /\ stack' = <<>>
  BY DEF Return

LEMMA ReturnInv ==
  ASSUME IInv, NEW r \in Returns, stack = <<r>>, Return,
         cur = 0 => r \in NilTxPlaces,
         UNCHANGED <<cur, holder>>, txs' # <<>>,
         WireInv', CallOK', TxType', SrvType', SideType'
  PROVE  IInv'
<1>1. pc' = r /\ stack' = <<>>  BY Returning
<1>2. r \in Plain \ {"allocate.read"}  BY DEF Returns, Plain, Places
<1>3. ControlOK'
  BY <1>1, <1>2, StackAt DEF IInv, ControlOK, Plain
<1> QED  BY <1>1, <1>2, <1>3, MovedInv

-----------------------------------------------------------------------------
(***************************************************************************)
(* Ending a call.                                                          *)
(***************************************************************************)
LEMMA NoJobType == NoJob \in Jobs /\ NoJob.kind \notin Retried
<1>1. 0 \in 0..MaxCalls  BY SessionAssumption DEF SessionAssumption
<1> QED  BY <1>1 DEF NoJob, Jobs, CtxKinds, Retried

LEMMA NoRowsType ==
  NoRows \in RowsObject
  BY DEF NoRows, RowsObject

LEMMA EndsOK ==
  ASSUME CallOK, NEW e, NEW next \in {"pool", "tx"}, Ends(e, next),
         fate' \in [Calls -> Fates]
  PROVE  /\ CallOK' /\ pc' \in {"idle", "close"} /\ stack' = <<>>
         /\ holder' \in {"closing", next}
<1>1. CallType /\ RetryOK  BY DEF CallOK
<1>2. /\ stack' = <<>> /\ pc' \in {"idle", "close"}
      /\ holder' \in {"closing", next}
      /\ job' = NoJob /\ err' = "nil" /\ expired' = FALSE /\ rows' = NoRows
      /\ UNCHANGED <<calls, tries>>
      /\ again' = NoJob \/ (again' = job /\ job.kind \in Retried /\ tries < MaxTries)
  BY DEF Ends
<1>3. CallType'
  <2>1. job' \in Jobs /\ again' \in Jobs  BY <1>1, <1>2, NoJobType DEF CallType
  <2>2. err' \in Outcome /\ expired' \in BOOLEAN  BY <1>2 DEF Outcome
  <2>3. holder' \in {"pool", "call", "tx", "txcall", "closing", "gone"}  BY <1>2
  <2>4. calls' \in 0..MaxCalls /\ tries' \in 0..MaxTries  BY <1>1, <1>2 DEF CallType
  <2>5. rows' \in RowsObject
    BY <1>2, NoRowsType
  <2> QED  BY <2>1, <2>2, <2>3, <2>4, <2>5 DEF CallType
<1>4. RetryOK'  BY <1>2 DEF RetryOK
<1> QED  BY <1>2, <1>3, <1>4 DEF CallOK

LEMMA FinishOK ==
  ASSUME CallOK, NEW e, Finish(e)
  PROVE  /\ CallOK' /\ pc' \in {"idle", "close"} /\ stack' = <<>>
         /\ holder' \in {"closing", "pool", "tx"}
         /\ holder' = "tx" => holder = "txcall"
<1>1. fate' \in [Calls -> Fates]
  <2>1. fate \in [Calls -> Fates]  BY DEF CallOK, CallType
  <2>2. fate' = fate
        \/ fate' = [fate EXCEPT ![Work] = IF @ = "run" THEN "acked" ELSE "txdone"]
    BY DEF Finish
  <2> QED  BY <2>1, <2>2 DEF Fates
<1>2. CASE holder = "txcall"
  <2>1. Ends(e, "tx")  BY <1>2 DEF Finish
  <2>2. /\ CallOK' /\ pc' \in {"idle", "close"} /\ stack' = <<>>
        /\ holder' \in {"closing", "tx"}
    BY <1>1, <2>1, EndsOK
  <2> QED  BY <1>2, <2>2
<1>3. CASE holder # "txcall"
  <2>1. Ends(e, "pool")  BY <1>3 DEF Finish
  <2>2. /\ CallOK' /\ pc' \in {"idle", "close"} /\ stack' = <<>>
        /\ holder' \in {"closing", "pool"}
    BY <1>1, <2>1, EndsOK
  <2> QED  BY <2>2
<1> QED  BY <1>2, <1>3

\* The place a finished call leaves behind.
LEMMA IdleInv ==
  ASSUME IInv, pc' \in {"idle", "close"}, stack' = <<>>,
         cur' = 0 => holder' \notin {"tx", "txcall"}, txs' # <<>>,
         WireInv', CallOK', TxType', SrvType', SideType'
  PROVE  IInv'
<1>1. pc' \in Plain /\ pc' \in NilTxPlaces /\ pc' # "allocate.read"
  BY DEF Plain, Places, NilTxPlaces
<1>2. ControlOK'
  BY <1>1, StackAt DEF ControlOK, Plain
<1> QED  BY <1>1, <1>2, MovedInv

LEMMA FinishInv ==
  ASSUME IInv, NEW e, Finish(e), UNCHANGED txVars,
         WireInv', SrvType', SideType'
  PROVE  IInv'
<1>1. CallOK  BY IInvParts
<1>2. /\ CallOK' /\ pc' \in {"idle", "close"} /\ stack' = <<>>
      /\ holder' \in {"closing", "pool", "tx"}
      /\ holder' = "tx" => holder = "txcall"
  BY <1>1, FinishOK
<1>3. TxType' /\ txs' # <<>>  BY Kept DEF txVars, IInv, ControlOK
<1>4. cur' = 0 => holder' \notin {"tx", "txcall"}
  BY <1>2 DEF IInv, ControlOK, txVars
<1> QED  BY <1>2, <1>3, <1>4, IdleInv

\* stmt.exec or stmt.query returns.
LEMMA LeaveInv ==
  ASSUME IInv, NEW e \in Outcome, Leave(e), cur # 0, stack = <<>>, UNCHANGED txVars,
         WireInv', SrvType', SideType'
  PROVE  IInv'
<1>1. TxType' /\ txs' # <<>> /\ cur' # 0  BY Kept DEF txVars, IInv, ControlOK
<1>2. CallType /\ RetryOK  BY DEF IInv
<1>3. CASE /\ pc' = "free" /\ stack' = <<"exec.done">> /\ err' = e
           /\ UNCHANGED <<job, expired, holder, calls, again, tries, rows, fate>>
  <2>1. CallOK'  BY <1>2, <1>3 DEF CallOK, CallType, RetryOK
  <2>2. ControlOK'  BY <1>1, <1>3, StackAt DEF ControlOK, Places
  <2> QED  BY <1>1, <1>3, <2>1, <2>2, MovedInv
<1>4. CASE /\ pc' = "rows" /\ stack' = stack
           /\ job' = job \/ job' = [job EXCEPT !.kind = "rows"]
           /\ \E b, m \in BOOLEAN, n \in Nat :
                 rows' = [NoRows EXCEPT !.drop = b, !.more = m, !.chunk = n]
           /\ UNCHANGED <<err, expired, holder, calls, again, tries, fate>>
  <2>1. job' \in Jobs  BY <1>2, <1>4 DEF CallType, Jobs
  <2>2. rows' \in RowsObject
    <3>1. PICK b \in BOOLEAN, m \in BOOLEAN, n \in Nat :
                 rows' = [NoRows EXCEPT !.drop = b, !.more = m, !.chunk = n]
      BY <1>4
    <3>2. rows' = [drop |-> b, more |-> m, chunk |-> n, col |-> 0, fetched |-> FALSE, bad |-> FALSE]
      BY <3>1 DEF NoRows
    <3> QED  BY <3>2 DEF RowsObject
  <2>3. CallOK'  BY <1>2, <1>4, <2>1, <2>2 DEF CallOK, CallType, RetryOK
  <2>4. "rows" \in Plain  BY DEF Plain, Places
  <2>5. ControlOK'  BY <1>1, <1>4, <2>4, StackAt DEF ControlOK, Plain
  <2> QED  BY <1>1, <1>4, <2>3, <2>5, MovedInv
<1>5. CASE Finish(e)
  BY <1>5, FinishInv
<1> QED  BY <1>3, <1>4, <1>5 DEF Leave, Goto

-----------------------------------------------------------------------------
(***************************************************************************)
(* Transactions.                                                           *)
(***************************************************************************)
LEMMA HandleNat ==
  ASSUME TxType, NEW i \in 1..Len(txs)
  PROVE  txs[i].h \in Nat
<1>1. txs[i] \in TxObject  BY DEF TxType
<1> QED  BY <1>1 DEF TxObject

LEMMA CurrentHandle ==
  ASSUME IInv, cur # 0
  PROVE  txs[cur].h \in Nat
<1>1. cur \in 1..Len(txs) /\ TxType  BY DEF IInv, TxType
<1> QED  BY <1>1, HandleNat

\* Where no subroutine runs.
LEMMA PlainStack ==
  ASSUME IInv, pc \in Plain
  PROVE  stack = <<>>
  BY StackAt DEF IInv, ControlOK

\* Fields of a transaction object change, not their number.
LEMMA TxsChanged ==
  ASSUME TxType, txs # <<>>, UNCHANGED cur,
         NEW i \in Int, NEW t \in TxObject,
         txs' = [txs EXCEPT ![i] = t] \/ txs' = txs
  PROVE  TxType' /\ txs' # <<>>
<1>1. txs \in Seq(TxObject) /\ cur \in 0..Len(txs)  BY DEF TxType
<1>2. txs' \in Seq(TxObject) /\ Len(txs') = Len(txs)
  BY <1>1
<1>3. txs' # <<>>  BY <1>1, <1>2
<1> QED  BY <1>1, <1>2, <1>3 DEF TxType

\* The read that begins, commits or rolls back leaves a transaction object.
LEMMA TxsUpdated ==
  ASSUME TxType, NEW i \in 1..Len(txs), UNCHANGED cur,
         \/ txs' = txs
         \/ txs' = [txs EXCEPT ![i].h = reply, ![i].needBegin = FALSE, ![i].begun = TRUE]
         \/ txs' = [txs EXCEPT ![i].auto = TRUE]
         \/ txs' = [txs EXCEPT ![i].auto = TRUE, ![i].needBegin = TRUE]
         \/ txs' = [txs EXCEPT ![i].begun = FALSE],
         reply \in Nat
  PROVE  TxType' /\ txs' # <<>>
<1>1. txs \in Seq(TxObject) /\ txs[i] \in TxObject /\ txs # <<>>  BY DEF TxType
<1> DEFINE t1 == [txs[i] EXCEPT !.h = reply, !.needBegin = FALSE, !.begun = TRUE]
           t2 == [txs[i] EXCEPT !.auto = TRUE]
           t3 == [txs[i] EXCEPT !.auto = TRUE, !.needBegin = TRUE]
           t4 == [txs[i] EXCEPT !.begun = FALSE]
<1>2. {t1, t2, t3, t4} \subseteq TxObject  BY <1>1 DEF TxObject
<1>3. \/ txs' = txs
      \/ txs' = [txs EXCEPT ![i] = t1] \/ txs' = [txs EXCEPT ![i] = t2]
      \/ txs' = [txs EXCEPT ![i] = t3] \/ txs' = [txs EXCEPT ![i] = t4]
  BY <1>1
<1> HIDE DEF t1, t2, t3, t4
<1>4. PICK t \in TxObject : txs' = [txs EXCEPT ![i] = t] \/ txs' = txs
  BY <1>1, <1>2, <1>3
<1> QED  BY <1>1, <1>4, TxsChanged

\* An exchange is asked for, and the goroutine goes on to read the response.
LEMMA AskedInv ==
  ASSUME IInv, pc \in Places,
         NEW l \in Places \ {"allocate.read"}, Goto(l), UNCHANGED dataVars,
         stack \in StacksAt(l), cur = 0 => l \in NilTxPlaces, WireInv'
  PROVE  IInv'
<1>1. CallOK' /\ TxType' /\ SrvType' /\ SideType'  BY Kept DEF dataVars
<1>2. pc' = l /\ stack' = stack /\ UNCHANGED <<txs, cur, holder>>
  BY DEF Goto, dataVars, callVars, txVars
<1>3. ControlOK'  BY <1>2 DEF IInv, ControlOK
<1> QED  BY <1>1, <1>2, <1>3, MovedInv

LEMMA BeginInv == IInv /\ Begin => IInv'
<1> SUFFICES ASSUME IInv, Begin PROVE IInv'
  OBVIOUS
<1>1. pc = "tx.begin" /\ Ask("transaction", 0, 0, armed) /\ Goto("tx.begun") /\ UNCHANGED dataVars
  BY DEF Begin, At
<1>2. WireInv'  BY <1>1, AskInv, WireTypes DEF IInv, Ops
<1>3. stack \in StacksAt("tx.begun")  BY <1>1, StackAt DEF IInv, ControlOK
<1>4. "tx.begun" \in Places /\ "tx.begun" \in NilTxPlaces /\ pc \in Places
  BY <1>1 DEF Places, NilTxPlaces
<1> QED  BY <1>1, <1>2, <1>3, <1>4, AskedInv

LEMMA BeginReadInv == IInv /\ BeginRead => IInv'
<1> SUFFICES ASSUME IInv, BeginRead PROVE IInv'
  OBVIOUS
<1>1. /\ pc = "tx.begun" /\ Return
      /\ UNCHANGED <<wireVars, callVars, cur, srvVars, sideVars>>
      /\ txs' = IF res = "nil"
                THEN [txs EXCEPT ![Target].h = reply, ![Target].needBegin = FALSE,
                                 ![Target].begun = TRUE]
                ELSE txs
  BY DEF BeginRead, At
<1>2. WireInv' /\ CallOK' /\ SrvType' /\ SideType'  BY <1>1, Kept
<1>3. stack \in {<<"prepare.begun">>, <<"run.begun">>, <<"immediate.begun">>,
                 <<"begin.done">>}
  BY <1>1, StackAt DEF IInv, ControlOK
<1>4. Target \in 1..Len(txs) \/ (cur = 0 /\ job.kind # "begin")
  BY DEF IInv, ControlOK, TxType, Target
<1>5. TxType' /\ txs' # <<>>
  <2>1. TxType /\ txs # <<>> /\ reply \in Nat /\ Len(txs) \in Nat
    BY WireTypes DEF IInv, ControlOK, TxType
  <2>2. CASE Target \in 1..Len(txs)
    <3>1. UNCHANGED cur /\ (\/ txs' = txs
            \/ txs' = [txs EXCEPT ![Target].h = reply, ![Target].needBegin = FALSE,
                                  ![Target].begun = TRUE])
      BY <1>1
    <3> QED  BY <2>1, <2>2, <3>1, TxsUpdated
  <2>3. CASE cur = 0 /\ job.kind # "begin"
    <3>1. Target = 0  BY <2>3 DEF Target
    <3>2. txs' = txs  BY <1>1, <2>1, <3>1 DEF TxType
    <3> QED  BY <1>1, <2>1, <3>2 DEF TxType
  <2> QED  BY <1>4, <2>2, <2>3
<1>6. UNCHANGED <<cur, holder>>  BY <1>1 DEF callVars
<1>7. cur = 0 => stack = <<"begin.done">>
  BY <1>3 DEF IInv, ControlOK
<1>8. /\ {"prepare.begun", "run.begun", "immediate.begun", "begin.done"} \subseteq Returns
      /\ "begin.done" \in NilTxPlaces
  BY DEF Returns, NilTxPlaces
<1>9. CASE stack = <<"prepare.begun">>
  <2>1. cur # 0  BY <1>7, <1>9
  <2> QED  BY <1>1, <1>2, <1>5, <1>6, <1>8, <1>9, <2>1, ReturnInv
<1>10. CASE stack = <<"run.begun">>
  <2>1. cur # 0  BY <1>7, <1>10
  <2> QED  BY <1>1, <1>2, <1>5, <1>6, <1>8, <1>10, <2>1, ReturnInv
<1>11. CASE stack = <<"immediate.begun">>
  <2>1. cur # 0  BY <1>7, <1>11
  <2> QED  BY <1>1, <1>2, <1>5, <1>6, <1>8, <1>11, <2>1, ReturnInv
<1>12. CASE stack = <<"begin.done">>
  BY <1>1, <1>2, <1>5, <1>6, <1>8, <1>12, ReturnInv
<1> QED  BY <1>3, <1>9, <1>10, <1>11, <1>12

\* The goroutine stays inside its call, which runs no subroutine.
LEMMA ContinueInv ==
  ASSUME IInv, pc \in Plain, NEW l \in Plain \ {"allocate.read"}, Continue(l),
         cur = 0 => l \in NilTxPlaces, UNCHANGED txVars,
         WireInv', SrvType', SideType'
  PROVE  IInv'
<1>1. stack = <<>>  BY PlainStack
<1>2. CallOK' /\ TxType'  BY Kept DEF Continue
<1>3. Goto(l) /\ UNCHANGED <<cur, holder>> /\ txs' # <<>>
  BY DEF Continue, callVars, txVars, IInv, ControlOK
<1> QED  BY <1>1, <1>2, <1>3, GotoInv

\* ... and enters one.
LEMMA CallInv ==
  ASSUME IInv, pc \in Plain, NEW l \in Places \ {"allocate.read"}, NEW r, Call(l, r),
         <<r>> \in StacksAt(l), cur # 0, UNCHANGED txVars,
         WireInv', SrvType', SideType'
  PROVE  IInv'
<1>1. stack = <<>>  BY PlainStack
<1>2. CallOK' /\ TxType'  BY Kept DEF Call
<1>3. Enter(l, r) /\ UNCHANGED <<cur, holder>> /\ txs' # <<>>
  BY DEF Call, callVars, txVars, IInv, ControlOK
<1> QED  BY <1>1, <1>2, <1>3, EnterInv

LEMMA PanicInv ==
  ASSUME IInv, pc \in Plain, Panic, UNCHANGED txVars, WireInv', SrvType', SideType'
  PROVE  IInv'
<1>1. stack = <<>>  BY PlainStack
<1>2. CallOK' /\ TxType'  BY Kept DEF Panic, Continue
<1>3. /\ pc' = "panic" /\ stack' = <<>> /\ UNCHANGED <<cur, holder>> /\ txs' # <<>>
  BY <1>1 DEF Panic, Continue, Goto, callVars, txVars, IInv, ControlOK
<1>4. "panic" \in Places /\ "panic" \in NilTxPlaces  BY DEF Places, NilTxPlaces
<1>5. ControlOK'
  BY <1>3, <1>4, StackAt DEF IInv, ControlOK
<1> QED  BY <1>2, <1>3, <1>5, MovedInv

LEMMA FixedAsk ==
  ASSUME IInv, NEW op \in Ops, cur # 0, Ask(op, txs[cur].h, 0, "fixed")
  PROVE  WireInv'
<1>1. WireInv /\ txs[cur].h \in Nat /\ 0 \in Nat /\ "fixed" \in Deadline
  BY CurrentHandle DEF IInv, Deadline
<1> QED  BY <1>1, AskInv

LEMMA ArmedAsk ==
  ASSUME IInv, NEW op \in Ops, NEW h \in Nat, NEW w \in Nat, Ask(op, h, w, armed)
  PROVE  WireInv'
<1>1. WireInv /\ armed \in Deadline  BY WireTypes DEF IInv
<1> QED  BY <1>1, AskInv

LEMMA BlindAsk ==
  ASSUME IInv, NEW op \in Ops, NEW h \in Nat, AskBlindly(op, h)
  PROVE  WireInv'
  BY AskBlindlyInv DEF IInv

LEMMA ClearedInv == IInv /\ ReadTimeoutCleared => WireInv'
<1> SUFFICES ASSUME IInv, ReadTimeoutCleared PROVE WireInv'
  OBVIOUS
<1>1. WireInv /\ "none" \in Deadline  BY DEF IInv, Deadline
<1>2. UNCHANGED wireVars \/ SetDeadline("none")  BY DEF ReadTimeoutCleared
<1> QED  BY <1>1, <1>2, WireStutter, SetDeadlineInv

LEMMA DisarmInv == IInv /\ Disarm => WireInv'
<1> SUFFICES ASSUME IInv, Disarm PROVE WireInv'
  OBVIOUS
<1>1. WireInv /\ armed \in Deadline /\ "none" \in Deadline  BY WireTypes DEF IInv, Deadline
<1>2. SetDeadline("none") \/ SetDeadline(armed)  BY DEF Disarm
<1> QED  BY <1>1, <1>2, SetDeadlineInv

LEMMA CommitRetainingInv == IInv /\ CommitRetaining => IInv'
<1> SUFFICES ASSUME IInv, CommitRetaining PROVE IInv'
  OBVIOUS
<1>1. /\ pc = "commitRetaining" /\ Ask("commit_retaining", txs[cur].h, 0, "fixed")
      /\ Goto("commitRetaining.read") /\ UNCHANGED dataVars
  BY DEF CommitRetaining, At
<1>2. cur # 0  BY <1>1 DEF IInv, ControlOK, NilTxPlaces
<1>3. WireInv'  BY <1>1, <1>2, FixedAsk DEF Ops
<1>4. stack \in StacksAt("commitRetaining.read")  BY <1>1, StackAt DEF IInv, ControlOK
<1>5. "commitRetaining.read" \in Places \ {"allocate.read"} /\ pc \in Places
  BY <1>1 DEF Places
<1> QED  BY <1>1, <1>2, <1>3, <1>4, <1>5, AskedInv

LEMMA CommitRetainingReadInv == IInv /\ CommitRetainingRead => IInv'
<1> SUFFICES ASSUME IInv, CommitRetainingRead PROVE IInv'
  OBVIOUS
<1>1. /\ pc = "commitRetaining.read" /\ ReadTimeoutCleared /\ Return
      /\ txs' = IF res = "unsent" THEN txs ELSE [txs EXCEPT ![cur].auto = TRUE]
      /\ UNCHANGED <<callVars, cur, srvVars, sideVars>>
  BY DEF CommitRetainingRead, At
<1>2. cur # 0  BY <1>1 DEF IInv, ControlOK, NilTxPlaces
<1>3. WireInv' /\ CallOK' /\ SrvType' /\ SideType'  BY <1>1, ClearedInv, Kept
<1>4. TxType' /\ txs' # <<>>
  <2>1. TxType /\ cur \in 1..Len(txs) /\ reply \in Nat
    BY <1>2, WireTypes DEF IInv, TxType
  <2>2. UNCHANGED cur /\ (txs' = txs \/ txs' = [txs EXCEPT ![cur].auto = TRUE])
    BY <1>1
  <2> QED  BY <2>1, <2>2, TxsUpdated
<1>5. stack \in {<<"exec.committed">>, <<"immediate.done">>, <<"exec.done">>, <<"freed">>}
  BY <1>1, StackAt DEF IInv, ControlOK
<1>6. UNCHANGED <<cur, holder>>  BY <1>1 DEF callVars
<1>7. PICK r \in Returns : stack = <<r>>
  BY <1>5 DEF Returns
<1> QED  BY <1>1, <1>2, <1>3, <1>4, <1>6, <1>7, ReturnInv

LEMMA CommitInv == IInv /\ Commit => IInv'
<1> SUFFICES ASSUME IInv, Commit PROVE IInv'
  OBVIOUS
<1>1. /\ pc = "commit" /\ Ask("commit", txs[cur].h, 0, armed)
      /\ Goto("commit.read") /\ UNCHANGED dataVars
  BY DEF Commit, At
<1>2. cur # 0  BY <1>1 DEF IInv, ControlOK, NilTxPlaces
<1>3. WireInv'  BY <1>1, <1>2, CurrentHandle, ArmedAsk DEF Ops
<1>4. "commit.read" \in Plain \ {"allocate.read"} /\ pc \in Plain
  BY <1>1 DEF Plain, Places
<1>5. stack \in StacksAt("commit.read")  BY <1>4, StackAt, PlainStack
<1> QED  BY <1>1, <1>2, <1>3, <1>4, <1>5, AskedInv DEF Plain

LEMMA RollbackInv == IInv /\ Rollback => IInv'
<1> SUFFICES ASSUME IInv, Rollback PROVE IInv'
  OBVIOUS
<1>1. /\ pc = "rollback" /\ Ask("rollback", txs[cur].h, 0, "fixed")
      /\ Goto("rollback.read") /\ UNCHANGED dataVars
  BY DEF Rollback, At
<1>2. cur # 0  BY <1>1 DEF IInv, ControlOK, NilTxPlaces
<1>3. WireInv'  BY <1>1, <1>2, FixedAsk DEF Ops
<1>4. "rollback.read" \in Plain \ {"allocate.read"} /\ pc \in Plain
  BY <1>1 DEF Plain, Places
<1>5. stack \in StacksAt("rollback.read")  BY <1>4, StackAt, PlainStack
<1> QED  BY <1>1, <1>2, <1>3, <1>4, <1>5, AskedInv DEF Plain

LEMMA EndedOK ==
  ASSUME IInv, cur # 0, txs' = Ended, UNCHANGED cur
  PROVE  TxType' /\ txs' # <<>>
<1>1. TxType /\ cur \in 1..Len(txs) /\ reply \in Nat
  BY WireTypes DEF IInv, TxType
<1>2. txs' = txs \/ txs' = [txs EXCEPT ![cur].auto = TRUE, ![cur].needBegin = TRUE]
  BY DEF Ended
<1> QED  BY <1>1, <1>2, TxsUpdated

LEMMA CommitReadInv == IInv /\ CommitRead => IInv'
<1> SUFFICES ASSUME IInv, CommitRead PROVE IInv'
  OBVIOUS
<1>1. /\ pc = "commit.read" /\ txs' = Ended /\ Ends(res, "pool")
      /\ fate' = [i \in Calls |->
                    IF fate[i] # "committing" THEN fate[i]
                    ELSE IF res = "nil" THEN "acked" ELSE "unsure"]
      /\ UNCHANGED <<wireVars, cur, srvVars, sideVars>>
  BY DEF CommitRead, At
<1>2. cur # 0  BY <1>1 DEF IInv, ControlOK, NilTxPlaces
<1>3. WireInv' /\ SrvType' /\ SideType'  BY <1>1, Kept
<1>4. TxType' /\ txs' # <<>>  BY <1>1, <1>2, EndedOK
<1>5. fate' \in [Calls -> Fates]
  BY <1>1 DEF IInv, CallType, Fates
<1>6. CallOK  BY IInvParts
<1>7. /\ CallOK' /\ pc' \in {"idle", "close"} /\ stack' = <<>>
      /\ holder' \in {"closing", "pool"}
  BY <1>1, <1>5, <1>6, EndsOK
<1> QED  BY <1>3, <1>4, <1>7, IdleInv

LEMMA RollbackReadInv == IInv /\ RollbackRead => IInv'
<1> SUFFICES ASSUME IInv, RollbackRead PROVE IInv'
  OBVIOUS
<1>1. /\ pc = "rollback.read" /\ txs' = Ended /\ Ends(res, "pool")
      /\ ReadTimeoutCleared
      /\ UNCHANGED <<fate, cur, srvVars, sideVars>>
  BY DEF RollbackRead, At
<1>2. cur # 0  BY <1>1 DEF IInv, ControlOK, NilTxPlaces
<1>3. WireInv' /\ SrvType' /\ SideType'  BY <1>1, Kept, ClearedInv
<1>4. TxType' /\ txs' # <<>>  BY <1>1, <1>2, EndedOK
<1>5. fate' \in [Calls -> Fates]
  BY <1>1 DEF IInv, CallType
<1>6. CallOK  BY IInvParts
<1>7. /\ CallOK' /\ pc' \in {"idle", "close"} /\ stack' = <<>>
      /\ holder' \in {"closing", "pool"}
  BY <1>1, <1>5, <1>6, EndsOK
<1> QED  BY <1>3, <1>4, <1>7, IdleInv

LEMMA BeginTxInv == IInv /\ BeginTx => IInv'
<1> SUFFICES ASSUME IInv, BeginTx PROVE IInv'
  OBVIOUS
<1> DEFINE new == [auto |-> FALSE, needBegin |-> FALSE, h |-> 0, begun |-> FALSE]
<1>1. /\ pc = "begin" /\ txs' = Append(txs, new) /\ Call("tx.begin", "begin.done")
      /\ UNCHANGED <<wireVars, cur, srvVars, sideVars>>
  BY DEF BeginTx, At
<1>2. new \in TxObject  BY DEF TxObject
<1> HIDE DEF new
<1>3. TxType' /\ txs' # <<>>
  <2>1. txs \in Seq(TxObject) /\ cur \in 0..Len(txs)  BY DEF IInv, TxType
  <2>2. txs' \in Seq(TxObject) /\ Len(txs') = Len(txs) + 1  BY <1>1, <1>2, <2>1
  <2>3. txs' # <<>>  BY <2>1, <2>2
  <2> QED  BY <1>1, <2>1, <2>2, <2>3 DEF TxType
<1>4. WireInv' /\ CallOK' /\ SrvType' /\ SideType'  BY <1>1, Kept DEF Call
<1>5. pc \in Plain  BY <1>1 DEF Plain, Places
<1>6. /\ pc' = "tx.begin" /\ stack' = <<"begin.done">> /\ UNCHANGED <<cur, holder>>
  BY <1>1, <1>5, PlainStack DEF Call, Enter, callVars
<1>7. "tx.begin" \in Places /\ "tx.begin" \in NilTxPlaces  BY DEF Places, NilTxPlaces
<1>8. ControlOK'
  BY <1>3, <1>6, <1>7, StackAt DEF IInv, ControlOK
<1> QED  BY <1>3, <1>4, <1>6, <1>8, MovedInv

LEMMA BeginTxDoneInv == IInv /\ BeginTxDone => IInv'
<1> SUFFICES ASSUME IInv, BeginTxDone PROVE IInv'
  OBVIOUS
<1>1. /\ pc = "begin.done" /\ cur' = IF res = "nil" THEN Len(txs) ELSE 0
      /\ Ends(res, IF res = "nil" THEN "tx" ELSE "pool")
      /\ UNCHANGED <<wireVars, fate, txs, srvVars, sideVars>>
  BY DEF BeginTxDone, At
<1>2. WireInv' /\ SrvType' /\ SideType'  BY <1>1, Kept
<1>3. TxType' /\ txs' # <<>> /\ (cur' = 0 => res # "nil")
  <2>1. txs \in Seq(TxObject) /\ txs # <<>>  BY DEF IInv, TxType, ControlOK
  <2>2. Len(txs) \in Nat \ {0}  BY <2>1
  <2> QED  BY <1>1, <2>1, <2>2 DEF TxType
<1>4. fate' \in [Calls -> Fates] /\ CallOK
  BY <1>1, IInvParts DEF IInv, CallType
<1>5. CASE res = "nil"
  <2>1. Ends(res, "tx")  BY <1>1, <1>5
  <2>2. CallOK' /\ pc' \in {"idle", "close"} /\ stack' = <<>>
    BY <1>4, <2>1, EndsOK
  <2> QED  BY <1>2, <1>3, <1>5, <2>2, IdleInv
<1>6. CASE res # "nil"
  <2>1. Ends(res, "pool")  BY <1>1, <1>6
  <2>2. /\ CallOK' /\ pc' \in {"idle", "close"} /\ stack' = <<>>
        /\ holder' \in {"closing", "pool"}
    BY <1>4, <2>1, EndsOK
  <2> QED  BY <1>2, <1>3, <2>2, IdleInv
<1> QED  BY <1>5, <1>6

-----------------------------------------------------------------------------
(***************************************************************************)
(* Statements.                                                             *)
(***************************************************************************)
\* Places outside NilTxPlaces are reached with a transaction only.
LEMMA HasTx == IInv /\ pc \notin NilTxPlaces => cur # 0
  BY DEF IInv, ControlOK

LEMMA PrepareInv == IInv /\ Prepare => IInv'
<1> SUFFICES ASSUME IInv, Prepare PROVE IInv'
  OBVIOUS
<1>1. /\ pc = "prepare" /\ UNCHANGED <<wireVars, txVars, srvVars, sideVars>>
      /\ \/ Finish("bad")
         \/ Panic
         \/ cur # 0 /\ Call("tx.begin", "prepare.begun")
         \/ cur # 0 /\ Continue("allocate")
  BY DEF Prepare, At
<1>2. WireInv' /\ SrvType' /\ SideType'  BY <1>1, Kept
<1>3. pc \in Plain /\ "allocate" \in Plain \ {"allocate.read"}
      /\ "tx.begin" \in Places \ {"allocate.read"}
  BY <1>1 DEF Plain, Places
<1>4. <<"prepare.begun">> \in StacksAt("tx.begin")  BY StackAt
<1>5. CASE Finish("bad")  BY <1>1, <1>2, <1>5, FinishInv
<1>6. CASE cur # 0 /\ Call("tx.begin", "prepare.begun")
  BY <1>1, <1>2, <1>3, <1>4, <1>6, CallInv
<1>7. CASE cur # 0 /\ Continue("allocate")
  BY <1>1, <1>2, <1>3, <1>7, ContinueInv
<1>8. CASE Panic  BY <1>1, <1>2, <1>3, <1>8, PanicInv
<1> QED  BY <1>1, <1>5, <1>6, <1>7, <1>8

LEMMA RunInv == IInv /\ Run => IInv'
<1> SUFFICES ASSUME IInv, Run PROVE IInv'
  OBVIOUS
<1>1. /\ pc = "run" /\ UNCHANGED <<wireVars, txVars, srvVars, sideVars>>
      /\ \/ Panic
         \/ cur # 0 /\ Call("tx.begin", "run.begun")
         \/ cur # 0 /\ Continue("bind")
  BY DEF Run, At
<1>2. WireInv' /\ SrvType' /\ SideType'  BY <1>1, Kept
<1>3. pc \in Plain /\ "bind" \in Plain \ {"allocate.read"}
      /\ "tx.begin" \in Places \ {"allocate.read"}
  BY <1>1 DEF Plain, Places
<1>4. <<"run.begun">> \in StacksAt("tx.begin")  BY StackAt
<1>5. CASE Panic  BY <1>1, <1>2, <1>3, <1>5, PanicInv
<1>6. CASE cur # 0 /\ Call("tx.begin", "run.begun")
  BY <1>1, <1>2, <1>3, <1>4, <1>6, CallInv
<1>7. CASE cur # 0 /\ Continue("bind")
  BY <1>1, <1>2, <1>3, <1>7, ContinueInv
<1> QED  BY <1>1, <1>5, <1>6, <1>7

\* A response was read that decides between going on and returning its error.
LEMMA DecideInv ==
  ASSUME IInv, pc \in Plain \ NilTxPlaces, NEW l \in Plain \ {"allocate.read"},
         Continue(l) \/ Finish(res), UNCHANGED txVars,
         WireInv', SrvType', SideType'
  PROVE  IInv'
<1>1. cur # 0 /\ pc \in Plain  BY HasTx
<1>2. CASE Continue(l)  BY <1>1, <1>2, ContinueInv
<1>3. CASE Finish(res)  BY <1>3, FinishInv
<1> QED  BY <1>2, <1>3

LEMMA PrepareBegunInv == IInv /\ PrepareBegun => IInv'
<1> SUFFICES ASSUME IInv, PrepareBegun PROVE IInv'
  OBVIOUS
<1>1. /\ pc = "prepare.begun" /\ UNCHANGED <<wireVars, txVars, srvVars, sideVars>>
      /\ Continue("allocate") \/ Finish(res)
  BY DEF PrepareBegun, At
<1>2. WireInv' /\ SrvType' /\ SideType'  BY <1>1, Kept
<1>3. pc \in Plain \ NilTxPlaces /\ "allocate" \in Plain \ {"allocate.read"}
  BY <1>1 DEF Plain, Places, NilTxPlaces
<1> QED  BY <1>1, <1>2, <1>3, DecideInv

LEMMA RunBegunInv == IInv /\ RunBegun => IInv'
<1> SUFFICES ASSUME IInv, RunBegun PROVE IInv'
  OBVIOUS
<1>1. /\ pc = "run.begun" /\ UNCHANGED <<wireVars, txVars, srvVars, sideVars>>
      /\ Continue("bind") \/ Finish(res)
  BY DEF RunBegun, At
<1>2. WireInv' /\ SrvType' /\ SideType'  BY <1>1, Kept
<1>3. pc \in Plain \ NilTxPlaces /\ "bind" \in Plain \ {"allocate.read"}
  BY <1>1 DEF Plain, Places, NilTxPlaces
<1> QED  BY <1>1, <1>2, <1>3, DecideInv

LEMMA PrepareReadInv == IInv /\ PrepareRead => IInv'
<1> SUFFICES ASSUME IInv, PrepareRead PROVE IInv'
  OBVIOUS
<1>1. /\ pc = "prepare.read"
      /\ Continue("bind") \/ Finish(res)
      /\ prepared' = (prepared \/ (res = "nil" /\ job.kind \in {"stmtExec", "stmtQuery"}))
      /\ UNCHANGED <<wireVars, txVars, srvVars, cancelled, pinger, leaked>>
  BY DEF PrepareRead, At
<1>2. WireInv' /\ SrvType'  BY <1>1, Kept
<1>3. SideType'  BY <1>1 DEF IInv, SideType
<1>4. pc \in Plain \ NilTxPlaces /\ "bind" \in Plain \ {"allocate.read"}
  BY <1>1 DEF Plain, Places, NilTxPlaces
<1> QED  BY <1>1, <1>2, <1>3, <1>4, DecideInv

LEMMA ScrollRefusedInv == IInv /\ ScrollRefused => IInv'
<1> SUFFICES ASSUME IInv, ScrollRefused PROVE IInv'
  OBVIOUS
<1>1. /\ pc = "prepare.read" /\ Leave("other")
      /\ UNCHANGED <<wireVars, txVars, srvVars, sideVars>>
  BY DEF ScrollRefused, At
<1>2. WireInv' /\ SrvType' /\ SideType'  BY <1>1, Kept
<1>3. pc \in Plain \ NilTxPlaces  BY <1>1 DEF Plain, Places, NilTxPlaces
<1>4. cur # 0 /\ stack = <<>> /\ "other" \in Outcome
  BY <1>3, HasTx, PlainStack DEF Outcome
<1> QED  BY <1>1, <1>2, <1>4, LeaveInv

\* The allocate request is the last packet owed, or the stream is lost.
LEMMA ReclaimableInv ==
  ASSUME WireInv, AskLazily("allocate", TRUE)
  PROVE  /\ expect' = <<>>
         /\ res' # "nil" \/ lost'
            \/ (pend' # <<>> /\ pend'[Len(pend')].op = "allocate")
<1> DEFINE rs == <<Asked("allocate", 0, 0)>>
<1>1. rs \in Seq(Request) /\ Len(rs) = 1 /\ rs[1].op = "allocate"
  BY AskedRequest DEF Ops
<1>2. Write(rs, <<>>, 1, armed, TRUE)  BY DEF AskLazily
<1> HIDE DEF rs
<1>3. expect = <<>> /\ pend \in Seq(Request)  BY <1>2 DEF Write, WireInv, WireTypeOK
<1>4. expect' = <<>> /\ (res' # "nil" \/ lost' \/ pend' = pend \o rs)
  BY <1>2, <1>3 DEF Write
<1>5. ASSUME pend' = pend \o rs
      PROVE  pend' # <<>> /\ pend'[Len(pend')].op = "allocate"
  <2>1. /\ Len(pend \o rs) = Len(pend) + 1 /\ pend \o rs \in Seq(Request)
        /\ (pend \o rs)[Len(pend) + 1] = rs[1]
    <3>1. 1 \in 1..Len(rs)  BY <1>1
    <3> QED  BY <1>1, <1>3, <3>1, Appended
  <2>2. Len(pend) \in Nat  BY <1>3
  <2> QED  BY <1>1, <1>5, <2>1, <2>2
<1> QED  BY <1>4, <1>5

LEMMA AllocateInv == IInv /\ Allocate => IInv'
<1> SUFFICES ASSUME IInv, Allocate PROVE IInv'
  OBVIOUS
<1>1. /\ pc = "allocate"
      /\ IF LazySend THEN AskLazily("allocate", TRUE) ELSE Ask("allocate", 0, 0, armed)
      /\ Goto("allocate.read") /\ UNCHANGED dataVars
  BY DEF Allocate, At
<1>2. WireInv
  BY DEF IInv
<1>3. WireInv'
  <2>1. CASE LazySend
    BY <1>1, <1>2, <2>1, AskLazilyInv DEF Uncollected
  <2>2. CASE ~LazySend
    BY <1>1, <2>2, ArmedAsk DEF Ops
  <2> QED  BY <2>1, <2>2
<1>4. CallOK' /\ TxType' /\ SrvType' /\ SideType'  BY <1>1, Kept DEF dataVars
<1>5. pc \in Plain /\ "allocate.read" \in Plain /\ pc \notin NilTxPlaces
  BY <1>1 DEF Plain, Places, NilTxPlaces
<1>6. /\ pc' = "allocate.read" /\ stack' = <<>> /\ UNCHANGED <<cur, txs>>
  BY <1>1, <1>5, PlainStack DEF Goto, dataVars, txVars
<1>7. ControlOK'
  BY <1>5, <1>6, StackAt, HasTx DEF IInv, ControlOK, Plain
<1>8. ReclaimOK'
  BY <1>1, <1>2, ReclaimableInv DEF ReclaimOK
<1> QED  BY <1>3, <1>4, <1>7, <1>8 DEF IInv, CallOK

LEMMA PrepareStatementInv == IInv /\ PrepareStatement => IInv'
<1> SUFFICES ASSUME IInv, PrepareStatement PROVE IInv'
  OBVIOUS
<1>1. /\ pc = "allocate.read" /\ UNCHANGED <<txVars, srvVars, sideVars>>
      /\ \/ Finish(res) /\ UNCHANGED wireVars
         \/ /\ LazySend /\ res = "nil"
            /\ AskReclaiming("allocate", "prepare", txs[cur].h)
            /\ Continue("prepare.read")
         \/ /\ ~LazySend
            /\ Ask("prepare", txs[cur].h, 0, armed)
            /\ Continue("prepare.read")
  BY DEF PrepareStatement, At
<1>2. SrvType' /\ SideType'  BY <1>1, Kept
<1>3. pc \in Plain \ NilTxPlaces /\ "prepare.read" \in Plain \ {"allocate.read"}
  BY <1>1 DEF Plain, Places, NilTxPlaces
<1>4. txs[cur].h \in Nat  BY <1>3, HasTx, CurrentHandle
<1>5. WireInv'
  <2>1. CASE UNCHANGED wireVars  BY <2>1, Kept
  <2>2. CASE LazySend /\ res = "nil" /\ AskReclaiming("allocate", "prepare", txs[cur].h)
    <3>1. lost \/ misread \/ (pend # <<>> /\ pend[Len(pend)].op = "allocate")
      BY <1>1, <2>2 DEF IInv, ReclaimOK
    <3>2. "allocate" \in Ops /\ "prepare" \in Ops /\ WireInv  BY DEF Ops, IInv
    <3> QED  BY <1>4, <2>2, <3>1, <3>2, AskReclaimingInv
  <2>3. CASE Ask("prepare", txs[cur].h, 0, armed)
    BY <1>4, <2>3, ArmedAsk DEF Ops
  <2> QED  BY <1>1, <2>1, <2>2, <2>3
<1>6. Finish(res) \/ Continue("prepare.read")  BY <1>1
<1> QED  BY <1>1, <1>2, <1>3, <1>5, <1>6, DecideInv

LEMMA BindInv == IInv /\ Bind => IInv'
<1> SUFFICES ASSUME IInv, Bind PROVE IInv'
  OBVIOUS
<1>1. /\ pc = "bind" /\ UNCHANGED dataVars
      /\ \/ Goto("execute") /\ UNCHANGED wireVars
         \/ Ask("bindinfo", 0, 0, armed) /\ Goto("bind.read")
  BY DEF Bind, At
<1>2. WireInv'
  <2>1. CASE UNCHANGED wireVars  BY <2>1, Kept
  <2>2. CASE Ask("bindinfo", 0, 0, armed)  BY <2>2, ArmedAsk DEF Ops
  <2> QED  BY <1>1, <2>1, <2>2
<1>3. /\ pc \in Plain \ NilTxPlaces /\ "execute" \in Plain \ {"allocate.read"}
      /\ "bind.read" \in Plain \ {"allocate.read"}
  BY <1>1 DEF Plain, Places, NilTxPlaces
<1>4. UNCHANGED <<callVars, txVars, srvVars, sideVars>>  BY <1>1 DEF dataVars
<1>5. SrvType' /\ SideType' /\ cur # 0  BY <1>3, <1>4, Kept, HasTx
<1>6. Continue("execute") \/ Continue("bind.read")  BY <1>1, <1>4 DEF Continue
<1> QED  BY <1>2, <1>3, <1>4, <1>5, <1>6, ContinueInv

LEMMA BindReadInv == IInv /\ BindRead => IInv'
<1> SUFFICES ASSUME IInv, BindRead PROVE IInv'
  OBVIOUS
<1>1. /\ pc = "bind.read" /\ UNCHANGED <<wireVars, txVars, srvVars, sideVars>>
      /\ Continue("execute") \/ Leave(res)
  BY DEF BindRead, At
<1>2. WireInv' /\ SrvType' /\ SideType' /\ res \in Outcome
  BY <1>1, Kept, WireTypes DEF IInv
<1>3. pc \in Plain /\ pc \notin NilTxPlaces /\ "execute" \in Plain \ {"allocate.read"}
  BY <1>1 DEF Plain, Places, NilTxPlaces
<1>4. cur # 0 /\ stack = <<>>  BY <1>3, HasTx, PlainStack
<1>5. CASE Continue("execute")  BY <1>1, <1>2, <1>3, <1>4, <1>5, ContinueInv
<1>6. CASE Leave(res)  BY <1>1, <1>2, <1>4, <1>6, LeaveInv
<1> QED  BY <1>1, <1>5, <1>6

\* An exchange inside a call that runs no subroutine, and a step without one.
LEMMA GoOnInv ==
  ASSUME IInv, pc \in Plain \ NilTxPlaces, NEW l \in Plain \ {"allocate.read"}, Goto(l),
         UNCHANGED dataVars, WireInv'
  PROVE  IInv'
<1>1. UNCHANGED <<callVars, txVars, srvVars, sideVars>>  BY DEF dataVars
<1>2. SrvType' /\ SideType' /\ cur # 0 /\ pc \in Plain  BY <1>1, Kept, HasTx
<1>3. Continue(l)  BY <1>1 DEF Continue
<1> QED  BY <1>1, <1>2, <1>3, ContinueInv

LEMMA UploadInv == IInv /\ Upload => IInv'
<1> SUFFICES ASSUME IInv, Upload PROVE IInv'
  OBVIOUS
<1>1. /\ pc = "execute" /\ UNCHANGED dataVars
      /\ \/ AskBlindly("create_blob", txs[cur].h) /\ Goto("upload.blob")
         \/ Ask("put_slice", txs[cur].h, 0, armed) /\ Goto("upload.slice")
  BY DEF Upload, At
<1>2. /\ pc \in Plain \ NilTxPlaces /\ "upload.blob" \in Plain \ {"allocate.read"}
      /\ "upload.slice" \in Plain \ {"allocate.read"}
  BY <1>1 DEF Plain, Places, NilTxPlaces
<1>3. txs[cur].h \in Nat /\ "create_blob" \in Ops /\ "put_slice" \in Ops /\ 0 \in Nat
  BY <1>2, HasTx, CurrentHandle DEF Ops
<1>4. WireInv'  BY <1>1, <1>3, ArmedAsk, BlindAsk
<1> QED  BY <1>1, <1>2, <1>4, GoOnInv

LEMMA UploadReadInv == IInv /\ UploadRead => IInv'
<1> SUFFICES ASSUME IInv, UploadRead PROVE IInv'
  OBVIOUS
<1>1. /\ pc \in {"upload.blob", "upload.segment"} /\ UNCHANGED dataVars
      /\ \/ Goto("execute") /\ UNCHANGED wireVars
         \/ Ask("put_segment", 0, 0, armed) /\ Goto("upload.segment")
         \/ Ask("close_blob", 0, 0, armed) /\ Goto("upload.closed")
  BY DEF UploadRead, At
<1>2. /\ pc \in Plain \ NilTxPlaces /\ "execute" \in Plain \ {"allocate.read"}
      /\ "upload.segment" \in Plain \ {"allocate.read"}
      /\ "upload.closed" \in Plain \ {"allocate.read"}
  BY <1>1 DEF Plain, Places, NilTxPlaces
<1>3. "put_segment" \in Ops /\ "close_blob" \in Ops /\ 0 \in Nat  BY DEF Ops
<1>4. WireInv'  BY <1>1, <1>3, Kept, ArmedAsk
<1> QED  BY <1>1, <1>2, <1>4, GoOnInv

LEMMA UploadClosedInv == IInv /\ UploadClosed => IInv'
<1> SUFFICES ASSUME IInv, UploadClosed PROVE IInv'
  OBVIOUS
<1>1. pc = "upload.closed" /\ Goto("execute") /\ UNCHANGED dataVars /\ UNCHANGED wireVars
  BY DEF UploadClosed, At
<1>2. pc \in Plain \ NilTxPlaces /\ "execute" \in Plain \ {"allocate.read"}
  BY <1>1 DEF Plain, Places, NilTxPlaces
<1>3. WireInv'  BY <1>1, Kept
<1> QED  BY <1>1, <1>2, <1>3, GoOnInv

LEMMA SliceStoredInv == IInv /\ SliceStored => IInv'
<1> SUFFICES ASSUME IInv, SliceStored PROVE IInv'
  OBVIOUS
<1>1. /\ pc = "upload.slice" /\ UNCHANGED <<wireVars, txVars, srvVars, sideVars>>
      /\ Continue("execute") \/ Leave(res)
  BY DEF SliceStored, At
<1>2. WireInv' /\ SrvType' /\ SideType' /\ res \in Outcome
  BY <1>1, Kept, WireTypes DEF IInv
<1>3. pc \in Plain /\ pc \notin NilTxPlaces /\ "execute" \in Plain \ {"allocate.read"}
  BY <1>1 DEF Plain, Places, NilTxPlaces
<1>4. cur # 0 /\ stack = <<>>  BY <1>3, HasTx, PlainStack
<1>5. CASE Continue("execute")  BY <1>1, <1>2, <1>3, <1>4, <1>5, ContinueInv
<1>6. CASE Leave(res)  BY <1>1, <1>2, <1>4, <1>6, LeaveInv
<1> QED  BY <1>1, <1>5, <1>6

LEMMA ExecuteWrite ==
  ASSUME WireInv, NEW h \in Nat, NEW w \in Nat, NEW d \in Deadline,
         \/ Write(<<Asked("sql", 0, 0), Asked("execute", h, w)>>, <<"sql", "execute">>,
                  0, d, TRUE)
         \/ Write(<<Asked("execute", h, w)>>, <<"execute">>, 0, d, TRUE)
  PROVE  WireInv'
<1>1. ASSUME Write(<<Asked("execute", h, w)>>, <<"execute">>, 0, d, TRUE)
      PROVE  WireInv'
  <2>1. Ask("execute", h, w, d)  BY <1>1 DEF Ask
  <2> QED  BY <2>1, AskInv DEF Ops
<1>2. ASSUME Write(<<Asked("sql", 0, 0), Asked("execute", h, w)>>, <<"sql", "execute">>,
                   0, d, TRUE)
      PROVE  WireInv'
  <2> DEFINE a == Asked("sql", 0, 0)
             b == Asked("execute", h, w)
             rs == <<a, b>>
             awaited == <<"sql", "execute">>
  <2>0. "sql" \in Ops /\ "execute" \in Ops /\ 0 \in Nat  BY DEF Ops
  <2>1. a \in Request /\ b \in Request /\ a.op = "sql" /\ b.op = "execute"
    BY <2>0, AskedRequest
  <2>2. Write(rs, awaited, 0, d, TRUE)  BY <1>2
  <2> HIDE DEF a, b
  <2>3. rs \in Seq(Request) /\ Len(rs) = 2 /\ rs[1].op = "sql" /\ rs[2].op = "execute"
    BY <2>1
  <2>4. awaited \in Seq(Ops) /\ Len(awaited) = 2
        /\ awaited[1] = "sql" /\ awaited[2] = "execute"
    BY DEF Ops
  <2> HIDE DEF rs, awaited
  <2>5. /\ \A i \in 1..0 : rs[i].op \in Uncollected
        /\ \A i \in 1..Len(awaited) : rs[i].op = awaited[i]
        /\ Len(rs) = 0 + Len(awaited)
    BY <2>3, <2>4
  <2>6. 0 \in Nat /\ TRUE \in BOOLEAN  OBVIOUS
  <2> QED  BY <2>2, <2>3, <2>4, <2>5, <2>6, WriteInv
<1> QED  BY <1>1, <1>2

LEMMA DeadlineType == IInv => CtxDeadline \in Deadline
  BY WireTypes DEF IInv, CtxDeadline, Deadline

LEMMA WorkNat == IInv => Work \in Nat
<1> SUFFICES ASSUME IInv PROVE Work \in Nat
  OBVIOUS
<1>1. job \in Jobs  BY DEF IInv, CallType
<1>2. job.id \in 0..MaxCalls  BY <1>1 DEF Jobs
<1> QED  BY <1>2, SessionAssumption DEF Work, SessionAssumption

LEMMA ExecuteInv == IInv /\ Execute => IInv'
<1> SUFFICES ASSUME IInv, Execute PROVE IInv'
  OBVIOUS
<1>1. /\ pc = "execute" /\ UNCHANGED dataVars /\ Goto("execute.read")
      /\ \/ Write(<<Asked("sql", 0, 0), Asked("execute", txs[cur].h, Work)>>,
                  <<"sql", "execute">>, 0, CtxDeadline, TRUE)
         \/ Write(<<Asked("execute", txs[cur].h, Work)>>, <<"execute">>,
                  0, CtxDeadline, TRUE)
  BY DEF Execute, At
<1>2. /\ pc \in Plain /\ pc \notin NilTxPlaces
      /\ "execute.read" \in Plain \ {"allocate.read"}
  BY <1>1 DEF Plain, Places, NilTxPlaces
<1>3. Work \in Nat  BY WorkNat
<1>4. /\ WireInv /\ cur # 0 /\ txs[cur].h \in Nat /\ CtxDeadline \in Deadline
  BY <1>2, HasTx, CurrentHandle, DeadlineType DEF IInv
<1>5. WireInv'  BY <1>1, <1>3, <1>4, ExecuteWrite
<1>6. UNCHANGED <<callVars, txVars, srvVars, sideVars>>  BY <1>1 DEF dataVars
<1>7. SrvType' /\ SideType'  BY <1>6, Kept
<1>8. Continue("execute.read")  BY <1>1, <1>6 DEF Continue
<1> QED  BY <1>2, <1>4, <1>5, <1>6, <1>7, <1>8, ContinueInv

LEMMA AbandonInv ==
  ASSUME IInv, pc \in Plain, pc \notin NilTxPlaces, NEW op \in Ops, Abandon(op),
         UNCHANGED <<txVars, srvVars, prepared, pinger, leaked>>
  PROVE  IInv'
<1>1. SrvType' /\ UNCHANGED txVars  BY Kept
<1>2. cur # 0 /\ stack = <<>> /\ WireInv /\ res \in Outcome
  BY HasTx, PlainStack, WireTypes DEF IInv
<1>3. CASE res = "timeout" /\ job.kind # "scroll"
  <2>1. CancelAndDrain(op) /\ cancelled' = TRUE /\ Continue("drain.read")
    BY <1>3 DEF Abandon
  <2>2. WireInv'  BY <1>2, <1>3, <2>1, CancelAndDrainInv
  <2>3. SideType'  BY <2>1 DEF IInv, SideType
  <2>4. "drain.read" \in Plain \ {"allocate.read"}  BY DEF Plain, Places
  <2> QED  BY <1>1, <1>2, <2>1, <2>2, <2>3, <2>4, ContinueInv
<1>4. CASE ~(res = "timeout" /\ job.kind # "scroll")
  <2>1. Disarm /\ UNCHANGED cancelled /\ (Leave("bad") \/ Leave(res))
    BY <1>4 DEF Abandon
  <2>2. WireInv'  BY <2>1, DisarmInv
  <2>3. SideType'  BY <2>1 DEF IInv, SideType
  <2>4. "bad" \in Outcome  BY DEF Outcome
  <2> QED  BY <1>1, <1>2, <2>1, <2>2, <2>3, <2>4, LeaveInv
<1> QED  BY <1>3, <1>4

LEMMA ExecuteReadInv == IInv /\ ExecuteRead => IInv'
<1> SUFFICES ASSUME IInv, ExecuteRead PROVE IInv'
  OBVIOUS
<1>1. /\ pc = "execute.read"
      /\ \/ Leave(res) /\ UNCHANGED <<wireVars, cancelled>>
         \/ Abandon("execute")
         \/ Disarm /\ Leave("bad") /\ UNCHANGED cancelled
         \/ Ask("info", 0, 0, armed) /\ Continue("info.read") /\ UNCHANGED cancelled
         \/ Disarm /\ Leave("nil") /\ UNCHANGED cancelled
      /\ UNCHANGED <<txVars, srvVars, prepared, pinger, leaked>>
  BY DEF ExecuteRead, At
<1>2. /\ pc \in Plain /\ pc \notin NilTxPlaces /\ "info.read" \in Plain \ {"allocate.read"}
  BY <1>1 DEF Plain, Places, NilTxPlaces
<1>3. /\ cur # 0 /\ stack = <<>> /\ res \in Outcome
      /\ "bad" \in Outcome /\ "nil" \in Outcome
  BY <1>2, HasTx, PlainStack, WireTypes DEF IInv, Outcome
<1>4. UNCHANGED cancelled => SideType'  BY <1>1 DEF IInv, SideType
<1>5. SrvType' /\ UNCHANGED txVars  BY <1>1, Kept
<1>6. CASE Leave(res) /\ UNCHANGED <<wireVars, cancelled>>
  BY <1>3, <1>4, <1>5, <1>6, Kept, LeaveInv
<1>7. CASE Abandon("execute")
  <2>1. "execute" \in Ops  BY DEF Ops
  <2> QED  BY <1>1, <1>2, <1>7, <2>1, AbandonInv
<1>8. CASE Disarm /\ Leave("bad") /\ UNCHANGED cancelled
  BY <1>3, <1>4, <1>5, <1>8, DisarmInv, LeaveInv
<1>9. CASE Ask("info", 0, 0, armed) /\ Continue("info.read") /\ UNCHANGED cancelled
  <2>1. WireInv'  BY <1>9, ArmedAsk DEF Ops
  <2> QED  BY <1>2, <1>3, <1>4, <1>5, <1>9, <2>1, ContinueInv
<1>10. CASE Disarm /\ Leave("nil") /\ UNCHANGED cancelled
  BY <1>3, <1>4, <1>5, <1>10, DisarmInv, LeaveInv
<1> QED  BY <1>1, <1>6, <1>7, <1>8, <1>9, <1>10

LEMMA DrainReadInv == IInv /\ DrainRead => IInv'
<1> SUFFICES ASSUME IInv, DrainRead PROVE IInv'
  OBVIOUS
<1>1. /\ pc = "drain.read" /\ SetDeadline("none")
      /\ Panic \/ Leave("bad") \/ Leave(res)
      /\ UNCHANGED <<txVars, srvVars, sideVars>>
  BY DEF DrainRead, At
<1>2. pc \in Plain /\ pc \notin NilTxPlaces
  BY <1>1 DEF Plain, Places, NilTxPlaces
<1>3. /\ cur # 0 /\ stack = <<>> /\ res \in Outcome /\ "bad" \in Outcome
  BY <1>2, HasTx, PlainStack, WireTypes DEF IInv, Outcome
<1>4. WireInv'  BY <1>1, SetDeadlineInv DEF IInv, Deadline
<1>5. SrvType' /\ SideType' /\ UNCHANGED txVars  BY <1>1, Kept
<1>6. CASE Panic  BY <1>2, <1>4, <1>5, <1>6, PanicInv
<1>7. CASE Leave("bad")  BY <1>3, <1>4, <1>5, <1>7, LeaveInv
<1>8. CASE Leave(res)  BY <1>3, <1>4, <1>5, <1>8, LeaveInv
<1> QED  BY <1>1, <1>6, <1>7, <1>8

LEMMA InfoReadInv == IInv /\ InfoRead => IInv'
<1> SUFFICES ASSUME IInv, InfoRead PROVE IInv'
  OBVIOUS
<1>1. /\ pc = "info.read"
      /\ \/ Disarm /\ Leave(res) /\ UNCHANGED cancelled
         \/ Abandon("info")
         \/ /\ Call("commitRetaining", "exec.committed")
            /\ UNCHANGED wireVars /\ UNCHANGED cancelled
         \/ Disarm /\ Leave("nil") /\ UNCHANGED cancelled
      /\ UNCHANGED <<txVars, srvVars, prepared, pinger, leaked>>
  BY DEF InfoRead, At
<1>2. /\ pc \in Plain /\ pc \notin NilTxPlaces
      /\ "commitRetaining" \in Places \ {"allocate.read"}
      /\ <<"exec.committed">> \in StacksAt("commitRetaining")
  BY <1>1, StackAt DEF Plain, Places, NilTxPlaces
<1>3. /\ cur # 0 /\ stack = <<>> /\ res \in Outcome /\ "nil" \in Outcome
  BY <1>2, HasTx, PlainStack, WireTypes DEF IInv, Outcome
<1>4. UNCHANGED cancelled => SideType'  BY <1>1 DEF IInv, SideType
<1>5. SrvType' /\ UNCHANGED txVars  BY <1>1, Kept
<1>6. CASE Disarm /\ Leave(res) /\ UNCHANGED cancelled
  BY <1>3, <1>4, <1>5, <1>6, DisarmInv, LeaveInv
<1>7. CASE Abandon("info")
  <2>1. "info" \in Ops  BY DEF Ops
  <2> QED  BY <1>1, <1>2, <1>7, <2>1, AbandonInv
<1>8. CASE /\ Call("commitRetaining", "exec.committed")
           /\ UNCHANGED wireVars /\ UNCHANGED cancelled
  <2>1. WireInv'  BY <1>8, Kept
  <2> QED  BY <1>2, <1>3, <1>4, <1>5, <1>8, <2>1, CallInv
<1>9. CASE Disarm /\ Leave("nil") /\ UNCHANGED cancelled
  BY <1>3, <1>4, <1>5, <1>9, DisarmInv, LeaveInv
<1> QED  BY <1>1, <1>6, <1>7, <1>8, <1>9

LEMMA ExecCommittedInv == IInv /\ ExecCommitted => IInv'
<1> SUFFICES ASSUME IInv, ExecCommitted PROVE IInv'
  OBVIOUS
<1>1. /\ pc = "exec.committed" /\ Disarm /\ Leave(res)
      /\ UNCHANGED <<txVars, srvVars, sideVars>>
  BY DEF ExecCommitted, At
<1>2. pc \in Plain /\ pc \notin NilTxPlaces
  BY <1>1 DEF Plain, Places, NilTxPlaces
<1>3. cur # 0 /\ stack = <<>> /\ res \in Outcome
  BY <1>2, HasTx, PlainStack, WireTypes DEF IInv
<1>4. WireInv' /\ SrvType' /\ SideType'  BY <1>1, DisarmInv, Kept
<1> QED  BY <1>1, <1>3, <1>4, LeaveInv

LEMMA ExecDoneInv == IInv /\ ExecDone => IInv'
<1> SUFFICES ASSUME IInv, ExecDone PROVE IInv'
  OBVIOUS
<1>1. Finish(err) /\ UNCHANGED <<wireVars, txVars, srvVars, sideVars>>
  BY DEF ExecDone
<1>2. WireInv' /\ SrvType' /\ SideType'  BY <1>1, Kept
<1> QED  BY <1>1, <1>2, FinishInv

-----------------------------------------------------------------------------
(***************************************************************************)
(* ExecImmediate.                                                          *)
(***************************************************************************)
LEMMA ImmediateInv == IInv /\ Immediate => IInv'
<1> SUFFICES ASSUME IInv, Immediate PROVE IInv'
  OBVIOUS
<1>1. /\ pc = "immediate" /\ UNCHANGED <<wireVars, txVars, srvVars, sideVars>>
      /\ \/ Finish("bad")
         \/ cur # 0 /\ Call("tx.begin", "immediate.begun")
         \/ cur # 0 /\ Continue("immediate.send")
  BY DEF Immediate, At
<1>2. WireInv' /\ SrvType' /\ SideType'  BY <1>1, Kept
<1>3. pc \in Plain /\ "immediate.send" \in Plain \ {"allocate.read"}
      /\ "tx.begin" \in Places \ {"allocate.read"}
  BY <1>1 DEF Plain, Places
<1>4. <<"immediate.begun">> \in StacksAt("tx.begin")  BY StackAt
<1>5. CASE Finish("bad")  BY <1>1, <1>2, <1>5, FinishInv
<1>6. CASE cur # 0 /\ Call("tx.begin", "immediate.begun")
  BY <1>1, <1>2, <1>3, <1>4, <1>6, CallInv
<1>7. CASE cur # 0 /\ Continue("immediate.send")
  BY <1>1, <1>2, <1>3, <1>7, ContinueInv
<1> QED  BY <1>1, <1>5, <1>6, <1>7

LEMMA ImmediateBegunInv == IInv /\ ImmediateBegun => IInv'
<1> SUFFICES ASSUME IInv, ImmediateBegun PROVE IInv'
  OBVIOUS
<1>1. /\ pc = "immediate.begun" /\ UNCHANGED <<wireVars, txVars, srvVars, sideVars>>
      /\ Continue("immediate.send") \/ Finish(res)
  BY DEF ImmediateBegun, At
<1>2. WireInv' /\ SrvType' /\ SideType'  BY <1>1, Kept
<1>3. pc \in Plain \ NilTxPlaces /\ "immediate.send" \in Plain \ {"allocate.read"}
  BY <1>1 DEF Plain, Places, NilTxPlaces
<1> QED  BY <1>1, <1>2, <1>3, DecideInv

LEMMA ImmediateSendInv == IInv /\ ImmediateSend => IInv'
<1> SUFFICES ASSUME IInv, ImmediateSend PROVE IInv'
  OBVIOUS
<1>1. /\ pc = "immediate.send" /\ Goto("immediate.read") /\ UNCHANGED dataVars
      /\ Ask("execute_immediate", txs[cur].h, Work, CtxDeadline)
  BY DEF ImmediateSend, At
<1>2. pc \in Plain \ NilTxPlaces /\ "immediate.read" \in Plain \ {"allocate.read"}
  BY <1>1 DEF Plain, Places, NilTxPlaces
<1>3. /\ txs[cur].h \in Nat /\ Work \in Nat /\ "execute_immediate" \in Ops
      /\ CtxDeadline \in Deadline /\ WireInv
  BY <1>2, HasTx, CurrentHandle, WorkNat, DeadlineType DEF Ops, IInv
<1>4. WireInv'  BY <1>1, <1>3, AskInv
<1> QED  BY <1>1, <1>2, <1>4, GoOnInv

LEMMA ImmediateReadInv == IInv /\ ImmediateRead => IInv'
<1> SUFFICES ASSUME IInv, ImmediateRead PROVE IInv'
  OBVIOUS
<1>1. /\ pc = "immediate.read" /\ UNCHANGED <<txVars, srvVars, sideVars>>
      /\ \/ Finish(res) /\ UNCHANGED wireVars
         \/ Disarm /\ Finish(res)
         \/ Disarm /\ Finish("nil")
         \/ Call("commitRetaining", "immediate.done") /\ UNCHANGED wireVars
  BY DEF ImmediateRead, At
<1>2. /\ pc \in Plain /\ pc \notin NilTxPlaces
      /\ "commitRetaining" \in Places \ {"allocate.read"}
      /\ <<"immediate.done">> \in StacksAt("commitRetaining")
  BY <1>1, StackAt DEF Plain, Places, NilTxPlaces
<1>3. SrvType' /\ SideType' /\ cur # 0  BY <1>1, <1>2, Kept, HasTx
<1>4. WireInv'  BY <1>1, Kept, DisarmInv
<1>5. CASE Finish(res)  BY <1>1, <1>3, <1>4, <1>5, FinishInv
<1>6. CASE Finish("nil")  BY <1>1, <1>3, <1>4, <1>6, FinishInv
<1>7. CASE Call("commitRetaining", "immediate.done")
  BY <1>1, <1>2, <1>3, <1>4, <1>7, CallInv
<1> QED  BY <1>1, <1>5, <1>6, <1>7

LEMMA ImmediateDoneInv == IInv /\ ImmediateDone => IInv'
<1> SUFFICES ASSUME IInv, ImmediateDone PROVE IInv'
  OBVIOUS
<1>1. Disarm /\ Finish(res) /\ UNCHANGED <<txVars, srvVars, sideVars>>
  BY DEF ImmediateDone
<1>2. WireInv' /\ SrvType' /\ SideType'  BY <1>1, DisarmInv, Kept
<1> QED  BY <1>1, <1>2, FinishInv

-----------------------------------------------------------------------------
(***************************************************************************)
(* Closing a statement or a cursor.                                        *)
(***************************************************************************)
LEMMA FreeInv == IInv /\ Free => IInv'
<1> SUFFICES ASSUME IInv, Free PROVE IInv'
  OBVIOUS
<1>1. /\ pc = "free" /\ Goto("free.read") /\ UNCHANGED dataVars
      /\ IF LazySend THEN AskLazily("free", TRUE) ELSE Ask("free", 0, 0, "fixed")
  BY DEF Free, At
<1>2. WireInv'
  <2>1. WireInv /\ "fixed" \in Deadline /\ "free" \in Uncollected /\ "free" \in Ops
        /\ 0 \in Nat
    BY DEF IInv, Deadline, Uncollected, Ops
  <2>2. CASE LazySend  BY <1>1, <2>1, <2>2, AskLazilyInv
  <2>3. CASE ~LazySend  BY <1>1, <2>1, <2>3, AskInv
  <2> QED  BY <2>2, <2>3
<1>3. stack \in StacksAt("free.read")  BY <1>1, StackAt DEF IInv, ControlOK
<1>4. pc \in Places /\ "free.read" \in Places \ {"allocate.read"}
      /\ "free.read" \in NilTxPlaces
  BY <1>1 DEF Places, NilTxPlaces
<1> QED  BY <1>1, <1>2, <1>3, <1>4, AskedInv

LEMMA FreeReadInv == IInv /\ FreeRead => IInv'
<1> SUFFICES ASSUME IInv, FreeRead PROVE IInv'
  OBVIOUS
<1> DEFINE back == IF stack = <<>> THEN "freed" ELSE Head(stack)
<1>1. /\ pc = "free.read"
      /\ UNCHANGED wireVars \/ ReadTimeoutCleared
      /\ \/ cur = 0 /\ Goto("panic") /\ UNCHANGED err
         \/ /\ cur # 0 /\ pc' = "commitRetaining" /\ stack' = <<back>>
            /\ err' = IF back = "freed" THEN res ELSE err
         \/ /\ res = "unsent" \/ cur # 0
            /\ pc' = back /\ stack' = <<>>
            /\ err' = IF back = "freed" THEN res ELSE err
      /\ UNCHANGED <<job, expired, holder, calls, again, tries, rows, fate, txVars,
                     srvVars, sideVars>>
  BY DEF FreeRead, At
<1>2. WireInv' /\ TxType' /\ SrvType' /\ SideType'  BY <1>1, Kept, ClearedInv
<1>3. stack \in {<<>>, <<"exec.done">>}  BY <1>1, StackAt DEF IInv, ControlOK
<1>4. back \in {"freed", "exec.done"} /\ (stack = <<>> => back = "freed")
  BY <1>3
<1> HIDE DEF back
<1>5. CallOK'
  <2>1. err' \in Outcome  BY <1>1, WireTypes DEF IInv, CallType
  <2> QED  BY <1>1, <2>1 DEF IInv, CallOK, CallType, RetryOK
<1>6. UNCHANGED <<cur, txs, holder>>  BY <1>1 DEF txVars
<1>7. CASE cur = 0 /\ Goto("panic")
  <2>1. pc' = "panic" /\ stack' = stack /\ pc' \in Places /\ pc' \in NilTxPlaces
    BY <1>7 DEF Goto, Places, NilTxPlaces
  <2>2. ControlOK'  BY <1>3, <1>6, <2>1, StackAt DEF IInv, ControlOK
  <2> QED  BY <1>2, <1>5, <2>1, <2>2, MovedInv
<1>8. CASE cur # 0 /\ pc' = "commitRetaining" /\ stack' = <<back>>
  <2>1. pc' \in Places /\ stack' \in StacksAt(pc')
    BY <1>4, <1>8, StackAt DEF Places
  <2>2. ControlOK'  BY <1>6, <1>8, <2>1 DEF IInv, ControlOK
  <2> QED  BY <1>2, <1>5, <1>8, <2>2, MovedInv
<1>9. CASE pc' = back /\ stack' = <<>>
  <2>1. pc' \in Plain \ {"allocate.read"}  BY <1>4, <1>9 DEF Plain, Places
  <2>2. cur = 0 => pc' \in NilTxPlaces
    BY <1>3, <1>4, <1>9 DEF IInv, ControlOK, NilTxPlaces
  <2>3. ControlOK'  BY <1>6, <1>9, <2>1, <2>2, StackAt DEF IInv, ControlOK, Plain
  <2> QED  BY <1>2, <1>5, <2>1, <2>3, MovedInv
<1> QED  BY <1>1, <1>7, <1>8, <1>9

LEMMA FreedInv == IInv /\ Freed => IInv'
<1> SUFFICES ASSUME IInv, Freed PROVE IInv'
  OBVIOUS
<1> DEFINE e == IF rows.bad THEN "bad" ELSE IF job.kind = "stmtClose" THEN "nil" ELSE err
<1>1. /\ Finish(e)
      /\ prepared' = (prepared /\ job.kind # "stmtClose")
      /\ UNCHANGED <<wireVars, txVars, srvVars, cancelled, pinger, leaked>>
  BY DEF Freed
<1> HIDE DEF e
<1>2. WireInv' /\ SrvType'  BY <1>1, Kept
<1>3. SideType'  BY <1>1 DEF IInv, SideType
<1> QED  BY <1>1, <1>2, <1>3, FinishInv

-----------------------------------------------------------------------------
(***************************************************************************)
(* Rows.                                                                   *)
(***************************************************************************)
\* Next and Close go on inside the rows.
LEMMA RowsInv ==
  ASSUME IInv, pc \in Plain, cur # 0, NEW l \in Plain \ {"allocate.read"}, Goto(l),
         rows' \in RowsObject, UNCHANGED rowsElse, WireInv', SideType'
  PROVE  IInv'
<1>1. stack = <<>>  BY PlainStack
<1>2. UNCHANGED <<job, err, expired, holder, calls, again, tries, fate, txVars, srvVars>>
  BY DEF rowsElse
<1>3. CallOK'  BY <1>2 DEF IInv, CallOK, CallType, RetryOK
<1>4. TxType' /\ SrvType'  BY <1>2, Kept
<1>5. UNCHANGED <<cur, holder>> /\ txs' # <<>>  BY <1>2 DEF txVars, IInv, ControlOK
<1> QED  BY <1>1, <1>3, <1>4, <1>5, GotoInv

LEMMA RowsFailInv ==
  ASSUME IInv, pc \in Plain, cur # 0, NEW b \in BOOLEAN, RowsFail(b),
         UNCHANGED rowsElse, WireInv', SideType'
  PROVE  IInv'
<1>1. Goto("rows") /\ rows' = [rows EXCEPT !.bad = b, !.more = FALSE, !.chunk = 0, !.fetched = FALSE]
  BY DEF RowsFail
<1>2. rows' \in RowsObject  BY <1>1 DEF IInv, CallType, RowsObject
<1>3. "rows" \in Plain \ {"allocate.read"}  BY DEF Plain, Places
<1> QED  BY <1>1, <1>2, <1>3, RowsInv

LEMMA RowsSame ==
  ASSUME IInv, UNCHANGED rows
  PROVE  rows' \in RowsObject
  BY DEF IInv, CallType

LEMMA NextColumnInv ==
  ASSUME IInv, pc \in Plain, cur # 0, NextColumn, UNCHANGED rowsElse,
         WireInv', SideType'
  PROVE  IInv'
<1>1. Goto("row") /\ rows' = [rows EXCEPT !.col = @ + 1]
  BY DEF NextColumn
<1>2. rows' \in RowsObject  BY <1>1 DEF IInv, CallType, RowsObject
<1>3. "row" \in Plain \ {"allocate.read"}  BY DEF Plain, Places
<1> QED  BY <1>1, <1>2, <1>3, RowsInv

\* The deadline is cleared, or nothing happens to the wire.
LEMMA NextReturnsInv ==
  ASSUME IInv, NextReturns
  PROVE  WireInv'
  BY DisarmInv, Kept DEF NextReturns

\* A column's read failed.
LEMMA ColumnFailsInv ==
  ASSUME IInv, pc \in Plain, cur # 0, ColumnFails, UNCHANGED rowsElse, SideType'
  PROVE  IInv'
<1>1. NextReturns /\ RowsFail(IsBad(res))  BY DEF ColumnFails
<1>2. WireInv'  BY <1>1, NextReturnsInv
<1>3. IsBad(res) \in BOOLEAN  BY DEF IsBad
<1> QED  BY <1>1, <1>2, <1>3, RowsFailInv

\* The rows, or the cursor, are closed.
LEMMA FreesInv ==
  ASSUME IInv, pc = "rows", Continue("free"),
         UNCHANGED <<wireVars, txVars, srvVars, sideVars>>
  PROVE  IInv'
<1>1. WireInv' /\ SrvType' /\ SideType'  BY Kept
<1>2. pc \in Plain /\ pc \notin NilTxPlaces /\ "free" \in NilTxPlaces
  BY DEF Plain, Places, NilTxPlaces
<1>3. stack = <<>> /\ stack \in StacksAt("free")  BY <1>2, PlainStack, StackAt
<1>4. CallOK' /\ TxType'  BY Kept DEF Continue
<1>5. /\ pc' = "free" /\ stack' = stack /\ "free" \in Places
      /\ UNCHANGED <<cur, txs, holder>>
  BY DEF Continue, Goto, callVars, txVars, Places
<1>6. ControlOK'  BY <1>2, <1>3, <1>5 DEF IInv, ControlOK
<1> QED  BY <1>1, <1>4, <1>5, <1>6, MovedInv

LEMMA RowsCloseInv == IInv /\ RowsClose => IInv'
<1> SUFFICES ASSUME IInv, RowsClose PROVE IInv'
  OBVIOUS
<1>1. /\ pc = "rows" /\ UNCHANGED <<wireVars, txVars, srvVars, sideVars>>
      /\ Continue("free") \/ Finish("bad") \/ Finish("nil")
  BY DEF RowsClose, At
<1>2. WireInv' /\ SrvType' /\ SideType'  BY <1>1, Kept
<1>3. CASE Continue("free")  BY <1>1, <1>3, FreesInv
<1>4. CASE Finish("bad")  BY <1>1, <1>2, <1>4, FinishInv
<1>5. CASE Finish("nil")  BY <1>1, <1>2, <1>5, FinishInv
<1> QED  BY <1>1, <1>3, <1>4, <1>5

LEMMA ScrollCloseInv == IInv /\ ScrollClose => IInv'
  BY FreesInv DEF ScrollClose, At

LEMMA ScrollFetchInv == IInv /\ ScrollFetch => IInv'
<1> SUFFICES ASSUME IInv, ScrollFetch PROVE IInv'
  OBVIOUS
<1>1. pc = "rows" /\ Goto("fetch") /\ UNCHANGED dataVars /\ UNCHANGED wireVars
  BY DEF ScrollFetch, At
<1>2. pc \in Plain \ NilTxPlaces /\ "fetch" \in Plain \ {"allocate.read"}
  BY <1>1 DEF Plain, Places, NilTxPlaces
<1>3. WireInv'  BY <1>1, Kept
<1> QED  BY <1>1, <1>2, <1>3, GoOnInv

LEMMA RowsExpiredInv == IInv /\ RowsExpired => IInv'
<1> SUFFICES ASSUME IInv, RowsExpired PROVE IInv'
  OBVIOUS
<1>1. /\ pc = "rows" /\ WatcherCancel /\ cancelled' = TRUE /\ RowsFail(TRUE)
      /\ UNCHANGED rowsElse /\ UNCHANGED <<prepared, pinger, leaked>>
  BY DEF RowsExpired, At
<1>2. WireInv'  BY <1>1, WatcherCancelInv DEF IInv
<1>3. SideType'  BY <1>1 DEF IInv, SideType
<1>4. pc \in Plain /\ cur # 0
  BY <1>1, HasTx DEF Plain, Places, NilTxPlaces
<1> QED  BY <1>1, <1>2, <1>3, <1>4, RowsFailInv

LEMMA RowsNextInv == IInv /\ RowsNext => IInv'
<1> SUFFICES ASSUME IInv, RowsNext PROVE IInv'
  OBVIOUS
<1>1. /\ pc = "rows" /\ UNCHANGED rowsElse /\ UNCHANGED sideVars
      /\ \/ /\ rows.chunk > 0
            /\ rows' = [rows EXCEPT !.chunk = @ - 1, !.col = 1]
            /\ Goto("row") /\ UNCHANGED wireVars
         \/ /\ SetDeadline(CtxDeadline)
            /\ Goto("fetch") /\ UNCHANGED rows
  BY DEF RowsNext, At
<1>2. SideType'  BY <1>1, Kept
<1>3. pc \in Plain /\ cur # 0
  BY <1>1, HasTx DEF Plain, Places, NilTxPlaces
<1>4. "row" \in Plain \ {"allocate.read"} /\ "fetch" \in Plain \ {"allocate.read"}
  BY DEF Plain, Places
<1>5. CASE /\ rows.chunk > 0
           /\ rows' = [rows EXCEPT !.chunk = @ - 1, !.col = 1]
           /\ Goto("row") /\ UNCHANGED wireVars
  <2>0. rows \in RowsObject /\ rows.chunk \in Nat /\ rows.chunk - 1 \in Nat
    BY <1>5 DEF IInv, CallType, RowsObject
  <2>1. rows' \in RowsObject
    <3>1. rows' = [rows EXCEPT !.chunk = rows.chunk - 1, !.col = 1]  BY <1>5
    <3> DEFINE c == rows.chunk - 1
    <3>2. c \in Nat /\ rows' = [rows EXCEPT !.chunk = c, !.col = 1]  BY <2>0, <3>1
    <3> HIDE DEF c
    <3> QED  BY <2>0, <3>2 DEF RowsObject
  <2>2. WireInv'  BY <1>5, Kept
  <2> QED  BY <1>1, <1>2, <1>3, <1>4, <1>5, <2>1, <2>2, RowsInv
<1>6. CASE SetDeadline(CtxDeadline) /\ Goto("fetch") /\ UNCHANGED rows
  <2>1. WireInv'  BY <1>6, DeadlineType, SetDeadlineInv DEF IInv
  <2> QED  BY <1>1, <1>2, <1>3, <1>4, <1>6, <2>1, RowsSame, RowsInv
<1> QED  BY <1>1, <1>5, <1>6

LEMMA FetchInv == IInv /\ Fetch => IInv'
<1> SUFFICES ASSUME IInv, Fetch PROVE IInv'
  OBVIOUS
<1>1. /\ pc = "fetch" /\ Ask("fetch", 0, 0, armed)
      /\ Goto("fetch.read") /\ UNCHANGED dataVars
  BY DEF Fetch, At
<1>2. "fetch" \in Ops  BY DEF Ops
<1>3. WireInv'  BY <1>1, <1>2, ArmedAsk
<1>4. pc \in Plain /\ cur # 0 /\ "fetch.read" \in Plain \ {"allocate.read"}
  BY <1>1, HasTx DEF Plain, Places, NilTxPlaces
<1>5. UNCHANGED <<callVars, txVars, srvVars, sideVars>>  BY <1>1 DEF dataVars
<1>6. SrvType' /\ SideType'  BY <1>5, Kept
<1>7. Continue("fetch.read")  BY <1>1, <1>5 DEF Continue
<1> QED  BY <1>3, <1>4, <1>5, <1>6, <1>7, ContinueInv

LEMMA FetchReadInv == IInv /\ FetchRead => IInv'
<1> SUFFICES ASSUME IInv, FetchRead PROVE IInv'
  OBVIOUS
<1>1. /\ pc = "fetch.read" /\ UNCHANGED rowsElse /\ UNCHANGED sideVars
      /\ \/ /\ UNCHANGED wireVars /\ Goto("row")
            /\ \E n \in 1..MaxRows, more \in BOOLEAN :
                  rows' = [rows EXCEPT !.chunk = n - 1, !.more = more, !.col = 1, !.fetched = TRUE]
         \/ Disarm /\ rows' = [rows EXCEPT !.more = FALSE] /\ Goto("rows")
         \/ Disarm /\ RowsFail(expired \/ IsBad(res))
  BY DEF FetchRead, At
<1>2. SideType' /\ (UNCHANGED wireVars \/ Disarm => WireInv')  BY <1>1, DisarmInv, Kept
<1>3. /\ pc \in Plain /\ cur # 0
      /\ "rows" \in Plain \ {"allocate.read"} /\ "row" \in Plain \ {"allocate.read"}
  BY <1>1, HasTx DEF Plain, Places, NilTxPlaces
<1>4. ASSUME NEW n \in 1..MaxRows, NEW more \in BOOLEAN, UNCHANGED wireVars, Goto("row"),
             rows' = [rows EXCEPT !.chunk = n - 1, !.more = more, !.col = 1, !.fetched = TRUE]
      PROVE  IInv'
  <2>1. n - 1 \in Nat
    BY SessionAssumption DEF SessionAssumption
  <2>2. rows' \in RowsObject
    <3> DEFINE c == n - 1
    <3>1. c \in Nat /\ rows' = [rows EXCEPT !.chunk = c, !.more = more, !.col = 1, !.fetched = TRUE]
      BY <1>4, <2>1
    <3> HIDE DEF c
    <3> QED  BY <3>1 DEF IInv, CallType, RowsObject
  <2> QED  BY <1>1, <1>2, <1>3, <1>4, <2>2, RowsInv
<1>5. CASE Disarm /\ rows' = [rows EXCEPT !.more = FALSE] /\ Goto("rows")
  <2>1. rows' \in RowsObject  BY <1>5 DEF IInv, CallType, RowsObject
  <2> QED  BY <1>1, <1>2, <1>3, <1>5, <2>1, RowsInv
<1>6. CASE Disarm /\ RowsFail(expired \/ IsBad(res))
  <2>0. expired \in BOOLEAN /\ IsBad(res) \in BOOLEAN  BY DEF IsBad, IInv, CallType
  <2>1. (expired \/ IsBad(res)) \in BOOLEAN  BY <2>0, Zenon
  <2> QED  BY <1>1, <1>2, <1>3, <1>6, <2>1, RowsFailInv
<1> QED  BY <1>1, <1>4, <1>5, <1>6

LEMMA RowInv == IInv /\ Row => IInv'
<1> SUFFICES ASSUME IInv, Row PROVE IInv'
  OBVIOUS
<1>1. /\ pc = "row" /\ UNCHANGED rowsElse /\ UNCHANGED sideVars
      /\ \/ NextReturns /\ rows' = [rows EXCEPT !.fetched = FALSE] /\ Goto("rows")
         \/ NextColumn /\ UNCHANGED wireVars
         \/ AskBlindly("open_blob", txs[cur].h) /\ Goto("blob.read") /\ UNCHANGED rows
         \/ Ask("slice", txs[cur].h, 0, armed) /\ Goto("slice.read") /\ UNCHANGED rows
  BY DEF Row, At
<1>2. SideType'  BY <1>1, Kept
<1>3. pc \in Plain /\ cur # 0
  BY <1>1, HasTx DEF Plain, Places, NilTxPlaces
<1>4. /\ "rows" \in Plain \ {"allocate.read"} /\ "blob.read" \in Plain \ {"allocate.read"}
      /\ "slice.read" \in Plain \ {"allocate.read"}
  BY DEF Plain, Places
<1>5. txs[cur].h \in Nat /\ "open_blob" \in Ops /\ "slice" \in Ops /\ 0 \in Nat
  BY <1>3, CurrentHandle DEF Ops
<1>6. CASE NextReturns /\ rows' = [rows EXCEPT !.fetched = FALSE] /\ Goto("rows")
  <2>1. WireInv'  BY <1>6, NextReturnsInv
  <2>2. rows' \in RowsObject  BY <1>6 DEF IInv, CallType, RowsObject
  <2> QED  BY <1>1, <1>2, <1>3, <1>4, <1>6, <2>1, <2>2, RowsInv
<1>7. CASE NextColumn /\ UNCHANGED wireVars
  <2>1. WireInv'  BY <1>7, Kept
  <2> QED  BY <1>1, <1>2, <1>3, <1>7, <2>1, NextColumnInv
<1>8. CASE AskBlindly("open_blob", txs[cur].h) /\ Goto("blob.read") /\ UNCHANGED rows
  <2>1. WireInv'  BY <1>5, <1>8, BlindAsk
  <2> QED  BY <1>1, <1>2, <1>3, <1>4, <1>8, <2>1, RowsSame, RowsInv
<1>9. CASE Ask("slice", txs[cur].h, 0, armed) /\ Goto("slice.read") /\ UNCHANGED rows
  <2>1. WireInv'  BY <1>5, <1>9, ArmedAsk
  <2> QED  BY <1>1, <1>2, <1>3, <1>4, <1>9, <2>1, RowsSame, RowsInv
<1> QED  BY <1>1, <1>6, <1>7, <1>8, <1>9

LEMMA BlobReadInv == IInv /\ BlobRead => IInv'
<1> SUFFICES ASSUME IInv, BlobRead PROVE IInv'
  OBVIOUS
<1>1. /\ pc = "blob.read" /\ UNCHANGED rowsElse /\ UNCHANGED sideVars
      /\ \/ AskBlindly("get_segment", 0) /\ Goto("segment.read") /\ UNCHANGED rows
         \/ ColumnFails
  BY DEF BlobRead, At
<1>2. SideType'  BY <1>1, Kept
<1>3. pc \in Plain /\ cur # 0 /\ "segment.read" \in Plain \ {"allocate.read"}
  BY <1>1, HasTx DEF Plain, Places, NilTxPlaces
<1>4. "get_segment" \in Ops /\ 0 \in Nat
  BY DEF Ops
<1>5. CASE AskBlindly("get_segment", 0) /\ Goto("segment.read") /\ UNCHANGED rows
  <2>1. WireInv'  BY <1>4, <1>5, BlindAsk
  <2> QED  BY <1>1, <1>2, <1>3, <1>5, <2>1, RowsSame, RowsInv
<1>6. CASE ColumnFails
  BY <1>1, <1>2, <1>3, <1>6, ColumnFailsInv
<1> QED  BY <1>1, <1>5, <1>6

LEMMA SegmentReadInv == IInv /\ SegmentRead => IInv'
<1> SUFFICES ASSUME IInv, SegmentRead PROVE IInv'
  OBVIOUS
<1>1. /\ pc = "segment.read" /\ UNCHANGED rowsElse /\ UNCHANGED sideVars
      /\ \/ ColumnFails
         \/ AskBlindly("get_segment", 0) /\ Goto("segment.read") /\ UNCHANGED rows
         \/ /\ AskLazily("close_blob", FALSE) \/ AskBlindly("close_blob", 0)
            /\ Goto("blob.closed") /\ UNCHANGED rows
  BY DEF SegmentRead, At
<1>2. SideType'  BY <1>1, Kept
<1>3. /\ pc \in Plain /\ cur # 0 /\ "segment.read" \in Plain \ {"allocate.read"}
      /\ "blob.closed" \in Plain \ {"allocate.read"}
  BY <1>1, HasTx DEF Plain, Places, NilTxPlaces
<1>4. /\ "get_segment" \in Ops /\ "close_blob" \in Ops /\ 0 \in Nat
      /\ "close_blob" \in Uncollected
  BY DEF Ops, Uncollected
<1>5. CASE ColumnFails
  BY <1>1, <1>2, <1>3, <1>5, ColumnFailsInv
<1>6. CASE AskBlindly("get_segment", 0) /\ Goto("segment.read") /\ UNCHANGED rows
  <2>1. WireInv'  BY <1>4, <1>6, BlindAsk
  <2> QED  BY <1>1, <1>2, <1>3, <1>6, <2>1, RowsSame, RowsInv
<1>7. CASE /\ AskLazily("close_blob", FALSE) \/ AskBlindly("close_blob", 0)
           /\ Goto("blob.closed") /\ UNCHANGED rows
  <2>1. WireInv'
    <3>1. WireInv  BY DEF IInv
    <3>2. CASE AskLazily("close_blob", FALSE)
      BY <1>4, <3>1, <3>2, AskLazilyInv
    <3>3. CASE AskBlindly("close_blob", 0)
      BY <1>4, <3>3, BlindAsk
    <3> QED  BY <1>7, <3>2, <3>3
  <2> QED  BY <1>1, <1>2, <1>3, <1>7, <2>1, RowsSame, RowsInv
<1> QED  BY <1>1, <1>5, <1>6, <1>7

LEMMA ColumnReadInv == IInv /\ ColumnRead => IInv'
<1> SUFFICES ASSUME IInv, ColumnRead PROVE IInv'
  OBVIOUS
<1>1. /\ pc \in {"blob.closed", "slice.read"}
      /\ UNCHANGED rowsElse /\ UNCHANGED sideVars
      /\ (NextColumn /\ UNCHANGED wireVars) \/ ColumnFails
  BY DEF ColumnRead, At
<1>2. SideType' /\ (UNCHANGED wireVars => WireInv')  BY <1>1, Kept
<1>3. pc \in Plain /\ cur # 0
  BY <1>1, HasTx DEF Plain, Places, NilTxPlaces
<1>4. CASE NextColumn /\ UNCHANGED wireVars  BY <1>1, <1>2, <1>3, <1>4, NextColumnInv
<1>5. CASE ColumnFails  BY <1>1, <1>2, <1>3, <1>5, ColumnFailsInv
<1> QED  BY <1>1, <1>4, <1>5

-----------------------------------------------------------------------------
(***************************************************************************)
(* Ping and teardown.                                                      *)
(***************************************************************************)
LEMMA PingInv == IInv /\ Ping => IInv'
<1> SUFFICES ASSUME IInv, Ping PROVE IInv'
  OBVIOUS
<1>1. /\ pc = "ping" /\ UNCHANGED <<txVars, srvVars, prepared, cancelled, leaked>>
      /\ \/ Finish("other") /\ UNCHANGED <<wireVars, pinger>>
         \/ /\ pinger' = IF job.ctx = "none" THEN pinger ELSE "watching"
            /\ Ask("ping", 0, 0, CtxDeadline) /\ Continue("ping.read")
  BY DEF Ping, At
<1>2. SrvType' /\ UNCHANGED txVars  BY <1>1, Kept
<1>3. SideType'  BY <1>1 DEF IInv, SideType
<1>4. CASE Finish("other") /\ UNCHANGED <<wireVars, pinger>>
  <2>1. WireInv'  BY <1>4, Kept
  <2> QED  BY <1>2, <1>3, <1>4, <2>1, FinishInv
<1>5. CASE Ask("ping", 0, 0, CtxDeadline) /\ Continue("ping.read")
  <2>1. "ping" \in Ops /\ 0 \in Nat /\ CtxDeadline \in Deadline /\ WireInv
    BY DeadlineType DEF Ops, IInv
  <2>2. WireInv'  BY <1>5, <2>1, AskInv
  <2>3. /\ pc \in Plain /\ "ping.read" \in Plain \ {"allocate.read"}
        /\ "ping.read" \in NilTxPlaces
    BY <1>1 DEF Plain, Places, NilTxPlaces
  <2> QED  BY <1>2, <1>3, <1>5, <2>2, <2>3, ContinueInv
<1> QED  BY <1>1, <1>4, <1>5

LEMMA PingReadInv == IInv /\ PingRead => IInv'
<1> SUFFICES ASSUME IInv, PingRead PROVE IInv'
  OBVIOUS
<1>1. /\ Disarm
      /\ pinger' \in IF pinger = "watching" THEN {"left", "none"} ELSE {pinger}
      /\ Finish(IF res = "nil" THEN "nil" ELSE "bad")
      /\ UNCHANGED <<txVars, srvVars, prepared, cancelled, leaked>>
  BY DEF PingRead
<1>2. WireInv' /\ SrvType'  BY <1>1, DisarmInv, Kept
<1>3. SideType'  BY <1>1 DEF IInv, SideType
<1> QED  BY <1>1, <1>2, <1>3, FinishInv

\* The connection's goroutine stays where it is.
LEMMA StayInv ==
  ASSUME IInv, UNCHANGED <<ctlVars, txVars, holder>>,
         WireInv', CallOK', SrvType', SideType', ReclaimOK'
  PROVE  IInv'
<1>1. TxType'  BY Kept
<1>2. ControlOK'  BY DEF IInv, ControlOK, ctlVars, txVars
<1> QED  BY <1>1, <1>2 DEF IInv, CallOK

LEMMA PingWatcherInv == IInv /\ PingWatcher => IInv'
<1> SUFFICES ASSUME IInv, PingWatcher PROVE IInv'
  OBVIOUS
<1>1. /\ pinger' = "none" /\ SetDeadline("past")
      /\ UNCHANGED <<ctlVars, callVars, txVars, srvVars, prepared, cancelled, leaked>>
  BY DEF PingWatcher
<1>2. WireInv'  BY <1>1, SetDeadlineInv DEF IInv, Deadline
<1>3. SideType'  BY <1>1 DEF IInv, SideType
<1>4. CallOK' /\ SrvType' /\ UNCHANGED holder  BY <1>1, Kept DEF callVars
<1>5. ReclaimOK'  BY <1>1 DEF IInv, ReclaimOK, SetDeadline, ctlVars
<1> QED  BY <1>1, <1>2, <1>3, <1>4, <1>5, StayInv

LEMMA CloseInv == IInv /\ Close => IInv'
<1> SUFFICES ASSUME IInv, Close PROVE IInv'
  OBVIOUS
<1>1. /\ pc = "close" /\ UNCHANGED <<callVars, cur, srvVars, sideVars>>
      /\ \/ \E i \in 1..Len(txs) :
               /\ Ask("rollback", txs[i].h, 0, "fixed")
               /\ txs' = [txs EXCEPT ![i].begun = FALSE]
               /\ Goto("close.read")
         \/ /\ Ask("detach", 0, 0, "fixed")
            /\ Goto("detach.read") /\ UNCHANGED txs
  BY DEF Close, At
<1>2. CallOK' /\ SrvType' /\ SideType' /\ UNCHANGED <<cur, holder>>
  BY <1>1, Kept DEF callVars
<1>3. /\ pc \in Plain /\ stack = <<>>
      /\ "close.read" \in Plain \ {"allocate.read"} /\ "close.read" \in NilTxPlaces
      /\ "detach.read" \in Plain \ {"allocate.read"} /\ "detach.read" \in NilTxPlaces
  BY <1>1, PlainStack DEF Plain, Places, NilTxPlaces
<1>4. /\ WireInv /\ 0 \in Nat /\ "fixed" \in Deadline
      /\ "rollback" \in Ops /\ "detach" \in Ops
  BY DEF IInv, Deadline, Ops
<1>5. ASSUME NEW i \in 1..Len(txs), Ask("rollback", txs[i].h, 0, "fixed"),
             txs' = [txs EXCEPT ![i].begun = FALSE], Goto("close.read")
      PROVE  IInv'
  <2>1. TxType /\ txs[i].h \in Nat /\ reply \in Nat
    BY HandleNat, WireTypes DEF IInv
  <2>2. WireInv'  BY <1>4, <1>5, <2>1, AskInv
  <2>3. TxType' /\ txs' # <<>>  BY <1>1, <1>5, <2>1, TxsUpdated
  <2> QED  BY <1>2, <1>3, <1>5, <2>2, <2>3, GotoInv
<1>6. ASSUME Ask("detach", 0, 0, "fixed"), Goto("detach.read"), UNCHANGED txs
      PROVE  IInv'
  <2>1. WireInv'  BY <1>4, <1>6, AskInv
  <2>2. TxType' /\ txs' # <<>>  BY <1>1, <1>6, Kept DEF txVars, IInv, ControlOK
  <2> QED  BY <1>2, <1>3, <1>6, <2>1, <2>2, GotoInv
<1> QED  BY <1>1, <1>5, <1>6

LEMMA CloseReadInv == IInv /\ CloseRead => IInv'
<1> SUFFICES ASSUME IInv, CloseRead PROVE IInv'
  OBVIOUS
<1>1. pc = "close.read" /\ ReadTimeoutCleared /\ Goto("close") /\ UNCHANGED dataVars
  BY DEF CloseRead, At
<1>2. WireInv'  BY <1>1, ClearedInv
<1>3. /\ pc \in Plain /\ "close" \in Plain \ {"allocate.read"} /\ "close" \in NilTxPlaces
  BY <1>1 DEF Plain, Places, NilTxPlaces
<1>4. stack \in StacksAt("close")  BY <1>3, PlainStack, StackAt
<1> QED  BY <1>1, <1>2, <1>3, <1>4, AskedInv DEF Plain

LEMMA DetachReadInv == IInv /\ DetachRead => IInv'
<1> SUFFICES ASSUME IInv, DetachRead PROVE IInv'
  OBVIOUS
<1>1. /\ pc = "detach.read" /\ leaked' = (res = "unsent")
      /\ holder' = "gone" /\ Goto("idle")
      /\ UNCHANGED <<wireVars, job, err, expired, calls, again, tries, rows, fate,
                     txVars, srvVars, prepared, cancelled, pinger>>
  BY DEF DetachRead, At
<1>2. WireInv' /\ TxType' /\ SrvType'  BY <1>1, Kept
<1>3. SideType'  BY <1>1 DEF IInv, SideType
<1>4. CallOK'  BY <1>1 DEF IInv, CallOK, CallType, RetryOK
<1>5. pc \in Plain  BY <1>1 DEF Plain, Places
<1>6. /\ pc' = "idle" /\ stack' = <<>> /\ txs' # <<>>
  BY <1>1, <1>5, PlainStack DEF Goto, txVars, IInv, ControlOK
<1> QED  BY <1>1, <1>2, <1>3, <1>4, <1>6, IdleInv

LEMMA ReconnectInv == IInv /\ Reconnect => IInv'
<1> SUFFICES ASSUME IInv, Reconnect PROVE IInv'
  OBVIOUS
<1>1. /\ pc = "idle" /\ WireReset /\ holder' = "pool"
      /\ txs' = NewConnection /\ cur' = 1 /\ srv' = <<>>
      /\ prepared' = FALSE /\ cancelled' = FALSE /\ pinger' = "none" /\ leaked' = FALSE
      /\ UNCHANGED <<ctlVars, job, err, expired, calls, again, tries, rows, fate,
                     applied>>
  BY DEF Reconnect
<1>2. WireInv'  BY <1>1, WireResetInv
<1>3. SideType'  BY <1>1 DEF SideType
<1>4. CallOK'  BY <1>1 DEF IInv, CallOK, CallType, RetryOK
<1>5. TxType' /\ txs' # <<>>
  <2>1. NewConnection \in Seq(TxObject) /\ Len(NewConnection) = 1
    BY DEF NewConnection, TxObject
  <2>2. NewConnection # <<>>  BY <2>1
  <2> QED  BY <1>1, <2>1, <2>2 DEF TxType
<1>6. SrvType'
  <2>1. <<>> \in Seq(ServerTx)  OBVIOUS
  <2> QED  BY <1>1, <2>1 DEF IInv, SrvType
<1>7. pc \in Plain  BY <1>1 DEF Plain, Places
<1>8. pc' = "idle" /\ stack' = <<>>  BY <1>1, <1>7, PlainStack DEF ctlVars
<1> QED  BY <1>1, <1>2, <1>3, <1>4, <1>5, <1>6, <1>8, IdleInv

-----------------------------------------------------------------------------
(***************************************************************************)
(* The application and the environment.                                    *)
(***************************************************************************)
LEMMA StartPlaces ==
  ASSUME NEW k \in CallKinds \ {"commit", "rollback"}
  PROVE  StartOf(k) \in {"prepare", "run", "free", "begin", "ping", "immediate"}
  BY DEF CallKinds, StartOf

LEMMA CallChoices ==
  ASSUME NEW k \in Kinds, NEW c \in ContextsOf(k), NEW s \in ShapesOf(k)
  PROVE  k \in CallKinds /\ c \in CtxKinds /\ s \in {"dml", "select", "proc"}
<1>1. /\ Kinds \subseteq CallKinds /\ Shapes \subseteq {"dml", "select", "proc"}
      /\ Contexts \subseteq CtxKinds /\ TxContexts \subseteq CtxKinds
      /\ PingContexts \subseteq CtxKinds /\ RawContexts \subseteq CtxKinds
  BY SessionAssumption DEF SessionAssumption
<1>2. c \in CtxKinds  BY <1>1 DEF ContextsOf, CtxKinds
<1>3. s \in {"dml", "select", "proc"}  BY <1>1 DEF ShapesOf
<1> QED  BY <1>1, <1>2, <1>3

\* A call starts where no subroutine runs and a nil fc.tx is allowed for.
LEMMA StartInv ==
  ASSUME IInv, pc = "idle",
         NEW l \in {"prepare", "run", "free", "begin", "ping", "immediate"},
         Goto(l), cur' = 0 => holder' \notin {"tx", "txcall"},
         WireInv', CallOK', UNCHANGED <<txVars, srvVars, sideVars>>
  PROVE  IInv'
<1>1. TxType' /\ SrvType' /\ SideType'  BY Kept
<1>2. pc \in Plain  BY DEF Plain, Places
<1>3. pc' = l /\ stack' = <<>> /\ txs' # <<>>
  BY <1>2, PlainStack DEF Goto, txVars, IInv, ControlOK
<1>4. /\ l \in Places /\ l \in NilTxPlaces /\ l # "allocate.read"
      /\ l \in Plain \/ l = "free"
  BY DEF Places, NilTxPlaces, Plain
<1>5. <<>> \in StacksAt(l)  BY <1>4, StackAt
<1>6. ControlOK'  BY <1>3, <1>4, <1>5 DEF ControlOK
<1> QED  BY <1>1, <1>3, <1>4, <1>6, MovedInv

LEMMA CallStartInv == IInv /\ CallStart => IInv'
<1> SUFFICES ASSUME IInv, CallStart PROVE IInv'
  OBVIOUS
<1>1. /\ pc = "idle" /\ again = NoJob /\ calls < MaxCalls
      /\ holder' = IF holder = "tx" THEN "txcall" ELSE "call"
      /\ calls' = calls + 1 /\ tries' = 0
      /\ UNCHANGED <<wireVars, err, expired, again, rows, txVars, srvVars, sideVars>>
  BY DEF CallStart
<1>2. PICK k \in Kinds \ {"commit", "rollback"} :
         /\ Goto(StartOf(k))
         /\ \E c \in ContextsOf(k), s \in ShapesOf(k) :
               /\ job' = [kind |-> k, shape |-> s, ctx |-> c, id |-> calls + 1]
               /\ fate' = IF s = "select" THEN fate
                          ELSE [fate EXCEPT ![calls + 1] =
                                   IF holder = "tx" THEN "txrun" ELSE "run"]
  BY DEF CallStart
<1>3. PICK c \in ContextsOf(k), s \in ShapesOf(k) :
               /\ job' = [kind |-> k, shape |-> s, ctx |-> c, id |-> calls + 1]
               /\ fate' = IF s = "select" THEN fate
                          ELSE [fate EXCEPT ![calls + 1] =
                                   IF holder = "tx" THEN "txrun" ELSE "run"]
  BY <1>2
<1>4. k \in CallKinds /\ c \in CtxKinds /\ s \in {"dml", "select", "proc"}
  BY CallChoices
<1>5. CallType /\ MaxCalls \in Nat /\ MaxTries \in Nat
  BY SessionAssumption DEF IInv, SessionAssumption
<1>6. CallOK'
  <2>1. calls + 1 \in 0..MaxCalls /\ calls + 1 \in Calls /\ 0 \in 0..MaxTries
    BY <1>1, <1>5 DEF CallType, Calls
  <2>2. job' \in Jobs  BY <1>3, <1>4, <2>1 DEF Jobs
  <2>3. fate' \in [Calls -> Fates]  BY <1>3, <1>5, <2>1 DEF CallType, Fates
  <2>4. holder' \in {"pool", "call", "tx", "txcall", "closing", "gone"}  BY <1>1
  <2>5. CallType'  BY <1>1, <1>5, <2>1, <2>2, <2>3, <2>4 DEF CallType
  <2>6. RetryOK'  BY <1>1 DEF RetryOK
  <2> QED  BY <2>5, <2>6 DEF CallOK
<1>7. cur' = 0 => holder' \notin {"tx", "txcall"}
  BY <1>1 DEF txVars, IInv, ControlOK
<1>8. StartOf(k) \in {"prepare", "run", "free", "begin", "ping", "immediate"}
  BY <1>4, StartPlaces
<1>9. WireInv'  BY <1>1, Kept
<1>10. UNCHANGED <<txVars, srvVars, sideVars>> /\ pc = "idle"  BY <1>1
<1> QED  BY <1>2, <1>6, <1>7, <1>8, <1>9, <1>10, StartInv

LEMMA RetryInv == IInv /\ Retry => IInv'
<1> SUFFICES ASSUME IInv, Retry PROVE IInv'
  OBVIOUS
<1>1. /\ pc = "idle" /\ again # NoJob
      /\ job' = again /\ again' = NoJob /\ tries' = tries + 1
      /\ Goto(StartOf(again.kind)) /\ holder' = "call"
      /\ UNCHANGED <<wireVars, err, expired, calls, rows, fate, txVars, srvVars, sideVars>>
  BY DEF Retry
<1>2. again.kind \in Retried /\ tries < MaxTries /\ CallType
  BY <1>1 DEF IInv, RetryOK
<1>3. CallOK'
  <2>1. tries + 1 \in 0..MaxTries
    BY <1>2, SessionAssumption DEF SessionAssumption, CallType
  <2>2. job' \in Jobs /\ again' \in Jobs  BY <1>1, <1>2, NoJobType DEF CallType
  <2>3. CallType'  BY <1>1, <1>2, <2>1, <2>2 DEF CallType
  <2>4. RetryOK'  BY <1>1 DEF RetryOK
  <2> QED  BY <2>3, <2>4 DEF CallOK
<1>4. again.kind \in CallKinds \ {"commit", "rollback"}
  BY <1>2 DEF Retried, CallKinds
<1>5. StartOf(again.kind) \in {"prepare", "run", "free", "begin", "ping", "immediate"}
  BY <1>4, StartPlaces
<1>6. WireInv'  BY <1>1, Kept
<1>7. cur' = 0 => holder' \notin {"tx", "txcall"}  BY <1>1
<1>8. UNCHANGED <<txVars, srvVars, sideVars>> /\ pc = "idle"  BY <1>1
<1> QED  BY <1>1, <1>3, <1>5, <1>6, <1>7, <1>8, StartInv

LEMMA TxEndInv == IInv /\ TxEnd => IInv'
<1> SUFFICES ASSUME IInv, TxEnd PROVE IInv'
  OBVIOUS
<1>1. /\ pc = "idle" /\ holder = "tx" /\ holder' = "txcall"
      /\ UNCHANGED <<wireVars, err, expired, calls, again, tries, rows, txVars,
                     srvVars, sideVars>>
  BY DEF TxEnd
<1>2. PICK k \in {"commit", "rollback"} :
         /\ job' = [NoJob EXCEPT !.kind = k]
         /\ Goto(k)
         /\ fate' = [i \in Calls |->
                       IF fate[i] \notin {"txrun", "txdone"} THEN fate[i]
                       ELSE IF k = "rollback" THEN "denied"
                       ELSE IF fate[i] = "txdone" THEN "committing" ELSE "unsure"]
  BY DEF TxEnd
<1>3. CallOK'
  <2>1. job' \in Jobs
    <3>1. job' = [kind |-> k, shape |-> "select", ctx |-> "none", id |-> 0]
      BY <1>2 DEF NoJob
    <3>2. 0 \in 0..MaxCalls  BY SessionAssumption DEF SessionAssumption
    <3> QED  BY <3>1, <3>2 DEF Jobs, CallKinds, CtxKinds
  <2>2. fate' \in [Calls -> Fates]  BY <1>2 DEF IInv, CallType, Fates
  <2>3. CallType'  BY <1>1, <2>1, <2>2 DEF IInv, CallType
  <2>4. RetryOK'  BY <1>1 DEF IInv, RetryOK
  <2> QED  BY <2>3, <2>4 DEF CallOK
<1>4. WireInv' /\ TxType' /\ SrvType' /\ SideType'  BY <1>1, Kept
<1>5. pc \in Plain /\ k \in Plain \ {"allocate.read"} /\ cur # 0
  BY <1>1 DEF Plain, Places, IInv, ControlOK
<1>6. pc' = k /\ stack' = <<>> /\ txs' # <<>> /\ cur' # 0
  BY <1>1, <1>2, <1>5, PlainStack DEF Goto, txVars, IInv, ControlOK
<1>7. ControlOK'  BY <1>5, <1>6, StackAt DEF ControlOK, Plain
<1> QED  BY <1>3, <1>4, <1>5, <1>6, <1>7, MovedInv

\* What the server does to its transactions.
LEMMA EffectType ==
  ASSUME SrvType, NEW t, t.op \in InTransaction => Open(t.h), Effect(t)
  PROVE  SrvType'
<1>1. srv \in Seq(ServerTx) /\ applied \in [Calls -> Nat]  BY DEF SrvType
<1>2. t.op \in {"execute", "execute_immediate", "commit", "commit_retaining", "rollback"}
        => t.h \in 1..Len(srv)
  BY DEF InTransaction, Open
<1>3. [open |-> TRUE, work |-> {}] \in ServerTx /\ [open |-> FALSE, work |-> {}] \in ServerTx
  BY DEF ServerTx
<1>4. CASE t.op = "transaction"
  <2>1. srv' = Append(srv, [open |-> TRUE, work |-> {}]) /\ UNCHANGED applied
    BY <1>4 DEF Effect
  <2>2. srv' \in Seq(ServerTx)  BY <1>1, <1>3, <2>1
  <2> QED  BY <1>1, <2>1, <2>2 DEF SrvType
<1>5. CASE t.op \in {"execute", "execute_immediate"}
  <2>1. /\ srv' = [srv EXCEPT ![t.h].work = @ \cup ({t.w} \cap Calls)]
        /\ UNCHANGED applied
    BY <1>5 DEF Effect
  <2> DEFINE x == [srv[t.h] EXCEPT !.work = @ \cup ({t.w} \cap Calls)]
  <2>2. t.h \in 1..Len(srv) /\ srv[t.h] \in ServerTx  BY <1>1, <1>2, <1>5
  <2>3. x \in ServerTx  BY <2>2 DEF ServerTx
  <2>4. srv' = [srv EXCEPT ![t.h] = x]  BY <2>1
  <2> HIDE DEF x
  <2>5. srv' \in Seq(ServerTx)  BY <1>1, <2>2, <2>3, <2>4
  <2> QED  BY <1>1, <2>1, <2>5 DEF SrvType
<1>6. CASE t.op \in {"commit", "commit_retaining"}
  <2> DEFINE x == [open |-> t.op = "commit_retaining", work |-> {}]
  <2>1. /\ srv' = [srv EXCEPT ![t.h] = x]
        /\ applied' = [i \in Calls |-> IF i \in srv[t.h].work THEN applied[i] + 1
                                       ELSE applied[i]]
    BY <1>6 DEF Effect
  <2>2. x \in ServerTx /\ t.h \in 1..Len(srv)  BY <1>2, <1>6 DEF ServerTx
  <2> HIDE DEF x
  <2>3. srv' \in Seq(ServerTx)  BY <1>1, <2>1, <2>2
  <2>4. applied' \in [Calls -> Nat]  BY <1>1, <2>1
  <2> QED  BY <2>3, <2>4 DEF SrvType
<1>7. CASE t.op = "rollback"
  <2>1. /\ srv' = [srv EXCEPT ![t.h] = [open |-> FALSE, work |-> {}]]
        /\ UNCHANGED applied
    BY <1>7 DEF Effect
  <2>2. srv' \in Seq(ServerTx)
    <3>1. t.h \in 1..Len(srv)  BY <1>2, <1>7
    <3> QED  BY <1>1, <1>3, <2>1, <3>1
  <2> QED  BY <1>1, <2>1, <2>2 DEF SrvType
<1>8. CASE t.op = "detach"
  <2>1. /\ srv' = [h \in DOMAIN srv |-> [open |-> FALSE, work |-> {}]]
        /\ UNCHANGED applied
    BY <1>8 DEF Effect
  <2>2. DOMAIN srv = 1..Len(srv) /\ Len(srv) \in Nat  BY <1>1
  <2>3. srv' \in [1..Len(srv) -> ServerTx]  BY <1>3, <2>1, <2>2
  <2>4. srv' \in Seq(ServerTx)  BY <2>2, <2>3
  <2> QED  BY <1>1, <2>1, <2>4 DEF SrvType
<1>9. CASE t.op \notin {"transaction", "execute", "execute_immediate", "commit", "commit_retaining",
                        "rollback", "detach"}
  <2>1. UNCHANGED srvVars  BY <1>9 DEF Effect
  <2> QED  BY <2>1 DEF srvVars, SrvType
<1> QED  BY <1>4, <1>5, <1>6, <1>7, <1>8, <1>9

LEMMA ServerInv == IInv /\ Server => IInv'
<1> SUFFICES ASSUME IInv, Server PROVE IInv'
  OBVIOUS
<1>1. UNCHANGED <<ctlVars, callVars, txVars, sideVars>>  BY DEF Server
<1>2. PICK i \in 1..Len(pend) :
         LET t == pend[i]
         IN  \/ /\ t.op \in InTransaction => Open(t.h)
                /\ Answer(i, "ok", IF t.op = "transaction" THEN Len(srv) + 1 ELSE 0)
                /\ Effect(t)
             \/ /\ Answer(i, "err", 0)
                /\ UNCHANGED srvVars
  BY DEF Server
<1>3. CallOK' /\ SideType' /\ UNCHANGED <<txVars, holder, pc>>
  BY <1>1, Kept DEF callVars, ctlVars
<1>4. PICK st \in Status, h \in Nat : Answer(i, st, h)
  <2>1. Len(srv) + 1 \in Nat /\ 0 \in Nat  BY DEF IInv, SrvType
  <2>2. "ok" \in Status /\ "err" \in Status  BY DEF Status
  <2> QED  BY <1>2, <2>1, <2>2
<1>5. SrvType'
  <2>1. SrvType  BY DEF IInv
  <2>2. CASE UNCHANGED srvVars  BY <2>2, Kept
  <2>3. CASE (pend[i].op \in InTransaction => Open(pend[i].h)) /\ Effect(pend[i])
    BY <2>1, <2>3, EffectType
  <2> QED  BY <1>2, <2>2, <2>3
<1>6. /\ WireInv' /\ Len(pend') = Len(pend)
      /\ \A j \in 1..Len(pend) : pend'[j].op = pend[j].op
  BY <1>4, AnswerInv DEF IInv
<1>7. ReclaimOK'
  <2>1. UNCHANGED <<expect, res, lost, misread>>  BY <1>4 DEF Answer
  <2>2. pend \in Seq(Request) /\ pend' \in Seq(Request)
    BY <1>6 DEF IInv, WireInv, WireTypeOK
  <2>3. ASSUME pend # <<>> /\ pend[Len(pend)].op = "allocate"
        PROVE  pend' # <<>> /\ pend'[Len(pend')].op = "allocate"
    BY <1>6, <2>2, <2>3
  <2> QED  BY <1>3, <2>1, <2>3 DEF IInv, ReclaimOK
<1> QED  BY <1>1, <1>3, <1>5, <1>6, <1>7, StayInv

LEMMA CtxDoneInv == IInv /\ CtxDone => IInv'
<1> SUFFICES ASSUME IInv, CtxDone PROVE IInv'
  OBVIOUS
<1>1. /\ expired' = TRUE
      /\ UNCHANGED <<wireVars, ctlVars, job, err, holder, calls, again, tries, rows,
                     fate, txVars, srvVars, sideVars>>
  BY DEF CtxDone
<1>2. WireInv' /\ SrvType' /\ SideType'  BY <1>1, Kept
<1>3. CallOK'  BY <1>1 DEF IInv, CallOK, CallType, RetryOK
<1>4. ReclaimOK'  BY <1>1 DEF IInv, ReclaimOK, wireVars, ctlVars
<1> QED  BY <1>1, <1>2, <1>3, <1>4, StayInv

LEMMA WatcherInv == IInv /\ Watcher => IInv'
<1> SUFFICES ASSUME IInv, Watcher PROVE IInv'
  OBVIOUS
<1>1. /\ pc \in {"execute.read", "immediate.read", "fetch.read"} /\ WatcherCancel
      /\ cancelled' = (cancelled \/ pc # "fetch.read")
      /\ UNCHANGED <<ctlVars, callVars, txVars, srvVars, prepared, pinger, leaked>>
  BY DEF Watcher
<1>2. WireInv'  BY <1>1, WatcherCancelInv DEF IInv
<1>3. cancelled' \in BOOLEAN  BY <1>1
<1>4. SideType'  BY <1>1, <1>3 DEF IInv, SideType
<1>5. CallOK' /\ SrvType' /\ UNCHANGED holder  BY <1>1, Kept DEF callVars
<1>6. ReclaimOK'  BY <1>1 DEF ReclaimOK, ctlVars
<1> QED  BY <1>1, <1>2, <1>4, <1>5, <1>6, StayInv

LEMMA SocketDeathInv == IInv /\ SocketDeath => IInv'
<1> SUFFICES ASSUME IInv, SocketDeath PROVE IInv'
  OBVIOUS
<1>1. SocketDies /\ UNCHANGED <<ctlVars, dataVars>>  BY DEF SocketDeath
<1>2. WireInv'  BY <1>1, SocketDiesInv DEF IInv
<1>3. /\ CallOK' /\ SrvType' /\ SideType' /\ UNCHANGED <<txVars, holder>>
  BY <1>1, Kept DEF dataVars, callVars
<1>4. ReclaimOK'  BY <1>1 DEF IInv, ReclaimOK, SocketDies, ctlVars
<1> QED  BY <1>1, <1>2, <1>3, <1>4, StayInv

LEMMA ReceiveInv == IInv /\ Receive => IInv'
<1> SUFFICES ASSUME IInv, Receive PROVE IInv'
  OBVIOUS
<1>1. /\ RecvSkip \/ RecvOwn \/ RecvGarbage \/ RecvMalformed \/ RecvTimeout
      /\ UNCHANGED <<ctlVars, dataVars>>
  BY DEF Receive, DeadlineFires
<1>2. WireInv'
  BY <1>1, RecvSkipInv, RecvOwnInv, RecvGarbageInv, RecvMalformedInv, RecvTimeoutInv
     DEF IInv
<1>3. expect # <<>>
  BY <1>1 DEF RecvSkip, RecvOwn, RecvGarbage, RecvMalformed, RecvTimeout, GiveUp
<1>4. /\ CallOK' /\ SrvType' /\ SideType' /\ UNCHANGED <<txVars, holder, pc>>
  BY <1>1, Kept DEF dataVars, callVars, ctlVars
<1>5. ReclaimOK'  BY <1>3, <1>4 DEF IInv, ReclaimOK
<1> QED  BY <1>1, <1>2, <1>4, <1>5, StayInv

LEMMA StutterInv == IInv /\ UNCHANGED vars => IInv'
<1> SUFFICES ASSUME IInv, UNCHANGED vars PROVE IInv'
  OBVIOUS
<1>1. UNCHANGED <<wireVars, ctlVars, callVars, txVars, srvVars, sideVars>>
  BY DEF vars, dataVars
<1>2. /\ WireInv' /\ CallOK' /\ SrvType' /\ SideType' /\ UNCHANGED holder
  BY <1>1, Kept DEF callVars
<1>3. ReclaimOK'  BY <1>1 DEF IInv, ReclaimOK, wireVars, ctlVars
<1> QED  BY <1>1, <1>2, <1>3, StayInv

-----------------------------------------------------------------------------
(***************************************************************************)
(* The theorems.                                                           *)
(***************************************************************************)
LEMMA InitInv == Init => IInv
<1> SUFFICES ASSUME Init PROVE IInv
  OBVIOUS
<1>1. /\ WireInit /\ pc = "idle" /\ stack = <<>> /\ err = "nil"
      /\ job = NoJob /\ expired = FALSE
      /\ holder = "pool" /\ calls = 0 /\ again = NoJob /\ tries = 0
      /\ txs = NewConnection /\ cur = 1
      /\ srv = <<>> /\ applied = [i \in Calls |-> 0]
      /\ prepared = FALSE /\ cancelled = FALSE /\ pinger = "none" /\ leaked = FALSE
      /\ rows = NoRows /\ fate = [i \in Calls |-> "none"]
  BY DEF Init
<1>2. WireInv  BY <1>1, WireInitInv
<1>3. /\ MaxCalls \in Nat /\ MaxTries \in Nat
  BY SessionAssumption DEF SessionAssumption
<1>4. CallType
  <2>1. job \in Jobs /\ again \in Jobs  BY <1>1, NoJobType
  <2>2. rows \in RowsObject  BY <1>1, NoRowsType
  <2>3. fate \in [Calls -> Fates]  BY <1>1 DEF Fates
  <2>4. calls \in 0..MaxCalls /\ tries \in 0..MaxTries  BY <1>1, <1>3
  <2>5. err \in Outcome /\ expired \in BOOLEAN
        /\ holder \in {"pool", "call", "tx", "txcall", "closing", "gone"}
    BY <1>1 DEF Outcome
  <2> QED  BY <2>1, <2>2, <2>3, <2>4, <2>5 DEF CallType
<1>5. RetryOK  BY <1>1 DEF RetryOK
<1>6. TxType /\ txs # <<>>
  <2>1. NewConnection \in Seq(TxObject) /\ Len(NewConnection) = 1
    BY DEF NewConnection, TxObject
  <2>2. NewConnection # <<>>  BY <2>1
  <2> QED  BY <1>1, <2>1, <2>2 DEF TxType
<1>7. SrvType
  <2>1. <<>> \in Seq(ServerTx)  OBVIOUS
  <2> QED  BY <1>1, <2>1 DEF SrvType
<1>8. SideType  BY <1>1 DEF SideType
<1>9. "idle" \in Plain /\ "idle" \in Places  BY DEF Plain, Places
<1>10. ControlOK /\ ReclaimOK
  <2>1. stack \in StacksAt(pc)  BY <1>1, <1>9, StackAt
  <2> QED  BY <1>1, <1>6, <1>9, <2>1 DEF ControlOK, ReclaimOK
<1> QED  BY <1>2, <1>4, <1>5, <1>6, <1>7, <1>8, <1>10 DEF IInv

LEMMA NextInv == IInv /\ [Next]_vars => IInv'
<1> SUFFICES ASSUME IInv, [Next]_vars PROVE IInv'
  OBVIOUS
<1>1. CASE Transaction
  BY <1>1, BeginInv, BeginReadInv, BeginTxInv, BeginTxDoneInv, CommitRetainingInv,
     CommitRetainingReadInv, CommitInv, CommitReadInv, RollbackInv, RollbackReadInv
     DEF Transaction
<1>2. CASE Statement
  BY <1>2, PrepareInv, PrepareBegunInv, AllocateInv, PrepareStatementInv,
     PrepareReadInv, RunInv, RunBegunInv, BindInv, BindReadInv, ExecuteInv,
     ExecuteReadInv, DrainReadInv, InfoReadInv, ExecCommittedInv, ExecDoneInv,
     FreeInv, FreeReadInv, FreedInv, UploadInv, UploadReadInv, UploadClosedInv,
     SliceStoredInv, ScrollRefusedInv, ImmediateInv, ImmediateBegunInv, ImmediateSendInv,
     ImmediateReadInv, ImmediateDoneInv
     DEF Statement
<1>3. CASE Cursor
  BY <1>3, RowsCloseInv, RowsExpiredInv, RowsNextInv, FetchInv, FetchReadInv, RowInv,
     BlobReadInv, SegmentReadInv, ColumnReadInv, ScrollFetchInv, ScrollCloseInv
     DEF Cursor
<1>4. CASE Ping \/ PingRead \/ Teardown \/ Receive
  BY <1>4, PingInv, PingReadInv, CloseInv, CloseReadInv, DetachReadInv, ReceiveInv
     DEF Teardown
<1>5. CASE Application
  <2>1. Stopped => UNCHANGED vars  BY DEF Stopped
  <2> QED  BY <1>5, <2>1, CallStartInv, RetryInv, TxEndInv, ReconnectInv, StutterInv
           DEF Application
<1>6. CASE Environment
  BY <1>6, ServerInv, CtxDoneInv, WatcherInv, PingWatcherInv, SocketDeathInv
     DEF Environment
<1>7. CASE UNCHANGED vars
  BY <1>7, StutterInv
<1> QED  BY <1>1, <1>2, <1>3, <1>4, <1>5, <1>6, <1>7 DEF Next, Driver

\* IInv holds of every reachable state.
THEOREM Invariance == Spec => []IInv
<1>1. Init => IInv  BY InitInv
<1>2. IInv /\ [Next]_vars => IInv'  BY NextInv
<1> QED  BY <1>1, <1>2, PTL DEF Spec

\* The state of the connection keeps the shape the code's structs give it,
\* through every call, fault and retry.
THEOREM TypeCorrect == Spec => []TypeOK
<1>1. IInv => TypeOK  BY IInvImplies
<1> QED  BY <1>1, Invariance, PTL

\* The positional matching of responses with requests (opResponse and its
\* lazyResponseCount loop) never goes wrong by itself: as long as no response
\* was left behind and none was taken for another's, the unread packets are
\* exactly the counted lazy ones, then the awaited ones.
THEOREM AlignedAlways == Spec => []StreamAligned
<1>1. IInv => StreamAligned  BY IInvImplies
<1> QED  BY <1>1, Invariance, PTL

-----------------------------------------------------------------------------
(***************************************************************************)
(* Deadlines: which of them is armed where, who may have timed out, and that*)
(* no goroutine of Ping outlives its call, when Ping is given no context.  *)
(***************************************************************************)

\* The places of Close.
Closing == {"close", "close.read", "detach.read"}

\* The pool, the application's transaction or nobody holds the connection
\* between calls; a context belongs to the call in progress.
HolderOK ==
  /\ pc = "idle" <=> holder \in {"pool", "tx", "gone"}
  /\ pc \in Closing <=> holder = "closing"
  /\ pc = "idle" \/ pc \in Closing => job.ctx = "none"
  /\ expired => job.ctx # "none"

\* Ping has no context, so it starts no goroutine.
PingOK ==
  /\ pinger = "none"
  /\ pc \in {"ping", "ping.read"} => job.ctx = "none"
  /\ job.kind = "ping" => job.ctx = "none"
  /\ again.kind = "ping" => again.ctx = "none"

\* Which deadline is armed, and where: ctx+3s from the execution or fetch of a
\* statement to the end of its reads, the fixed one around the reads of teardown,
\* and never one in the past.
ArmedOK ==
  /\ armed # "past"
  /\ armed = "ctx" =>
       /\ job.ctx = "deadline"
       /\ \/ pc \in {"info.read", "exec.committed", "fetch", "fetch.read", "immediate.done"}
          \/ pc \in {"row", "blob.read", "segment.read", "blob.closed", "slice.read"} /\ rows.fetched
          \/ pc \in {"execute.read", "immediate.read"} /\ res # "unsent"
          \/ stack \in {<<"exec.committed">>, <<"immediate.done">>}
             /\ (pc = "commitRetaining" \/ (pc = "commitRetaining.read" /\ res = "unsent"))
  /\ armed = "fixed" =>
       \/ pc \in {"rollback.read", "close.read", "commitRetaining.read"} /\ res # "unsent"
       \/ pc = "free.read" /\ res # "unsent" /\ ~LazySend
       \/ pc \in {"detach.read", "drain.read"}
       \/ pc = "idle" /\ holder = "gone"

\* A statement that timed out was given a context that has ended; nothing is
\* read after a request that could not be sent.
TimeoutOK ==
  /\ pc \in {"execute.read", "info.read"} /\ res = "timeout" => expired
  /\ pc = "drain.read" => expired
  /\ res = "unsent" => expect = <<>>

Deadlines == HolderOK /\ PingOK /\ ArmedOK /\ TimeoutOK

\* What any write leaves behind, ...
LEMMA Writes ==
  ASSUME NEW rs, NEW awaited, NEW counted, NEW d, NEW checked,
         Write(rs, awaited, counted, d, checked)
  PROVE  /\ res' \in {"nil", "unsent"}
         /\ res' = "unsent" => armed' = armed /\ expect' = <<>>
         /\ res' = "nil" => armed' = d
  BY DEF Write

\* ... a request with its response, ...
LEMMA Asks ==
  ASSUME NEW op, NEW h, NEW w, NEW d, Ask(op, h, w, d)
  PROVE  /\ res' \in {"nil", "unsent"}
         /\ res' = "unsent" => armed' = armed /\ expect' = <<>>
         /\ res' = "nil" => armed' = d
  BY DEF Ask, Write

\* Where a subroutine was called from.
LEMMA Stacks ==
  ASSUME IInv
  PROVE  /\ pc \in Places
         /\ pc \in Plain => stack = <<>>
         /\ pc \in {"tx.begin", "tx.begun"} =>
              stack \in {<<"prepare.begun">>, <<"run.begun">>, <<"immediate.begun">>, <<"begin.done">>}
         /\ pc \in {"commitRetaining", "commitRetaining.read"} =>
              stack \in {<<"exec.committed">>, <<"immediate.done">>, <<"exec.done">>, <<"freed">>}
         /\ pc \in {"free", "free.read"} => stack \in {<<>>, <<"exec.done">>}
  BY StackAt DEF IInv, ControlOK

\* A subroutine is entered from a place that is in none.
LEMMA Entered ==
  ASSUME NEW l, NEW r, Enter(l, r), stack = <<>>
  PROVE  pc' = l /\ stack' = <<r>>
  BY DEF Enter

\* A subroutine returns to the place that entered it.
LEMMA Returned ==
  ASSUME IInv, Return, pc \in {"tx.begun", "commitRetaining.read"}
  PROVE  /\ stack = <<pc'>> /\ stack' = <<>>
         /\ pc = "tx.begun" => pc' \in {"prepare.begun", "run.begun", "immediate.begun", "begin.done"}
         /\ pc = "commitRetaining.read" => pc' \in {"exec.committed", "immediate.done", "exec.done", "freed"}
<1>1. PICK r \in Returns : stack = <<r>>
  BY StackAt DEF IInv, ControlOK, Returns
<1>2. pc' = r /\ stack' = <<>>
  BY <1>1, Returning
<1>3. \A q : stack = <<q>> => q = r
  BY <1>1
<1> QED
  BY <1>1, <1>2, <1>3, StackAt DEF IInv, ControlOK

\* What the end of a call leaves to database/sql.
LEMMA EndMoves ==
  ASSUME NEW e, NEW next, Ends(e, next)
  PROVE  /\ stack' = <<>> /\ job' = NoJob /\ err' = "nil" /\ expired' = FALSE
         /\ \/ IsBad(e) /\ next # "tx" /\ holder' = "closing" /\ pc' = "close" /\ again' \in {job, NoJob}
            \/ (~IsBad(e) \/ next = "tx") /\ holder' = next /\ pc' = "idle" /\ again' = NoJob
  BY DEF Ends

\* A call that ends.
LEMMA EndDeadlines ==
  ASSUME IInv, Deadlines, NEW e, NEW next \in {"pool", "tx"}, Ends(e, next), pinger' = pinger,
         armed' = "none", expect' = <<>>
  PROVE  Deadlines'
<1>1. NoJob.ctx = "none" /\ NoJob.kind = "none"
  BY DEF NoJob
<1> QED
  BY <1>1, EndMoves DEF Deadlines, HolderOK, PingOK, ArmedOK, TimeoutOK, Closing

\* What the steps of a subroutine leave to its caller.
LEMMA BegunMoves ==
  ASSUME IInv, BeginRead
  PROVE  /\ pc = "tx.begun" /\ stack = <<pc'>> /\ stack' = <<>>
         /\ pc' \in {"prepare.begun", "run.begun", "immediate.begun", "begin.done"}
         /\ UNCHANGED <<wireVars, callVars, cur, srvVars, sideVars>>
<1>1. pc = "tx.begun" /\ Return /\ UNCHANGED <<wireVars, callVars, cur, srvVars, sideVars>>
  BY DEF BeginRead, At
<1> QED
  BY <1>1, Returned

LEMMA RetainedMoves ==
  ASSUME IInv, CommitRetainingRead
  PROVE  /\ pc = "commitRetaining.read" /\ stack = <<pc'>> /\ stack' = <<>>
         /\ pc' \in {"exec.committed", "immediate.done", "exec.done", "freed"}
         /\ ReadTimeoutCleared /\ expect = <<>>
         /\ UNCHANGED <<callVars, cur, srvVars, sideVars>>
<1>1. /\ pc = "commitRetaining.read" /\ Return /\ UNCHANGED <<callVars, cur, srvVars, sideVars>>
      /\ ReadTimeoutCleared /\ expect = <<>>
  BY DEF CommitRetainingRead, At
<1> QED
  BY <1>1, Returned

\* The deferred SetDeadline of opResponseTimeout.
LEMMA Clears ==
  ASSUME ReadTimeoutCleared
  PROVE  /\ IF res = "unsent" THEN armed' = armed ELSE armed' = "none"
         /\ UNCHANGED <<pend, lazy, expect, skipped, writer, sock, torn, res, reply, lost, misread>>
  BY DEF ReadTimeoutCleared, SetDeadline, wireVars

LEMMA SubroutineDeadlines ==
  ASSUME IInv, Deadlines, Begin \/ BeginRead \/ CommitRetaining \/ CommitRetainingRead
  PROVE  Deadlines'
<1> USE Stacks, Asks DEF Plain, Places, Closing, At, Goto, dataVars, callVars, sideVars, Deadlines, HolderOK, PingOK, ArmedOK, TimeoutOK
<1>1. CASE Begin
  BY <1>1 DEF Begin
<1>2. CASE BeginRead
  <2>0. /\ pc = "tx.begun"
         /\ pc' \in {"prepare.begun", "run.begun", "immediate.begun", "begin.done"}
         /\ holder' = holder /\ job' = job /\ expired' = expired
     BY <1>2, BegunMoves
  <2>1. HolderOK'  BY <2>0
  <2>2. PingOK'  BY <1>2, BegunMoves
  <2>3. ArmedOK'  BY <1>2, BegunMoves DEF wireVars
  <2>4. TimeoutOK'  BY <1>2, BegunMoves DEF wireVars
  <2> QED BY <2>1, <2>2, <2>3, <2>4
<1>3. CASE CommitRetaining
  BY <1>3 DEF CommitRetaining
<1>4. CASE CommitRetainingRead
  BY <1>4, RetainedMoves, Clears
<1> QED
  BY <1>1, <1>2, <1>3, <1>4

\* ... and the other ways to ask.
LEMMA AsksMore ==
  ASSUME NEW op, NEW h, NEW e
  PROVE  /\ AskBlindly(op, h) => armed' = armed /\ res' = "nil"
         /\ \A b : AskLazily(op, b) => armed' = armed /\ res' \in {"nil", "unsent"} /\ expect' = <<>>
         /\ AskReclaiming(e, op, h) => /\ armed' = armed /\ res' \in {"nil", "unsent"}
                                       /\ res' = "unsent" => expect' = <<>>
  BY DEF AskBlindly, AskLazily, AskReclaiming, Write

\* The deferred SetDeadline of enforceDeadline.
LEMMA Disarms ==
  ASSUME IInv, Deadlines, Disarm, pc \notin {"rollback.read", "close.read", "commitRetaining.read",
                                             "free.read", "detach.read", "drain.read", "idle"}
  PROVE  armed' = "none" /\ res' = res /\ expect' = expect
  BY DEF Disarm, SetDeadline, Deadlines, ArmedOK, IInv, WireInv, WireTypeOK, Deadline

\* Finish is Ends, with the holder the connection was taken from.
LEMMA FinishMoves ==
  ASSUME NEW e, Finish(e)
  PROVE  \E next \in {"pool", "tx"} : Ends(e, next) /\ (next = "tx" <=> holder = "txcall")
  BY DEF Finish

LEMMA FinishDeadlines ==
  ASSUME IInv, Deadlines, NEW e, Finish(e), pinger' = pinger, armed' = "none",
         expect' = <<>>
  PROVE  Deadlines'
  BY FinishMoves, EndDeadlines

\* What the end of stmt.exec and stmt.query leads to.
LEMMA LeaveMoves ==
  ASSUME IInv, NEW e, Leave(e)
  PROVE  \/ /\ pc' = "free" /\ stack' = <<"exec.done">> /\ err' = e
            /\ job.kind \in {"exec", "scroll"}
            /\ UNCHANGED <<job, expired, holder, again, rows>>
         \/ /\ pc' = "rows" /\ stack' = stack /\ e = "nil"
            /\ job.kind \in {"query", "stmtQuery", "scroll"}
            /\ job'.ctx = job.ctx /\ job'.kind \in {job.kind, "rows"}
            /\ UNCHANGED <<err, expired, holder, again>>
         \/ /\ Finish(e)
            /\ job.kind = "stmtExec" \/ (job.kind \in {"query", "stmtQuery"} /\ e # "nil")
<1>1. job \in [kind : CallKinds \cup {"none", "rows"}, shape : {"dml", "select", "proc"},
               ctx : CtxKinds, id : 0..MaxCalls]
  BY DEF IInv, CallType, Jobs
<1>2. [job EXCEPT !.kind = "rows"].ctx = job.ctx /\ [job EXCEPT !.kind = "rows"].kind = "rows"
  BY <1>1
<1> QED
  BY <1>2 DEF Leave, Goto

LEMMA LeaveDeadlines ==
  ASSUME IInv, Deadlines, NEW e, Leave(e), pinger' = pinger, armed' = "none", expect' = <<>>, pc \in Places,
         pc \notin {"idle", "close", "close.read", "detach.read"}
  PROVE  Deadlines'
<1>1. CASE Finish(e)
  BY <1>1, FinishDeadlines
<1>2. CASE ~Finish(e)
  BY <1>2, LeaveMoves DEF Deadlines, HolderOK, PingOK, ArmedOK, TimeoutOK, Closing
<1> QED
  BY <1>1, <1>2

\* Nothing is armed where no exchange under a deadline is under way.
Calm == Places \ {"info.read", "exec.committed", "fetch", "fetch.read", "immediate.done", "execute.read",
    "row", "blob.read", "segment.read", "blob.closed", "slice.read",
    "immediate.read", "commitRetaining", "commitRetaining.read", "rollback.read", "close.read", "free.read",
    "detach.read", "drain.read", "idle"}
LEMMA CalmNone == Deadlines /\ WireInv /\ pc \in Calm => armed = "none"
  BY DEF Deadlines, ArmedOK, Calm, WireInv, WireTypeOK, Deadline

LEMMA TransactionDeadlines ==
  ASSUME IInv, Deadlines, Commit \/ CommitRead \/ Rollback \/ RollbackRead \/ BeginTx \/ BeginTxDone
  PROVE  Deadlines'
<1> USE Stacks, Asks DEF Plain, Places, Closing, At, Goto, dataVars, callVars, sideVars, Deadlines, HolderOK, PingOK, ArmedOK, TimeoutOK
<1>1. CASE Commit
  BY <1>1 DEF Commit
<1>2. CASE CommitRead
  <2>1. Ends(res, "pool") /\ UNCHANGED <<wireVars, sideVars>> /\ armed = "none" /\ expect = <<>>
    BY <1>2, CalmNone DEF CommitRead, IInv, Calm, At
  <2> QED BY <2>1, EndDeadlines DEF wireVars
<1>3. CASE Rollback
  BY <1>3 DEF Rollback
<1>4. CASE RollbackRead
  <2>1. Ends(res, "pool") /\ ReadTimeoutCleared /\ UNCHANGED sideVars /\ pc = "rollback.read" /\ expect = <<>>
    BY <1>4 DEF RollbackRead
  <2>2. armed' = "none" /\ expect' = <<>>
    BY <2>1, Clears DEF IInv, WireInv, WireTypeOK, Deadline
  <2> QED BY <2>1, <2>2, EndDeadlines
<1>5. CASE BeginTx
  <2>1. /\ pc = "begin" /\ stack = <<>> /\ Enter("tx.begin", "begin.done")
        /\ UNCHANGED <<wireVars, callVars, sideVars>>
        /\ expect = <<>>
    BY <1>5 DEF BeginTx, Call
  <2> QED BY <2>1, Entered DEF wireVars
<1>6. CASE BeginTxDone
  <2>1. \E n \in {"pool", "tx"} : Ends(res, n)
    BY <1>6 DEF BeginTxDone
  <2>2. UNCHANGED <<wireVars, sideVars>> /\ armed = "none" /\ expect = <<>>
    BY <1>6, CalmNone DEF BeginTxDone, IInv, Calm, At
  <2> QED BY <2>1, <2>2, EndDeadlines DEF wireVars
<1> QED
  BY <1>1, <1>2, <1>3, <1>4, <1>5, <1>6

\* The places and calls in which a request, or nothing, is under way.
LEMMA Quiet ==
  ASSUME IInv, Deadlines, pc \in Calm
  PROVE  armed = "none"
  BY CalmNone DEF IInv

LEMMA PrepareDeadlines ==
  ASSUME IInv, Deadlines, Prepare \/ PrepareBegun \/ Allocate \/ PrepareStatement \/ PrepareRead \/ ScrollRefused
  PROVE  Deadlines'
<1>0. pc \in {"prepare", "prepare.begun", "allocate", "allocate.read", "prepare.read"} /\ expect = <<>>
  BY DEF Prepare, PrepareBegun, Allocate, PrepareStatement, PrepareRead, ScrollRefused, At
<1>1. armed = "none" /\ pinger' = pinger /\ stack = <<>>
  BY <1>0, Quiet, Stacks DEF Calm, Places, Plain, Prepare, PrepareBegun, Allocate, PrepareStatement, PrepareRead,
     ScrollRefused, sideVars, dataVars
<1>2. ASSUME NEW e, Finish(e), UNCHANGED wireVars
      PROVE  Deadlines'
  BY <1>0, <1>1, <1>2, FinishDeadlines DEF wireVars
<1>3. ASSUME NEW l \in Places \ (Closing \cup {"idle", "drain.read", "ping", "ping.read"}), Continue(l), armed' = "none",
             res' = "unsent" => expect' = <<>>, pc' \in {"execute.read", "info.read"} => res' # "timeout"
      PROVE  Deadlines'
  BY <1>0, <1>1, <1>3 DEF Continue, Goto, callVars, Places, Closing, Deadlines, HolderOK, PingOK, ArmedOK, TimeoutOK
<1>4. UNCHANGED wireVars => armed' = "none" /\ (res' = "unsent" => expect' = <<>>)
  BY <1>0, <1>1 DEF wireVars
<1>5. ASSUME NEW r, Call("tx.begin", r), UNCHANGED wireVars
      PROVE  Deadlines'
  BY <1>0, <1>1, <1>4, <1>5, Entered DEF Call, callVars, Places, Closing, Deadlines, HolderOK, PingOK, ArmedOK, TimeoutOK
<1>6. CASE Prepare
  <2>1. UNCHANGED wireVars
    BY <1>6 DEF Prepare
  <2>2. \/ Finish("bad") \/ Continue("panic") \/ Call("tx.begin", "prepare.begun") \/ Continue("allocate")
    BY <1>6 DEF Prepare, Panic
  <2> QED
    BY <2>1, <2>2, <1>2, <1>3, <1>4, <1>5 DEF Places, Closing, Continue, Goto
<1>7. CASE PrepareBegun
  <2>1. UNCHANGED wireVars
    BY <1>7 DEF PrepareBegun
  <2>2. \/ Finish(res) \/ Continue("allocate")
    BY <1>7 DEF PrepareBegun
  <2> QED
    BY <2>1, <2>2, <1>2, <1>3, <1>4 DEF Places, Closing, Continue, Goto
<1>8. CASE Allocate
  <2>1. armed' = "none" /\ (res' = "unsent" => expect' = <<>>)
    BY <1>8, <1>1, Asks, AsksMore DEF Allocate
  <2>2. Continue("allocate.read")
    BY <1>8 DEF Allocate, Continue, dataVars
  <2> QED
    BY <2>1, <2>2, <1>3 DEF Places, Closing, Continue, Goto
<1>9. CASE PrepareStatement
  <2>1. CASE res # "nil"
    BY <2>1, <1>9, <1>2 DEF PrepareStatement
  <2>2. CASE res = "nil"
    <3>1. armed' = "none" /\ (res' = "unsent" => expect' = <<>>)
      BY <2>2, <1>9, <1>1, Asks, AsksMore DEF PrepareStatement
    <3>2. Continue("prepare.read")
      BY <2>2, <1>9 DEF PrepareStatement
    <3> QED
      BY <3>1, <3>2, <1>3 DEF Places, Closing, Continue, Goto
  <2> QED BY <2>1, <2>2
<1>10. CASE PrepareRead
  <2>1. UNCHANGED wireVars
    BY <1>10 DEF PrepareRead
  <2>2. \/ Finish(res) \/ Continue("bind")
    BY <1>10 DEF PrepareRead
  <2> QED
    BY <2>1, <2>2, <1>2, <1>3, <1>4 DEF Places, Closing, Continue, Goto
<1>11. CASE ScrollRefused
  <2>1. UNCHANGED wireVars /\ Leave("other")
    BY <1>11 DEF ScrollRefused
  <2> QED
    BY <2>1, <1>0, <1>1, LeaveDeadlines DEF Places, wireVars
<1> QED
  BY <1>6, <1>7, <1>8, <1>9, <1>10, <1>11

\* Inside a call.
Inside == Places \ (Closing \cup {"idle"})

\* Places where what is armed is not the business of the call before.
Bounded == Closing \cup {"idle", "drain.read", "ping", "ping.read"}

\* A step that stays inside its call.
LEMMA GoesOn ==
  ASSUME IInv, Deadlines, pc \in Inside, NEW l \in Places \ Bounded, Continue(l), pinger' = pinger,
         armed' = "none", res' = "unsent" => expect' = <<>>,
         l \in {"execute.read", "info.read"} => res' # "timeout"
  PROVE  Deadlines'
  BY DEF Inside, Bounded, Continue, Goto, callVars, Places, Closing, Deadlines, HolderOK, PingOK, ArmedOK, TimeoutOK

\* A step that enters a subroutine.
LEMMA GoesIn ==
  ASSUME IInv, Deadlines, pc \in Inside, stack = <<>>, NEW l \in {"tx.begin", "commitRetaining"}, NEW r, Call(l, r),
         pinger' = pinger, armed' = "none", res' = "unsent" => expect' = <<>>
  PROVE  Deadlines'
  BY Entered DEF Inside, Call, callVars, Places, Closing, Deadlines, HolderOK, PingOK, ArmedOK, TimeoutOK

LEMMA RunDeadlines ==
  ASSUME IInv, Deadlines,
         Run \/ RunBegun \/ Bind \/ BindRead \/ Upload \/ UploadRead \/ UploadClosed \/ SliceStored
  PROVE  Deadlines'
<1>0. pc \in {"run", "run.begun", "bind", "bind.read", "execute", "upload.blob", "upload.segment", "upload.closed",
              "upload.slice"} /\ expect = <<>>
  BY DEF Run, RunBegun, Bind, BindRead, Upload, UploadRead, UploadClosed, SliceStored, At
<1>1. armed = "none" /\ pinger' = pinger /\ stack = <<>> /\ pc \in Inside
  BY <1>0, Quiet, Stacks DEF Calm, Inside, Closing, Places, Plain, Run, RunBegun, Bind, BindRead, Upload, UploadRead,
     UploadClosed, SliceStored, sideVars, dataVars
<1>2. ASSUME NEW e, Finish(e), UNCHANGED wireVars
      PROVE  Deadlines'
  BY <1>0, <1>1, <1>2, FinishDeadlines DEF wireVars
<1>3. ASSUME NEW e, Leave(e), UNCHANGED wireVars
      PROVE  Deadlines'
  BY <1>0, <1>1, <1>3, LeaveDeadlines DEF wireVars, Inside, Closing
<1>4. UNCHANGED wireVars => armed' = "none" /\ (res' = "unsent" => expect' = <<>>)
  BY <1>0, <1>1 DEF wireVars
<1>5. {"panic", "bind", "bind.read", "execute", "upload.blob", "upload.segment", "upload.closed",
              "upload.slice"} \subseteq Places \ (Bounded \cup {"execute.read", "info.read"})
  BY DEF Places, Bounded, Closing
<1>6. ASSUME NEW l \in {"panic", "bind", "bind.read", "execute", "upload.blob", "upload.segment", "upload.closed",
              "upload.slice"}, Continue(l), armed' = "none", res' = "unsent" => expect' = <<>>
      PROVE  Deadlines'
  BY <1>1, <1>5, <1>6, GoesOn
<1>7. CASE Run
  <2>1. UNCHANGED wireVars
    BY <1>7 DEF Run
  <2>2. Continue("panic") \/ Call("tx.begin", "run.begun") \/ Continue("bind")
    BY <1>7 DEF Run, Panic
  <2> QED
    BY <2>1, <2>2, <1>1, <1>4, <1>6, GoesIn
<1>8. CASE RunBegun
  <2>1. UNCHANGED wireVars
    BY <1>8 DEF RunBegun
  <2>2. Finish(res) \/ Continue("bind")
    BY <1>8 DEF RunBegun
  <2> QED
    BY <2>1, <2>2, <1>2, <1>4, <1>6
<1>9. CASE Bind
  <2>1. armed' = "none" /\ (res' = "unsent" => expect' = <<>>)
    BY <1>9, <1>1, <1>4, Asks DEF Bind
  <2>2. Continue("execute") \/ Continue("bind.read")
    BY <1>9 DEF Bind, Continue, dataVars
  <2> QED
    BY <2>1, <2>2, <1>6
<1>10. CASE BindRead
  <2>1. UNCHANGED wireVars /\ (Continue("execute") \/ Leave(res))
    BY <1>10 DEF BindRead
  <2> QED
    BY <2>1, <1>3, <1>4, <1>6
<1>11. CASE Upload
  <2>1. armed' = "none" /\ (res' = "unsent" => expect' = <<>>)
    BY <1>11, <1>1, Asks, AsksMore DEF Upload
  <2>2. Continue("upload.blob") \/ Continue("upload.slice")
    BY <1>11 DEF Upload, Continue, dataVars
  <2> QED
    BY <2>1, <2>2, <1>6
<1>12. CASE UploadRead
  <2>1. armed' = "none" /\ (res' = "unsent" => expect' = <<>>)
    BY <1>12, <1>1, <1>4, Asks DEF UploadRead
  <2>2. Continue("execute") \/ Continue("upload.segment") \/ Continue("upload.closed")
    BY <1>12 DEF UploadRead, Continue, dataVars
  <2> QED
    BY <2>1, <2>2, <1>6
<1>13. CASE UploadClosed
  <2>1. UNCHANGED wireVars /\ Continue("execute")
    BY <1>13 DEF UploadClosed, Continue, dataVars
  <2> QED
    BY <2>1, <1>4, <1>6
<1>14. CASE SliceStored
  <2>1. UNCHANGED wireVars /\ (Continue("execute") \/ Leave(res))
    BY <1>14 DEF SliceStored
  <2> QED
    BY <2>1, <1>3, <1>4, <1>6
<1> QED
  BY <1>7, <1>8, <1>9, <1>10, <1>11, <1>12, <1>13, <1>14

\* The two ends of the disposition of a failed read.
LEMMA Abandons ==
  ASSUME NEW op, Abandon(op)
  PROVE  \/ /\ res = "timeout" /\ job.kind # "scroll" /\ CancelAndDrain(op) /\ Continue("drain.read") /\ cancelled' = TRUE
         \/ /\ res # "timeout" \/ job.kind = "scroll"
            /\ Disarm /\ cancelled' = cancelled /\ Leave(IF expired THEN "bad" ELSE res)
  BY DEF Abandon

LEMMA AbandonDeadlines ==
  ASSUME IInv, Deadlines, NEW op, Abandon(op), pc \in {"execute.read", "info.read"}, expect = <<>>,
         pinger' = pinger
  PROVE  Deadlines'
<1>1. CASE CancelAndDrain(op) /\ Continue("drain.read") /\ res = "timeout"
  BY <1>1 DEF CancelAndDrain, Continue, Goto, callVars, Closing, Deadlines, HolderOK, PingOK, ArmedOK, TimeoutOK
<1>2. CASE Disarm /\ Leave(IF expired THEN "bad" ELSE res)
  <2>1. armed' = "none" /\ expect' = <<>> /\ pc \in Places
    BY <1>2, Disarms DEF Places
  <2> QED
    BY <2>1, <1>2, LeaveDeadlines
<1> QED
  BY <1>1, <1>2, Abandons

LEMMA ExecuteDeadlines ==
  ASSUME IInv, Deadlines,
         Execute \/ ExecuteRead \/ DrainRead \/ InfoRead \/ ExecCommitted \/ ExecDone
  PROVE  Deadlines'
<1>0. pc \in {"execute", "execute.read", "drain.read", "info.read", "exec.committed", "exec.done"} /\ expect = <<>>
  BY DEF Execute, ExecuteRead, DrainRead, InfoRead, ExecCommitted, ExecDone, At
<1>1. pinger' = pinger /\ stack = <<>> /\ pc \in Inside /\ pc \in Places
  BY <1>0, Stacks DEF Inside, Closing, Places, Plain, Execute, ExecuteRead, DrainRead, InfoRead,
     ExecCommitted, ExecDone, sideVars, dataVars
<1>2. ASSUME NEW e, Disarm, pc # "drain.read", Leave(e)
      PROVE  Deadlines'
  <2>1. armed' = "none" /\ expect' = <<>>
    BY <1>0, <1>2, Disarms
  <2> QED BY <2>1, <1>0, <1>1, <1>2, LeaveDeadlines
<1>3. CASE Execute
  <2>1. \E rs, ex : Write(rs, ex, 0, CtxDeadline, TRUE)
    BY <1>3 DEF Execute
  <2>2. /\ res' \in {"nil", "unsent"}
        /\ res' = "unsent" => armed' = armed /\ expect' = <<>>
        /\ res' = "nil" => armed' = CtxDeadline
    BY <2>1, Writes
  <2>3. armed = "none" /\ pc = "execute"
    BY <1>3, Quiet DEF Execute, At, Calm, Places
  <2>4. pc' = "execute.read" /\ UNCHANGED <<callVars, sideVars>>
    BY <1>3 DEF Execute, Goto, dataVars
  <2> QED
    BY <2>2, <2>3, <2>4 DEF CtxDeadline, callVars, sideVars, Closing, Deadlines, HolderOK, PingOK, ArmedOK, TimeoutOK
<1>4. CASE ExecuteRead
  <2>1. pc = "execute.read"
    BY <1>4 DEF ExecuteRead, At
  <2>2. CASE res = "unsent" /\ Leave(res) /\ UNCHANGED wireVars
    <3>1. armed' = "none" /\ expect' = <<>>
      BY <2>1, <2>2, <1>0 DEF Deadlines, ArmedOK, IInv, WireInv, WireTypeOK, Deadline, wireVars
    <3> QED
      BY <2>2, <3>1, <1>0, <1>1, LeaveDeadlines
  <2>3. CASE Abandon("execute")
    BY <2>1, <2>3, <1>0, <1>1, AbandonDeadlines
  <2>4. CASE Disarm /\ (Leave("bad") \/ Leave("nil"))
    BY <2>1, <2>4, <1>2
  <2>5. CASE Ask("info", 0, 0, armed) /\ Continue("info.read")
    BY <2>1, <2>5, <1>1, Asks DEF Continue, Goto, callVars, Closing, Deadlines, HolderOK, PingOK, ArmedOK, TimeoutOK
  <2> QED
    BY <1>4, <2>2, <2>3, <2>4, <2>5 DEF ExecuteRead
<1>5. CASE DrainRead
  <2>1. armed' = "none" /\ expect' = <<>> /\ pc = "drain.read"
    BY <1>5 DEF DrainRead, SetDeadline, At
  <2>2. Leave(IF expired THEN "bad" ELSE res)
    BY <1>5 DEF DrainRead, At, Deadlines, TimeoutOK
  <2> QED
    BY <2>1, <2>2, <1>0, <1>1, LeaveDeadlines
<1>6. CASE InfoRead
  <2>1. pc = "info.read"
    BY <1>6 DEF InfoRead, At
  <2>2. CASE Disarm /\ (Leave(res) \/ Leave("nil"))
    BY <2>1, <2>2, <1>2
  <2>3. CASE Abandon("info")
    BY <2>1, <2>3, <1>0, <1>1, AbandonDeadlines
  <2>4. CASE Call("commitRetaining", "exec.committed") /\ UNCHANGED wireVars
    <3>1. pc' = "commitRetaining" /\ stack' = <<"exec.committed">> /\ UNCHANGED callVars
      BY <2>4, <1>1, Entered DEF Call
    <3> QED
      BY <3>1, <2>4, <2>1, <1>1 DEF callVars, wireVars, Closing, Deadlines, HolderOK, PingOK, ArmedOK, TimeoutOK
  <2> QED
    BY <1>6, <2>2, <2>3, <2>4 DEF InfoRead
<1>7. CASE ExecCommitted
  <2>1. pc = "exec.committed" /\ Disarm /\ Leave(res)
    BY <1>7 DEF ExecCommitted, At
  <2> QED
    BY <2>1, <1>2
<1>8. CASE ExecDone
  <2>1. Finish(err) /\ UNCHANGED wireVars /\ armed = "none"
    BY <1>8, Quiet DEF ExecDone, At, Calm, Places
  <2> QED
    BY <2>1, <1>0, <1>1, FinishDeadlines DEF wireVars
<1> QED
  BY <1>3, <1>4, <1>5, <1>6, <1>7, <1>8

LEMMA ImmediateDeadlines ==
  ASSUME IInv, Deadlines, Immediate \/ ImmediateBegun \/ ImmediateSend \/ ImmediateRead \/ ImmediateDone
  PROVE  Deadlines'
<1>0. pc \in {"immediate", "immediate.begun", "immediate.send", "immediate.read", "immediate.done"} /\ expect = <<>>
  BY DEF Immediate, ImmediateBegun, ImmediateSend, ImmediateRead, ImmediateDone, At
<1>1. pinger' = pinger /\ stack = <<>> /\ pc \in Inside
  BY <1>0, Stacks DEF Inside, Closing, Places, Plain, Immediate, ImmediateBegun, ImmediateSend, ImmediateRead,
     ImmediateDone, sideVars, dataVars
<1>2. ASSUME NEW e, Finish(e), armed' = "none", expect' = <<>>
      PROVE  Deadlines'
  BY <1>1, <1>2, FinishDeadlines
<1>3. ASSUME NEW e, Disarm, Finish(e)
      PROVE  Deadlines'
  BY <1>0, <1>2, <1>3, Disarms
<1>4. armed = "none" => (UNCHANGED wireVars => armed' = "none" /\ expect' = <<>>)
  BY <1>0 DEF wireVars
<1>5. pc \in {"immediate", "immediate.begun", "immediate.send"} => armed = "none"
  BY Quiet DEF Calm, Places
<1>6. "immediate.send" \in Places \ Bounded
  BY DEF Places, Bounded, Closing
<1>7. CASE Immediate
  <2>1. UNCHANGED wireVars /\ pc = "immediate"
    BY <1>7 DEF Immediate, At
  <2>2. Finish("bad") \/ Call("tx.begin", "immediate.begun") \/ Continue("immediate.send")
    BY <1>7 DEF Immediate
  <2> QED
    BY <2>1, <2>2, <1>1, <1>2, <1>4, <1>5, <1>6, GoesOn, GoesIn
<1>8. CASE ImmediateBegun
  <2>1. UNCHANGED wireVars /\ pc = "immediate.begun"
    BY <1>8 DEF ImmediateBegun, At
  <2>2. Finish(res) \/ Continue("immediate.send")
    BY <1>8 DEF ImmediateBegun
  <2> QED
    BY <2>1, <2>2, <1>1, <1>2, <1>4, <1>5, <1>6, GoesOn
<1>9. CASE ImmediateSend
  <2>1. pc = "immediate.send" /\ Ask("execute_immediate", txs[cur].h, Work, CtxDeadline) /\ pc' = "immediate.read"
        /\ UNCHANGED <<callVars, sideVars>>
    BY <1>9 DEF ImmediateSend, Goto, At, dataVars
  <2> QED
    BY <2>1, <1>5, Asks DEF CtxDeadline, callVars, sideVars, Closing, Deadlines, HolderOK, PingOK, ArmedOK, TimeoutOK
<1>10. CASE ImmediateRead
  <2>1. pc = "immediate.read"
    BY <1>10 DEF ImmediateRead, At
  <2>2. CASE res = "unsent" /\ Finish(res) /\ UNCHANGED wireVars
    <3>1. armed = "none"
      BY <2>1, <2>2 DEF Deadlines, ArmedOK, IInv, WireInv, WireTypeOK, Deadline
    <3> QED
      BY <2>2, <3>1, <1>2, <1>4
  <2>3. CASE Disarm /\ (Finish(res) \/ Finish("nil"))
    BY <2>3, <1>3
  <2>4. CASE res = "nil" /\ Call("commitRetaining", "immediate.done") /\ UNCHANGED wireVars
    <3>1. pc' = "commitRetaining" /\ stack' = <<"immediate.done">> /\ UNCHANGED callVars
      BY <2>4, <1>1, Entered DEF Call
    <3> QED
      BY <3>1, <2>4, <2>1, <1>1 DEF callVars, wireVars, Closing, Deadlines, HolderOK, PingOK, ArmedOK, TimeoutOK
  <2> QED
    BY <1>10, <2>2, <2>3, <2>4 DEF ImmediateRead
<1>11. CASE ImmediateDone
  BY <1>11, <1>3 DEF ImmediateDone
<1> QED
  BY <1>7, <1>8, <1>9, <1>10, <1>11

\* What freeStatement leads to.
LEMMA FreedMoves ==
  ASSUME IInv, FreeRead
  PROVE  /\ pc = "free.read" /\ expect = <<>>
         /\ UNCHANGED <<job, expired, holder, calls, again, tries, rows, fate, txVars, srvVars, sideVars>>
         /\ IF LazySend THEN UNCHANGED wireVars ELSE ReadTimeoutCleared
         /\ \/ res # "unsent" /\ cur = 0 /\ pc' = "panic" /\ err' = err /\ stack' = stack
            \/ /\ res # "unsent" /\ cur # 0 /\ txs[cur].auto
               /\ pc' = "commitRetaining" /\ stack = <<>> /\ stack' = <<"freed">> /\ err' = res
            \/ /\ res # "unsent" /\ cur # 0 /\ txs[cur].auto
               /\ pc' = "commitRetaining" /\ stack = <<"exec.done">> /\ stack' = <<"exec.done">> /\ err' = err
            \/ /\ res = "unsent" \/ (cur # 0 /\ ~txs[cur].auto)
               /\ pc' = "freed" /\ stack = <<>> /\ stack' = <<>> /\ err' = res
            \/ /\ res = "unsent" \/ (cur # 0 /\ ~txs[cur].auto)
               /\ pc' = "exec.done" /\ stack = <<"exec.done">> /\ stack' = <<>> /\ err' = err
<1>1. pc = "free.read" /\ expect = <<>>
  BY DEF FreeRead, At
<1>2. stack \in {<<>>, <<"exec.done">>}
  BY <1>1, Stacks
<1>3. Head(<<"exec.done">>) = "exec.done" /\ <<"exec.done">> # <<>>
  OBVIOUS
<1>4. (IF stack = <<>> THEN "freed" ELSE Head(stack)) = (IF stack = <<>> THEN "freed" ELSE "exec.done")
  BY <1>2, <1>3
<1> QED
  BY <1>1, <1>2, <1>3, <1>4 DEF FreeRead, Goto

LEMMA FreeDeadlines ==
  ASSUME IInv, Deadlines, Free \/ FreeRead \/ Freed
  PROVE  Deadlines'
<1>1. CASE Free
  <2>1. pc = "free" /\ pc' = "free.read" /\ UNCHANGED <<callVars, sideVars>> /\ expect = <<>>
    BY <1>1 DEF Free, Goto, At, dataVars
  <2>2. armed = "none"
    BY <2>1, Quiet DEF Calm, Places
  <2>3. /\ res' \in {"nil", "unsent"} /\ (res' = "unsent" => expect' = <<>>)
        /\ armed' = "none" \/ (armed' = "fixed" /\ res' = "nil" /\ ~LazySend)
    BY <1>1, <2>2, Asks, AsksMore DEF Free
  <2> QED
    BY <2>1, <2>3 DEF callVars, sideVars, Closing, Deadlines, HolderOK, PingOK, ArmedOK, TimeoutOK
<1>2. CASE FreeRead
  <2>1. armed' = "none" /\ expect' = <<>> /\ res' = res
    BY <1>2, FreedMoves, Clears DEF wireVars, Deadlines, ArmedOK, IInv, WireInv, WireTypeOK, Deadline
  <2> QED
    BY <1>2, <2>1, FreedMoves DEF sideVars, Closing, Deadlines, HolderOK, PingOK, ArmedOK, TimeoutOK
<1>3. CASE Freed
  <2>1. \E e : Finish(e)
    BY <1>3 DEF Freed
  <2>2. pc = "freed" /\ UNCHANGED wireVars /\ pinger' = pinger /\ expect = <<>>
    BY <1>3 DEF Freed, At
  <2>3. armed = "none"
    BY <2>2, Quiet DEF Calm, Places
  <2> QED
    BY <2>1, <2>2, <2>3, FinishDeadlines DEF wireVars
<1> QED
  BY <1>1, <1>2, <1>3

LEMMA CursorDeadlines ==
  ASSUME IInv, Deadlines, Cursor
  PROVE  Deadlines'
<1>0. /\ pc \in {"rows", "fetch", "fetch.read", "row", "blob.read", "segment.read", "blob.closed", "slice.read"}
      /\ expect = <<>> /\ pinger' = pinger
  BY DEF Cursor, RowsClose, RowsExpired, RowsNext, Fetch, FetchRead, Row, BlobRead, SegmentRead, ColumnRead, ColumnFails,
         ScrollFetch, ScrollClose, At, sideVars, dataVars
<1> DEFINE Columnar == {"row", "blob.read", "segment.read", "blob.closed", "slice.read"}
           Plausible(d, l, f) == d = "none" \/ (d = "ctx" /\ job.ctx = "deadline"
                                               /\ (l \in {"fetch", "fetch.read"} \/ (l \in Columnar /\ f)))
<1>1. Plausible(armed, pc, rows.fetched)
  BY <1>0 DEF Deadlines, ArmedOK, IInv, WireInv, WireTypeOK, Deadline
<1> DEFINE Outer == /\ pc' \in {"rows", "fetch", "fetch.read", "free"} \cup Columnar
                    /\ UNCHANGED <<job, expired, holder, again>>
<1>2. ASSUME Outer, res' = "unsent" => expect' = <<>>, Plausible(armed', pc', rows'.fetched)
      PROVE  Deadlines'
  BY <1>0, <1>2 DEF Closing, Deadlines, HolderOK, PingOK, ArmedOK, TimeoutOK
<1>3. rows \in [drop : BOOLEAN, more : BOOLEAN, chunk : Nat, col : Nat, fetched : BOOLEAN, bad : BOOLEAN]
  BY DEF IInv, CallType, RowsObject
<1>4. NextReturns /\ pc \in Columnar => armed' = "none" /\ expect' = <<>>
  <2>1. CASE rows.fetched /\ pc \in Columnar
    BY <1>0, <2>1, Disarms DEF NextReturns
  <2>2. CASE ~rows.fetched /\ pc \in Columnar
    BY <1>0, <1>1, <2>2 DEF NextReturns, wireVars
  <2> QED
    BY <2>1, <2>2
<1>5. ASSUME ColumnFails, UNCHANGED rowsElse, pc \in Columnar
      PROVE  Deadlines'
  BY <1>2, <1>4, <1>5 DEF ColumnFails, RowsFail, Goto, rowsElse
<1>6. ASSUME NextColumn, UNCHANGED wireVars, UNCHANGED rowsElse, pc \in Columnar
      PROVE  Deadlines'
  <2>1. pc' = "row" /\ rows'.fetched = rows.fetched
    BY <1>3, <1>6 DEF NextColumn, Goto
  <2> QED
    BY <2>1, <1>0, <1>1, <1>2, <1>6 DEF rowsElse, wireVars
<1>7. ASSUME pc' \in Columnar, pc \in Columnar, UNCHANGED rows, UNCHANGED rowsElse, armed' = armed,
             res' = "unsent" => expect' = <<>>
      PROVE  Deadlines'
  BY <1>1, <1>2, <1>7 DEF rowsElse
<1>8. CASE RowsClose
  <2>1. UNCHANGED wireVars /\ pc = "rows"
    BY <1>8 DEF RowsClose, At
  <2>2. Continue("free") \/ \E e : Finish(e)
    BY <1>8 DEF RowsClose
  <2>3. CASE Continue("free")
    BY <2>1, <2>3, <1>0, <1>1, <1>2 DEF Continue, Goto, callVars, wireVars
  <2> QED
    BY <2>1, <2>2, <2>3, <1>0, <1>1, FinishDeadlines DEF wireVars
<1>9. CASE RowsExpired
  BY <1>0, <1>1, <1>2, <1>9 DEF RowsExpired, WatcherCancel, RowsFail, Goto, rowsElse, At
<1>10. CASE RowsNext
  BY <1>0, <1>1, <1>2, <1>10 DEF RowsNext, SetDeadline, CtxDeadline, Goto, rowsElse, At, wireVars
<1>11. CASE Fetch
  <2>1. Ask("fetch", 0, 0, armed) /\ pc = "fetch" /\ pc' = "fetch.read" /\ UNCHANGED callVars
    BY <1>11 DEF Fetch, At, Goto, dataVars
  <2> QED
    BY <2>1, <1>0, <1>1, <1>2, Asks DEF callVars
<1>12. CASE FetchRead
  <2>1. pc = "fetch.read" /\ UNCHANGED rowsElse
    BY <1>12 DEF FetchRead, At
  <2>2. CASE /\ UNCHANGED wireVars /\ Goto("row")
             /\ \E n \in 1..MaxRows, more \in BOOLEAN :
                   rows' = [rows EXCEPT !.chunk = n - 1, !.more = more, !.col = 1, !.fetched = TRUE]
    <3>1. rows'.fetched = TRUE
      BY <1>3, <2>2
    <3> QED
      BY <2>1, <2>2, <3>1, <1>0, <1>1, <1>2 DEF Goto, rowsElse, wireVars
  <2>3. CASE Disarm /\ pc' = "rows"
    <3>1. armed' = "none" /\ expect' = <<>>
      BY <1>0, <2>1, <2>3, Disarms
    <3> QED
      BY <2>1, <2>3, <3>1, <1>2 DEF rowsElse
  <2> QED
    BY <1>12, <2>2, <2>3 DEF FetchRead, RowsFail, Goto
<1>13. CASE Row
  <2>1. pc = "row" /\ UNCHANGED rowsElse
    BY <1>13 DEF Row, At
  <2>2. CASE NextReturns /\ Goto("rows")
    BY <2>1, <2>2, <1>2, <1>4 DEF Goto, rowsElse
  <2>3. CASE AskBlindly("open_blob", txs[cur].h) /\ Goto("blob.read") /\ UNCHANGED rows
    BY <2>1, <2>3, <1>7, AsksMore DEF Goto
  <2>4. CASE Ask("slice", txs[cur].h, 0, armed) /\ Goto("slice.read") /\ UNCHANGED rows
    <3>1. armed' = armed /\ (res' = "unsent" => expect' = <<>>)
      BY <2>4, Asks
    <3> QED
      BY <2>1, <2>4, <3>1, <1>7 DEF Goto
  <2> QED
    BY <1>13, <2>1, <2>2, <2>3, <2>4, <1>6 DEF Row
<1>14. CASE BlobRead
  <2>1. pc = "blob.read" /\ UNCHANGED rowsElse
    BY <1>14 DEF BlobRead, At
  <2>2. CASE AskBlindly("get_segment", 0) /\ Goto("segment.read") /\ UNCHANGED rows
    BY <2>1, <2>2, <1>7, AsksMore DEF Goto
  <2> QED
    BY <1>14, <2>1, <2>2, <1>5 DEF BlobRead
<1>15. CASE SegmentRead
  <2>1. pc = "segment.read" /\ UNCHANGED rowsElse
    BY <1>15 DEF SegmentRead, At
  <2>2. CASE /\ UNCHANGED rows /\ pc' \in {"segment.read", "blob.closed"}
             /\ \/ \E op, h : AskBlindly(op, h)
                \/ \E op, b : AskLazily(op, b)
    BY <2>1, <2>2, <1>7, AsksMore
  <2> QED
    BY <1>15, <2>1, <2>2, <1>5 DEF SegmentRead, Goto
<1>16. CASE ColumnRead
  <2>1. pc \in Columnar /\ UNCHANGED rowsElse
    BY <1>16 DEF ColumnRead, At
  <2> QED
    BY <1>16, <2>1, <1>5, <1>6 DEF ColumnRead
<1>17. CASE ScrollFetch \/ ScrollClose
  <2>1. /\ pc = "rows" /\ pc' \in {"fetch", "free"} /\ UNCHANGED <<job, expired, holder, again>>
        /\ UNCHANGED wireVars
    BY <1>17 DEF ScrollFetch, ScrollClose, Continue, Goto, dataVars, callVars, At
  <2> QED
    BY <2>1, <1>0, <1>1, <1>2 DEF wireVars
<1> QED
  BY <1>8, <1>9, <1>10, <1>11, <1>12, <1>13, <1>14, <1>15, <1>16, <1>17 DEF Cursor

\* Ping is called without a context (driver_go18.go Ping starts no goroutine).
PingFree == PingContexts \subseteq {"none"}

LEMMA PingDeadlines ==
  ASSUME IInv, Deadlines, Ping \/ PingRead
  PROVE  Deadlines'
<1>1. CASE Ping
  <2>1. pc = "ping" /\ expect = <<>> /\ job.ctx = "none"
    BY <1>1 DEF Ping, At, Deadlines, PingOK
  <2>2. armed = "none" /\ ~expired
    BY <2>1, Quiet DEF Calm, Places, Deadlines, HolderOK, IInv, CallType
  <2>3. pc' = "ping.read" /\ UNCHANGED callVars /\ pinger' = pinger /\ Ask("ping", 0, 0, "none")
    BY <1>1, <2>1, <2>2 DEF Ping, CtxDeadline, Continue, Goto
  <2> QED
    BY <2>1, <2>3, Asks DEF callVars, Closing, Deadlines, HolderOK, PingOK, ArmedOK, TimeoutOK
<1>2. CASE PingRead
  <2>1. pc = "ping.read" /\ expect = <<>> /\ Disarm /\ \E e : Finish(e)
    BY <1>2 DEF PingRead, At
  <2>2. armed' = "none" /\ expect' = <<>>
    BY <2>1, Disarms
  <2>3. pinger' = pinger
    BY <1>2 DEF PingRead, Deadlines, PingOK
  <2> QED
    BY <2>1, <2>2, <2>3, FinishDeadlines
<1> QED
  BY <1>1, <1>2

LEMMA TeardownDeadlines ==
  ASSUME IInv, Deadlines, Teardown
  PROVE  Deadlines'
<1>1. CASE Close
  <2>1. pc = "close" /\ pc' \in {"close.read", "detach.read"} /\ UNCHANGED <<callVars, sideVars>>
    BY <1>1 DEF Close, Goto, At
  <2>2. armed = "none"
    BY <2>1, Quiet DEF Calm, Places
  <2>3. /\ armed' = "none" \/ (armed' = "fixed" /\ res' # "unsent")
        /\ res' = "unsent" => expect' = <<>>
    <3>1. \E op, h : Ask(op, h, 0, "fixed")
      BY <1>1 DEF Close
    <3> QED
      BY <2>2, <3>1, Asks
  <2> QED
    BY <2>1, <2>3 DEF callVars, sideVars, Closing, Deadlines, HolderOK, PingOK, ArmedOK, TimeoutOK
<1>2. CASE CloseRead
  <2>1. /\ pc = "close.read" /\ pc' = "close" /\ UNCHANGED <<callVars, sideVars>> /\ ReadTimeoutCleared
        /\ expect = <<>>
    BY <1>2 DEF CloseRead, Goto, At, dataVars
  <2>2. armed' = "none" /\ expect' = <<>>
    BY <2>1, Clears DEF Deadlines, ArmedOK, IInv, WireInv, WireTypeOK, Deadline
  <2> QED
    BY <2>1, <2>2 DEF callVars, sideVars, Closing, Deadlines, HolderOK, PingOK, ArmedOK, TimeoutOK
<1>3. CASE DetachRead
  <2>1. /\ pc = "detach.read" /\ pc' = "idle" /\ holder' = "gone"
        /\ UNCHANGED <<wireVars, job, expired, again, pinger>> /\ expect = <<>>
    BY <1>3 DEF DetachRead, Goto, At
  <2> QED
    BY <2>1 DEF wireVars, Closing, Deadlines, HolderOK, PingOK, ArmedOK, TimeoutOK
<1> QED
  BY <1>1, <1>2, <1>3 DEF Teardown

\* Where a call starts.
LEMMA Starts ==
  ASSUME NEW k \in Kinds \ {"commit", "rollback"}, k \in CallKinds
  PROVE  /\ StartOf(k) \in {"prepare", "run", "free", "begin", "ping", "immediate"}
         /\ StartOf(k) = "ping" => k = "ping"
         /\ StartOf(k) = "begin" => k = "begin"
         /\ StartOf(k) = "free" => k = "stmtClose"
         /\ StartOf(k) = "run" => k \in {"stmtExec", "stmtQuery"}
         /\ StartOf(k) = "immediate" => k = "immediate"
         /\ StartOf(k) = "prepare" => k \in {"exec", "query", "scroll", "stmtExec", "stmtQuery"}
  BY DEF StartOf, CallKinds

LEMMA StartsAgain ==
  ASSUME NEW k \in Retried
  PROVE  /\ StartOf(k) \in {"prepare", "run", "begin", "ping"}
         /\ StartOf(k) = "ping" => k = "ping"
         /\ StartOf(k) = "begin" => k = "begin"
         /\ StartOf(k) = "run" => k \in {"stmtExec", "stmtQuery"}
         /\ StartOf(k) = "prepare" => k \in {"exec", "query", "stmtExec", "stmtQuery"}
  BY DEF StartOf, Retried

\* A call starts on a connection at rest.
LEMMA CallMoves ==
  ASSUME IInv, CallStart
  PROVE  /\ pc = "idle" /\ again = NoJob /\ stack' = stack
         /\ (holder = "pool" /\ holder' = "call") \/ (holder = "tx" /\ holder' = "txcall")
         /\ UNCHANGED <<wireVars, err, expired, again, rows, txVars, srvVars, sideVars>>
         /\ job'.kind \in Kinds \ {"commit", "rollback"} /\ job'.kind \in CallKinds
         /\ pc' = StartOf(job'.kind) /\ job'.ctx \in ContextsOf(job'.kind)
         /\ job'.kind = "stmtClose" => prepared
         /\ holder = "tx" => job'.kind \in {"exec", "query"}
<1>1. PICK k \in Kinds \ {"commit", "rollback"} :
          /\ holder = "pool" \/ (holder = "tx" /\ k \in {"exec", "query"})
          /\ k = "stmtClose" => prepared
          /\ \E c \in ContextsOf(k), s \in ShapesOf(k) :
                job' = [kind |-> k, shape |-> s, ctx |-> c, id |-> calls + 1]
          /\ Goto(StartOf(k))
  BY DEF CallStart
<1>2. PICK c \in ContextsOf(k), s \in ShapesOf(k) : job' = [kind |-> k, shape |-> s, ctx |-> c, id |-> calls + 1]
  BY <1>1
<1>3. job'.kind = k /\ job'.ctx = c
  BY <1>2
<1>4. k \in CallKinds
  BY SessionAssumption
<1>5. /\ pc = "idle" /\ again = NoJob /\ holder' = IF holder = "tx" THEN "txcall" ELSE "call"
      /\ UNCHANGED <<wireVars, err, expired, again, rows, txVars, srvVars, sideVars>>
  BY DEF CallStart
<1>6. pc' = StartOf(job'.kind) /\ stack' = stack
  BY <1>1, <1>3 DEF Goto
<1>7. job'.ctx \in ContextsOf(job'.kind)
  BY <1>2, <1>3
<1>8. job'.kind \in Kinds \ {"commit", "rollback"} /\ job'.kind \in CallKinds
  BY <1>3, <1>4
<1>9. job'.kind = "stmtClose" => prepared
  BY <1>1, <1>3
<1>10. (holder = "tx" => job'.kind \in {"exec", "query"}) /\ (holder = "pool" \/ holder = "tx")
  BY <1>1, <1>3
<1> QED
  BY <1>5, <1>6, <1>7, <1>8, <1>9, <1>10

\* So does its repetition.
LEMMA RetryMoves ==
  ASSUME IInv, Retry
  PROVE  /\ pc = "idle" /\ holder = "pool" /\ again # NoJob /\ again.kind \in Retried
         /\ job' = again /\ again' = NoJob /\ pc' = StartOf(again.kind) /\ stack' = stack /\ holder' = "call"
         /\ UNCHANGED <<wireVars, err, expired, calls, rows, fate, txVars, srvVars, sideVars>>
  BY DEF Retry, Goto, IInv, RetryOK

LEMMA ApplicationDeadlines ==
  ASSUME PingFree, IInv, Deadlines, Application
  PROVE  Deadlines'
<1>0. NoJob.ctx = "none" /\ NoJob.kind = "none"
  BY DEF NoJob
<1>1. CASE CallStart
  <2>1. pc = "idle" /\ holder \in {"pool", "tx"} /\ ~expired /\ armed = "none"
    BY <1>1, CallMoves DEF Deadlines, HolderOK, ArmedOK, IInv, WireInv, WireTypeOK, Deadline, CallType
  <2>2. pc' \in {"prepare", "run", "free", "begin", "ping", "immediate"}
    BY <1>1, CallMoves, Starts
  <2>3. job'.kind = "ping" => job'.ctx = "none"
    BY <1>1, CallMoves DEF ContextsOf, PingFree
  <2>4. pc' = "ping" => job'.kind = "ping"
    BY <1>1, CallMoves, Starts
  <2> QED
    BY <1>0, <1>1, <2>1, <2>2, <2>3, <2>4, CallMoves DEF wireVars, sideVars, Closing, Deadlines, HolderOK, PingOK, ArmedOK, TimeoutOK
<1>2. CASE Retry
  <2>1. ~expired /\ armed = "none"
    BY <1>2, RetryMoves DEF Deadlines, HolderOK, ArmedOK, IInv, WireInv, WireTypeOK, Deadline, CallType
  <2>2. pc' \in {"prepare", "run", "begin", "ping"} /\ (pc' = "ping" => again.kind = "ping")
    BY <1>2, RetryMoves, StartsAgain
  <2> QED
    BY <1>0, <1>2, <2>1, <2>2, RetryMoves DEF wireVars, sideVars, Closing, Deadlines, HolderOK, PingOK, ArmedOK, TimeoutOK
<1>3. CASE TxEnd
  <2>1. /\ pc = "idle" /\ holder = "tx" /\ pc' \in {"commit", "rollback"} /\ holder' = "txcall"
        /\ UNCHANGED <<wireVars, expired, again, sideVars>>
    BY <1>3 DEF TxEnd, Goto
  <2>2. job'.ctx = "none" /\ job'.kind \in {"commit", "rollback"}
    BY <1>3 DEF TxEnd, NoJob
  <2> QED
    BY <2>1, <2>2 DEF wireVars, sideVars, Closing, Deadlines, HolderOK, PingOK, ArmedOK, TimeoutOK
<1>4. CASE Reconnect
  BY <1>4 DEF Reconnect, WireReset, ctlVars, Closing, Deadlines, HolderOK, PingOK, ArmedOK, TimeoutOK
<1>5. CASE Stopped
  BY <1>5 DEF Stopped, vars, ctlVars, dataVars, callVars, wireVars, sideVars, Closing, Deadlines, HolderOK, PingOK,
              ArmedOK, TimeoutOK
<1> QED
  BY <1>1, <1>2, <1>3, <1>4, <1>5 DEF Application

LEMMA EnvironmentDeadlines ==
  ASSUME IInv, Deadlines, Environment
  PROVE  Deadlines'
<1> DEFINE Same == UNCHANGED <<ctlVars, job, holder, again, rows, pinger, expect, armed, res>>
<1>1. ASSUME Same, UNCHANGED expired
      PROVE  Deadlines'
  BY <1>1 DEF ctlVars, Closing, Deadlines, HolderOK, PingOK, ArmedOK, TimeoutOK
<1>2. CASE Server
  BY <1>1, <1>2 DEF Server, Answer, callVars, sideVars
<1>3. CASE CtxDone
  BY <1>3 DEF CtxDone, ctlVars, wireVars, sideVars, Closing, Deadlines, HolderOK, PingOK, ArmedOK, TimeoutOK
<1>4. CASE Watcher
  BY <1>1, <1>4 DEF Watcher, WatcherCancel, callVars
<1>5. CASE PingWatcher
  BY <1>5 DEF PingWatcher, Deadlines, PingOK
<1>6. CASE SocketDeath
  BY <1>1, <1>6 DEF SocketDeath, SocketDies, dataVars, callVars, sideVars
<1> QED
  BY <1>2, <1>3, <1>4, <1>5, <1>6 DEF Environment

\* What a read may end with.
LEMMA Receives ==
  ASSUME IInv, Receive
  PROVE  /\ expect # <<>> /\ armed' = armed /\ UNCHANGED <<ctlVars, dataVars>>
         /\ res' \in {res, "nil", "bad", "other", "server", "timeout"}
         /\ res' = "timeout" => res' = res \/ DeadlineFires
<1>1. UNCHANGED <<ctlVars, dataVars>>
  BY DEF Receive
<1>2. CASE RecvSkip
  BY <1>1, <1>2 DEF RecvSkip
<1>3. CASE RecvOwn
  BY <1>1, <1>3 DEF RecvOwn, ReadEnds, OutcomeOf
<1>4. CASE RecvGarbage
  BY <1>1, <1>4 DEF RecvGarbage, GiveUp, ReadEnds
<1>5. CASE RecvMalformed
  BY <1>1, <1>5 DEF RecvMalformed, ReadEnds
<1>6. CASE DeadlineFires
  BY <1>1, <1>6 DEF DeadlineFires, RecvTimeout, GiveUp, ReadEnds
<1> QED
  BY <1>2, <1>3, <1>4, <1>5, <1>6 DEF Receive

LEMMA ReceiveDeadlines ==
  ASSUME IInv, Deadlines, Receive
  PROVE  Deadlines'
<1>1. /\ UNCHANGED <<pc, stack, job, expired, holder, again, rows, pinger, armed>> /\ res # "unsent" /\ res' # "unsent"
      /\ res' = "timeout" => res' = res \/ DeadlineFires
  BY Receives DEF ctlVars, dataVars, callVars, sideVars, Deadlines, TimeoutOK
<1>2. DeadlineFires /\ pc \in {"execute.read", "info.read"} => expired
  BY DEF DeadlineFires, Deadlines, ArmedOK
<1> QED
  BY <1>1, <1>2 DEF Closing, Deadlines, HolderOK, PingOK, ArmedOK, TimeoutOK

\* Deadlines holds of a new connection ...
LEMMA InitDeadlines == Init => Deadlines
  BY DEF Init, WireInit, NoJob, Closing, Deadlines, HolderOK, PingOK, ArmedOK, TimeoutOK

\* ... and every step keeps it.
LEMMA StepDeadlines ==
  ASSUME PingFree, IInv, Deadlines, [Next]_vars
  PROVE  Deadlines'
<1>1. CASE Transaction
  BY <1>1, SubroutineDeadlines, TransactionDeadlines DEF Transaction
<1>2. CASE Statement
  BY <1>2, PrepareDeadlines, RunDeadlines, ExecuteDeadlines, ImmediateDeadlines, FreeDeadlines DEF Statement
<1>3. CASE UNCHANGED vars
  BY <1>3 DEF vars, ctlVars, dataVars, callVars, wireVars, sideVars, Closing, Deadlines, HolderOK, PingOK,
              ArmedOK, TimeoutOK
<1> QED
  BY <1>1, <1>2, <1>3, CursorDeadlines, PingDeadlines, TeardownDeadlines, ApplicationDeadlines,
     EnvironmentDeadlines, ReceiveDeadlines DEF Next, Driver

-----------------------------------------------------------------------------
(***************************************************************************)
(* No nil fc.tx is dereferenced, but by the calls that do not look at it.  *)
(***************************************************************************)

\* Without BeginTx fc.tx is never nil.
TxNeverNil == /\ cur # 0 /\ job.kind # "begin" /\ again.kind # "begin"
              /\ pc \notin {"begin", "begin.done"} /\ stack # <<"begin.done">>
              /\ holder \notin {"tx", "txcall"}

\* Where the calls that do not look at fc.tx go, and who goes there.
NilLookedAt == pc = "run" \/ (cur = 0 /\ pc \in {"free", "free.read"}) => job.kind \in Unlooked

\* A nil fc.tx is dereferenced by those calls only, and why.
NilOK == /\ NoPanic
         /\ "begin" \notin Kinds => TxNeverNil
         /\ NilLookedAt

\* Only BeginTx returns to begin.done.
LEMMA CallStacks ==
  /\ <<"prepare.begun">> # <<"begin.done">> /\ <<"run.begun">> # <<"begin.done">>
  /\ <<"immediate.begun">> # <<"begin.done">> /\ <<"exec.committed">> # <<"begin.done">>
  /\ <<"immediate.done">> # <<"begin.done">> /\ <<"exec.done">> # <<"begin.done">>
  /\ <<"freed">> # <<"begin.done">> /\ <<>> # <<"begin.done">>
<1>1. \A a, b : <<a>> = <<b>> => a = b
  OBVIOUS
<1>2. \A a : <<a>> # <<>>
  OBVIOUS
<1> QED
  BY <1>1, <1>2

LEMMA EndNil ==
  ASSUME IInv, NilOK, NEW e, NEW next \in {"pool", "tx"}, Ends(e, next), next = "tx" => holder = "txcall",
         cur' = cur
  PROVE  NilOK'
<1>1. NoJob.kind = "none"
  BY DEF NoJob
<1> QED
  BY <1>1, EndMoves, CallStacks DEF NilOK, NoPanic, TxNeverNil, NilLookedAt, Unlooked

LEMMA FinishNil ==
  ASSUME IInv, NilOK, NEW e, Finish(e), cur' = cur
  PROVE  NilOK'
  BY FinishMoves, EndNil

\* A step inside a call.
LEMMA StaysNil ==
  ASSUME IInv, NilOK, UNCHANGED <<job, again, holder, cur>>,
         pc' \notin {"begin", "begin.done", "run", "panic"},
         pc' \in {"free", "free.read"} /\ cur = 0 => pc \in {"free", "free.read"},
         stack' # stack => stack' # <<"begin.done">>
  PROVE  NilOK'
  BY DEF NilOK, NoPanic, TxNeverNil, NilLookedAt

\* At most places of a call fc.tx cannot be nil.
LEMMA TxThere ==
  ASSUME IInv, pc \in Places \ NilTxPlaces
  PROVE  cur # 0
  BY DEF IInv, ControlOK

LEMMA LeaveNil ==
  ASSUME IInv, NilOK, NEW e, Leave(e), cur' = cur, pc \in Places \ NilTxPlaces
  PROVE  NilOK'
<1>0. cur # 0
  BY TxThere
<1>1. <<"exec.done">> # <<"begin.done">>
  BY StackAt DEF IInv, ControlOK
<1>2. CASE Finish(e)
  BY <1>2, FinishNil
<1>3. CASE ~Finish(e)
  BY <1>0, <1>1, <1>3, LeaveMoves DEF NilOK, NoPanic, TxNeverNil, NilLookedAt, Unlooked
<1> QED
  BY <1>2, <1>3

\* A dereference of nil.
LEMMA PanicNil ==
  ASSUME IInv, NilOK, cur = 0, job.kind \in Unlooked, UNCHANGED <<job, again, holder, cur, stack>>, pc' = "panic"
  PROVE  NilOK'
  BY DEF NilOK, NoPanic, TxNeverNil, NilLookedAt

LEMMA TransactionNil ==
  ASSUME IInv, Deadlines, NilOK, Transaction
  PROVE  NilOK'
<1>1. CASE Begin
  BY <1>1, StaysNil DEF Begin, Goto, dataVars, callVars, txVars, At
<1>2. CASE BeginRead
  <2>1. /\ pc' \in {"prepare.begun", "run.begun", "immediate.begun", "begin.done"}
        /\ stack = <<pc'>> /\ stack' = <<>> /\ UNCHANGED <<job, again, holder, cur>>
    BY <1>2, BegunMoves DEF callVars
  <2>2. CASE pc' = "begin.done"
    BY <2>1, <2>2, CallStacks DEF NilOK, NoPanic, TxNeverNil, NilLookedAt
  <2>3. CASE pc' # "begin.done"
    BY <2>1, <2>3, CallStacks, StaysNil
  <2> QED
    BY <2>2, <2>3
<1>3. CASE CommitRetaining
  BY <1>3, StaysNil DEF CommitRetaining, Goto, dataVars, callVars, txVars, At
<1>4. CASE CommitRetainingRead
  <2>1. /\ pc' \in {"exec.committed", "immediate.done", "exec.done", "freed"}
        /\ stack' = <<>> /\ UNCHANGED <<job, again, holder, cur>>
    BY <1>4, RetainedMoves DEF callVars
  <2> QED
    BY <2>1, CallStacks, StaysNil
<1>5. CASE Commit \/ Rollback
  BY <1>5, StaysNil DEF Commit, Rollback, Goto, dataVars, callVars, txVars, At
<1>6. CASE CommitRead \/ RollbackRead
  BY <1>6, EndNil DEF CommitRead, RollbackRead
<1>7. CASE BeginTx
  <2>1. /\ pc = "begin" /\ stack = <<>> /\ Enter("tx.begin", "begin.done") /\ UNCHANGED <<job, again, holder, cur>>
    BY <1>7, Stacks DEF BeginTx, Call, callVars, At, Plain, Places
  <2>2. pc' = "tx.begin"
    BY <2>1, Entered
  <2> QED
    BY <2>1, <2>2 DEF NilOK, NoPanic, TxNeverNil, NilLookedAt
<1>8. CASE BeginTxDone
  <2>1. pc = "begin.done" /\ \E n \in {"pool", "tx"} : Ends(res, n)
    BY <1>8 DEF BeginTxDone, At
  <2>2. PICK n \in {"pool", "tx"} : Ends(res, n)
    BY <2>1
  <2>3. NoJob.kind = "none"
    BY DEF NoJob
  <2> QED
    BY <2>1, <2>2, <2>3, EndMoves, CallStacks DEF NilOK, NoPanic, TxNeverNil, NilLookedAt, Unlooked
<1> QED
  BY <1>1, <1>2, <1>3, <1>4, <1>5, <1>6, <1>7, <1>8 DEF Transaction

LEMMA GoesInNil ==
  ASSUME IInv, NilOK, stack = <<>>, NEW l \in {"tx.begin", "commitRetaining"},
         NEW r \in {"prepare.begun", "run.begun", "immediate.begun", "exec.committed", "immediate.done"}, Call(l, r),
         cur' = cur
  PROVE  NilOK'
<1>1. pc' = l /\ stack' = <<r>> /\ UNCHANGED <<job, again, holder, cur>>
  BY Entered DEF Call, callVars
<1> QED
  BY <1>1, CallStacks, StaysNil

LEMMA StatementNil ==
  ASSUME IInv, Deadlines, NilOK, Statement
  PROVE  NilOK'
<1> DEFINE Uncommon == {"prepare", "prepare.begun", "allocate", "allocate.read", "prepare.read", "run", "run.begun",
              "bind", "bind.read", "execute", "upload.blob", "upload.segment", "upload.closed",
              "upload.slice", "execute.read", "drain.read", "info.read", "exec.committed", "exec.done",
              "immediate", "immediate.begun", "immediate.send", "immediate.read", "immediate.done", "freed"}
<1>1. ASSUME NEW l \in Uncommon \ {"run"}, Continue(l), cur' = cur
      PROVE  NilOK'
  BY <1>1, StaysNil DEF Continue, Goto, callVars
<1>2. ASSUME NEW l \in Uncommon \ {"run"}, Goto(l), UNCHANGED dataVars
      PROVE  NilOK'
  BY <1>2, StaysNil DEF Goto, dataVars, callVars, txVars
<1>3. ASSUME pc \in Uncommon
      PROVE  stack = <<>>
  BY <1>3, Stacks DEF Plain, Places
<1>4. Uncommon \ {"prepare", "prepare.begun", "run", "run.begun", "immediate", "immediate.begun", "exec.done", "freed"}
        \subseteq Places \ NilTxPlaces
  BY DEF Places, NilTxPlaces
<1>5. CASE Prepare
  <2>1. pc = "prepare" /\ cur' = cur
    BY <1>5 DEF Prepare, txVars, At
  <2>2. CASE cur = 0 /\ job.kind = "scroll"
    BY <1>5, <2>1, <2>2, PanicNil DEF Prepare, Panic, Continue, Goto, callVars, Unlooked
  <2>3. CASE ~(cur = 0 /\ job.kind = "scroll")
    BY <1>5, <2>1, <2>3, <1>1, <1>3, FinishNil, GoesInNil DEF Prepare
  <2> QED
    BY <2>2, <2>3
<1>6. CASE PrepareBegun \/ PrepareStatement \/ RunBegun \/ ImmediateBegun
  <2>1. cur' = cur /\ (Finish(res) \/ \E l \in Uncommon \ {"run"} : Continue(l))
    BY <1>6 DEF PrepareBegun, PrepareStatement, RunBegun, ImmediateBegun, txVars
  <2> QED
    BY <2>1, <1>1, FinishNil
<1>7. CASE Allocate \/ Bind \/ Upload \/ UploadRead \/ UploadClosed \/ Execute \/ ImmediateSend
  <2>1. \E l \in Uncommon \ {"run"} : Goto(l) /\ UNCHANGED dataVars
    BY <1>7 DEF Allocate, Bind, Upload, UploadRead, UploadClosed, Execute, ImmediateSend
  <2> QED
    BY <2>1, <1>2
<1>8. CASE PrepareRead
  BY <1>8, <1>1, FinishNil DEF PrepareRead, txVars
<1>9. CASE ScrollRefused
  BY <1>9, <1>4, LeaveNil DEF ScrollRefused, txVars, At
<1>10. CASE Run
  <2>1. pc = "run" /\ cur' = cur /\ job.kind \in Unlooked
    BY <1>10 DEF Run, At, NilOK, NilLookedAt, txVars
  <2>2. CASE cur = 0
    BY <1>10, <2>1, <2>2, PanicNil DEF Run, Panic, Continue, Goto, callVars
  <2>3. CASE cur # 0
    BY <1>10, <2>1, <2>3, <1>1, <1>3, GoesInNil DEF Run
  <2> QED
    BY <2>2, <2>3
<1>11. CASE BindRead \/ SliceStored
  <2>1. cur' = cur /\ pc \in {"bind.read", "upload.slice"} /\ (Leave(res) \/ Continue("execute"))
    BY <1>11 DEF BindRead, SliceStored, txVars, At
  <2> QED
    BY <2>1, <1>1, <1>4, LeaveNil
<1>12. CASE ExecuteRead \/ InfoRead \/ ExecCommitted
  <2>1. /\ cur' = cur /\ pc \in {"execute.read", "info.read", "exec.committed"}
        /\ \/ \E e : Leave(e)
           \/ \E op : Abandon(op)
           \/ Continue("info.read")
           \/ Call("commitRetaining", "exec.committed")
    BY <1>12 DEF ExecuteRead, InfoRead, ExecCommitted, txVars, At
  <2>2. \A op : Abandon(op) => Continue("drain.read") \/ \E e : Leave(e)
    BY Abandons
  <2> QED
    BY <2>1, <2>2, <1>1, <1>3, <1>4, LeaveNil, GoesInNil
<1>13. CASE DrainRead
  <2>1. cur' = cur /\ pc = "drain.read" /\ \E e : Leave(e)
    BY <1>13 DEF DrainRead, txVars, At, Deadlines, TimeoutOK
  <2> QED
    BY <2>1, <1>4, LeaveNil
<1>14. CASE ExecDone \/ Freed \/ ImmediateDone
  BY <1>14, FinishNil DEF ExecDone, Freed, ImmediateDone, txVars
<1>15. CASE Immediate \/ ImmediateRead
  <2>1. /\ cur' = cur /\ pc \in {"immediate", "immediate.read"}
        /\ \/ \E e : Finish(e)
           \/ Call("tx.begin", "immediate.begun")
           \/ Call("commitRetaining", "immediate.done")
           \/ Continue("immediate.send")
    BY <1>15 DEF Immediate, ImmediateRead, txVars, At
  <2> QED
    BY <2>1, <1>1, <1>3, FinishNil, GoesInNil
<1>16. CASE Free
  BY <1>16, StaysNil DEF Free, Goto, dataVars, callVars, txVars, At
<1>17. CASE FreeRead
  <2>1. CASE pc' = "panic"
    BY <1>17, <2>1, FreedMoves, PanicNil DEF txVars, NilOK, NilLookedAt
  <2>2. CASE pc' # "panic"
    BY <1>17, <2>2, FreedMoves, CallStacks, StaysNil DEF txVars
  <2> QED
    BY <2>1, <2>2
<1> QED
  BY <1>5, <1>6, <1>7, <1>8, <1>9, <1>10, <1>11, <1>12, <1>13, <1>14, <1>15, <1>16, <1>17 DEF Statement

LEMMA CursorNil ==
  ASSUME IInv, NilOK, Cursor
  PROVE  NilOK'
<1>0. /\ pc \in {"rows", "fetch", "fetch.read", "row", "blob.read", "segment.read", "blob.closed", "slice.read"}
      /\ cur' = cur
  BY DEF Cursor, RowsClose, RowsExpired, RowsNext, Fetch, FetchRead, Row, BlobRead, SegmentRead, ColumnRead, ColumnFails,
         ScrollFetch, ScrollClose, At, rowsElse, dataVars, txVars
<1>1. cur # 0
  BY <1>0, TxThere DEF Places, NilTxPlaces
<1>2. \/ \E e : Finish(e)
      \/ /\ pc' \in {"rows", "fetch", "fetch.read", "row", "blob.read", "segment.read", "blob.closed",
                     "slice.read", "free"}
         /\ stack' = stack /\ UNCHANGED <<job, again, holder>>
  BY DEF Cursor, RowsClose, RowsExpired, RowsNext, Fetch, FetchRead, Row, BlobRead, SegmentRead, ColumnRead, ColumnFails,
         ScrollFetch, ScrollClose, RowsFail, NextColumn, Continue, Goto, rowsElse, dataVars, callVars
<1> QED
  BY <1>0, <1>1, <1>2, StaysNil, FinishNil

LEMMA OthersNil ==
  ASSUME IInv, NilOK, Ping \/ PingRead \/ Teardown \/ Environment \/ Receive
  PROVE  NilOK'
<1>1. CASE Ping \/ PingRead
  <2>1. cur' = cur /\ (Continue("ping.read") \/ \E e : Finish(e))
    BY <1>1 DEF Ping, PingRead, txVars
  <2> QED
    BY <2>1, FinishNil, StaysNil DEF Continue, Goto, callVars
<1>2. CASE Teardown
  <2>1. /\ pc' \in {"close", "close.read", "detach.read", "idle"} /\ stack' = stack /\ UNCHANGED <<job, again, cur>>
        /\ holder' = holder \/ holder' = "gone"
    BY <1>2 DEF Teardown, Close, CloseRead, DetachRead, Goto, callVars, dataVars, txVars
  <2> QED
    BY <2>1 DEF NilOK, NoPanic, TxNeverNil, NilLookedAt
<1>3. CASE Environment \/ Receive
  <2>1. UNCHANGED <<pc, stack, job, again, holder, cur>>
    BY <1>3, Receives DEF Environment, Server, CtxDone, Watcher, PingWatcher, SocketDeath, ctlVars, callVars, dataVars,
       txVars
  <2> QED
    BY <2>1 DEF NilOK, NoPanic, TxNeverNil, NilLookedAt
<1> QED
  BY <1>1, <1>2, <1>3

LEMMA ApplicationNil ==
  ASSUME IInv, NilOK, Application
  PROVE  NilOK'
<1>0. NoJob.kind = "none"
  BY DEF NoJob
<1>1. CASE CallStart
  <2>1. /\ pc' \in {"prepare", "run", "free", "begin", "ping", "immediate"}
        /\ pc' = "begin" => job'.kind = "begin"
        /\ pc' = "free" => job'.kind = "stmtClose"
        /\ pc' = "run" => job'.kind \in {"stmtExec", "stmtQuery"}
        /\ job'.kind \in Kinds
    BY <1>1, CallMoves, Starts
  <2>2. again' = again /\ cur' = cur /\ stack' = stack /\ (holder' \in {"tx", "txcall"} => holder = "tx")
    BY <1>1, CallMoves DEF txVars
  <2> QED
    BY <2>1, <2>2 DEF NilOK, NoPanic, TxNeverNil, NilLookedAt, Unlooked
<1>2. CASE Retry
  <2>1. /\ pc' \in {"prepare", "run", "begin", "ping"}
        /\ pc' = "begin" => again.kind = "begin"
        /\ pc' = "run" => again.kind \in {"stmtExec", "stmtQuery"}
    BY <1>2, RetryMoves, StartsAgain
  <2>2. again' = NoJob /\ job' = again /\ cur' = cur /\ stack' = stack /\ holder' = "call"
    BY <1>2, RetryMoves DEF txVars
  <2> QED
    BY <1>0, <2>1, <2>2 DEF NilOK, NoPanic, TxNeverNil, NilLookedAt, Unlooked
<1>3. CASE TxEnd
  <2>1. /\ pc = "idle" /\ holder = "tx" /\ pc' \in {"commit", "rollback"} /\ holder' = "txcall"
        /\ UNCHANGED <<again, stack, cur>>
    BY <1>3 DEF TxEnd, Goto, txVars
  <2>2. job'.kind \in {"commit", "rollback"}
    BY <1>3 DEF TxEnd, NoJob
  <2> QED
    BY <2>1, <2>2 DEF NilOK, NoPanic, TxNeverNil, NilLookedAt, Unlooked
<1>4. CASE Reconnect
  BY <1>4 DEF Reconnect, ctlVars, NilOK, NoPanic, TxNeverNil, NilLookedAt
<1>5. CASE Stopped
  BY <1>5 DEF Stopped, vars, ctlVars, dataVars, callVars, txVars, NilOK, NoPanic, TxNeverNil, NilLookedAt
<1> QED
  BY <1>1, <1>2, <1>3, <1>4, <1>5 DEF Application

LEMMA InitNil == Init => NilOK
  BY CallStacks DEF Init, NoJob, NilOK, NoPanic, TxNeverNil, NilLookedAt, Unlooked

LEMMA StepNil ==
  ASSUME IInv, Deadlines, NilOK, [Next]_vars
  PROVE  NilOK'
<1>1. CASE UNCHANGED vars
  BY <1>1 DEF vars, ctlVars, dataVars, callVars, txVars, NilOK, NoPanic, TxNeverNil, NilLookedAt
<1> QED
  BY <1>1, TransactionNil, StatementNil, CursorNil, OthersNil, ApplicationNil DEF Next, Driver

\* fc.tx is nil after a BeginTx that failed (connection.go begin); stmt.exec,
\* stmt.query, freeStatement and QueryScrollable use it without looking
\* (statement.go, scroll.go).  No other call does, and there is none without
\* BeginTx: no path of the driver dereferences nil beside those.
THEOREM NoPanicAlways ==
  ASSUME PingFree
  PROVE  Spec => []NoPanic
<1>1. Init => IInv /\ Deadlines /\ NilOK
  BY InitInv, InitDeadlines, InitNil
<1>2. IInv /\ Deadlines /\ NilOK /\ [Next]_vars => (IInv /\ Deadlines /\ NilOK)'
  BY NextInv, StepDeadlines, StepNil
<1>3. NilOK => NoPanic
  BY DEF NilOK
<1> QED
  BY <1>1, <1>2, <1>3, PTL DEF Spec

-----------------------------------------------------------------------------
(***************************************************************************)
(* A context that can end belongs to a statement of a pooled connection.   *)
(***************************************************************************)

\* Where a call has no context that can end, ...
UntimedPlaces == {"idle", "immediate", "immediate.begun", "immediate.send", "immediate.read",
   "immediate.done", "ping", "ping.read", "begin", "begin.done", "commit", "commit.read",
   "rollback", "rollback.read", "close", "close.read", "detach.read"}

\* ... and the callers that have none.
UntimedStacks == {<<"immediate.begun">>, <<"immediate.done">>, <<"begin.done">>}

\* Calls whose context may end.
Timed == {"exec", "query", "stmtExec", "stmtQuery", "rows"}

\* A context that can end belongs to a statement on a pooled connection.
TimedOK ==
  /\ job.ctx # "none" => /\ job.kind \in Timed /\ holder = "call"
                         /\ pc \notin UntimedPlaces /\ stack \notin UntimedStacks
  /\ again.ctx # "none" => again.kind \in Timed

\* Only database-level statements are given contexts: not Ping, not a statement
\* inside a transaction (database/sql does not evict its connection), not
\* ExecImmediate (which has no disposition for a late read).
PoolTimed == PingFree /\ TxContexts \subseteq {"none"} /\ RawContexts \subseteq {"none"}

\* Places differ, and so do the stacks they make.
LEMMA UntimedApart ==
  /\ <<>> \notin UntimedStacks
  /\ \A r : <<r>> \in UntimedStacks => r \in {"immediate.begun", "immediate.done", "begin.done"}
<1>1. \A a, b : <<a>> = <<b>> => a = b
  OBVIOUS
<1>2. \A a : <<a>> # <<>>
  OBVIOUS
<1> QED
  BY <1>1, <1>2 DEF UntimedStacks

LEMMA EndTimed ==
  ASSUME TimedOK, NEW e, NEW next, Ends(e, next)
  PROVE  TimedOK'
<1>1. NoJob.ctx = "none"
  BY DEF NoJob
<1> QED
  BY <1>1, EndMoves DEF TimedOK

LEMMA FinishTimed ==
  ASSUME TimedOK, NEW e, Finish(e)
  PROVE  TimedOK'
  BY EndTimed, FinishMoves

LEMMA StaysTimed ==
  ASSUME TimedOK, UNCHANGED <<job, again, holder>>,
         pc' \in UntimedPlaces => pc \in UntimedPlaces,
         stack' \in UntimedStacks => stack \in UntimedStacks \/ pc \in UntimedPlaces
  PROVE  TimedOK'
  BY DEF TimedOK

LEMMA LeaveTimed ==
  ASSUME IInv, TimedOK, NEW e, Leave(e), pc \in Places, pc \notin UntimedPlaces
  PROVE  TimedOK'
<1>1. CASE Finish(e)
  BY <1>1, FinishTimed
<1>2. CASE ~Finish(e)
  <2>1. <<"exec.done">> \notin UntimedStacks
    BY UntimedApart
  <2>2. {"free", "rows"} \cap UntimedPlaces = {} /\ "rows" \in Timed
    BY DEF UntimedPlaces, Timed
  <2> QED
    BY <1>2, <2>1, <2>2, LeaveMoves DEF TimedOK
<1> QED
  BY <1>1, <1>2

LEMMA GoesInTimed ==
  ASSUME TimedOK, stack = <<>>, NEW l \in {"tx.begin", "commitRetaining"},
         NEW r \in {"prepare.begun", "run.begun", "immediate.begun", "exec.committed", "immediate.done", "begin.done"},
         Call(l, r),
         r \in {"immediate.begun", "immediate.done", "begin.done"} => pc \in UntimedPlaces
  PROVE  TimedOK'
<1>1. pc' = l /\ stack' = <<r>> /\ UNCHANGED <<job, again, holder>>
  BY Entered DEF Call, callVars
<1>2. l \notin UntimedPlaces
  BY DEF UntimedPlaces
<1> QED
  BY <1>1, <1>2, UntimedApart, StaysTimed

LEMMA TransactionTimed ==
  ASSUME IInv, TimedOK, Transaction
  PROVE  TimedOK'
<1>1. CASE Begin \/ CommitRetaining
  BY <1>1, StaysTimed DEF Begin, CommitRetaining, Goto, dataVars, callVars, At, UntimedPlaces
<1>2. CASE BeginRead \/ CommitRetainingRead
  <2>1. /\ pc' \in {"prepare.begun", "run.begun", "immediate.begun", "begin.done", "exec.committed", "immediate.done",
                    "exec.done", "freed"}
        /\ stack = <<pc'>> /\ stack' = <<>> /\ UNCHANGED <<job, again, holder>>
    BY <1>2, BegunMoves, RetainedMoves DEF callVars
  <2>2. pc' \in UntimedPlaces => stack \in UntimedStacks
    BY <2>1 DEF UntimedPlaces, UntimedStacks
  <2> QED
    BY <2>1, <2>2, UntimedApart DEF TimedOK
<1>3. CASE Commit \/ Rollback
  BY <1>3, StaysTimed DEF Commit, Rollback, Goto, dataVars, callVars, At, UntimedPlaces
<1>4. CASE CommitRead \/ RollbackRead \/ BeginTxDone
  BY <1>4, EndTimed DEF CommitRead, RollbackRead, BeginTxDone
<1>5. CASE BeginTx
  <2>1. pc = "begin" /\ stack = <<>> /\ Call("tx.begin", "begin.done")
    BY <1>5, Stacks DEF BeginTx, At, Plain, Places
  <2> QED
    BY <2>1, GoesInTimed DEF UntimedPlaces
<1> QED
  BY <1>1, <1>2, <1>3, <1>4, <1>5 DEF Transaction

LEMMA StatementTimed ==
  ASSUME IInv, Deadlines, TimedOK, Statement
  PROVE  TimedOK'
<1> DEFINE Common == {"prepare", "prepare.begun", "allocate", "allocate.read", "prepare.read", "run", "run.begun",
              "bind", "bind.read", "execute", "upload.blob", "upload.segment", "upload.closed",
              "upload.slice", "execute.read", "drain.read", "info.read", "exec.committed", "exec.done", "freed"}
           Raw == {"immediate", "immediate.begun", "immediate.send", "immediate.read", "immediate.done"}
<1>0. Common \cap UntimedPlaces = {} /\ Raw \subseteq UntimedPlaces /\ {"panic", "free", "free.read"} \cap UntimedPlaces = {}
  BY DEF UntimedPlaces
<1>1. ASSUME NEW l \in Common \cup {"panic"}, Goto(l), UNCHANGED callVars
      PROVE  TimedOK'
  BY <1>0, <1>1, StaysTimed DEF Goto, callVars
<1>2. ASSUME NEW l \in Raw, pc \in Raw, Goto(l), UNCHANGED callVars
      PROVE  TimedOK'
  BY <1>0, <1>2, StaysTimed DEF Goto, callVars
<1>3. ASSUME pc \in Common \cup Raw
      PROVE  stack = <<>> /\ pc \in Places
  BY <1>3, Stacks DEF Plain, Places
<1>4. ASSUME pc \in Common, NEW e, Leave(e)
      PROVE  TimedOK'
  BY <1>0, <1>3, <1>4, LeaveTimed
<1>5. CASE Prepare \/ Run
  <2>1. /\ pc \in Common
        /\ \/ \E e : Finish(e)
           \/ \E r \in {"prepare.begun", "run.begun"} : Call("tx.begin", r)
           \/ \E l \in Common \cup {"panic"} : Goto(l) /\ UNCHANGED callVars
    BY <1>5 DEF Prepare, Run, Panic, Continue, At
  <2> QED
    BY <2>1, <1>1, <1>3, FinishTimed, GoesInTimed
<1>6. CASE PrepareBegun \/ PrepareStatement \/ RunBegun \/ PrepareRead \/ ExecDone \/ Freed
  <2>1. \/ \E e : Finish(e)
        \/ \E l \in Common : Goto(l) /\ UNCHANGED callVars
    BY <1>6 DEF PrepareBegun, PrepareStatement, RunBegun, PrepareRead, ExecDone, Freed, Continue
  <2> QED
    BY <2>1, <1>1, FinishTimed
<1>7. CASE Allocate \/ Bind \/ Upload \/ UploadRead \/ UploadClosed \/ Execute
  <2>1. \E l \in Common : Goto(l) /\ UNCHANGED callVars
    BY <1>7 DEF Allocate, Bind, Upload, UploadRead, UploadClosed, Execute, dataVars
  <2> QED
    BY <2>1, <1>1
<1>8. CASE ScrollRefused \/ BindRead \/ SliceStored \/ ExecuteRead \/ InfoRead \/ ExecCommitted \/ DrainRead
  <2>1. /\ pc \in Common
        /\ \/ \E e : Leave(e)
           \/ \E op : Abandon(op)
           \/ Call("commitRetaining", "exec.committed")
           \/ \E l \in Common \cup {"panic"} : Goto(l) /\ UNCHANGED callVars
    BY <1>8 DEF ScrollRefused, BindRead, SliceStored, ExecuteRead, InfoRead, ExecCommitted, DrainRead, Panic, Continue, At
  <2>2. \A op : Abandon(op) => (Goto("drain.read") /\ UNCHANGED callVars) \/ \E e : Leave(e)
    BY Abandons DEF Continue
  <2> QED
    BY <2>1, <2>2, <1>1, <1>3, <1>4, GoesInTimed
<1>9. CASE Immediate \/ ImmediateBegun \/ ImmediateSend \/ ImmediateRead \/ ImmediateDone
  <2>1. /\ pc \in Raw
        /\ \/ \E e : Finish(e)
           \/ Call("tx.begin", "immediate.begun")
           \/ Call("commitRetaining", "immediate.done")
           \/ \E l \in Raw : Goto(l) /\ UNCHANGED callVars
    BY <1>9 DEF Immediate, ImmediateBegun, ImmediateSend, ImmediateRead, ImmediateDone, Continue, At, dataVars
  <2> QED
    BY <2>1, <1>0, <1>2, <1>3, FinishTimed, GoesInTimed
<1>10. CASE Free
  BY <1>0, <1>10, StaysTimed DEF Free, Goto, dataVars, callVars
<1>11. CASE FreeRead
  <2>1. <<"freed">> \notin UntimedStacks /\ <<"exec.done">> \notin UntimedStacks /\ <<>> \notin UntimedStacks
    BY UntimedApart
  <2>2. "commitRetaining" \notin UntimedPlaces
    BY DEF UntimedPlaces
  <2> QED
    BY <1>0, <1>11, <2>1, <2>2, FreedMoves, StaysTimed
<1> QED
  BY <1>5, <1>6, <1>7, <1>8, <1>9, <1>10, <1>11 DEF Statement

LEMMA OthersTimed ==
  ASSUME IInv, Deadlines, TimedOK, Cursor \/ Ping \/ PingRead \/ Teardown \/ Receive \/ Environment
  PROVE  TimedOK'
<1>1. CASE Cursor
  <2>1. \/ \E e : Finish(e)
        \/ /\ pc' \in {"rows", "fetch", "fetch.read", "row", "blob.read", "segment.read", "blob.closed",
                     "slice.read", "free"}
           /\ stack' = stack /\ UNCHANGED <<job, again, holder>>
    BY <1>1 DEF Cursor, RowsClose, RowsExpired, RowsNext, Fetch, FetchRead, Row, BlobRead, SegmentRead, ColumnRead, ColumnFails,
         ScrollFetch, ScrollClose, RowsFail, NextColumn, Continue, Goto, rowsElse, dataVars, callVars
  <2>2. {"rows", "fetch", "fetch.read", "row", "blob.read", "segment.read", "blob.closed",
                     "slice.read", "free"} \cap UntimedPlaces = {}
    BY DEF UntimedPlaces
  <2> QED
    BY <2>1, <2>2, StaysTimed, FinishTimed
<1>2. CASE Ping \/ PingRead
  <2>1. pc \in UntimedPlaces /\ (Continue("ping.read") \/ \E e : Finish(e))
    BY <1>2 DEF Ping, PingRead, At, UntimedPlaces
  <2> QED
    BY <2>1, FinishTimed, StaysTimed DEF Continue, Goto, callVars
<1>3. CASE Teardown
  <2>1. pc \in Closing /\ UNCHANGED <<job, again>>
    BY <1>3 DEF Teardown, Close, CloseRead, DetachRead, At, Closing, dataVars, callVars
  <2> QED
    BY <2>1 DEF TimedOK, Deadlines, HolderOK
<1>4. CASE Receive \/ Environment
  <2>1. UNCHANGED <<pc, stack, job, again, holder>>
    BY <1>4, Receives DEF Environment, Server, CtxDone, Watcher, PingWatcher, SocketDeath, ctlVars, callVars, dataVars
  <2> QED
    BY <2>1, StaysTimed
<1> QED
  BY <1>1, <1>2, <1>3, <1>4

LEMMA ApplicationTimed ==
  ASSUME PoolTimed, IInv, Deadlines, TimedOK, Application
  PROVE  TimedOK'
<1>0. NoJob.ctx = "none"
  BY DEF NoJob
<1>1. stack \in UntimedStacks => pc # "idle"
  BY Stacks, UntimedApart DEF Plain, Places
<1>2. CASE CallStart
  <2>1. job'.ctx # "none" => job'.kind \in {"exec", "query", "stmtExec", "stmtQuery"} /\ holder # "tx"
    BY <1>2, CallMoves DEF ContextsOf, PoolTimed, PingFree
  <2>2. pc' \in {"prepare", "run", "free", "begin", "ping", "immediate"}
        /\ (job'.kind \in {"exec", "query", "stmtExec", "stmtQuery"} => pc' \in {"prepare", "run"})
    BY <1>2, CallMoves, Starts
  <2> QED
    BY <1>1, <1>2, <2>1, <2>2, CallMoves DEF TimedOK, Timed, UntimedPlaces
<1>3. CASE Retry
  <2>1. /\ pc' \in {"prepare", "run", "begin", "ping"}
        /\ pc' = "begin" => again.kind = "begin"
        /\ pc' = "ping" => again.kind = "ping"
    BY <1>3, RetryMoves, StartsAgain
  <2>2. again.kind \in Timed => pc' \notin UntimedPlaces
    BY <2>1 DEF Timed, UntimedPlaces
  <2> QED
    BY <1>0, <1>1, <1>3, <2>2, RetryMoves DEF TimedOK
<1>4. CASE TxEnd
  <2>1. job'.ctx = "none" /\ again' = again
    BY <1>4, <1>0 DEF TxEnd, NoJob
  <2> QED
    BY <2>1 DEF TimedOK
<1>5. CASE Reconnect
  <2>1. pc = "idle" /\ UNCHANGED <<job, again>>
    BY <1>5 DEF Reconnect
  <2> QED
    BY <2>1 DEF TimedOK, Deadlines, HolderOK
<1>6. CASE Stopped
  BY <1>6 DEF Stopped, vars, ctlVars, dataVars, callVars, TimedOK
<1> QED
  BY <1>2, <1>3, <1>4, <1>5, <1>6 DEF Application

LEMMA InitTimed == Init => TimedOK
  BY DEF Init, NoJob, TimedOK

LEMMA StepTimed ==
  ASSUME PoolTimed, IInv, Deadlines, TimedOK, [Next]_vars
  PROVE  TimedOK'
<1>1. CASE UNCHANGED vars
  BY <1>1 DEF vars, ctlVars, dataVars, callVars, TimedOK
<1> QED
  BY <1>1, TransactionTimed, StatementTimed, OthersTimed, ApplicationTimed DEF Next, Driver

-----------------------------------------------------------------------------
(***************************************************************************)
(* A call that gives the connection up closes it.                          *)
(***************************************************************************)

\* The call in progress will return driver.ErrBadConn, whatever happens: its
\* context has ended before its read was disposed of, or it has already decided.
GivingUp ==
  \/ pc \in {"execute.read", "drain.read"} /\ expired
  \/ IsBad(err) /\ (pc = "exec.done" \/ stack = <<"exec.done">>)
  \/ /\ rows.bad /\ rows.chunk = 0 /\ ~rows.more
     /\ stack = <<"freed">> \/ (pc \in {"rows", "free", "free.read", "freed"} /\ stack = <<>>)
  \/ pc \in {"info.read", "fetch.read"} /\ expect = <<>> /\ res # "nil" /\ expired
  \/ pc \in {"execute.read", "fetch.read", "slice.read"} /\ expect = <<>> /\ res = "bad"

\* The connection is closed, or will be before anyone else gets it.
Evict == \/ holder \in {"closing", "gone"}
         \/ pc = "panic"
         \/ holder = "call" /\ GivingUp

\* A connection on which op_cancel was written for an execution is evicted.
CancelOK == cancelled => Evict

\* Where a call may be giving up.
GivingUpPlaces == {"execute.read", "drain.read", "exec.done", "free", "free.read", "commitRetaining",
                   "commitRetaining.read", "rows", "freed", "info.read", "fetch.read", "slice.read", "panic"}

\* The stacks of a call that has decided.
LEMMA StackParts ==
  ASSUME IInv
  PROVE  /\ stack = <<"exec.done">> => pc \in {"free", "free.read", "commitRetaining", "commitRetaining.read", "panic"}
         /\ stack = <<"freed">> => pc \in {"commitRetaining", "commitRetaining.read"}
         /\ <<"exec.done">> # <<"freed">> /\ <<"exec.done">> # <<>> /\ <<"freed">> # <<>>
<1>1. \A a, b : <<a>> = <<b>> => a = b
  OBVIOUS
<1>2. \A a : <<a>> # <<>>
  OBVIOUS
<1>3. <<"exec.done">> # <<"freed">> /\ <<"exec.done">> # <<>> /\ <<"freed">> # <<>>
  BY <1>1, <1>2
<1>4. pc \in Places
  BY Stacks
<1>5. pc \notin {"free", "free.read", "commitRetaining", "commitRetaining.read", "panic"} =>
        stack \notin {<<"exec.done">>, <<"freed">>}
  BY <1>1, <1>2, <1>4, Stacks DEF Plain
<1>6. pc \in {"free", "free.read", "panic"} => stack # <<"freed">>
  BY <1>3, StackAt DEF IInv, ControlOK
<1> QED
  BY <1>3, <1>5, <1>6

\* GivingUp implies one of its places.
LEMMA GivingUpAt ==
  ASSUME IInv, GivingUp
  PROVE  pc \in GivingUpPlaces
  BY StackParts DEF GivingUp, GivingUpPlaces

\* A call that returns ErrBadConn, or is about to.
LEMMA LeavesBad ==
  ASSUME IInv, NEW e, IsBad(e), Leave(e), holder = "call"
  PROVE  Evict' /\ Doomed'
<1>1. e # "nil"
  BY DEF IsBad
<1>2. CASE Finish(e)
  BY <1>2, FinishMoves, EndMoves DEF Evict, Doomed
<1>3. CASE ~Finish(e)
  BY <1>1, <1>3, LeaveMoves DEF Evict, GivingUp, Doomed, IsBad
<1> QED
  BY <1>2, <1>3

\* A call that ends with ErrBadConn closes the connection.
LEMMA FinishesBad ==
  ASSUME NEW e, IsBad(e), Finish(e), holder = "call"
  PROVE  Evict' /\ Doomed'
  BY FinishMoves, EndMoves DEF Evict, Doomed

\* Rows that failed badly report ErrBadConn when they are closed.
LEMMA BadRows ==
  ASSUME IInv, RowsFail(TRUE), stack = <<>>, holder' = "call"
  PROVE  Evict' /\ Doomed'
<1>1. rows' = [rows EXCEPT !.bad = TRUE, !.more = FALSE, !.chunk = 0, !.fetched = FALSE] /\ pc' = "rows" /\ stack' = <<>>
  BY DEF RowsFail, Goto
<1>2. rows \in [drop : BOOLEAN, more : BOOLEAN, chunk : Nat, col : Nat, fetched : BOOLEAN, bad : BOOLEAN]
  BY DEF IInv, CallType, RowsObject
<1>3. rows'.bad = TRUE /\ rows'.more = FALSE /\ rows'.chunk = 0
  BY <1>1, <1>2
<1> QED
  BY <1>1, <1>3 DEF Evict, GivingUp, Doomed

\* The disposition of a failed read ends in ErrBadConn once ctx is done.
LEMMA AbandonsBad ==
  ASSUME IInv, Deadlines, TimedOK, NEW op, Abandon(op), holder = "call",
         expired \/ res = "bad"
  PROVE  Evict' /\ Doomed'
<1>1. expired => job.ctx # "none" /\ job.kind # "scroll"
  BY DEF Deadlines, HolderOK, TimedOK, Timed
<1>2. CASE res = "timeout" /\ expired
  <2>1. Continue("drain.read")
    BY <1>1, <1>2, Abandons
  <2> QED
    BY <1>2, <2>1 DEF Continue, Goto, callVars, Evict, GivingUp, Doomed
<1>3. CASE res # "timeout"
  <2>1. PICK e : e = (IF expired THEN "bad" ELSE res) /\ Leave(e)
    BY <1>3, Abandons
  <2>2. IsBad(e)
    BY <2>1 DEF IsBad
  <2> QED
    BY <2>1, <2>2, LeavesBad
<1> QED
  BY <1>2, <1>3

\* Once a call gives the connection up, every step of its goroutine goes on
\* doing so until the connection is closed.
LEMMA GivesUpFurther ==
  ASSUME IInv, Deadlines, TimedOK, GivingUp, holder = "call", Transaction \/ Statement \/ Cursor \/ Ping \/ PingRead
  PROVE  Evict' /\ Doomed'
<1>1. pc \in GivingUpPlaces
  BY GivingUpAt
<1>2. \/ CommitRetaining \/ CommitRetainingRead \/ ExecuteRead \/ DrainRead \/ InfoRead \/ ExecDone
      \/ Free \/ FreeRead \/ Freed
      \/ RowsClose \/ RowsExpired \/ RowsNext \/ FetchRead \/ ColumnRead \/ ScrollFetch \/ ScrollClose
  <2>1. Transaction => CommitRetaining \/ CommitRetainingRead
    BY <1>1 DEF Transaction, Begin, BeginRead, BeginTx, BeginTxDone, Commit, CommitRead, Rollback, RollbackRead, At,
        GivingUpPlaces
  <2>2. Statement => ExecuteRead \/ DrainRead \/ InfoRead \/ ExecDone \/ Free \/ FreeRead \/ Freed
    BY <1>1 DEF Statement, Prepare, PrepareBegun, Allocate, PrepareStatement, PrepareRead, ScrollRefused, Run, RunBegun,
        Bind, BindRead, Upload, UploadRead, UploadClosed, SliceStored, Execute, ExecCommitted, Immediate,
        ImmediateBegun, ImmediateSend, ImmediateRead, ImmediateDone, At, GivingUpPlaces
  <2>3. Cursor => \/ RowsClose \/ RowsExpired \/ RowsNext \/ FetchRead \/ ColumnRead \/ ScrollFetch \/ ScrollClose
    BY <1>1 DEF Cursor, Fetch, Row, BlobRead, SegmentRead, At, GivingUpPlaces
  <2>4. ~(Ping \/ PingRead)
    BY <1>1 DEF Ping, PingRead, At, GivingUpPlaces
  <2> QED
    BY <2>1, <2>2, <2>3, <2>4
<1>3. CASE CommitRetaining \/ Free
  <2>1. /\ pc \in {"commitRetaining", "free"} /\ pc' \in {"commitRetaining.read", "free.read"}
        /\ pc = "free" => pc' = "free.read"
        /\ stack' = stack /\ UNCHANGED callVars
    BY <1>3 DEF CommitRetaining, Free, Goto, At, dataVars
  <2> QED
    BY <2>1, StackParts DEF callVars, GivingUp, Evict, Doomed
<1>4. CASE CommitRetainingRead
  <2>1. pc = "commitRetaining.read" /\ stack = <<pc'>> /\ stack' = <<>> /\ UNCHANGED callVars
    BY <1>4, RetainedMoves
  <2> QED
    BY <2>1, StackParts DEF callVars, GivingUp, Evict, Doomed
<1>5. CASE ExecuteRead
  <2>1. pc = "execute.read" /\ (expired \/ res = "bad")
    BY <1>5, StackParts DEF ExecuteRead, At, GivingUp
  <2>2. \A e : Leave(e) /\ e \in {"bad", "unsent"} => Evict' /\ Doomed'
    BY LeavesBad DEF IsBad
  <2>3. Abandon("execute") => Evict' /\ Doomed'
    BY <2>1, AbandonsBad
  <2> QED
    BY <1>5, <2>1, <2>2, <2>3 DEF ExecuteRead
<1>6. CASE DrainRead
  <2>1. expired /\ Leave("bad")
    BY <1>6 DEF DrainRead, At, Deadlines, TimeoutOK
  <2> QED
    BY <2>1, LeavesBad DEF IsBad
<1>7. CASE InfoRead
  <2>1. pc = "info.read" /\ expired /\ res # "nil"
    BY <1>7, StackParts DEF InfoRead, At, GivingUp
  <2>2. Leave("unsent") => Evict' /\ Doomed'
    BY LeavesBad DEF IsBad
  <2>3. Abandon("info") => Evict' /\ Doomed'
    BY <2>1, AbandonsBad
  <2> QED
    BY <1>7, <2>1, <2>2, <2>3 DEF InfoRead
<1>8. CASE ExecDone
  <2>1. IsBad(err) /\ Finish(err)
    BY <1>8, StackParts DEF ExecDone, At, GivingUp
  <2> QED
    BY <2>1, FinishesBad
<1>9. CASE FreeRead
  <2>1. /\ pc = "free.read"
        /\ \/ IsBad(err) /\ stack = <<"exec.done">>
           \/ rows.bad /\ rows.chunk = 0 /\ ~rows.more /\ stack = <<>>
    BY <1>9, StackParts, FreedMoves DEF GivingUp
  <2>2. UNCHANGED <<holder, rows>>
    BY <1>9, FreedMoves
  <2> QED
    BY <1>9, <2>1, <2>2, FreedMoves, StackParts DEF Evict, GivingUp, Doomed
<1>10. CASE Freed
  <2>1. pc = "freed" /\ rows.bad
    BY <1>10, StackParts DEF Freed, At, GivingUp
  <2>2. Finish("bad")
    BY <1>10, <2>1 DEF Freed
  <2> QED
    BY <2>2, FinishesBad DEF IsBad
<1>11. CASE RowsClose \/ RowsExpired \/ RowsNext \/ ScrollFetch \/ ScrollClose
  <2>1. pc = "rows" /\ stack = <<>>
    BY <1>11, Stacks DEF RowsClose, RowsExpired, RowsNext, ScrollFetch, ScrollClose, At, Plain, Places
  <2>2. rows.bad /\ rows.chunk = 0 /\ ~rows.more
    BY <2>1, StackParts DEF GivingUp
  <2>3. Finish("bad") \/ Continue("free")
    BY <1>11, <2>2 DEF RowsClose, RowsExpired, RowsNext, ScrollFetch, ScrollClose
  <2>4. Finish("bad") => Evict' /\ Doomed'
    BY FinishesBad DEF IsBad
  <2> QED
    BY <2>1, <2>2, <2>3, <2>4 DEF Continue, Goto, callVars, Evict, GivingUp, Doomed
<1>12. CASE FetchRead
  <2>1. pc = "fetch.read" /\ stack = <<>> /\ res # "nil" /\ (expired \/ res = "bad") /\ holder' = holder
    BY <1>12, StackParts, Stacks DEF FetchRead, At, Plain, Places, GivingUp, rowsElse
  <2>2. RowsFail(expired \/ IsBad(res))
    BY <1>12, <2>1 DEF FetchRead
  <2>3. (expired \/ IsBad(res)) = TRUE
    BY <2>1 DEF IsBad
  <2>4. RowsFail(TRUE)
    BY <2>2, <2>3 DEF RowsFail
  <2> QED
    BY <2>1, <2>4, BadRows
<1>13. CASE ColumnRead
  <2>1. pc = "slice.read" /\ stack = <<>> /\ res = "bad" /\ holder' = holder
    BY <1>13, <1>1, StackParts, Stacks DEF ColumnRead, At, Plain, Places, GivingUp, GivingUpPlaces, rowsElse
  <2>2. RowsFail(IsBad(res))
    BY <1>13, <2>1 DEF ColumnRead, ColumnFails
  <2>3. IsBad(res) = TRUE
    BY <2>1 DEF IsBad
  <2>4. RowsFail(TRUE)
    BY <2>2, <2>3 DEF RowsFail
  <2> QED
    BY <2>1, <2>4, BadRows
<1> QED
  BY <1>2, <1>3, <1>4, <1>5, <1>6, <1>7, <1>8, <1>9, <1>10, <1>11, <1>12, <1>13

\* A step of a call is not at a place of rest.
LEMMA Occupied ==
  ASSUME Transaction \/ Statement \/ Cursor \/ Ping \/ PingRead
  PROVE  pc \notin {"idle", "panic", "close", "close.read", "detach.read"}
<1>1. Transaction => pc \notin {"idle", "panic", "close", "close.read", "detach.read"}
  BY DEF Transaction, Begin, BeginRead, CommitRetaining, CommitRetainingRead, BeginTx, BeginTxDone, Commit, CommitRead,
     Rollback, RollbackRead, At
<1>2. Statement => pc \notin {"idle", "panic", "close", "close.read", "detach.read"}
  BY DEF Statement, Prepare, PrepareBegun, Allocate, PrepareStatement, PrepareRead, ScrollRefused, Run, RunBegun,
        Bind, BindRead, Upload, UploadRead, UploadClosed, SliceStored, Execute, ExecuteRead, DrainRead, InfoRead,
        ExecCommitted, ExecDone, Immediate, ImmediateBegun, ImmediateSend, ImmediateRead, ImmediateDone,
        Free, FreeRead, Freed, At
<1>3. Cursor => pc \notin {"idle", "panic", "close", "close.read", "detach.read"}
  BY DEF Cursor, RowsClose, RowsExpired, RowsNext, Fetch, FetchRead, Row, BlobRead, SegmentRead, ColumnRead, ColumnFails,
         ScrollFetch, ScrollClose, At
<1>4. Ping \/ PingRead => pc \notin {"idle", "panic", "close", "close.read", "detach.read"}
  BY DEF Ping, PingRead, At
<1> QED
  BY <1>1, <1>2, <1>3, <1>4

\* The call that gives the connection up goes on doing so at each of its own
\* steps ...
LEMMA EvictMoves ==
  ASSUME IInv, Deadlines, TimedOK, Evict, Transaction \/ Statement \/ Cursor \/ Ping \/ PingRead \/ Teardown
  PROVE  Evict' /\ Doomed'
<1>1. CASE Teardown
  <2>1. pc \in Closing /\ (holder' = holder \/ holder' = "gone")
    BY <1>1 DEF Teardown, Close, CloseRead, DetachRead, At, Closing, dataVars, callVars
  <2>2. holder = "closing"
    BY <2>1 DEF Deadlines, HolderOK
  <2> QED
    BY <2>1, <2>2 DEF Evict, Doomed
<1>2. CASE Transaction \/ Statement \/ Cursor \/ Ping \/ PingRead
  <2>1. holder = "call" /\ GivingUp
    BY <1>2, Occupied DEF Evict, Deadlines, HolderOK, Closing
  <2> QED
    BY <1>2, <2>1, GivesUpFurther
<1> QED
  BY <1>1, <1>2

\* ... and so does every step around it.
LEMMA EvictAround ==
  ASSUME IInv, Evict, Receive \/ Server \/ CtxDone \/ Watcher \/ SocketDeath
  PROVE  Evict'
<1>1. UNCHANGED <<pc, stack, err, rows, holder>> /\ (expired => expired')
  BY Receives DEF Server, CtxDone, Watcher, SocketDeath, ctlVars, dataVars, callVars
<1>2. CASE Receive
  <2>1. expect # <<>>
    BY <1>2, Receives
  <2> QED
    BY <1>1, <2>1 DEF Evict, GivingUp
<1>3. CASE Server \/ CtxDone \/ Watcher \/ SocketDeath
  <2>1. expect' = expect /\ res' = res
    BY <1>3 DEF Server, Answer, CtxDone, Watcher, WatcherCancel, SocketDeath, SocketDies, wireVars
  <2> QED
    BY <1>1, <2>1 DEF Evict, GivingUp
<1> QED
  BY <1>2, <1>3

\* What writes op_cancel.
LEMMA Cancels ==
  ASSUME Transaction \/ Statement \/ Cursor \/ Ping \/ PingRead \/ Teardown
  PROVE  \/ cancelled' = cancelled
         \/ RowsExpired
         \/ res = "timeout" /\ pc \in {"execute.read", "info.read"} /\ Continue("drain.read")
<1>1. Transaction => cancelled' = cancelled
  BY DEF Transaction, Begin, BeginRead, CommitRetaining, CommitRetainingRead, BeginTx, BeginTxDone, Commit, CommitRead,
     Rollback, RollbackRead, dataVars, sideVars
<1>2. ASSUME Statement, ~ExecuteRead, ~InfoRead PROVE cancelled' = cancelled
  BY <1>2 DEF Statement, Prepare, PrepareBegun, Allocate, PrepareStatement, PrepareRead, ScrollRefused, Run, RunBegun,
        Bind, BindRead, Upload, UploadRead, UploadClosed, SliceStored, Execute, DrainRead,
        ExecCommitted, ExecDone, Immediate, ImmediateBegun, ImmediateSend, ImmediateRead, ImmediateDone,
        Free, FreeRead, Freed, dataVars, sideVars
<1>3. ASSUME ExecuteRead \/ InfoRead
      PROVE  cancelled' = cancelled \/ (res = "timeout" /\ pc \in {"execute.read", "info.read"} /\ Continue("drain.read"))
  BY <1>3, Abandons DEF ExecuteRead, InfoRead, At
<1>4. Cursor => RowsExpired \/ cancelled' = cancelled
  BY DEF Cursor, RowsClose, RowsNext, Fetch, FetchRead, Row, BlobRead, SegmentRead, ColumnRead, ColumnFails,
         ScrollFetch, ScrollClose, dataVars, sideVars
<1>5. Ping \/ PingRead \/ Teardown => cancelled' = cancelled
  BY DEF Ping, PingRead, Teardown, Close, CloseRead, DetachRead, dataVars, sideVars
<1> QED
  BY <1>1, <1>2, <1>3, <1>4, <1>5

LEMMA StepCancel ==
  ASSUME IInv, Deadlines, TimedOK, CancelOK, [Next]_vars
  PROVE  CancelOK'
<1>1. CASE Transaction \/ Statement \/ Cursor \/ Ping \/ PingRead \/ Teardown
  <2>1. CASE cancelled' = cancelled
    BY <1>1, <2>1, EvictMoves DEF CancelOK
  <2>2. CASE RowsExpired
    <3>1. expired /\ RowsFail(TRUE) /\ holder' = holder /\ pc = "rows"
      BY <2>2 DEF RowsExpired, At, rowsElse
    <3>2. holder = "call" /\ stack = <<>>
      BY <3>1, Stacks DEF Plain, Places, Deadlines, HolderOK, TimedOK
    <3> QED
      BY <3>1, <3>2, BadRows DEF CancelOK
  <2>3. CASE res = "timeout" /\ pc \in {"execute.read", "info.read"} /\ Continue("drain.read")
    <3>1. expired /\ expired' = expired /\ holder' = holder /\ pc' = "drain.read"
      BY <2>3 DEF Deadlines, TimeoutOK, Continue, Goto, callVars
    <3>2. holder = "call"
      BY <3>1 DEF Deadlines, HolderOK, TimedOK
    <3> QED
      BY <3>1, <3>2 DEF CancelOK, Evict, GivingUp
  <2> QED
    BY <1>1, <2>1, <2>2, <2>3, Cancels
<1>2. CASE Receive \/ Server \/ CtxDone \/ SocketDeath
  <2>1. cancelled' = cancelled
    BY <1>2, Receives DEF Server, CtxDone, SocketDeath, dataVars, sideVars
  <2> QED
    BY <1>2, <2>1, EvictAround DEF CancelOK
<1>3. CASE Watcher
  <2>1. /\ cancelled' = (cancelled \/ pc # "fetch.read") /\ expired
        /\ pc \in {"execute.read", "immediate.read", "fetch.read"}
        /\ UNCHANGED <<pc, holder, expired>>
    BY <1>3 DEF Watcher, ctlVars, callVars
  <2>2. holder = "call" /\ pc # "immediate.read"
    BY <2>1 DEF Deadlines, HolderOK, TimedOK, UntimedPlaces
  <2>3. CASE cancelled
    BY <1>3, <2>3, EvictAround DEF CancelOK
  <2>4. CASE ~cancelled
    BY <2>1, <2>2, <2>4 DEF CancelOK, Evict, GivingUp
  <2> QED
    BY <2>3, <2>4
<1>4. CASE PingWatcher
  BY <1>4 DEF PingWatcher, Deadlines, PingOK
<1>5. CASE CallStart \/ Retry \/ TxEnd
  <2>1. pc = "idle" /\ holder \in {"pool", "tx"} /\ cancelled' = cancelled
    BY <1>5 DEF CallStart, Retry, TxEnd, sideVars
  <2> QED
    BY <2>1 DEF CancelOK, Evict
<1>6. CASE Reconnect
  BY <1>6 DEF Reconnect, CancelOK
<1>7. CASE Stopped \/ UNCHANGED vars
  BY <1>7 DEF Stopped, vars, ctlVars, dataVars, callVars, sideVars, wireVars, CancelOK, Evict, GivingUp
<1> QED
  BY <1>1, <1>2, <1>3, <1>4, <1>5, <1>6, <1>7 DEF Next, Driver, Application, Environment

LEMMA InitCancel == Init => CancelOK
  BY DEF Init, CancelOK

\* op_cancel is fired by withCancelWatcher while a statement is being executed, by
\* cancelAndDrain, and by rows.Next when ctx is done (statement.go, rows.go).  It may
\* reach the server late, so the connection it was written to must not serve another
\* call: stmt.exec and stmt.query return driver.ErrBadConn once ctx is done, whatever
\* the read returned, and rows.Close does so after a badConn.
THEOREM CancelledEvictedAlways ==
  ASSUME PoolTimed
  PROVE  Spec => []CancelledEvicted
<1> DEFINE I == IInv /\ Deadlines /\ TimedOK /\ CancelOK
<1>1. Init => I
  BY InitInv, InitDeadlines, InitTimed, InitCancel
<1>2. I /\ [Next]_vars => I'
  BY NextInv, StepDeadlines, StepTimed, StepCancel DEF PoolTimed
<1>3. I => CancelledEvicted
  BY DEF CancelledEvicted, CancelOK, Evict, Pooled
<1> QED
  BY <1>1, <1>2, <1>3, PTL DEF Spec

-----------------------------------------------------------------------------
(***************************************************************************)
(* What a step of the call's goroutine does to the wire.                   *)
(***************************************************************************)

\* Where a response is awaited.
ReadPlaces == {"allocate.read", "prepare.read", "bind.read", "upload.blob", "upload.segment", "upload.closed",
  "upload.slice", "immediate.read", "execute.read", "drain.read", "info.read", "free.read", "fetch.read",
  "blob.read", "segment.read", "blob.closed", "slice.read", "ping.read", "tx.begun", "commitRetaining.read",
  "commit.read", "rollback.read", "close.read", "detach.read"}

\* Requests whose response is an op_response, or nothing more than one.
Untyped == Ops \ (Typed \cup StopsAtError)

\* The request awaited at a place.
AskedAt(l, op) ==
  /\ l \in ReadPlaces \ {"execute.read"}
  /\ CASE l = "fetch.read" -> op = "fetch"
       [] l = "slice.read" -> op = "slice"
       [] OTHER            -> op \in Untyped

\* What a step of the call's goroutine may do to the wire.
Silent == /\ UNCHANGED <<pend, lazy, expect, sock, torn, res, misread>>
          /\ writer' = writer \/ RowsExpired

\* One request with its response, ...
Asking == \E op \in Ops : \E h, w, d : Ask(op, h, w, d) /\ AskedAt(pc', op)

\* ... or whose write error is dropped, ...
AskingBlindly == /\ pc \in {"execute", "upload.blob", "row", "blob.read", "segment.read"}
                 /\ \E op \in Ops : \E h : AskBlindly(op, h) /\ AskedAt(pc', op)

\* ... or whose response is left to a later reader, ...
AskingLazily == /\ LazySend
                /\ \/ AskLazily("allocate", TRUE) /\ pc' = "allocate.read"
                   \/ AskLazily("free", TRUE) /\ pc' = "free.read"
                   \/ AskLazily("close_blob", FALSE) /\ pc = "segment.read" /\ pc' = "blob.closed"

\* ... or with a response left behind before it (opPrepareStatement), ...
Reclaiming == /\ LazySend /\ pc = "allocate.read" /\ res = "nil" /\ pc' = "prepare.read"
              /\ \E h : AskReclaiming("allocate", "prepare", h)

\* ... or the execution of a statement, ...
Executing == /\ pc' = "execute.read"
             /\ \E h, w, d : \/ Write(<<Asked("execute", h, w)>>, <<"execute">>, 0, d, TRUE)
                             \/ Write(<<Asked("sql", 0, 0), Asked("execute", h, w)>>, <<"sql", "execute">>, 0, d, TRUE)

\* ... or one more read of what timed out (cancelAndDrain).
Draining == /\ pc \in {"execute.read", "info.read"} /\ pc' = "drain.read" /\ res = "timeout"
            /\ UNCHANGED callVars
            /\ \E op \in {"execute", "info"} : CancelAndDrain(op)

\* What a step of the call's goroutine does to the wire, in one of these ways.
WireStep == Silent \/ Asking \/ AskingBlindly \/ AskingLazily \/ Reclaiming \/ Executing \/ Draining

\* Deadlines and the context leave the stream alone.
LEMMA SilentWires ==
  /\ UNCHANGED wireVars => Silent
  /\ \A d : SetDeadline(d) => Silent
  /\ Disarm => Silent
  /\ ReadTimeoutCleared => Silent
<1>1. UNCHANGED wireVars => Silent
  BY DEF wireVars, Silent
<1>2. \A d : SetDeadline(d) => Silent
  BY DEF SetDeadline, Silent
<1> QED
  BY <1>1, <1>2 DEF Disarm, ReadTimeoutCleared

\* The requests answered by an op_response.
LEMMA UntypedOps ==
  {"transaction", "allocate", "prepare", "bindinfo", "execute", "execute_immediate", "info", "open_blob", "get_segment",
   "close_blob", "create_blob", "put_segment", "put_slice", "free", "commit", "commit_retaining", "rollback", "ping",
   "detach"} \subseteq Untyped
  BY DEF Untyped, Ops, Typed, StopsAtError

\* The places where such a response is awaited.
LEMMA AsksUntyped ==
  ASSUME NEW op \in Untyped, NEW h, NEW w, NEW d,
         pc' \in ReadPlaces \ {"execute.read", "fetch.read", "slice.read"}
  PROVE  /\ Ask(op, h, w, d) => Asking
         /\ pc \in {"execute", "upload.blob", "row", "blob.read", "segment.read"} /\ AskBlindly(op, h) => AskingBlindly
<1>1. op \in Ops /\ AskedAt(pc', op)
  BY DEF Untyped, AskedAt
<1> QED
  BY <1>1 DEF Asking, AskingBlindly

LEMMA TransactionWire ==
  ASSUME Transaction
  PROVE  expect = <<>> /\ WireStep
<1>1. expect = <<>>
  BY DEF Transaction, Begin, BeginRead, CommitRetaining, CommitRetainingRead, BeginTx, BeginTxDone, Commit, CommitRead,
     Rollback, RollbackRead, At
<1>2. CASE Begin
  BY <1>1, <1>2, AsksUntyped, UntypedOps DEF Begin, Goto, ReadPlaces, WireStep
<1>3. CASE CommitRetaining
  BY <1>1, <1>3, AsksUntyped, UntypedOps DEF CommitRetaining, Goto, ReadPlaces, WireStep
<1>4. CASE Commit
  BY <1>1, <1>4, AsksUntyped, UntypedOps DEF Commit, Goto, ReadPlaces, WireStep
<1>5. CASE Rollback
  BY <1>1, <1>5, AsksUntyped, UntypedOps DEF Rollback, Goto, ReadPlaces, WireStep
<1>6. CASE BeginRead \/ CommitRetainingRead \/ BeginTx \/ BeginTxDone \/ CommitRead \/ RollbackRead
  BY <1>1, <1>6, SilentWires DEF BeginRead, CommitRetainingRead, BeginTx, BeginTxDone, CommitRead, RollbackRead, WireStep
<1> QED
  BY <1>1, <1>2, <1>3, <1>4, <1>5, <1>6 DEF Transaction

LEMMA StatementWire ==
  ASSUME IInv, Statement
  PROVE  expect = <<>> /\ WireStep
<1>1. expect = <<>>
  BY DEF Statement, Prepare, PrepareBegun, Allocate, PrepareStatement, PrepareRead, ScrollRefused, Run, RunBegun,
        Bind, BindRead, Upload, UploadRead, UploadClosed, SliceStored, Execute, ExecuteRead, DrainRead, InfoRead,
        ExecCommitted, ExecDone, Immediate, ImmediateBegun, ImmediateSend, ImmediateRead, ImmediateDone,
        Free, FreeRead, Freed, At
<1>2. CASE Prepare \/ PrepareBegun \/ PrepareRead \/ ScrollRefused \/ Run \/ RunBegun \/ BindRead \/ UploadClosed
           \/ SliceStored \/ ExecDone \/ Immediate \/ ImmediateBegun \/ Freed
  <2>1. UNCHANGED wireVars
    BY <1>2 DEF Prepare, PrepareBegun, PrepareRead, ScrollRefused, Run, RunBegun, BindRead, UploadClosed, SliceStored,
                ExecDone, Immediate, ImmediateBegun, Freed
  <2> QED
    BY <1>1, <2>1, SilentWires DEF WireStep, Silent
<1>3. CASE DrainRead \/ ExecCommitted \/ ImmediateRead \/ ImmediateDone \/ FreeRead
  <2>1. UNCHANGED wireVars \/ SetDeadline("none") \/ Disarm \/ ReadTimeoutCleared
    BY <1>3 DEF DrainRead, ExecCommitted, ImmediateRead, ImmediateDone, FreeRead
  <2> QED
    BY <1>1, <2>1, SilentWires DEF WireStep
<1>4. CASE Allocate
  <2>1. CASE LazySend
    BY <1>1, <1>4, <2>1 DEF Allocate, Goto, WireStep, AskingLazily
  <2>2. CASE ~LazySend
    BY <1>1, <1>4, <2>2, AsksUntyped, UntypedOps DEF Allocate, Goto, ReadPlaces, WireStep
  <2> QED
    BY <2>1, <2>2
<1>5. CASE PrepareStatement
  <2>1. CASE res # "nil"
    BY <1>1, <1>5, <2>1, SilentWires DEF PrepareStatement, WireStep
  <2>2. CASE res = "nil"
    <3>1. pc = "allocate.read" /\ pc' = "prepare.read"
      BY <1>5, <2>2 DEF PrepareStatement, Continue, Goto, At
    <3>2. CASE LazySend
      BY <1>1, <1>5, <2>2, <3>1, <3>2 DEF PrepareStatement, WireStep, Reclaiming
    <3>3. CASE ~LazySend
      BY <1>1, <1>5, <2>2, <3>1, <3>3, AsksUntyped, UntypedOps DEF PrepareStatement, ReadPlaces, WireStep
    <3> QED
      BY <3>2, <3>3
  <2> QED
    BY <2>1, <2>2
<1>6. CASE Bind
  BY <1>1, <1>6, SilentWires, AsksUntyped, UntypedOps DEF Bind, Goto, ReadPlaces, WireStep
<1>7. CASE Upload
  BY <1>1, <1>7, AsksUntyped, UntypedOps DEF Upload, At, Goto, ReadPlaces, WireStep
<1>8. CASE UploadRead
  BY <1>1, <1>8, SilentWires, AsksUntyped, UntypedOps DEF UploadRead, Goto, ReadPlaces, WireStep
<1>9. CASE Execute
  <2>1. pc' = "execute.read"
    BY <1>9 DEF Execute, Goto
  <2>2. \E h, w, d : \/ Write(<<Asked("execute", h, w)>>, <<"execute">>, 0, d, TRUE)
                     \/ Write(<<Asked("sql", 0, 0), Asked("execute", h, w)>>, <<"sql", "execute">>, 0, d, TRUE)
    BY <1>9 DEF Execute
  <2> QED
    BY <1>1, <2>1, <2>2 DEF WireStep, Executing
<1>10. ASSUME NEW op \in {"execute", "info"}, Abandon(op), pc \in {"execute.read", "info.read"}
       PROVE  WireStep
  <2>1. CASE Disarm
    BY <1>1, <2>1, SilentWires DEF WireStep
  <2>2. CASE res = "timeout" /\ CancelAndDrain(op) /\ Continue("drain.read")
    BY <1>1, <1>10, <2>2 DEF WireStep, Draining, Continue, Goto
  <2> QED
    BY <1>10, <2>1, <2>2, Abandons
<1>11. CASE ExecuteRead \/ InfoRead
  <2>1. pc \in {"execute.read", "info.read"}
    BY <1>11 DEF ExecuteRead, InfoRead, At
  <2>2. \/ UNCHANGED wireVars \/ Disarm
        \/ \E op \in {"execute", "info"} : Abandon(op)
        \/ Ask("info", 0, 0, armed) /\ pc' = "info.read"
    BY <1>11 DEF ExecuteRead, InfoRead, Continue, Goto
  <2> QED
    BY <2>1, <2>2, <1>1, <1>10, SilentWires, AsksUntyped, UntypedOps DEF ReadPlaces, WireStep
<1>12. CASE ImmediateSend
  BY <1>1, <1>12, AsksUntyped, UntypedOps DEF ImmediateSend, Goto, ReadPlaces, WireStep
<1>13. CASE Free
  <2>1. CASE LazySend
    BY <1>1, <1>13, <2>1 DEF Free, Goto, WireStep, AskingLazily
  <2>2. CASE ~LazySend
    BY <1>1, <1>13, <2>2, AsksUntyped, UntypedOps DEF Free, Goto, ReadPlaces, WireStep
  <2> QED
    BY <2>1, <2>2
<1> QED
  BY <1>1, <1>2, <1>3, <1>4, <1>5, <1>6, <1>7, <1>8, <1>9, <1>11, <1>12, <1>13 DEF Statement

LEMMA CursorWire ==
  ASSUME Cursor
  PROVE  expect = <<>> /\ WireStep
<1>1. expect = <<>>
  BY DEF Cursor, RowsClose, RowsExpired, RowsNext, Fetch, FetchRead, Row, BlobRead, SegmentRead, ColumnRead, ColumnFails,
         ScrollFetch, ScrollClose, At
<1>0. NextReturns => WireStep
  BY SilentWires DEF NextReturns, WireStep
<1>2. CASE RowsClose \/ RowsNext \/ FetchRead \/ ColumnRead \/ ScrollFetch \/ ScrollClose
  <2>1. UNCHANGED wireVars \/ SetDeadline(CtxDeadline) \/ Disarm
    BY <1>2 DEF RowsClose, RowsNext, FetchRead, ColumnRead, ColumnFails, NextReturns, ScrollFetch, ScrollClose
  <2> QED
    BY <1>1, <2>1, SilentWires DEF WireStep
<1>3. CASE RowsExpired
  BY <1>1, <1>3 DEF RowsExpired, WatcherCancel, WireStep, Silent
<1>4. CASE Fetch
  <2>1. Ask("fetch", 0, 0, armed) /\ pc' = "fetch.read"
    BY <1>4 DEF Fetch, Goto
  <2>2. "fetch" \in Ops /\ AskedAt(pc', "fetch")
    BY <2>1 DEF Ops, AskedAt, ReadPlaces
  <2> QED
    BY <1>1, <2>1, <2>2 DEF WireStep, Asking
<1>5. CASE Row
  <2>1. CASE UNCHANGED wireVars \/ NextReturns
    BY <1>0, <1>1, <2>1, SilentWires DEF WireStep
  <2>2. CASE pc = "row" /\ AskBlindly("open_blob", txs[cur].h) /\ Goto("blob.read")
    BY <1>1, <2>2, AsksUntyped, UntypedOps DEF Goto, ReadPlaces, WireStep
  <2>3. CASE Ask("slice", txs[cur].h, 0, armed) /\ Goto("slice.read")
    <3>1. "slice" \in Ops /\ AskedAt(pc', "slice")
      BY <2>3 DEF Ops, AskedAt, ReadPlaces, Goto
    <3> QED
      BY <1>1, <2>3, <3>1 DEF WireStep, Asking
  <2> QED
    BY <1>5, <2>1, <2>2, <2>3 DEF Row, At
<1>6. CASE BlobRead
  <2>1. CASE ColumnFails
    BY <1>0, <1>1, <2>1 DEF ColumnFails
  <2>2. CASE pc = "blob.read" /\ AskBlindly("get_segment", 0) /\ Goto("segment.read")
    BY <1>1, <2>2, AsksUntyped, UntypedOps DEF Goto, ReadPlaces, WireStep
  <2> QED
    BY <1>6, <2>1, <2>2 DEF BlobRead, At
<1>7. CASE SegmentRead
  <2>1. CASE ColumnFails
    BY <1>0, <1>1, <2>1 DEF ColumnFails
  <2>2. CASE pc = "segment.read" /\ AskBlindly("get_segment", 0) /\ Goto("segment.read")
    BY <1>1, <2>2, AsksUntyped, UntypedOps DEF Goto, ReadPlaces, WireStep
  <2>3. CASE pc = "segment.read" /\ LazySend /\ AskLazily("close_blob", FALSE) /\ Goto("blob.closed")
    BY <1>1, <2>3 DEF Goto, WireStep, AskingLazily
  <2>4. CASE pc = "segment.read" /\ AskBlindly("close_blob", 0) /\ Goto("blob.closed")
    BY <1>1, <2>4, AsksUntyped, UntypedOps DEF Goto, ReadPlaces, WireStep
  <2> QED
    BY <1>7, <2>1, <2>2, <2>3, <2>4 DEF SegmentRead, At
<1> QED
  BY <1>1, <1>2, <1>3, <1>4, <1>5, <1>6, <1>7 DEF Cursor

LEMMA OthersWire ==
  ASSUME Ping \/ PingRead \/ Teardown
  PROVE  expect = <<>> /\ WireStep
<1>1. expect = <<>>
  BY DEF Ping, PingRead, Teardown, Close, CloseRead, DetachRead, At
<1>2. CASE PingRead \/ CloseRead \/ DetachRead
  BY <1>1, <1>2, SilentWires DEF PingRead, CloseRead, DetachRead, WireStep
<1>3. CASE Ping
  <2>1. UNCHANGED wireVars \/ (Ask("ping", 0, 0, CtxDeadline) /\ pc' = "ping.read")
    BY <1>3 DEF Ping, Continue, Goto
  <2> QED
    BY <1>1, <2>1, SilentWires, AsksUntyped, UntypedOps DEF ReadPlaces, WireStep
<1>4. CASE Close
  <2>1. \E op \in {"rollback", "detach"} : \E h : Ask(op, h, 0, "fixed") /\ pc' \in {"close.read", "detach.read"}
    BY <1>4 DEF Close, Goto
  <2> QED
    BY <1>1, <2>1, AsksUntyped, UntypedOps DEF ReadPlaces, WireStep
<1> QED
  BY <1>1, <1>2, <1>3, <1>4 DEF Teardown

\* Every step of the call's goroutine finds nothing owed to it and does one
\* of seven things to the wire.
LEMMA WireSteps ==
  ASSUME IInv, Transaction \/ Statement \/ Cursor \/ Ping \/ PingRead \/ Teardown
  PROVE  expect = <<>> /\ WireStep
  BY TransactionWire, StatementWire, CursorWire, OthersWire

-----------------------------------------------------------------------------
(***************************************************************************)
(* The requests whose response each place waits for.                       *)
(***************************************************************************)

\* The requests a place may await.
ExpectOK ==
  /\ pc \notin ReadPlaces => expect = <<>>
  /\ pc = "fetch.read" => expect \in {<<>>, <<"fetch">>}
  /\ pc = "slice.read" => expect \in {<<>>, <<"slice">>}
  /\ pc = "execute.read" => expect \in {<<>>, <<"execute">>, <<"sql", "execute">>}
  /\ pc \in ReadPlaces \ {"fetch.read", "slice.read", "execute.read"} =>
        \/ expect = <<>>
        \/ expect = <<"allocate", "prepare">> /\ pc = "prepare.read"
        \/ \E op \in Untyped : expect = <<op>>

\* A failed write is remembered by the writer, and nothing is awaited after it.
Owed == ExpectOK /\ (res = "unsent" => writer = "sticky")

\* The outcomes of a write.
LEMMA WriteMoves ==
  ASSUME NEW rs, NEW awaited, NEW counted, NEW d, NEW checked, Write(rs, awaited, counted, d, checked)
  PROVE  /\ expect = <<>> /\ UNCHANGED <<sock, torn, reply, misread>>
         /\ \/ /\ writer = "sticky" /\ checked /\ res' = "unsent"
               /\ UNCHANGED <<pend, lazy, expect, armed, writer>>
            \/ /\ res' = "nil" /\ expect' = awaited /\ lazy' = lazy + counted /\ armed' = d
               /\ ~(writer = "sticky" /\ checked)
               /\ \/ writer = "ok" /\ CanWrite /\ pend' = pend \o rs /\ writer' = writer
                  \/ ~(writer = "ok" /\ CanWrite) /\ pend' = pend /\ writer' = "sticky"
  BY DEF Write

\* Sequences of one and two elements.
LEMMA Tails ==
  /\ \A a : Tail(<<a>>) = <<>>
  /\ \A a, b : Tail(<<a, b>>) = <<b>>
  /\ \A a : Head(<<a>>) = a
  /\ \A a, b : Head(<<a, b>>) = a
  /\ \A a : <<a>> # <<>>
  /\ \A a, b : <<a, b>> # <<>>
  /\ \A a : Len(<<a>>) = 1 /\ <<a>>[1] = a
  /\ \A a, b : Len(<<a, b>>) = 2 /\ <<a, b>>[1] = a /\ <<a, b>>[2] = b
<1>1. \A a : Tail(<<a>>) = <<>>
  OBVIOUS
<1>2. \A a, b : Tail(<<a, b>>) = <<b>>
  OBVIOUS
<1>3. \A a : Head(<<a>>) = a
  OBVIOUS
<1>4. \A a, b : Head(<<a, b>>) = a
  OBVIOUS
<1>5. (\A a : <<a>> # <<>>) /\ \A a, b : <<a, b>> # <<>>
  OBVIOUS
<1>6. \A a : Len(<<a>>) = 1 /\ <<a>>[1] = a
  OBVIOUS
<1>7. \A a, b : Len(<<a, b>>) = 2 /\ <<a, b>>[1] = a /\ <<a, b>>[2] = b
  OBVIOUS
<1> QED
  BY <1>1, <1>2, <1>3, <1>4, <1>5, <1>6, <1>7

\* The call's own steps keep it, ...
LEMMA DriverOwed ==
  ASSUME IInv, Owed, Transaction \/ Statement \/ Cursor \/ Ping \/ PingRead \/ Teardown
  PROVE  Owed'
<1>0. expect = <<>> /\ WireStep
  BY WireSteps
<1>1. CASE Silent
  BY <1>0, <1>1 DEF Silent, RowsExpired, WatcherCancel, CancelWritten, Owed, ExpectOK
<1>2. ASSUME NEW op \in Ops, NEW rs, NEW c, NEW d, NEW k, Write(rs, <<op>>, c, d, k), AskedAt(pc', op)
      PROVE  Owed'
  <2>1. (expect' = <<>> \/ expect' = <<op>>) /\ (res' = "unsent" => writer' = "sticky")
    BY <1>2, WriteMoves
  <2> QED
    BY <1>2, <2>1 DEF Owed, ExpectOK, AskedAt
<1>3. CASE Asking \/ AskingBlindly
  BY <1>2, <1>3 DEF Asking, AskingBlindly, Ask, AskBlindly
<1>4. CASE AskingLazily
  <2>1. \E rs, c, d, k : Write(rs, <<>>, c, d, k)
    BY <1>4 DEF AskingLazily, AskLazily
  <2>2. expect' = <<>> /\ (res' = "unsent" => writer' = "sticky")
    BY <2>1, WriteMoves
  <2> QED
    BY <2>2 DEF Owed, ExpectOK
<1>5. CASE Reclaiming
  <2>1. pc' = "prepare.read" /\ \E rs, c, d, k : Write(rs, <<"allocate", "prepare">>, c, d, k)
    BY <1>5 DEF Reclaiming, AskReclaiming
  <2>2. (expect' = <<>> \/ expect' = <<"allocate", "prepare">>) /\ (res' = "unsent" => writer' = "sticky")
    BY <2>1, WriteMoves
  <2> QED
    BY <2>1, <2>2 DEF Owed, ExpectOK, ReadPlaces
<1>6. CASE Executing
  <2>1. pc' = "execute.read" /\ \E rs, c, d, k : \/ Write(rs, <<"execute">>, c, d, k)
                                                 \/ Write(rs, <<"sql", "execute">>, c, d, k)
    BY <1>6 DEF Executing
  <2>2. expect' \in {<<>>, <<"execute">>, <<"sql", "execute">>} /\ (res' = "unsent" => writer' = "sticky")
    BY <2>1, WriteMoves
  <2> QED
    BY <2>1, <2>2 DEF Owed, ExpectOK, ReadPlaces
<1>7. CASE Draining
  <2>1. PICK op \in {"execute", "info"} : expect' = <<op>>
    BY <1>7 DEF Draining, CancelAndDrain
  <2>2. pc' = "drain.read" /\ res' = "timeout"
    BY <1>7 DEF Draining, CancelAndDrain
  <2> QED
    BY <2>1, <2>2, UntypedOps DEF Owed, ExpectOK, ReadPlaces
<1> QED
  BY <1>0, <1>1, <1>3, <1>4, <1>5, <1>6, <1>7 DEF WireStep

\* A read takes nothing but what is awaited, and moves nothing but the wire.
LEMMA ReceivesMore ==
  ASSUME Receive
  PROVE  /\ expect # <<>> /\ expect' \in {expect, Tail(expect), <<>>}
         /\ writer' = writer /\ sock' = sock /\ UNCHANGED <<ctlVars, dataVars>>
<1>1. UNCHANGED <<ctlVars, dataVars>>
  BY DEF Receive
<1>2. CASE RecvSkip
  BY <1>1, <1>2 DEF RecvSkip
<1>3. CASE RecvOwn
  BY <1>1, <1>3 DEF RecvOwn, ReadEnds, OutcomeOf
<1>4. CASE RecvGarbage
  BY <1>1, <1>4 DEF RecvGarbage, GiveUp, ReadEnds
<1>5. CASE RecvMalformed
  BY <1>1, <1>5 DEF RecvMalformed, ReadEnds
<1>6. CASE DeadlineFires
  BY <1>1, <1>6 DEF DeadlineFires, RecvTimeout, GiveUp, ReadEnds
<1> QED
  BY <1>2, <1>3, <1>4, <1>5, <1>6 DEF Receive

\* ... the reads, ...
LEMMA ReceiveOwed ==
  ASSUME IInv, Owed, Receive
  PROVE  Owed'
<1>1. pc' = pc /\ pc \in ReadPlaces /\ (res' = "unsent" => res = "unsent")
  BY ReceivesMore, Receives DEF ctlVars, Owed, ExpectOK
<1>2. Tail(<<"fetch">>) = <<>> /\ Tail(<<"slice">>) = <<>> /\ Tail(<<"execute">>) = <<>>
      /\ Tail(<<"sql", "execute">>) = <<"execute">> /\ Tail(<<"allocate", "prepare">>) = <<"prepare">>
      /\ \A op : Tail(<<op>>) = <<>>
  BY Tails
<1>3. "prepare" \in Untyped
  BY UntypedOps
<1> QED
  BY <1>1, <1>2, <1>3, ReceivesMore DEF Owed, ExpectOK

\* ... the application and the environment, ...
LEMMA OthersOwed ==
  ASSUME IInv, Owed, Application \/ Environment
  PROVE  Owed'
<1>1. CASE Environment
  BY <1>1 DEF Environment, Server, Answer, CtxDone, Watcher, WatcherCancel, CancelWritten, PingWatcher, SetDeadline,
     SocketDeath, SocketDies, ctlVars, dataVars, wireVars, Owed, ExpectOK
<1>2. CASE CallStart \/ Retry \/ TxEnd
  <2>1. pc = "idle" /\ UNCHANGED wireVars
    BY <1>2 DEF CallStart, Retry, TxEnd
  <2> QED
    BY <2>1 DEF Owed, ExpectOK, ReadPlaces, wireVars
<1>3. CASE Reconnect
  BY <1>3 DEF Reconnect, WireReset, Owed, ExpectOK
<1>4. CASE Stopped
  BY <1>4 DEF Stopped, vars, wireVars, ctlVars, Owed, ExpectOK
<1> QED
  BY <1>1, <1>2, <1>3, <1>4 DEF Application

\* ... so every step does.
LEMMA StepOwed ==
  ASSUME IInv, Owed, [Next]_vars
  PROVE  Owed'
<1>1. CASE UNCHANGED vars
  BY <1>1 DEF vars, wireVars, ctlVars, Owed, ExpectOK
<1> QED
  BY <1>1, DriverOwed, ReceiveOwed, OthersOwed DEF Next, Driver

LEMMA InitOwed == Init => Owed
  BY DEF Init, WireInit, Owed, ExpectOK

-----------------------------------------------------------------------------
(***************************************************************************)
(* What has been decided while a call runs, and the row that is read.      *)
(***************************************************************************)

\* The kinds of columns a row may have.
HasArray == \E j \in DOMAIN Columns : Columns[j] = "array"
HasBlob  == \E j \in DOMAIN Columns : Columns[j] = "blob"

\* Arrays are fetched, one row at a time, before any BLOB of the row is closed.
SlicesFirst ==
  LazySend => \A i, j \in DOMAIN Columns : Columns[i] = "blob" /\ Columns[j] = "array" => j < i /\ MaxRows <= 1

\* Where the columns of a row are read.
RowPlaces == {"row", "blob.read", "segment.read", "blob.closed", "slice.read"}

\* Where an ErrBadConn is on its way to the caller.
ErrBad  == IsBad(err) => pc \in {"exec.done", "freed", "panic"} \/ stack = <<"exec.done">>

\* Rows marked badConn are read no further.
RowBad  == rows.bad => /\ rows.chunk = 0 /\ ~rows.more
                       /\ \/ stack = <<"freed">> \/ pc = "panic"
                          \/ pc \in {"rows", "free", "free.read", "freed"} /\ stack = <<>>

\* While a row of both kinds is read, no other one is kept in the chunk.
ChunkOK == LazySend /\ HasArray /\ HasBlob => rows.chunk <= 1 /\ (pc \in RowPlaces => rows.chunk = 0)

\* The column that is being read.
Locale  == /\ pc \in RowPlaces => rows.col >= 1
           /\ pc \in {"blob.read", "segment.read", "blob.closed"} =>
                rows.col <= Len(Columns) /\ Columns[rows.col] = "blob"
           /\ pc = "slice.read" => rows.col <= Len(Columns) /\ Columns[rows.col] = "array"

\* Who asks for the number of affected rows.
InfoKind == (pc \in {"info.read", "exec.committed"} \/ stack = <<"exec.committed">>) => job.kind \in {"exec", "stmtExec"}

\* freeStatement's read is never bad: its response has no typed reader.
FreeRes  == pc = "free.read" => res # "bad"

\* The rows and the error decided while a call runs.
RowsKept == ErrBad /\ RowBad /\ ChunkOK /\ Locale /\ InfoKind /\ FreeRes

LEMMA StackApart ==
  /\ <<"exec.done">> # <<"freed">> /\ <<"exec.done">> # <<>> /\ <<"freed">> # <<>>
  /\ <<"exec.committed">> # <<"freed">> /\ <<"exec.committed">> # <<>> /\ <<"exec.committed">> # <<"exec.done">>
  /\ \A r \in {"prepare.begun", "run.begun", "immediate.begun", "begin.done", "immediate.done"} :
        <<r>> # <<"exec.done">> /\ <<r>> # <<"freed">> /\ <<r>> # <<"exec.committed">>
<1>1. \A a, b : <<a>> = <<b>> => a = b
  OBVIOUS
<1>2. \A a : <<a>> # <<>>
  OBVIOUS
<1> QED
  BY <1>1, <1>2

\* Nothing has been decided where a call still works.
LEMMA CleanAt ==
  ASSUME IInv, RowsKept, pc \in Places \ {"exec.done", "freed", "panic", "free", "free.read", "commitRetaining",
                                      "commitRetaining.read"}
  PROVE  /\ ~IsBad(err) /\ (pc # "rows" => ~rows.bad)
         /\ stack # <<"exec.committed">>
<1>1. stack # <<"exec.done">> /\ stack # <<"freed">> /\ stack # <<"exec.committed">>
  BY Stacks, StackApart DEF Plain
<1> QED
  BY <1>1 DEF RowsKept, ErrBad, RowBad

\* A step that leaves the decided error and the rows alone.
LEMMA MovesKept ==
  ASSUME RowsKept, UNCHANGED <<err, rows>>, ~IsBad(err), ~rows.bad, pc' \notin RowPlaces,
         (pc' \in {"info.read", "exec.committed"} \/ stack' = <<"exec.committed">>) => job'.kind \in {"exec", "stmtExec"},
         pc' = "free.read" => res' # "bad"
  PROVE  RowsKept'
  BY DEF RowsKept, ErrBad, RowBad, ChunkOK, Locale, InfoKind, FreeRes, RowPlaces

\* The end of a call forgets the rows.
LEMMA EndKept ==
  ASSUME NEW e, NEW next, Ends(e, next)
  PROVE  RowsKept'
<1>1. rows' = NoRows /\ err' = "nil" /\ pc' \in {"idle", "close"} /\ stack' = <<>>
  BY DEF Ends
<1>2. rows'.bad = FALSE /\ rows'.chunk = 0
  BY <1>1 DEF NoRows
<1> QED
  BY <1>1, <1>2, StackApart DEF RowsKept, ErrBad, RowBad, ChunkOK, Locale, InfoKind, FreeRes, RowPlaces, IsBad

LEMMA FinishKept ==
  ASSUME NEW e, Finish(e)
  PROVE  RowsKept'
  BY FinishMoves, EndKept

\* The rows stmt.query hands out.
LEMMA LeaveRows ==
  ASSUME NEW e, Leave(e), pc' = "rows"
  PROVE  rows'.bad = FALSE /\ rows'.chunk \in {0, 1} /\ e = "nil" /\ err' = err
         /\ (rows'.chunk = 1 => job.shape = "proc") /\ job.kind \in {"query", "stmtQuery", "scroll"}
<1>1. ~Finish(e)
  BY FinishMoves, EndMoves
<1>2. /\ rows' = [NoRows EXCEPT !.drop = (job.kind # "stmtQuery"), !.more = (job.shape = "select"),
                                !.chunk = IF job.shape = "proc" THEN 1 ELSE 0]
      /\ e = "nil" /\ err' = err /\ job.kind \in {"query", "stmtQuery", "scroll"}
  BY <1>1 DEF Leave, Goto
<1>3. rows'.bad = FALSE /\ rows'.chunk = IF job.shape = "proc" THEN 1 ELSE 0
  BY <1>2 DEF NoRows
<1> QED
  BY <1>2, <1>3

LEMMA LeaveKept ==
  ASSUME IInv, RowsKept, NEW e, Leave(e), ~rows.bad, ~IsBad(err), stack = <<>>
  PROVE  RowsKept'
<1>1. CASE Finish(e)
  BY <1>1, FinishKept
<1>2. CASE pc' = "free" /\ stack' = <<"exec.done">> /\ err' = e /\ rows' = rows
  BY <1>2, StackApart DEF RowsKept, ErrBad, RowBad, ChunkOK, Locale, InfoKind, FreeRes, RowPlaces
<1>3. CASE pc' = "rows" /\ stack' = stack
  <2>1. rows'.bad = FALSE /\ rows'.chunk \in {0, 1} /\ err' = err /\ stack' = <<>>
    BY <1>3, LeaveRows
  <2>2. ErrBad' /\ RowBad'
    BY <2>1 DEF ErrBad, RowBad
  <2>3. ChunkOK' /\ Locale'
    BY <1>3, <2>1 DEF ChunkOK, Locale, RowPlaces
  <2>4. InfoKind' /\ FreeRes'
    BY <1>3, <2>1, StackApart DEF InfoKind, FreeRes
  <2> QED
    BY <2>2, <2>3, <2>4 DEF RowsKept
<1> QED
  BY <1>1, <1>2, <1>3, LeaveMoves

\* The steps of transaction.go keep the rows and the error, ...
LEMMA TransactionKept ==
  ASSUME IInv, RowsKept, Transaction
  PROVE  RowsKept'
<1>1. CASE CommitRead \/ RollbackRead \/ BeginTxDone
  BY <1>1, EndKept DEF CommitRead, RollbackRead, BeginTxDone
<1>2. CASE Begin \/ Commit \/ Rollback
  <2>1. /\ pc \in {"tx.begin", "commit", "rollback"} /\ pc' \in {"tx.begun", "commit.read", "rollback.read"}
        /\ UNCHANGED <<err, rows, stack>>
    BY <1>2 DEF Begin, Commit, Rollback, Goto, dataVars, callVars, At
  <2> QED
    BY <2>1, CleanAt, MovesKept DEF Places, RowPlaces
<1>3. CASE BeginRead
  <2>1. /\ pc = "tx.begun" /\ pc' \in {"prepare.begun", "run.begun", "immediate.begun", "begin.done"}
        /\ stack' = <<>> /\ UNCHANGED <<err, rows>>
    BY <1>3, BegunMoves DEF callVars
  <2> QED
    BY <2>1, CleanAt, MovesKept, StackApart DEF Places, RowPlaces
<1>4. CASE BeginTx
  <2>1. pc = "begin" /\ pc' = "tx.begin" /\ stack' = <<"begin.done">> /\ UNCHANGED <<err, rows>>
    BY <1>4, Entered, Stacks DEF BeginTx, Call, At, callVars, Plain, Places
  <2> QED
    BY <2>1, CleanAt, MovesKept, StackApart DEF Places, RowPlaces
<1>5. CASE CommitRetaining
  <2>1. pc = "commitRetaining" /\ pc' = "commitRetaining.read" /\ UNCHANGED <<err, rows, stack, job>>
    BY <1>5 DEF CommitRetaining, Goto, dataVars, callVars, At
  <2> QED
    BY <2>1 DEF RowsKept, ErrBad, RowBad, ChunkOK, Locale, InfoKind, FreeRes, RowPlaces
<1>6. CASE CommitRetainingRead
  <2>1. /\ pc = "commitRetaining.read" /\ pc' \in {"exec.committed", "immediate.done", "exec.done", "freed"}
        /\ stack = <<pc'>> /\ stack' = <<>> /\ UNCHANGED <<err, rows, job>>
    BY <1>6, RetainedMoves DEF callVars
  <2> QED
    BY <2>1, StackApart DEF RowsKept, ErrBad, RowBad, ChunkOK, Locale, InfoKind, FreeRes, RowPlaces
<1> QED
  BY <1>1, <1>2, <1>3, <1>4, <1>5, <1>6 DEF Transaction

\* ... so do those of statement.go, ...
LEMMA StatementKept ==
  ASSUME IInv, Deadlines, RowsKept, Statement
  PROVE  RowsKept'
<1> DEFINE Common == {"prepare", "prepare.begun", "allocate", "allocate.read", "prepare.read", "run", "run.begun",
              "bind", "bind.read", "execute", "upload.blob", "upload.segment", "upload.closed",
              "upload.slice", "execute.read", "drain.read", "info.read", "exec.committed",
              "immediate", "immediate.begun", "immediate.send", "immediate.read", "immediate.done"}
<1>1. ASSUME pc \in Common
      PROVE  stack = <<>> /\ ~rows.bad /\ ~IsBad(err)
  BY <1>1, Stacks, CleanAt DEF Plain, Places
<1>2. ASSUME NEW l \in (Common \cup {"panic"}) \ {"info.read", "exec.committed"}, pc \in Common, Goto(l), UNCHANGED callVars
      PROVE  RowsKept'
  BY <1>1, <1>2, MovesKept, StackApart DEF Goto, callVars, RowPlaces
<1>3. ASSUME NEW e, Leave(e), pc \in Common
      PROVE  RowsKept'
  BY <1>1, <1>3, LeaveKept
<1>4. ASSUME NEW r \in {"prepare.begun", "run.begun", "immediate.begun", "immediate.done"}, NEW l \in {"tx.begin", "commitRetaining"},
             Call(l, r), pc \in Common
      PROVE  RowsKept'
  <2>1. pc' = l /\ stack' = <<r>> /\ UNCHANGED callVars
    BY <1>1, <1>4, Entered DEF Call
  <2> QED
    BY <2>1, <1>1, <1>4, MovesKept, StackApart DEF callVars, RowPlaces
<1>5. CASE Prepare \/ Run \/ PrepareBegun \/ PrepareStatement \/ RunBegun \/ PrepareRead \/ Immediate \/ ImmediateBegun
           \/ ImmediateRead \/ ImmediateDone
  <2>1. /\ pc \in Common
        /\ \/ \E e : Finish(e)
           \/ \E r \in {"prepare.begun", "run.begun", "immediate.begun"} : Call("tx.begin", r)
           \/ Call("commitRetaining", "immediate.done")
           \/ \E l \in (Common \cup {"panic"}) \ {"info.read", "exec.committed"} : Goto(l) /\ UNCHANGED callVars
    BY <1>5 DEF Prepare, Run, PrepareBegun, PrepareStatement, RunBegun, PrepareRead, Immediate, ImmediateBegun,
                ImmediateRead, ImmediateDone, Panic, Continue, At
  <2> QED
    BY <2>1, <1>2, <1>4, FinishKept
<1>6. CASE Allocate \/ Bind \/ Upload \/ UploadRead \/ UploadClosed \/ Execute \/ ImmediateSend
  <2>1. pc \in Common /\ \E l \in Common \ {"info.read", "exec.committed"} : Goto(l) /\ UNCHANGED callVars
    BY <1>6 DEF Allocate, Bind, Upload, UploadRead, UploadClosed, Execute, ImmediateSend, dataVars, At
  <2> QED
    BY <2>1, <1>2
<1>7. CASE ScrollRefused \/ BindRead \/ SliceStored \/ ExecCommitted \/ DrainRead
  <2>1. /\ pc \in Common
        /\ \/ \E e : Leave(e)
           \/ \E l \in (Common \cup {"panic"}) \ {"info.read", "exec.committed"} : Goto(l) /\ UNCHANGED callVars
    BY <1>7 DEF ScrollRefused, BindRead, SliceStored, ExecCommitted, DrainRead, Panic, Continue, At
  <2> QED
    BY <2>1, <1>2, <1>3
<1>8. \A op : Abandon(op) => (Goto("drain.read") /\ UNCHANGED callVars) \/ \E e : Leave(e)
  BY Abandons DEF Continue
<1>9. CASE ExecuteRead
  <2>1. /\ pc = "execute.read"
        /\ \/ \E e : Leave(e)
           \/ Goto("drain.read") /\ UNCHANGED callVars
           \/ Goto("info.read") /\ UNCHANGED callVars /\ job.kind \in {"exec", "stmtExec"}
    BY <1>8, <1>9 DEF ExecuteRead, Continue, At
  <2>2. CASE Goto("info.read") /\ UNCHANGED callVars /\ job.kind \in {"exec", "stmtExec"}
    BY <2>1, <2>2, <1>1, MovesKept DEF Goto, callVars, RowPlaces
  <2> QED
    BY <2>1, <2>2, <1>2, <1>3
<1>10. CASE InfoRead
  <2>1. /\ pc = "info.read"
        /\ \/ \E e : Leave(e)
           \/ Goto("drain.read") /\ UNCHANGED callVars
           \/ Call("commitRetaining", "exec.committed")
    BY <1>8, <1>10 DEF InfoRead, At
  <2>2. CASE Call("commitRetaining", "exec.committed")
    <3>1. pc' = "commitRetaining" /\ UNCHANGED callVars /\ job.kind \in {"exec", "stmtExec"}
      BY <2>1, <2>2, <1>1, Entered DEF Call, RowsKept, InfoKind
    <3> QED
      BY <2>1, <3>1, <1>1, MovesKept DEF callVars, RowPlaces
  <2> QED
    BY <2>1, <2>2, <1>2, <1>3
<1>11. CASE ExecDone \/ Freed
  BY <1>11, FinishKept DEF ExecDone, Freed
<1>12. CASE Free
  <2>1. pc = "free" /\ pc' = "free.read" /\ UNCHANGED <<err, rows, stack, job>>
    BY <1>12 DEF Free, Goto, dataVars, callVars, At
  <2>2. res' # "bad"
    BY <1>12, Asks, AsksMore DEF Free
  <2> QED
    BY <2>1, <2>2 DEF RowsKept, ErrBad, RowBad, ChunkOK, Locale, InfoKind, FreeRes, RowPlaces
<1>13. CASE FreeRead
  <2>1. res # "bad" /\ UNCHANGED <<rows, job>> /\ pc = "free.read"
    BY <1>13, FreedMoves DEF RowsKept, FreeRes
  <2>2. pc' \in {"panic", "commitRetaining", "freed", "exec.done"}
    BY <1>13, FreedMoves
  <2>3. ErrBad'
    BY <1>13, <2>1, FreedMoves, StackApart DEF RowsKept, ErrBad, IsBad
  <2>4. RowBad'
    BY <1>13, <2>1, FreedMoves, StackApart DEF RowsKept, RowBad
  <2>5. stack' # <<"exec.committed">>
    BY <1>13, <2>1, FreedMoves, Stacks, StackApart
  <2> QED
    BY <2>1, <2>2, <2>3, <2>4, <2>5 DEF RowsKept, ChunkOK, Locale, InfoKind, FreeRes, RowPlaces
<1> QED
  BY <1>5, <1>6, <1>7, <1>9, <1>10, <1>11, <1>12, <1>13 DEF Statement

\* The fields of the rows.
LEMMA RowFields ==
  ASSUME IInv
  PROVE  /\ rows.bad \in BOOLEAN /\ rows.more \in BOOLEAN /\ rows.chunk \in Nat /\ rows.col \in Nat
         /\ \A b \in BOOLEAN : LET r == [rows EXCEPT !.bad = b, !.more = FALSE, !.chunk = 0, !.fetched = FALSE]
                               IN  r.bad = b /\ r.more = FALSE /\ r.chunk = 0
         /\ LET r == [rows EXCEPT !.chunk = @ - 1, !.col = 1]
            IN  r.bad = rows.bad /\ r.chunk = rows.chunk - 1 /\ r.col = 1
         /\ LET r == [rows EXCEPT !.col = @ + 1]
            IN  r.bad = rows.bad /\ r.chunk = rows.chunk /\ r.col = rows.col + 1
         /\ LET r == [rows EXCEPT !.fetched = FALSE]
            IN  r.bad = rows.bad /\ r.chunk = rows.chunk /\ r.more = rows.more
         /\ LET r == [rows EXCEPT !.more = FALSE]
            IN  r.bad = rows.bad /\ r.chunk = rows.chunk
<1>1. rows \in [drop : BOOLEAN, more : BOOLEAN, chunk : Nat, col : Nat, fetched : BOOLEAN, bad : BOOLEAN]
  BY DEF IInv, CallType, RowsObject
<1> QED
  BY <1>1

\* Rows that fail are read no further.
LEMMA RowsFailKept ==
  ASSUME IInv, RowsKept, NEW b \in BOOLEAN, RowsFail(b), err' = err, ~IsBad(err), stack = <<>>
  PROVE  RowsKept'
<1>1. pc' = "rows" /\ stack' = <<>> /\ rows' = [rows EXCEPT !.bad = b, !.more = FALSE, !.chunk = 0, !.fetched = FALSE]
  BY DEF RowsFail, Goto
<1>2. rows'.bad = b /\ rows'.more = FALSE /\ rows'.chunk = 0
  BY <1>1, RowFields
<1> QED
  BY <1>1, <1>2, StackApart DEF RowsKept, ErrBad, RowBad, ChunkOK, Locale, InfoKind, FreeRes, RowPlaces

\* A step from a row place to the next one of the same column.
LEMMA ColumnKept ==
  ASSUME IInv, RowsKept, UNCHANGED <<err, stack, rows>>, stack = <<>>, ~IsBad(err), ~rows.bad, pc \in RowPlaces,
         \/ pc' \in {"blob.read", "segment.read", "blob.closed"} /\ rows.col <= Len(Columns) /\ Columns[rows.col] = "blob"
         \/ pc' = "slice.read" /\ rows.col <= Len(Columns) /\ Columns[rows.col] = "array"
  PROVE  RowsKept'
  BY StackApart DEF RowsKept, ErrBad, RowBad, ChunkOK, Locale, InfoKind, FreeRes, RowPlaces

\* What the next column is.
LEMMA NextColumnKept ==
  ASSUME IInv, RowsKept, NextColumn, UNCHANGED err, stack = <<>>, ~IsBad(err), ~rows.bad, pc \in RowPlaces
  PROVE  RowsKept'
<1>1. pc' = "row" /\ stack' = <<>> /\ rows' = [rows EXCEPT !.col = @ + 1]
  BY DEF NextColumn, Goto
<1>2. rows'.bad = rows.bad /\ rows'.chunk = rows.chunk /\ rows'.col = rows.col + 1 /\ rows.col \in Nat
  BY <1>1, RowFields
<1> QED
  BY <1>1, <1>2, StackApart DEF RowsKept, ErrBad, RowBad, ChunkOK, Locale, InfoKind, FreeRes, RowPlaces

\* ... those of rows.go, ...
LEMMA CursorKept ==
  ASSUME SlicesFirst, IInv, RowsKept, Cursor
  PROVE  RowsKept'
<1>0. /\ pc \in {"rows", "fetch", "fetch.read", "row", "blob.read", "segment.read", "blob.closed", "slice.read"}
      /\ stack = <<>> /\ ~IsBad(err) /\ (pc # "rows" => ~rows.bad)
  <2>1. pc \in {"rows", "fetch", "fetch.read", "row", "blob.read", "segment.read", "blob.closed", "slice.read"}
    BY DEF Cursor, RowsClose, RowsExpired, RowsNext, Fetch, FetchRead, Row, BlobRead, SegmentRead, ColumnRead, ColumnFails,
         ScrollFetch, ScrollClose, At
  <2> QED
    BY <2>1, Stacks, CleanAt DEF Plain, Places
<1>1. CASE RowsClose \/ ScrollClose
  <2>1. pc = "rows" /\ (Continue("free") \/ \E e : Finish(e))
    BY <1>1 DEF RowsClose, ScrollClose, At
  <2>2. CASE Continue("free")
    BY <2>1, <2>2, <1>0, StackApart DEF Continue, Goto, callVars, RowsKept, ErrBad, RowBad, ChunkOK, Locale, InfoKind,
       FreeRes, RowPlaces
  <2> QED
    BY <2>1, <2>2, FinishKept
<1>2. CASE RowsExpired
  BY <1>0, <1>2, RowsFailKept DEF RowsExpired, rowsElse
<1>3. CASE RowsNext
  <2>1. CASE rows.chunk > 0 /\ rows' = [rows EXCEPT !.chunk = @ - 1, !.col = 1] /\ Goto("row") /\ err' = err
    <3>1. rows'.bad = rows.bad /\ rows'.chunk = rows.chunk - 1 /\ rows'.col = 1 /\ rows.chunk \in Nat
      BY <2>1, RowFields
    <3> QED
      BY <1>0, <2>1, <3>1, StackApart DEF Goto, RowsKept, ErrBad, RowBad, ChunkOK, Locale, InfoKind, FreeRes, RowPlaces
  <2>2. CASE rows.more /\ Goto("fetch") /\ UNCHANGED <<rows, err>>
    BY <1>0, <2>2, StackApart DEF Goto, RowsKept, ErrBad, RowBad, ChunkOK, Locale, InfoKind, FreeRes, RowPlaces
  <2> QED
    BY <1>3, <2>1, <2>2 DEF RowsNext, rowsElse
<1>4. CASE Fetch \/ ScrollFetch
  <2>1. pc' \in {"fetch", "fetch.read"} /\ stack' = <<>> /\ UNCHANGED <<err, rows>> /\ ~rows.bad
    BY <1>0, <1>4 DEF Fetch, ScrollFetch, Goto, dataVars, callVars, At
  <2> QED
    BY <1>0, <2>1, StackApart, MovesKept DEF RowPlaces
<1>5. CASE FetchRead
  <2>1. pc = "fetch.read" /\ err' = err
    BY <1>5 DEF FetchRead, At, rowsElse
  <2>2. CASE res = "nil"
    <3>0. rows \in [drop : BOOLEAN, more : BOOLEAN, chunk : Nat, col : Nat, fetched : BOOLEAN, bad : BOOLEAN]
      BY DEF IInv, CallType, RowsObject
    <3>1. CASE Goto("rows") /\ rows' = [rows EXCEPT !.more = FALSE]
      <4>1. rows'.bad = rows.bad /\ rows'.chunk = rows.chunk /\ rows'.more = FALSE
        BY <3>0, <3>1
      <4> QED
        BY <1>0, <2>1, <3>1, <4>1, StackApart DEF Goto, RowsKept, ErrBad, RowBad, ChunkOK, Locale, InfoKind, FreeRes,
           RowPlaces
    <3>2. CASE /\ Goto("row")
               /\ \E n \in 1..MaxRows, more \in BOOLEAN :
                     rows' = [rows EXCEPT !.chunk = n - 1, !.more = more, !.col = 1, !.fetched = TRUE]
      <4>1. PICK n \in 1..MaxRows, more \in BOOLEAN :
                   rows' = [rows EXCEPT !.chunk = n - 1, !.more = more, !.col = 1, !.fetched = TRUE]
        BY <3>2
      <4>2. rows'.bad = rows.bad /\ rows'.chunk = n - 1 /\ rows'.col = 1
        BY <3>0, <4>1
      <4>3. n \in Nat /\ 1 <= n /\ n <= MaxRows /\ MaxRows \in Nat
        BY SessionAssumption
      <4>4. ChunkOK'
        BY <4>2, <4>3 DEF ChunkOK, SlicesFirst, HasArray, HasBlob, RowPlaces
      <4> QED
        BY <1>0, <2>1, <3>2, <4>2, <4>4, StackApart DEF Goto, RowsKept, ErrBad, RowBad, Locale, InfoKind, FreeRes,
           RowPlaces
    <3> QED
      BY <1>5, <2>2, <3>1, <3>2 DEF FetchRead
  <2>3. CASE res # "nil"
    <3>1. RowsFail(expired \/ IsBad(res))
      BY <1>5, <2>3 DEF FetchRead
    <3>2. (expired \/ IsBad(res)) = TRUE \/ (expired \/ IsBad(res)) = FALSE
      OBVIOUS
    <3>3. RowsFail(TRUE) \/ RowsFail(FALSE)
      BY <3>1, <3>2 DEF RowsFail
    <3> QED
      BY <1>0, <2>1, <3>3, RowsFailKept
  <2> QED
    BY <2>2, <2>3
<1>6. CASE Row
  <2>1. pc = "row" /\ err' = err
    BY <1>6 DEF Row, At, rowsElse
  <2>2. CASE Goto("rows") /\ rows' = [rows EXCEPT !.fetched = FALSE]
    <3>1. rows'.bad = rows.bad /\ rows'.chunk = rows.chunk /\ rows'.more = rows.more
      BY <2>2 DEF IInv, CallType, RowsObject
    <3> QED
      BY <1>0, <2>1, <2>2, <3>1, StackApart DEF Goto, RowsKept, ErrBad, RowBad, ChunkOK, Locale, InfoKind, FreeRes,
         RowPlaces
  <2>3. CASE NextColumn
    BY <1>0, <2>1, <2>3, NextColumnKept DEF RowPlaces
  <2>4. CASE rows.col <= Len(Columns) /\ Columns[rows.col] = "blob" /\ Goto("blob.read") /\ UNCHANGED rows
    BY <1>0, <2>1, <2>4, ColumnKept DEF Goto, RowPlaces
  <2>5. CASE rows.col <= Len(Columns) /\ Columns[rows.col] = "array" /\ Goto("slice.read") /\ UNCHANGED rows
    BY <1>0, <2>1, <2>5, ColumnKept DEF Goto, RowPlaces
  <2> QED
    BY <1>6, <2>2, <2>3, <2>4, <2>5 DEF Row
<1>7. CASE BlobRead \/ SegmentRead \/ ColumnRead
  <2>1. /\ err' = err /\ pc \in {"blob.read", "segment.read", "blob.closed", "slice.read"}
        /\ \/ RowsFail(IsBad(res))
           \/ NextColumn
           \/ /\ pc \in {"blob.read", "segment.read"} /\ rows' = rows
              /\ (Goto("segment.read") \/ Goto("blob.closed"))
    BY <1>7 DEF BlobRead, SegmentRead, ColumnRead, ColumnFails, At, rowsElse
  <2>2. CASE RowsFail(IsBad(res))
    <3>1. IsBad(res) = TRUE \/ IsBad(res) = FALSE
      BY DEF IsBad
    <3>2. RowsFail(TRUE) \/ RowsFail(FALSE)
      BY <2>2, <3>1 DEF RowsFail
    <3> QED
      BY <1>0, <2>1, <3>2, RowsFailKept
  <2>3. CASE NextColumn
    BY <1>0, <2>1, <2>3, NextColumnKept DEF RowPlaces
  <2>4. CASE /\ pc \in {"blob.read", "segment.read"} /\ rows' = rows
             /\ (Goto("segment.read") \/ Goto("blob.closed"))
    <3>1. rows.col <= Len(Columns) /\ Columns[rows.col] = "blob"
      BY <2>4 DEF RowsKept, Locale
    <3> QED
      BY <1>0, <2>1, <2>4, <3>1, ColumnKept DEF Goto, RowPlaces
  <2> QED
    BY <2>1, <2>2, <2>3, <2>4
<1> QED
  BY <1>1, <1>2, <1>3, <1>4, <1>5, <1>6, <1>7 DEF Cursor

\* Only the reader of a typed packet, or of two, tags its error ErrBadConn.
LEMMA PlainReads ==
  ASSUME IInv, Receive, Head(expect) \in Untyped
  PROVE  res' # "bad" \/ res' = res
<1>0. Head(expect) \notin Typed /\ Head(expect) # "sql" /\ Head(expect) # "fetch"
  BY DEF Untyped, Typed, StopsAtError
<1>1. CASE RecvSkip
  BY <1>1 DEF RecvSkip
<1>2. CASE RecvOwn
  BY <1>2 DEF RecvOwn, ReadEnds, OutcomeOf
<1>3. CASE RecvGarbage
  BY <1>0, <1>3 DEF RecvGarbage, GiveUp, ReadEnds
<1>4. CASE RecvMalformed
  BY <1>0, <1>4 DEF RecvMalformed
<1>5. CASE DeadlineFires
  BY <1>0, <1>5 DEF DeadlineFires, RecvTimeout, GiveUp, ReadEnds
<1> QED
  BY <1>1, <1>2, <1>3, <1>4, <1>5 DEF Receive

\* Outside the readers of typed packets an op_response is awaited.
LEMMA AwaitedHead ==
  ASSUME ExpectOK, expect # <<>>, pc \in ReadPlaces \ {"fetch.read", "slice.read", "execute.read"}
  PROVE  Head(expect) \in Untyped
  BY Tails, UntypedOps DEF ExpectOK

\* ... the reads, ...
LEMMA ReceiveKept ==
  ASSUME IInv, Owed, RowsKept, Receive
  PROVE  RowsKept'
<1>1. expect # <<>> /\ UNCHANGED <<pc, stack, err, rows, job>>
  BY Receives, ReceivesMore DEF ctlVars, dataVars, callVars
<1>2. pc = "free.read" => res' # "bad"
  BY <1>1, PlainReads, AwaitedHead DEF Owed, RowsKept, FreeRes, ReadPlaces
<1> QED
  BY <1>1, <1>2 DEF RowsKept, ErrBad, RowBad, ChunkOK, Locale, InfoKind, FreeRes

\* ... the application and the environment, ...
LEMMA OthersKept ==
  ASSUME IInv, Deadlines, RowsKept, Ping \/ PingRead \/ Teardown \/ Application \/ Environment
  PROVE  RowsKept'
<1>1. CASE Ping \/ PingRead
  <2>1. pc \in {"ping", "ping.read"} /\ (Continue("ping.read") \/ \E e : Finish(e))
    BY <1>1 DEF Ping, PingRead, At
  <2>2. CASE Continue("ping.read")
    BY <2>1, <2>2, CleanAt, MovesKept DEF Continue, Goto, callVars, Places, RowPlaces
  <2> QED
    BY <2>1, <2>2, FinishKept
<1>2. CASE Teardown
  <2>1. /\ pc \in Closing /\ pc' \in {"close", "close.read", "detach.read", "idle"} /\ stack' = stack
        /\ UNCHANGED <<err, rows>>
    BY <1>2 DEF Teardown, Close, CloseRead, DetachRead, Goto, callVars, dataVars, At, Closing
  <2> QED
    BY <2>1, CleanAt, MovesKept DEF Closing, Places, RowPlaces
<1>3. CASE CallStart
  <2>1. /\ pc = "idle" /\ pc' \in {"prepare", "run", "free", "begin", "ping", "immediate"} /\ stack' = stack
        /\ UNCHANGED <<err, rows>>
    BY <1>3, CallMoves, Starts DEF CallStart
  <2> QED
    BY <2>1, CleanAt, MovesKept DEF Places, RowPlaces
<1>4. CASE Retry
  <2>1. /\ pc = "idle" /\ pc' \in {"prepare", "run", "begin", "ping"} /\ stack' = stack
        /\ UNCHANGED <<err, rows>>
    BY <1>4, RetryMoves, StartsAgain DEF Retry
  <2> QED
    BY <2>1, CleanAt, MovesKept DEF Places, RowPlaces
<1>5. CASE TxEnd
  <2>1. pc = "idle" /\ pc' \in {"commit", "rollback"} /\ stack' = stack /\ UNCHANGED <<err, rows>>
    BY <1>5 DEF TxEnd, Goto
  <2> QED
    BY <2>1, CleanAt, MovesKept DEF Places, RowPlaces
<1>6. CASE Reconnect
  BY <1>6 DEF Reconnect, ctlVars, RowsKept, ErrBad, RowBad, ChunkOK, Locale, InfoKind, FreeRes
<1>7. CASE Stopped
  BY <1>7 DEF Stopped, vars, ctlVars, dataVars, callVars, wireVars, RowsKept, ErrBad, RowBad, ChunkOK, Locale, InfoKind,
              FreeRes
<1>8. CASE Environment
  <2>1. UNCHANGED <<pc, stack, err, rows, job, res>>
    BY <1>8 DEF Environment, Server, Answer, CtxDone, Watcher, WatcherCancel, PingWatcher, SetDeadline, SocketDeath,
       SocketDies, ctlVars, callVars, dataVars, wireVars
  <2> QED
    BY <2>1 DEF RowsKept, ErrBad, RowBad, ChunkOK, Locale, InfoKind, FreeRes
<1> QED
  BY <1>1, <1>2, <1>3, <1>4, <1>5, <1>6, <1>7, <1>8 DEF Application

\* ... so every step does.
LEMMA StepKept ==
  ASSUME SlicesFirst, IInv, Deadlines, Owed, RowsKept, [Next]_vars
  PROVE  RowsKept'
<1>1. CASE UNCHANGED vars
  BY <1>1 DEF vars, ctlVars, dataVars, callVars, wireVars, RowsKept, ErrBad, RowBad, ChunkOK, Locale, InfoKind, FreeRes
<1> QED
  BY <1>1, TransactionKept, StatementKept, CursorKept, ReceiveKept, OthersKept DEF Next, Driver

LEMMA InitKept == Init => RowsKept
  BY StackApart DEF Init, NoRows, IsBad, RowsKept, ErrBad, RowBad, ChunkOK, Locale, InfoKind, FreeRes, RowPlaces

-----------------------------------------------------------------------------
(***************************************************************************)
(* The packets that will be read, and the requests they answer.            *)
(***************************************************************************)

\* The unread packets p are those of l counted requests, then of the awaited e;
\* at the end some may be missing, never in between.
Matches(p, l, e) ==
  /\ Len(p) <= l + Len(e)
  /\ \A i \in 1..Len(p) : IF i <= l THEN p[i].op \in Uncollected ELSE p[i].op = e[i - l]

\* A sequence with one, ...
LEMMA Extended ==
  ASSUME NEW s \in Seq(Request), NEW r
  PROVE  /\ Len(s \o <<r>>) = Len(s) + 1 /\ Len(s) \in Nat
         /\ \A i \in 1..(Len(s) + 1) : (s \o <<r>>)[i] = IF i <= Len(s) THEN s[i] ELSE r
  OBVIOUS

\* ... and with two more elements.
LEMMA ExtendedTwice ==
  ASSUME NEW s \in Seq(Request), NEW q, NEW r
  PROVE  /\ Len(s \o <<q, r>>) = Len(s) + 2 /\ Len(s) \in Nat
         /\ \A i \in 1..(Len(s) + 2) : (s \o <<q, r>>)[i] = IF i <= Len(s) THEN s[i]
                                                           ELSE IF i = Len(s) + 1 THEN q ELSE r
  OBVIOUS

\* A request that is sent joins the stream, awaited or counted, ...
LEMMA MatchesOne ==
  ASSUME NEW s \in Seq(Request), Matches(s, Len(s), <<>>), NEW r
  PROVE  /\ Matches(s \o <<r>>, Len(s), <<r.op>>) /\ Len(s \o <<r>>) = Len(s) + Len(<<r.op>>)
         /\ r.op \in Uncollected => Matches(s \o <<r>>, Len(s) + 1, <<>>)
         /\ Len(s \o <<r>>) = Len(s) + 1 + Len(<<>>)
<1>1. Len(<<r.op>>) = 1 /\ <<r.op>>[1] = r.op /\ Len(<<>>) = 0
  BY Tails
<1>2. Len(s \o <<r>>) = Len(s) + 1 /\ Len(s) \in Nat
  BY Extended
<1>3. \A i \in 1..(Len(s) + 1) : (s \o <<r>>)[i] = IF i <= Len(s) THEN s[i] ELSE r
  BY Extended
<1>4. \A i \in 1..Len(s) : s[i].op \in Uncollected
  BY <1>2 DEF Matches
<1>5. \A i \in 1..(Len(s) + 1) : IF i <= Len(s) THEN (s \o <<r>>)[i].op \in Uncollected
                                 ELSE i - Len(s) = 1 /\ (s \o <<r>>)[i].op = r.op
  BY <1>2, <1>3, <1>4
<1>6. Matches(s \o <<r>>, Len(s), <<r.op>>)
  BY <1>1, <1>2, <1>5 DEF Matches
<1>7. r.op \in Uncollected => Matches(s \o <<r>>, Len(s) + 1, <<>>)
  BY <1>1, <1>2, <1>5 DEF Matches
<1> QED
  BY <1>1, <1>2, <1>6, <1>7

\* ... two do, ...
LEMMA MatchesTwo ==
  ASSUME NEW s \in Seq(Request), Matches(s, Len(s), <<>>), NEW q, NEW r
  PROVE  Matches(s \o <<q, r>>, Len(s), <<q.op, r.op>>) /\ Len(s \o <<q, r>>) = Len(s) + Len(<<q.op, r.op>>)
<1>1. Len(<<q.op, r.op>>) = 2 /\ <<q.op, r.op>>[1] = q.op /\ <<q.op, r.op>>[2] = r.op
  BY Tails
<1>2. Len(s \o <<q, r>>) = Len(s) + 2 /\ Len(s) \in Nat
  BY ExtendedTwice
<1>3. \A i \in 1..(Len(s) + 2) : (s \o <<q, r>>)[i] = IF i <= Len(s) THEN s[i] ELSE IF i = Len(s) + 1 THEN q ELSE r
  BY ExtendedTwice
<1>4. \A i \in 1..Len(s) : s[i].op \in Uncollected
  BY <1>2 DEF Matches
<1>5. \A i \in 1..(Len(s) + 2) : IF i <= Len(s) THEN (s \o <<q, r>>)[i].op \in Uncollected
                                 ELSE (s \o <<q, r>>)[i].op = <<q.op, r.op>>[i - Len(s)]
  <2> TAKE i \in 1..(Len(s) + 2)
  <2>1. CASE i <= Len(s)
    BY <2>1, <1>2, <1>3, <1>4
  <2>2. CASE i = Len(s) + 1
    BY <2>2, <1>1, <1>2, <1>3
  <2>3. CASE i = Len(s) + 2
    BY <2>3, <1>1, <1>2, <1>3
  <2> QED
    BY <2>1, <2>2, <2>3, <1>2
<1> QED
  BY <1>1, <1>2, <1>5 DEF Matches

\* ... or one, with the youngest counted one awaited again.
LEMMA MatchesReclaimed ==
  ASSUME NEW s \in Seq(Request), Matches(s, Len(s), <<>>), NEW a, NEW r, Len(s) > 0, s[Len(s)].op = a
  PROVE  Matches(s \o <<r>>, Len(s) - 1, <<a, r.op>>) /\ Len(s \o <<r>>) = Len(s) - 1 + Len(<<a, r.op>>)
<1>1. Len(<<a, r.op>>) = 2 /\ <<a, r.op>>[1] = a /\ <<a, r.op>>[2] = r.op
  BY Tails
<1>2. Len(s \o <<r>>) = Len(s) + 1 /\ Len(s) \in Nat
  BY Extended
<1>3. \A i \in 1..(Len(s) + 1) : (s \o <<r>>)[i] = IF i <= Len(s) THEN s[i] ELSE r
  BY Extended
<1>4. \A i \in 1..Len(s) : s[i].op \in Uncollected
  BY <1>2 DEF Matches
<1>5. \A i \in 1..(Len(s) + 1) : IF i <= Len(s) - 1 THEN (s \o <<r>>)[i].op \in Uncollected
                                 ELSE (s \o <<r>>)[i].op = <<a, r.op>>[i - (Len(s) - 1)]
  <2> TAKE i \in 1..(Len(s) + 1)
  <2>1. CASE i <= Len(s) - 1
    BY <2>1, <1>2, <1>3, <1>4
  <2>2. CASE i = Len(s)
    BY <2>2, <1>1, <1>2, <1>3
  <2>3. CASE i = Len(s) + 1
    BY <2>3, <1>1, <1>2, <1>3
  <2> QED
    BY <2>1, <2>2, <2>3, <1>2
<1> QED
  BY <1>1, <1>2, <1>5 DEF Matches

\* One that is lost may be awaited, or counted, all the same.
LEMMA MatchesLess ==
  ASSUME NEW s \in Seq(Request), NEW l \in Nat, Matches(s, l, <<>>)
  PROVE  /\ \A e \in Seq(Ops) : Matches(s, l, e)
         /\ Matches(s, l + 1, <<>>)
         /\ \A a, b : (l > 0 /\ (Len(s) = l => s[l].op = a)) => Matches(s, l - 1, <<a, b>>)
<1>1. Len(s) <= l /\ Len(s) \in Nat /\ \A i \in 1..Len(s) : s[i].op \in Uncollected
  BY Tails DEF Matches
<1>2. ASSUME NEW e \in Seq(Ops) PROVE Matches(s, l, e)
  <2>1. Len(e) \in Nat
    OBVIOUS
  <2> QED
    BY <1>1, <2>1 DEF Matches
<1>3. Matches(s, l + 1, <<>>)
  BY <1>1 DEF Matches
<1>4. ASSUME NEW a, NEW b, l > 0, Len(s) = l => s[l].op = a PROVE Matches(s, l - 1, <<a, b>>)
  <2>1. Len(<<a, b>>) = 2 /\ <<a, b>>[1] = a
    BY Tails
  <2>2. \A i \in 1..Len(s) : IF i <= l - 1 THEN s[i].op \in Uncollected ELSE i = l /\ i - (l - 1) = 1 /\ s[i].op = a
    BY <1>1, <1>4
  <2> QED
    BY <1>1, <2>1, <2>2 DEF Matches
<1> QED
  BY <1>2, <1>3, <1>4

\* The skip loop takes a counted response, ...
LEMMA MatchesSkipped ==
  ASSUME NEW s \in Seq(Request), NEW l \in Nat, NEW e \in Seq(Ops), Matches(s, l, e), s # <<>>, l > 0
  PROVE  /\ Head(s).op \in Uncollected /\ Matches(Tail(s), l - 1, e)
         /\ Len(s) = l + Len(e) => Len(Tail(s)) = l - 1 + Len(e)
<1>1. /\ Head(s) = s[1] /\ Len(s) \in Nat \ {0} /\ Len(Tail(s)) = Len(s) - 1
      /\ \A i \in 1..Len(Tail(s)) : Tail(s)[i] = s[i + 1]
  BY Shortened
<1>2. Len(e) \in Nat
  OBVIOUS
<1>3. \A i \in 1..Len(Tail(s)) : IF i <= l - 1 THEN s[i + 1].op \in Uncollected ELSE s[i + 1].op = e[i - (l - 1)]
  <2> TAKE i \in 1..Len(Tail(s))
  <2>1. i + 1 \in 1..Len(s) /\ (i + 1) - l = i - (l - 1)
    BY <1>1
  <2> QED
    BY <2>1, <1>1 DEF Matches
<1>4. \A i \in 1..Len(Tail(s)) : IF i <= l - 1 THEN Tail(s)[i].op \in Uncollected ELSE Tail(s)[i].op = e[i - (l - 1)]
  BY <1>1, <1>3
<1>5. Len(Tail(s)) <= l - 1 + Len(e)
  BY <1>1, <1>2 DEF Matches
<1>6. Matches(Tail(s), l - 1, e)
  BY <1>4, <1>5 DEF Matches
<1>7. s[1].op \in Uncollected
  BY <1>1 DEF Matches
<1>8. Len(s) = l + Len(e) => Len(Tail(s)) = l - 1 + Len(e)
  BY <1>1, <1>2
<1>9. Head(s).op \in Uncollected
  BY <1>1, <1>7
<1> QED
  BY <1>6, <1>8, <1>9

\* ... the reader the one it waits for.
LEMMA MatchesRead ==
  ASSUME NEW s \in Seq(Request), NEW e \in Seq(Ops), Matches(s, 0, e), s # <<>>, e # <<>>
  PROVE  /\ Head(s).op = Head(e) /\ Matches(Tail(s), 0, Tail(e))
         /\ Len(s) = 0 + Len(e) => Len(Tail(s)) = 0 + Len(Tail(e))
<1>1. /\ Head(s) = s[1] /\ Len(s) \in Nat \ {0} /\ Len(Tail(s)) = Len(s) - 1
      /\ \A i \in 1..Len(Tail(s)) : Tail(s)[i] = s[i + 1]
  BY Shortened
<1>2. /\ Head(e) = e[1] /\ Len(e) \in Nat \ {0} /\ Len(Tail(e)) = Len(e) - 1
      /\ \A i \in 1..Len(Tail(e)) : Tail(e)[i] = e[i + 1]
  BY Shortened
<1>3. \A i \in 1..Len(s) : s[i].op = e[i]
  BY <1>1 DEF Matches
<1>4. \A i \in 1..Len(Tail(s)) : Tail(s)[i].op = Tail(e)[i]
  <2> TAKE i \in 1..Len(Tail(s))
  <2>1. i + 1 \in 1..Len(s) /\ i \in 1..Len(Tail(e)) /\ Len(s) <= Len(e)
    BY <1>1, <1>2 DEF Matches
  <2> QED
    BY <1>1, <1>2, <1>3, <2>1
<1>5. Len(Tail(s)) <= 0 + Len(Tail(e))
  BY <1>1, <1>2 DEF Matches
<1>6. \A i \in 1..Len(Tail(s)) : IF i <= 0 THEN Tail(s)[i].op \in Uncollected ELSE Tail(s)[i].op = Tail(e)[i - 0]
  <2> TAKE i \in 1..Len(Tail(s))
  <2>1. ~(i <= 0) /\ i - 0 = i
    BY <1>1
  <2> QED
    BY <1>4, <2>1
<1>7. Matches(Tail(s), 0, Tail(e))
  BY <1>5, <1>6 DEF Matches
<1>8. Len(s) = 0 + Len(e) => Len(Tail(s)) = 0 + Len(Tail(e))
  BY <1>1, <1>2
<1>9. Head(s).op = Head(e)
  BY <1>1, <1>2, <1>3
<1> QED
  BY <1>7, <1>8, <1>9

\* The end of the stream may be lost.
LEMMA MatchesCut ==
  ASSUME NEW s \in Seq(Request), NEW l \in Nat, NEW e \in Seq(Ops), Matches(s, l, e), NEW n \in 0..Len(s)
  PROVE  Matches(SubSeq(s, 1, n), l, e)
<1>1. Len(SubSeq(s, 1, n)) = n /\ \A i \in 1..n : SubSeq(s, 1, n)[i] = s[i]
  OBVIOUS
<1>2. Len(s) \in Nat /\ Len(e) \in Nat /\ n <= Len(s)
  OBVIOUS
<1> QED
  BY <1>1, <1>2 DEF Matches

\* An answer does not change what was asked.
LEMMA MatchesAnswered ==
  ASSUME NEW s \in Seq(Request), NEW l \in Nat, NEW e \in Seq(Ops), Matches(s, l, e),
         NEW t \in Seq(Request), Len(t) = Len(s), \A i \in 1..Len(s) : t[i].op = s[i].op
  PROVE  Matches(t, l, e)
  BY DEF Matches

-----------------------------------------------------------------------------
(***************************************************************************)
(* A connection is sound: its stream is in order, or it is given up.       *)
(***************************************************************************)

\* What will be read is what is awaited, and on a socket that is up nothing of
\* it is missing.
Agrees == /\ ~misread /\ ~torn
          /\ Matches(pend, lazy, expect)
          /\ sock = "up" => Len(pend) = lazy + Len(expect) /\ writer = "ok"

\* The connection is given up, before anything was misread or for good.
Spoiled == Evict /\ (Doomed \/ (~misread /\ expect = <<>>))

\* The stream of responses is in order, or nobody will rely on it.
Sound == Agrees \/ Spoiled

\* The response opPrepareStatement takes back from the count is the youngest one.
AllocOK == (/\ pc = "allocate.read" /\ LazySend /\ res = "nil" /\ writer = "ok" /\ lazy > 0
            /\ Len(pend) = lazy)
           => pend[Len(pend)].op = "allocate"

\* The types of the wire's parts.
LEMMA WireParts ==
  ASSUME IInv
  PROVE  /\ pend \in Seq(Request) /\ lazy \in Nat /\ expect \in Seq(Ops) /\ Len(pend) \in Nat
         /\ sock \in {"up", "dead"} /\ writer \in {"ok", "sticky"}
         /\ torn \in BOOLEAN /\ misread \in BOOLEAN
<1>1. /\ pend \in Seq(Request) /\ lazy \in Nat /\ expect \in Seq(Ops)
      /\ sock \in {"up", "dead"} /\ writer \in {"ok", "sticky"}
      /\ torn \in BOOLEAN /\ misread \in BOOLEAN
  BY DEF IInv, WireInv, WireTypeOK
<1> QED
  BY <1>1

\* What a write finds: nothing awaited, and a live socket with all it was asked.
LEMMA WriteFinds ==
  ASSUME IInv, Deadlines, Agrees, expect = <<>>
  PROVE  /\ Matches(pend, lazy, <<>>)
         /\ sock = "up" => Len(pend) = lazy /\ writer = "ok" /\ CanWrite
<1>1. Len(<<>>) = 0 /\ armed # "past" /\ lazy \in Nat
  BY WireParts DEF Deadlines, ArmedOK
<1> QED
  BY <1>1 DEF Agrees, CanWrite

\* A step that touches no packet keeps the order, ...
LEMMA UnsentAgrees ==
  ASSUME Agrees, UNCHANGED <<pend, lazy, expect, sock, torn, misread, writer>>
  PROVE  Agrees'
  BY DEF Agrees

\* ... so does a request, ...
LEMMA AskAgrees ==
  ASSUME IInv, Deadlines, Agrees, NEW op \in Ops, NEW h, NEW w, NEW d, NEW k,
         Write(<<Asked(op, h, w)>>, <<op>>, 0, d, k)
  PROVE  Agrees'
<1> DEFINE r == Asked(op, h, w)
<1>1. r.op = op
  BY DEF Asked
<1>2. /\ Matches(pend, lazy, <<>>)
      /\ sock = "up" => Len(pend) = lazy /\ writer = "ok" /\ CanWrite
  BY WriteMoves, WriteFinds
<1>3. UNCHANGED <<sock, torn, misread>> /\ lazy \in Nat /\ pend \in Seq(Request)
  BY WriteMoves, WireParts
<1>4. CASE UNCHANGED <<pend, lazy, expect, writer>>
  BY <1>3, <1>4, UnsentAgrees
<1>5. CASE expect' = <<op>> /\ lazy' = lazy + 0 /\ writer = "ok" /\ CanWrite /\ pend' = pend \o <<r>> /\ writer' = writer
  <2>1. sock = "up" /\ Len(pend) = lazy
    BY <1>2, <1>5 DEF CanWrite
  <2>2. Matches(pend \o <<r>>, lazy, <<r.op>>) /\ Len(pend \o <<r>>) = lazy + Len(<<r.op>>)
    BY <1>2, <1>3, <2>1, MatchesOne
  <2>3. lazy' = lazy
    BY <1>3, <1>5
  <2> QED
    BY <1>1, <1>3, <1>5, <2>2, <2>3 DEF Agrees
<1>6. CASE expect' = <<op>> /\ lazy' = lazy + 0 /\ pend' = pend /\ ~(writer = "ok" /\ CanWrite)
  <2>1. sock # "up" /\ lazy' = lazy
    BY <1>2, <1>3, <1>6
  <2>2. <<op>> \in Seq(Ops)
    OBVIOUS
  <2>3. Matches(pend, lazy, <<op>>)
    BY <1>2, <1>3, <2>2, MatchesLess
  <2> QED
    BY <1>3, <1>6, <2>1, <2>3 DEF Agrees
<1> QED
  BY <1>4, <1>5, <1>6, WriteMoves

\* ... the execution of a procedure, which asks for two packets, ...
LEMMA ExecuteAgrees ==
  ASSUME IInv, Deadlines, Agrees, NEW h, NEW w, NEW d, NEW k,
         Write(<<Asked("sql", 0, 0), Asked("execute", h, w)>>, <<"sql", "execute">>, 0, d, k)
  PROVE  Agrees'
<1> DEFINE q == Asked("sql", 0, 0)
           r == Asked("execute", h, w)
<1>1. r.op = "execute" /\ q.op = "sql"
  BY DEF Asked
<1>2. /\ Matches(pend, lazy, <<>>)
      /\ sock = "up" => Len(pend) = lazy /\ writer = "ok" /\ CanWrite
  BY WriteMoves, WriteFinds
<1>3. UNCHANGED <<sock, torn, misread>> /\ lazy \in Nat /\ pend \in Seq(Request)
  BY WriteMoves, WireParts
<1>4. CASE UNCHANGED <<pend, lazy, expect, writer>>
  BY <1>3, <1>4, UnsentAgrees
<1>5. CASE /\ expect' = <<"sql", "execute">> /\ lazy' = lazy + 0 /\ writer = "ok" /\ CanWrite
           /\ pend' = pend \o <<q, r>> /\ writer' = writer
  <2>1. sock = "up" /\ Len(pend) = lazy
    BY <1>2, <1>5 DEF CanWrite
  <2>2. Matches(pend \o <<q, r>>, lazy, <<q.op, r.op>>) /\ Len(pend \o <<q, r>>) = lazy + Len(<<q.op, r.op>>)
    BY <1>2, <1>3, <2>1, MatchesTwo
  <2>3. lazy' = lazy
    BY <1>3, <1>5
  <2> QED
    BY <1>1, <1>3, <1>5, <2>2, <2>3 DEF Agrees
<1>6. CASE expect' = <<"sql", "execute">> /\ lazy' = lazy + 0 /\ pend' = pend /\ ~(writer = "ok" /\ CanWrite)
  <2>1. sock # "up" /\ lazy' = lazy
    BY <1>2, <1>3, <1>6
  <2>2. <<"sql", "execute">> \in Seq(Ops)
    BY DEF Ops
  <2>3. Matches(pend, lazy, <<"sql", "execute">>)
    BY <1>2, <1>3, <2>2, MatchesLess
  <2> QED
    BY <1>3, <1>6, <2>1, <2>3 DEF Agrees
<1> QED
  BY <1>4, <1>5, <1>6, WriteMoves

\* ... one whose response is counted, ...
LEMMA LazilyAgrees ==
  ASSUME IInv, Deadlines, Agrees, NEW op \in Uncollected, NEW k, AskLazily(op, k)
  PROVE  Agrees'
<1> DEFINE r == Asked(op, 0, 0)
<1>0. Write(<<r>>, <<>>, 1, armed, k)
  BY DEF AskLazily
<1>1. r.op = op
  BY DEF Asked
<1>2. /\ Matches(pend, lazy, <<>>)
      /\ sock = "up" => Len(pend) = lazy /\ writer = "ok" /\ CanWrite
  BY <1>0, WriteMoves, WriteFinds
<1>3. UNCHANGED <<sock, torn, misread>> /\ lazy \in Nat /\ pend \in Seq(Request)
  BY <1>0, WriteMoves, WireParts
<1>4. CASE UNCHANGED <<pend, lazy, expect, writer>>
  BY <1>3, <1>4, UnsentAgrees
<1>5. CASE expect' = <<>> /\ lazy' = lazy + 1 /\ writer = "ok" /\ CanWrite /\ pend' = pend \o <<r>> /\ writer' = writer
  <2>1. sock = "up" /\ Len(pend) = lazy
    BY <1>2, <1>5 DEF CanWrite
  <2>2. Matches(pend \o <<r>>, lazy + 1, <<>>) /\ Len(pend \o <<r>>) = lazy + 1 + Len(<<>>)
    BY <1>1, <1>2, <1>3, <2>1, MatchesOne
  <2> QED
    BY <1>3, <1>5, <2>2 DEF Agrees
<1>6. CASE expect' = <<>> /\ lazy' = lazy + 1 /\ pend' = pend /\ ~(writer = "ok" /\ CanWrite)
  <2>1. sock # "up"
    BY <1>2, <1>6
  <2>2. Matches(pend, lazy + 1, <<>>)
    BY <1>2, <1>3, MatchesLess
  <2> QED
    BY <1>3, <1>6, <2>1, <2>2 DEF Agrees
<1> QED
  BY <1>0, <1>4, <1>5, <1>6, WriteMoves

\* ... and one that takes such a response back.
LEMMA ReclaimAgrees ==
  ASSUME IInv, Deadlines, Agrees, AllocOK, pc = "allocate.read", LazySend, res = "nil",
         NEW h, AskReclaiming("allocate", "prepare", h)
  PROVE  Agrees'
<1> DEFINE r == Asked("prepare", h, 0)
<1>0. lazy > 0 /\ Write(<<r>>, <<"allocate", "prepare">>, 0 - 1, armed, TRUE)
  BY DEF AskReclaiming
<1>1. r.op = "prepare"
  BY DEF Asked
<1>2. /\ Matches(pend, lazy, <<>>)
      /\ sock = "up" => Len(pend) = lazy /\ writer = "ok" /\ CanWrite
  BY <1>0, WriteMoves, WriteFinds
<1>3. UNCHANGED <<sock, torn, misread>> /\ lazy \in Nat /\ pend \in Seq(Request) /\ writer \in {"ok", "sticky"}
  BY <1>0, WriteMoves, WireParts
<1>4. CASE UNCHANGED <<pend, lazy, expect, writer>>
  BY <1>3, <1>4, UnsentAgrees
<1>5. CASE /\ expect' = <<"allocate", "prepare">> /\ lazy' = lazy + (0 - 1) /\ writer = "ok" /\ CanWrite
           /\ pend' = pend \o <<r>> /\ writer' = writer
  <2>1. sock = "up" /\ Len(pend) = lazy /\ pend[Len(pend)].op = "allocate"
    BY <1>0, <1>2, <1>5 DEF CanWrite, AllocOK
  <2>2. Matches(pend \o <<r>>, lazy - 1, <<"allocate", r.op>>) /\ Len(pend \o <<r>>) = lazy - 1 + Len(<<"allocate", r.op>>)
    BY <1>0, <1>2, <1>3, <2>1, MatchesReclaimed
  <2>3. lazy' = lazy - 1
    BY <1>3, <1>5
  <2> QED
    BY <1>1, <1>3, <1>5, <2>2, <2>3 DEF Agrees
<1>6. CASE /\ expect' = <<"allocate", "prepare">> /\ lazy' = lazy + (0 - 1) /\ pend' = pend
           /\ ~(writer = "ok" /\ CanWrite) /\ ~(writer = "sticky" /\ TRUE)
  <2>1. sock # "up" /\ lazy' = lazy - 1 /\ writer = "ok"
    BY <1>2, <1>3, <1>6
  <2>2. Len(pend) = lazy => pend[lazy].op = "allocate"
    BY <1>0, <2>1 DEF AllocOK
  <2>3. Matches(pend, lazy - 1, <<"allocate", "prepare">>)
    BY <1>0, <1>2, <1>3, <2>2, MatchesLess
  <2> QED
    BY <1>3, <1>6, <2>1, <2>3 DEF Agrees
<1> QED
  BY <1>0, <1>4, <1>5, <1>6, WriteMoves

\* A call that works has its stream in order.
LEMMA AgreesAt ==
  ASSUME IInv, Deadlines, Sound, pc \notin GivingUpPlaces \cup Closing \cup {"idle"}
  PROVE  Agrees
<1>1. holder \notin {"closing", "gone"}
  BY DEF Deadlines, HolderOK
<1> QED
  BY <1>1, GivingUpAt DEF Sound, Spoiled, Evict, GivingUpPlaces

\* What a step of the call's goroutine does on its way to allocate.read.
LEMMA Allocates ==
  ASSUME IInv, Transaction \/ Statement \/ Cursor \/ Ping \/ PingRead \/ Teardown, pc' = "allocate.read"
  PROVE  Allocate
<1>1. Transaction => pc' \in {"tx.begun", "prepare.begun", "run.begun", "immediate.begun", "begin.done", "idle", "close",
                              "commitRetaining.read", "exec.committed", "immediate.done", "exec.done", "freed",
                              "commit.read", "rollback.read", "tx.begin"}
  <2>1. Begin \/ CommitRetaining \/ Commit \/ Rollback => pc' \in {"tx.begun", "commitRetaining.read", "commit.read", "rollback.read"}
    BY DEF Begin, CommitRetaining, Commit, Rollback, Goto
  <2>2. BeginRead => pc' \in {"prepare.begun", "run.begun", "immediate.begun", "begin.done"}
    BY BegunMoves
  <2>3. CommitRetainingRead => pc' \in {"exec.committed", "immediate.done", "exec.done", "freed"}
    BY RetainedMoves
  <2>4. CommitRead \/ RollbackRead \/ BeginTxDone => pc' \in {"idle", "close"}
    BY EndMoves DEF CommitRead, RollbackRead, BeginTxDone
  <2>5. BeginTx => pc' = "tx.begin"
    BY DEF BeginTx, Call, Enter
  <2> QED
    BY <2>1, <2>2, <2>3, <2>4, <2>5 DEF Transaction
<1>2. \A e : Finish(e) => pc' \in {"idle", "close"}
  BY FinishMoves, EndMoves
<1>3. \A e : Leave(e) => pc' \in {"idle", "close", "rows", "free"}
  BY <1>2, LeaveMoves
<1>4. \A op : Abandon(op) => pc' \in {"idle", "close", "rows", "free", "drain.read"}
  BY <1>3, Abandons DEF Continue, Goto
<1>5. Statement => Allocate \/ pc' # "allocate.read"
  <2>1. Prepare \/ PrepareBegun \/ PrepareRead \/ ScrollRefused \/ Run \/ RunBegun \/ Bind \/ BindRead => pc' # "allocate.read"
    BY <1>2, <1>3 DEF Prepare, PrepareBegun, PrepareRead, ScrollRefused, Run, RunBegun, Bind, BindRead, Panic, Continue,
                      Call, Enter, Goto
  <2>2. PrepareStatement \/ Upload \/ UploadRead \/ UploadClosed \/ SliceStored \/ Execute => pc' # "allocate.read"
    BY <1>2, <1>3 DEF PrepareStatement, Upload, UploadRead, UploadClosed, SliceStored, Execute, Continue, Goto
  <2>3. ExecuteRead \/ DrainRead \/ InfoRead \/ ExecCommitted \/ ExecDone => pc' # "allocate.read"
    BY <1>2, <1>3, <1>4 DEF ExecuteRead, DrainRead, InfoRead, ExecCommitted, ExecDone, Panic, Continue, Call, Enter, Goto
  <2>4. Immediate \/ ImmediateBegun \/ ImmediateSend \/ ImmediateRead \/ ImmediateDone => pc' # "allocate.read"
    BY <1>2 DEF Immediate, ImmediateBegun, ImmediateSend, ImmediateRead, ImmediateDone, Continue, Call, Enter, Goto
  <2>5. Free \/ FreeRead \/ Freed => pc' # "allocate.read"
    BY <1>2, FreedMoves DEF Free, Freed, Goto
  <2> QED
    BY <2>1, <2>2, <2>3, <2>4, <2>5 DEF Statement
<1>6. Cursor => pc' # "allocate.read"
  BY <1>2 DEF Cursor, RowsClose, RowsExpired, RowsNext, Fetch, FetchRead, Row, BlobRead, SegmentRead, ColumnRead, ColumnFails,
         ScrollFetch, ScrollClose, RowsFail, NextColumn, Continue, Goto
<1>7. Ping \/ PingRead \/ Teardown => pc' # "allocate.read"
  BY <1>2 DEF Ping, PingRead, Teardown, Close, CloseRead, DetachRead, Continue, Goto
<1> QED
  BY <1>1, <1>5, <1>6, <1>7

\* The server answers a request in its place.
LEMMA Answers ==
  ASSUME IInv, Server
  PROVE  /\ UNCHANGED <<ctlVars, callVars, lazy, expect, writer, sock, torn, res, misread>>
         /\ pend' \in Seq(Request) /\ Len(pend') = Len(pend)
         /\ \A j \in 1..Len(pend) :
               /\ pend'[j].op = pend[j].op
               /\ pend[j].op = "sql" /\ "sql" \notin Fallible /\ pend[j].st # "err" => pend'[j].st # "err"
<1>0. pend \in Seq(Request) /\ Len(srv) + 1 \in Nat
  BY WireParts DEF IInv, SrvType
<1>1. PICK i \in 1..Len(pend), st \in {"ok", "err"}, h \in {0, Len(srv) + 1} :
         Answer(i, st, h) /\ (st = "err" => pend[i].op \in Fallible \/ pend[i].op \in InTransaction)
  BY DEF Server
<1>2. pend' = [pend EXCEPT ![i].st = st, ![i].h = h] /\ UNCHANGED <<lazy, expect, writer, sock, torn, res, misread>>
  BY <1>1 DEF Answer
<1>3. UNCHANGED <<ctlVars, callVars>>
  BY DEF Server
<1>4. st \in Status /\ h \in Nat
  BY <1>0 DEF Status
<1>5. WireInv' /\ Len(pend') = Len(pend) /\ \A j \in 1..Len(pend) : pend'[j].op = pend[j].op
  BY <1>1, <1>4, AnswerInv DEF IInv
<1>6. pend' \in Seq(Request)
  BY <1>5 DEF WireInv, WireTypeOK
<1>7. pend[i] \in [op : Ops, h : Nat, w : Nat, st : Status]
  <2>1. pend[i] \in Request
    BY <1>0
  <2> QED
    BY <2>1 DEF Request
<1>8. pend'[i].st = st /\ \A j \in 1..Len(pend) : j # i => pend'[j] = pend[j]
  BY <1>0, <1>2, <1>7
<1>9. "sql" \notin InTransaction
  BY DEF InTransaction
<1>10. ASSUME NEW j \in 1..Len(pend), pend[j].op = "sql", "sql" \notin Fallible, pend[j].st # "err"
       PROVE  pend'[j].st # "err"
  BY <1>1, <1>8, <1>9, <1>10
<1> QED
  BY <1>2, <1>3, <1>5, <1>6, <1>10

\* Every step keeps AllocOK.
LEMMA StepAlloc ==
  ASSUME IInv, Deadlines, Sound, AllocOK, [Next]_vars
  PROVE  AllocOK'
<1> SUFFICES ASSUME pc' = "allocate.read", LazySend, res' = "nil", writer' = "ok", lazy' > 0, Len(pend') = lazy'
             PROVE  pend'[Len(pend')].op = "allocate"
  BY DEF AllocOK
<1>0. pend \in Seq(Request) /\ lazy \in Nat /\ Len(pend) \in Nat
  BY WireParts
<1>1. CASE Transaction \/ Statement \/ Cursor \/ Ping \/ PingRead \/ Teardown
  <2>1. Write(<<Asked("allocate", 0, 0)>>, <<>>, 1, armed, TRUE)
    BY <1>1, Allocates DEF Allocate, AskLazily
  <2>2. pend' = pend \o <<Asked("allocate", 0, 0)>>
    BY <2>1, WriteMoves
  <2>3. Len(pend') = Len(pend) + 1 /\ pend'[Len(pend) + 1] = Asked("allocate", 0, 0)
    BY <1>0, <2>2, Extended
  <2> QED
    BY <2>3 DEF Asked
<1>2. ASSUME pc = "allocate.read"
      PROVE  /\ expect = <<>> /\ Len(pend) <= lazy
             /\ writer = "ok" /\ res = "nil" /\ Len(pend) = lazy /\ lazy > 0 => pend[Len(pend)].op = "allocate"
  <2>1. expect = <<>> /\ Agrees
    BY <1>2, AgreesAt DEF IInv, ReclaimOK, GivingUpPlaces, Closing
  <2>2. Len(<<>>) = 0
    OBVIOUS
  <2> QED
    BY <1>0, <1>2, <2>1, <2>2 DEF Agrees, Matches, AllocOK
<1>3. CASE Receive
  <2>1. pc' = pc /\ expect # <<>>
    BY <1>3, Receives DEF ctlVars
  <2> QED
    BY <1>2, <2>1
<1>4. CASE Server
  <2>1. pc' = pc /\ UNCHANGED <<lazy, res, writer>>
    BY <1>4 DEF Server, Answer, ctlVars
  <2>3. Len(pend') = Len(pend) /\ \A j \in 1..Len(pend) : pend'[j].op = pend[j].op
    BY <1>4, Answers
  <2> QED
    BY <1>0, <1>2, <2>1, <2>3
<1>5. CASE SocketDeath
  <2>1. pc' = pc /\ UNCHANGED <<lazy, res, writer>> /\ \E n \in 0..Len(pend) : pend' = SubSeq(pend, 1, n)
    BY <1>5 DEF SocketDeath, SocketDies, ctlVars
  <2>2. PICK n \in 0..Len(pend) : pend' = SubSeq(pend, 1, n)
    BY <2>1
  <2>3. Len(pend') = n /\ \A j \in 1..n : pend'[j] = pend[j]
    BY <1>0, <2>2
  <2>4. n = Len(pend)
    BY <1>0, <1>2, <2>1, <2>3
  <2> QED
    BY <1>0, <1>2, <2>1, <2>3, <2>4
<1>6. CASE CtxDone \/ Watcher \/ PingWatcher \/ UNCHANGED vars \/ Stopped
  <2>1. pc' = pc /\ UNCHANGED <<pend, lazy, res>> /\ (writer' = "ok" => writer = "ok")
    BY <1>6, WireParts DEF CtxDone, Watcher, WatcherCancel, CancelWritten, PingWatcher, SetDeadline, Stopped, vars, ctlVars, wireVars
  <2> QED
    BY <1>0, <1>2, <2>1
<1>7. CASE CallStart \/ Retry \/ TxEnd \/ Reconnect
  BY <1>7, CallMoves, RetryMoves, Starts, StartsAgain DEF TxEnd, Reconnect, WireReset, Goto
<1> QED
  BY <1>1, <1>3, <1>4, <1>5, <1>6, <1>7 DEF Next, Driver, Application, Environment

\* No op_sql_response reports an error.
SqlOK == \A i \in 1..Len(pend) : pend[i].op = "sql" => pend[i].st # "err"

\* A request has no answer yet.
LEMMA WriteSql ==
  ASSUME IInv, SqlOK, NEW q, NEW r, NEW awaited, NEW counted, NEW d, NEW k, q.st = "asked", r.st = "asked",
         Write(<<q>>, awaited, counted, d, k) \/ Write(<<q, r>>, awaited, counted, d, k)
  PROVE  SqlOK'
<1>0. pend \in Seq(Request)
  BY WireParts
<1>1. pend' = pend \/ pend' = pend \o <<q>> \/ pend' = pend \o <<q, r>>
  BY WriteMoves
<1>2. CASE pend' = pend \o <<q>>
  BY <1>0, <1>2, Extended DEF SqlOK
<1>3. CASE pend' = pend \o <<q, r>>
  BY <1>0, <1>3, ExtendedTwice DEF SqlOK
<1>4. CASE pend' = pend
  BY <1>4 DEF SqlOK
<1> QED
  BY <1>1, <1>2, <1>3, <1>4

\* A read takes at most the packet in front.
LEMMA ReceivesPend ==
  ASSUME Receive
  PROVE  pend' = pend \/ (pend # <<>> /\ Head(pend).st # "asked" /\ pend' = Tail(pend))
<1>1. CASE RecvSkip
  BY <1>1 DEF RecvSkip, ToSkip, Arrived
<1>2. CASE RecvOwn
  BY <1>2 DEF RecvOwn, Arrived
<1>3. CASE RecvGarbage
  BY <1>3 DEF RecvGarbage, GiveUp
<1>4. CASE RecvMalformed
  BY <1>4 DEF RecvMalformed, Arrived
<1>5. CASE DeadlineFires
  BY <1>5 DEF DeadlineFires, RecvTimeout, GiveUp
<1> QED
  BY <1>1, <1>2, <1>3, <1>4, <1>5 DEF Receive

\* The server does not answer an op_execute2 with a failed op_sql_response where
\* Fallible says so.
LEMMA StepSql ==
  ASSUME "sql" \notin Fallible, IInv, Deadlines, SqlOK, [Next]_vars
  PROVE  SqlOK'
<1>0. pend \in Seq(Request) /\ Len(pend) \in Nat
  BY WireParts
<1>1. CASE Transaction \/ Statement \/ Cursor \/ Ping \/ PingRead \/ Teardown
  <2>0. WireStep
    BY <1>1, WireSteps
  <2>1. \A op, h, w : Asked(op, h, w).st = "asked"
    BY DEF Asked
  <2>2. CASE Silent \/ Draining
    BY <2>2 DEF Silent, Draining, CancelAndDrain, SqlOK
  <2>3. CASE Asking \/ AskingBlindly \/ AskingLazily \/ Reclaiming \/ Executing
    <3>1. \E q, awaited, counted, d, k :
             /\ q.st = "asked"
             /\ \/ Write(<<q>>, awaited, counted, d, k)
                \/ \E r : r.st = "asked" /\ Write(<<q, r>>, awaited, counted, d, k)
      BY <2>1, <2>3 DEF Asking, AskingBlindly, AskingLazily, Reclaiming, Executing, Ask, AskBlindly, AskLazily, AskReclaiming
    <3> QED
      BY <3>1, WriteSql
  <2> QED
    BY <2>0, <2>2, <2>3 DEF WireStep
<1>2. CASE Receive
  <2>1. CASE pend' = pend
    BY <2>1 DEF SqlOK
  <2>2. CASE pend # <<>> /\ pend' = Tail(pend)
    <3>1. Len(pend') = Len(pend) - 1 /\ \A i \in 1..Len(pend') : pend'[i] = pend[i + 1]
      BY <1>0, <2>2, Shortened
    <3> QED
      BY <1>0, <3>1 DEF SqlOK
  <2> QED
    BY <1>2, <2>1, <2>2, ReceivesPend
<1>3. CASE Server
  BY <1>3, Answers DEF SqlOK
<1>4. CASE SocketDeath
  <2>1. PICK n \in 0..Len(pend) : pend' = SubSeq(pend, 1, n)
    BY <1>4 DEF SocketDeath, SocketDies
  <2>2. Len(pend') = n /\ \A j \in 1..n : pend'[j] = pend[j]
    BY <1>0, <2>1
  <2> QED
    BY <1>0, <2>2 DEF SqlOK
<1>5. CASE CtxDone \/ Watcher \/ PingWatcher \/ UNCHANGED vars \/ Stopped \/ CallStart \/ Retry \/ TxEnd
  BY <1>5 DEF CtxDone, Watcher, WatcherCancel, PingWatcher, SetDeadline, Stopped, vars, wireVars, CallStart, Retry, TxEnd,
     SqlOK
<1>6. CASE Reconnect
  <2>1. pend' = <<>> /\ Len(<<>>) = 0
    BY <1>6 DEF Reconnect, WireReset
  <2> QED
    BY <2>1 DEF SqlOK
<1> QED
  BY <1>1, <1>2, <1>3, <1>4, <1>5, <1>6 DEF Next, Driver, Application, Environment

-----------------------------------------------------------------------------
(***************************************************************************)
(* ErrBadConn inside an explicit transaction, whose connection is kept.    *)
(***************************************************************************)

\* The peer is gone and nothing it sent is left.
DeadEmpty == sock = "dead" /\ pend = <<>>

\* The application's explicit transaction holds the connection.
InTx == holder \in {"tx", "txcall"}

\* Inside an explicit transaction an ErrBadConn means that nothing can be read or
\* written any more: database/sql keeps the connection until Commit or Rollback.
TxBad == InTx => /\ res = "bad" => DeadEmpty
                 /\ IsBad(err) \/ rows.bad => (writer = "sticky" /\ expect = <<>>) \/ DeadEmpty

\* The end of a call forgets its error, ...
LEMMA EndsClean ==
  ASSUME NEW e, NEW next, Ends(e, next)
  PROVE  ~IsBad(err') /\ ~rows'.bad
  BY DEF Ends, NoRows, IsBad

\* ... the end of stmt.exec and stmt.query decides on the one of its read, ...
LEMMA LeavesClean ==
  ASSUME IInv, NEW e, Leave(e)
  PROVE  IsBad(err') \/ rows'.bad => IsBad(err) \/ rows.bad \/ IsBad(e)
<1>1. CASE Finish(e)
  BY <1>1, FinishMoves, EndsClean
<1>2. CASE pc' = "free" /\ err' = e /\ rows' = rows
  BY <1>2
<1>3. CASE pc' = "rows"
  BY <1>3, LeaveRows
<1> QED
  BY <1>1, <1>2, <1>3, LeaveMoves

\* ... and rows that fail on that of theirs.
LEMMA RowsFailClean ==
  ASSUME IInv, NEW b \in BOOLEAN, RowsFail(b), err' = err
  PROVE  IsBad(err') \/ rows'.bad => IsBad(err) \/ b
<1>1. rows' = [rows EXCEPT !.bad = b, !.more = FALSE, !.chunk = 0, !.fetched = FALSE]
  BY DEF RowsFail
<1>2. rows'.bad = b
  BY <1>1, RowFields
<1> QED
  BY <1>2

\* The same, for the error of the read itself.
LEMMA RowsFailsFrom ==
  ASSUME IInv, RowsFail(IsBad(res)), err' = err
  PROVE  IsBad(err') \/ rows'.bad => IsBad(err) \/ IsBad(res)
<1>1. IsBad(res) = TRUE \/ IsBad(res) = FALSE
  BY DEF IsBad
<1>2. CASE IsBad(res)
  BY <1>2
<1>3. CASE ~IsBad(res)
  <2>1. RowsFail(FALSE)
    BY <1>1, <1>3 DEF RowsFail
  <2> QED
    BY <2>1, RowsFailClean
<1> QED
  BY <1>2, <1>3

\* Where a call learns that it must return ErrBadConn: from the read, or write,
\* that has just ended.
BadFrom == IsBad(err') \/ rows'.bad => IsBad(err) \/ rows.bad \/ (IsBad(res) /\ Silent)

\* So it is in transaction.go, ...
LEMMA TransactionBad ==
  ASSUME IInv, Transaction
  PROVE  BadFrom
<1>1. CASE CommitRead \/ RollbackRead \/ BeginTxDone
  BY <1>1, EndsClean DEF CommitRead, RollbackRead, BeginTxDone, BadFrom
<1>2. CASE Begin \/ BeginRead \/ CommitRetaining \/ CommitRetainingRead \/ Commit \/ Rollback \/ BeginTx
  <2>1. err' = err /\ rows' = rows
    BY <1>2 DEF Begin, BeginRead, CommitRetaining, CommitRetainingRead, Commit, Rollback, BeginTx, Call, dataVars, callVars
  <2> QED
    BY <2>1 DEF BadFrom
<1> QED
  BY <1>1, <1>2 DEF Transaction

\* ... in statement.go, ...
LEMMA StatementBad ==
  ASSUME IInv, Deadlines, ~expired, Statement
  PROVE  BadFrom
<1>1. ASSUME UNCHANGED <<err, rows>> PROVE BadFrom
  BY <1>1 DEF BadFrom
<1>2. ASSUME NEW e, Finish(e) PROVE BadFrom
  BY <1>2, FinishMoves, EndsClean DEF BadFrom
<1>3. ASSUME NEW e, Leave(e), e = res \/ ~IsBad(e), Silent PROVE BadFrom
  BY <1>3, LeavesClean DEF BadFrom
<1>4. CASE Prepare \/ PrepareBegun \/ Allocate \/ PrepareStatement \/ PrepareRead \/ Run \/ RunBegun \/ Bind \/ Upload
           \/ UploadRead \/ UploadClosed \/ Execute \/ Immediate \/ ImmediateBegun \/ ImmediateSend \/ ImmediateRead
           \/ ImmediateDone \/ Free \/ Freed \/ ExecDone
  <2>1. UNCHANGED <<err, rows>> \/ \E e : Finish(e)
    BY <1>4 DEF Prepare, PrepareBegun, Allocate, PrepareStatement, PrepareRead, Run, RunBegun, Bind, Upload, UploadRead,
       UploadClosed, Execute, Immediate, ImmediateBegun, ImmediateSend, ImmediateRead, ImmediateDone, Free, Freed, ExecDone,
       Panic, Continue, Call, dataVars, callVars
  <2> QED
    BY <2>1, <1>1, <1>2
<1>5. CASE ScrollRefused \/ BindRead \/ SliceStored \/ DrainRead \/ ExecCommitted
  <2>1. Silent
    BY <1>5, SilentWires DEF ScrollRefused, BindRead, SliceStored, DrainRead, ExecCommitted
  <2>2. UNCHANGED callVars \/ \E e : Leave(e) /\ e \in {res, "other"}
    BY <1>5 DEF ScrollRefused, BindRead, SliceStored, DrainRead, ExecCommitted, Panic, Continue
  <2> QED
    BY <2>1, <2>2, <1>1, <1>3 DEF callVars, IsBad
<1>6. ASSUME NEW op, Abandon(op) PROVE BadFrom
  <2>1. CASE Continue("drain.read")
    BY <2>1, <1>1 DEF Continue, callVars
  <2>2. CASE Disarm /\ Leave(IF expired THEN "bad" ELSE res)
    BY <2>2, <1>3, SilentWires
  <2> QED
    BY <1>6, <2>1, <2>2 DEF Abandon
<1>7. CASE ExecuteRead
  <2>1. \/ Leave(res) /\ UNCHANGED wireVars
        \/ Abandon("execute")
        \/ Continue("info.read")
        \/ Disarm /\ Leave("nil")
    BY <1>7 DEF ExecuteRead
  <2> QED
    BY <2>1, <1>1, <1>3, <1>6, SilentWires DEF Continue, callVars, IsBad
<1>8. CASE InfoRead
  <2>1. \/ Disarm /\ Leave(res)
        \/ Abandon("info")
        \/ Call("commitRetaining", "exec.committed")
        \/ Disarm /\ Leave("nil")
    BY <1>8 DEF InfoRead
  <2> QED
    BY <2>1, <1>1, <1>3, <1>6, SilentWires DEF Call, callVars, IsBad
<1>9. CASE FreeRead
  <2>1. err' \in {err, res} /\ rows' = rows
    BY <1>9 DEF FreeRead
  <2>2. Silent
    BY <1>9, SilentWires DEF FreeRead
  <2> QED
    BY <2>1, <2>2 DEF BadFrom
<1> QED
  BY <1>4, <1>5, <1>7, <1>8, <1>9 DEF Statement

\* ... in rows.go, ...
LEMMA CursorBad ==
  ASSUME IInv, ~expired, Cursor
  PROVE  BadFrom
<1>1. CASE RowsClose \/ Fetch \/ ScrollFetch \/ ScrollClose
  <2>1. UNCHANGED <<err, rows>> \/ \E e : Finish(e)
    BY <1>1 DEF RowsClose, Fetch, ScrollFetch, ScrollClose, Continue, dataVars, callVars
  <2> QED
    BY <2>1, FinishMoves, EndsClean DEF BadFrom
<1>2. CASE RowsExpired
  BY <1>2 DEF RowsExpired
<1>3. CASE RowsNext
  BY <1>3, RowFields DEF RowsNext, rowsElse, BadFrom
<1>4. CASE FetchRead
  <2>1. Silent /\ err' = err
    BY <1>4, SilentWires DEF FetchRead, rowsElse
  <2>2. CASE res = "nil"
    <3>1. \/ \E n \in 1..MaxRows, more \in BOOLEAN :
                rows' = [rows EXCEPT !.chunk = n - 1, !.more = more, !.col = 1, !.fetched = TRUE]
          \/ rows' = [rows EXCEPT !.more = FALSE]
      BY <1>4, <2>2 DEF FetchRead
    <3>2. rows \in [drop : BOOLEAN, more : BOOLEAN, chunk : Nat, col : Nat, fetched : BOOLEAN, bad : BOOLEAN]
      BY DEF IInv, CallType, RowsObject
    <3>3. rows'.bad = rows.bad
      BY <3>1, <3>2
    <3> QED
      BY <2>1, <3>3 DEF BadFrom
  <2>3. CASE res # "nil"
    <3>1. (expired \/ IsBad(res)) = IsBad(res)
      BY DEF IsBad
    <3>2. RowsFail(IsBad(res))
      BY <1>4, <2>3, <3>1 DEF FetchRead, RowsFail
    <3> QED
      BY <2>1, <3>2, RowsFailsFrom DEF BadFrom
  <2> QED
    BY <2>2, <2>3
<1>5. CASE Row
  <2>1. rows'.bad = rows.bad /\ err' = err
    BY <1>5, RowFields DEF Row, NextColumn, rowsElse
  <2> QED
    BY <2>1 DEF BadFrom
<1>6. CASE BlobRead \/ SegmentRead \/ ColumnRead
  <2>1. err' = err /\ (rows' = rows \/ NextColumn \/ (RowsFail(IsBad(res)) /\ NextReturns))
    BY <1>6 DEF BlobRead, SegmentRead, ColumnRead, ColumnFails, rowsElse
  <2>2. CASE rows' = rows \/ NextColumn
    BY <2>1, <2>2, RowFields DEF NextColumn, BadFrom
  <2>3. CASE RowsFail(IsBad(res)) /\ NextReturns
    BY <2>1, <2>3, RowsFailsFrom, SilentWires DEF BadFrom, NextReturns
  <2> QED
    BY <2>1, <2>2, <2>3
<1> QED
  BY <1>1, <1>2, <1>3, <1>4, <1>5, <1>6 DEF Cursor

\* ... and nobody else decides.
LEMMA OthersBad ==
  ASSUME IInv, Ping \/ PingRead \/ Teardown
  PROVE  BadFrom
<1>1. UNCHANGED <<err, rows>> \/ \E e : Finish(e)
  BY DEF Ping, PingRead, Teardown, Close, CloseRead, DetachRead, Continue, dataVars, callVars
<1> QED
  BY <1>1, FinishMoves, EndsClean DEF BadFrom

\* Only the end of a call changes the holder.
LEMMA HolderMoves ==
  ASSUME IInv, Transaction \/ Statement \/ Cursor \/ Ping \/ PingRead \/ Teardown, InTx'
  PROVE  InTx \/ (BeginTxDone /\ res = "nil")
<1>1. ASSUME NEW e, Finish(e) PROVE InTx
  BY <1>1, FinishMoves, EndMoves DEF InTx
<1>2. ASSUME NEW e, Leave(e) PROVE InTx
  BY <1>1, <1>2, LeaveMoves DEF InTx
<1>3. ASSUME holder' = holder PROVE InTx
  BY <1>3 DEF InTx
<1>4. CASE Transaction
  <2>1. \/ holder' = holder
        \/ Ends(res, "pool")
        \/ BeginTxDone /\ res = "nil"
    BY <1>4 DEF Transaction, Begin, BeginRead, CommitRetaining, CommitRetainingRead, BeginTx, BeginTxDone, Commit, CommitRead,
       Rollback, RollbackRead, Call, dataVars, callVars
  <2>2. Ends(res, "pool") => holder' \in {"closing", "pool"}
    BY EndMoves
  <2>3. ~Ends(res, "pool")
    BY <2>2 DEF InTx
  <2> QED
    BY <1>3, <2>1, <2>3
<1>5. CASE Statement
  <2>1. ASSUME ~ExecuteRead, ~InfoRead, ~DrainRead, ~ExecCommitted PROVE holder' = holder \/ (\E e : Finish(e)) \/ (\E e : Leave(e))
    BY <1>5, <2>1 DEF Statement, Prepare, PrepareBegun, Allocate, PrepareStatement, PrepareRead, ScrollRefused, Run, RunBegun,
        Bind, BindRead, Upload, UploadRead, UploadClosed, SliceStored, Execute,
        ExecDone, Immediate, ImmediateBegun, ImmediateSend, ImmediateRead, ImmediateDone,
        Free, FreeRead, Freed, Panic, Continue, Call, dataVars, callVars
  <2>2. ASSUME NEW op, Abandon(op) PROVE holder' = holder \/ \E e : Leave(e)
    BY <2>2, Abandons DEF Continue, callVars
  <2>3. ASSUME ExecuteRead \/ InfoRead \/ DrainRead \/ ExecCommitted PROVE holder' = holder \/ \E e : Leave(e)
    BY <2>2, <2>3 DEF ExecuteRead, InfoRead, DrainRead, ExecCommitted, Panic, Continue, Call, callVars
  <2> QED
    BY <1>1, <1>2, <1>3, <2>1, <2>3
<1>6. CASE Cursor
  <2>1. holder' = holder \/ \E e : Finish(e)
    BY <1>6 DEF Cursor, RowsClose, RowsExpired, RowsNext, Fetch, FetchRead, Row, BlobRead, SegmentRead, ColumnRead, ColumnFails,
         ScrollFetch, ScrollClose, Continue, rowsElse, dataVars, callVars
  <2> QED
    BY <1>1, <1>3, <2>1
<1>7. CASE Ping \/ PingRead \/ Teardown
  <2>1. holder' = holder \/ holder' = "gone" \/ \E e : Finish(e)
    BY <1>7 DEF Ping, PingRead, Teardown, Close, CloseRead, DetachRead, Continue, dataVars, callVars
  <2> QED
    BY <1>1, <1>3, <2>1 DEF InTx
<1> QED
  BY <1>4, <1>5, <1>6, <1>7

\* A write that looks at its error finds out that an earlier one was lost.
LEMMA CheckedWrite ==
  ASSUME NEW rs, NEW awaited, NEW counted, NEW d, Write(rs, awaited, counted, d, TRUE)
  PROVE  /\ res' \in {"nil", "unsent"}
         /\ writer = "sticky" => writer' = "sticky" /\ expect' = <<>>
         /\ DeadEmpty => DeadEmpty'
  BY WriteMoves DEF DeadEmpty, CanWrite

\* A write whose error is dropped never fails.
LEMMA UncheckedWrite ==
  ASSUME NEW rs, NEW awaited, NEW counted, NEW d, Write(rs, awaited, counted, d, FALSE)
  PROVE  res' = "nil"
  BY DEF Write

\* A request keeps TxBad, ...
LEMMA WritesInTx ==
  ASSUME IInv, RowsKept, TxBad, InTx, IsBad(err') \/ rows'.bad => IsBad(err) \/ rows.bad,
         Asking \/ AskingBlindly \/ AskingLazily \/ Reclaiming \/ Executing
  PROVE  TxBad'
<1>1. ASSUME NEW rs, NEW awaited, NEW counted, NEW d, Write(rs, awaited, counted, d, TRUE)
      PROVE  TxBad'
  <2>1. /\ res' \in {"nil", "unsent"}
        /\ writer = "sticky" => writer' = "sticky" /\ expect' = <<>>
        /\ DeadEmpty => DeadEmpty'
    BY <1>1, CheckedWrite
  <2> QED
    BY <2>1 DEF TxBad
<1>2. ASSUME NEW rs, NEW awaited, NEW counted, NEW d, Write(rs, awaited, counted, d, FALSE),
             pc \in {"execute", "upload.blob", "row", "blob.read", "segment.read"}
      PROVE  TxBad'
  <2>1. ~IsBad(err) /\ ~rows.bad
    BY <1>2, CleanAt DEF Places
  <2>2. res' = "nil"
    BY <1>2, UncheckedWrite
  <2> QED
    BY <2>1, <2>2 DEF TxBad
<1>3. CASE Asking
  BY <1>1, <1>3 DEF Asking, Ask
<1>4. CASE AskingBlindly
  BY <1>2, <1>4 DEF AskingBlindly, AskBlindly
<1>5. CASE AskingLazily
  BY <1>1, <1>2, <1>5 DEF AskingLazily, AskLazily
<1>6. CASE Reclaiming
  BY <1>1, <1>6 DEF Reclaiming, AskReclaiming
<1>7. CASE Executing
  BY <1>1, <1>7 DEF Executing
<1> QED
  BY <1>3, <1>4, <1>5, <1>6, <1>7

\* ... and so does every step of the call.
LEMMA DriverTxBad ==
  ASSUME IInv, Deadlines, TimedOK, Owed, RowsKept, TxBad, Transaction \/ Statement \/ Cursor \/ Ping \/ PingRead \/ Teardown
  PROVE  TxBad'
<1> SUFFICES ASSUME InTx' PROVE TxBad'
  BY DEF TxBad
<1>1. CASE BeginTxDone /\ res = "nil"
  <2>1. ~IsBad(err') /\ ~rows'.bad /\ res' = "nil"
    BY <1>1, EndsClean DEF BeginTxDone, wireVars
  <2> QED
    BY <2>1 DEF TxBad
<1>2. CASE InTx
  <2>1. ~expired
    BY <1>2 DEF InTx, Deadlines, HolderOK, TimedOK
  <2>2. BadFrom
    BY <2>1, TransactionBad, StatementBad, CursorBad, OthersBad
  <2>3. expect = <<>> /\ WireStep
    BY WireSteps
  <2>4. CASE Silent
    <3>1. UNCHANGED <<pend, expect, sock, res, writer>>
      BY <2>1, <2>4 DEF Silent, RowsExpired
    <3>2. IsBad(res) => (writer = "sticky" /\ expect = <<>>) \/ DeadEmpty
      BY <1>2, <2>3 DEF IsBad, TxBad, Owed
    <3> QED
      BY <1>2, <2>2, <3>1, <3>2 DEF BadFrom, TxBad, DeadEmpty
  <2>5. CASE ~Silent
    <3>1. ~Draining
      BY <2>1 DEF Draining, Deadlines, TimeoutOK
    <3> QED
      BY <1>2, <2>2, <2>3, <2>5, <3>1, WritesInTx DEF BadFrom, WireStep
  <2> QED
    BY <2>3, <2>4, <2>5
<1> QED
  BY <1>1, <1>2, HolderMoves

\* In an explicit transaction a call that reads has its stream in order.
LEMMA TxReads ==
  ASSUME IInv, ExpectOK, Sound, InTx, expect # <<>>
  PROVE  Agrees
  BY DEF Sound, Spoiled, Evict, InTx, ExpectOK, ReadPlaces

\* A fetch is awaited where it is read.
LEMMA FetchAwaited ==
  ASSUME ExpectOK, expect # <<>>, Head(expect) = "fetch"
  PROVE  pc = "fetch.read"
<1>1. pc \in ReadPlaces
  BY DEF ExpectOK
<1>2. "fetch" \notin Untyped
  BY DEF Untyped, Typed
<1>3. pc \notin ReadPlaces \ {"fetch.read", "slice.read", "execute.read"}
  BY <1>2, AwaitedHead
<1>4. pc # "slice.read" /\ pc # "execute.read"
  BY Tails DEF ExpectOK
<1> QED
  BY <1>1, <1>3, <1>4

\* A read in a transaction is bad only when the peer is gone.
LEMMA ReceiveTxBad ==
  ASSUME "malformed" \notin Faults \/ ~RecvMalformed, IInv, Deadlines, TimedOK, Owed, Sound, TxBad, Receive
  PROVE  TxBad'
<1>0. expect # <<>> /\ sock' = sock /\ UNCHANGED <<pc, holder, err, rows>>
  BY ReceivesMore DEF ctlVars, dataVars, callVars
<1> SUFFICES ASSUME InTx PROVE TxBad'
  BY <1>0 DEF TxBad, InTx
<1>1. DeadEmpty => DeadEmpty'
  BY <1>0, ReceivesPend DEF DeadEmpty
<1>2. IsBad(err') \/ rows'.bad => DeadEmpty'
  BY <1>0, <1>1 DEF TxBad
<1>3. ASSUME res' = "bad" PROVE DeadEmpty'
  <2>1. CASE RecvSkip
    BY <1>1, <1>3, <2>1 DEF RecvSkip, TxBad
  <2>2. CASE RecvOwn
    BY <1>3, <2>2 DEF RecvOwn, ReadEnds, OutcomeOf
  <2>3. CASE RecvGarbage
    <3>1. ~torn
      BY <1>0, TxReads DEF Owed, Agrees
    <3> QED
      BY <1>1, <2>3, <3>1 DEF RecvGarbage, DeadEmpty
  <2>4. CASE DeadlineFires
    <3>1. Head(expect) = "fetch"
      BY <1>3, <2>4 DEF DeadlineFires, RecvTimeout, GiveUp, ReadEnds
    <3>2. pc = "fetch.read"
      BY <1>0, <3>1, FetchAwaited DEF Owed
    <3>3. ~expired
      BY DEF InTx, Deadlines, HolderOK, TimedOK
    <3> QED
      BY <2>4, <3>2, <3>3 DEF DeadlineFires, Deadlines, ArmedOK
  <2> QED
    BY <2>1, <2>2, <2>3, <2>4 DEF Receive
<1> QED
  BY <1>2, <1>3 DEF TxBad

\* The application and the environment keep TxBad.
LEMMA OthersTxBad ==
  ASSUME IInv, Deadlines, TimedOK, TxBad, Application \/ Environment \/ UNCHANGED vars
  PROVE  TxBad'
<1>1. CASE CallStart \/ TxEnd
  <2>1. (InTx' => InTx) /\ UNCHANGED <<wireVars, err, rows>>
    BY <1>1, CallMoves DEF TxEnd, InTx
  <2> QED
    BY <2>1 DEF TxBad, DeadEmpty, wireVars
<1>2. CASE Retry \/ Reconnect
  BY <1>2 DEF Retry, Reconnect, TxBad, InTx
<1>3. CASE Stopped \/ UNCHANGED vars
  BY <1>3 DEF Stopped, vars, wireVars, dataVars, callVars, TxBad, InTx, DeadEmpty
<1>4. CASE Server
  <2>1. UNCHANGED <<holder, err, rows, expect, writer, sock, res>>
    BY <1>4, Answers DEF callVars
  <2>2. pend # <<>>
    BY <1>4, WireParts DEF Server
  <2> QED
    BY <2>1, <2>2 DEF TxBad, InTx, DeadEmpty
<1>5. CASE CtxDone
  BY <1>5 DEF CtxDone, wireVars, TxBad, InTx, DeadEmpty
<1>6. CASE Watcher \/ PingWatcher
  <2>1. holder' = holder /\ (expired \/ pinger # "none")
    BY <1>6 DEF Watcher, PingWatcher, callVars
  <2>2. ~InTx
    BY <2>1 DEF InTx, Deadlines, HolderOK, PingOK, TimedOK
  <2> QED
    BY <2>1, <2>2 DEF TxBad, InTx
<1>7. CASE SocketDeath
  <2>1. sock = "up" /\ UNCHANGED <<holder, err, rows, expect, writer, res>>
    BY <1>7 DEF SocketDeath, SocketDies, dataVars, callVars
  <2> QED
    BY <2>1 DEF TxBad, InTx, DeadEmpty
<1> QED
  BY <1>1, <1>2, <1>3, <1>4, <1>5, <1>6, <1>7 DEF Application, Environment

\* An explicit transaction keeps its connection whatever its calls returned, so
\* ErrBadConn must mean there that nothing more can be read.
TxReadsWell == "begin" \notin Kinds \/ "malformed" \notin Faults

\* ... or no such packet is read in this step.
ReadsWell   == TxReadsWell \/ ~(Receive /\ RecvMalformed)

\* Without explicit transactions fc.tx is never nil.
TxFree == "begin" \notin Kinds => NilOK

\* Every step keeps TxFree, ...
LEMMA StepTxFree ==
  ASSUME PingFree, IInv, Deadlines, TxFree, [Next]_vars
  PROVE  TxFree'
  BY StepNil DEF TxFree

\* ... and TxBad.
LEMMA StepTxBad ==
  ASSUME PingFree, ReadsWell, IInv, Deadlines, TimedOK, TxFree, Owed, RowsKept, Sound, TxBad, [Next]_vars
  PROVE  TxBad'
<1>1. CASE "begin" \notin Kinds
  <2>1. TxFree'
    BY StepTxFree
  <2> QED
    BY <1>1, <2>1 DEF TxFree, NilOK, TxNeverNil, TxBad, InTx
<1>2. CASE "malformed" \notin Faults \/ ~(Receive /\ RecvMalformed)
  BY <1>2, DriverTxBad, ReceiveTxBad, OthersTxBad DEF Next, Driver
<1> QED
  BY <1>1, <1>2 DEF ReadsWell, TxReadsWell

LEMMA InitTxBad == Init => TxBad /\ TxFree
  BY InitNil DEF Init, WireInit, TxBad, InTx, TxFree

-----------------------------------------------------------------------------
(***************************************************************************)
(* The responses that are counted when an array is fetched.                *)
(***************************************************************************)

\* A BLOB precedes column n.
Blobs(n) == \E j \in DOMAIN Columns : j < n /\ Columns[j] = "blob"

\* Where responses are counted but not read: an array, whose reader has no skip
\* loop (opSliceResponse), is fetched only when there are none.
LazyOK ==
  /\ ~LazySend => lazy = 0
  /\ pc \in {"execute.read", "fetch.read"} /\ expect = <<>> /\ res = "nil" /\ ~Evict => lazy = 0
  /\ pc = "rows" /\ rows.chunk > 0 => lazy = 0 \/ ~HasArray
  /\ pc = "row" => lazy = 0 \/ ~HasArray \/ Blobs(rows.col)
  /\ pc = "slice.read" => lazy = 0

\* Where LazyOK looks at the count.
Reading == {"execute.read", "fetch.read", "slice.read", "row", "rows"}

\* Elsewhere only the server's version matters: an old one has none counted.
LEMMA Elsewhere ==
  ASSUME ~LazySend => lazy' = 0, pc' \notin Reading
  PROVE  LazyOK'
  BY DEF LazyOK, Reading

\* The count grows on lazy servers only.
LEMMA LazyCounts ==
  ASSUME IInv, Deadlines, LazyOK, Transaction \/ Statement \/ Cursor \/ Ping \/ PingRead \/ Teardown
  PROVE  ~LazySend => lazy' = 0
<1>0. WireStep /\ lazy \in Nat
  BY WireSteps, WireParts
<1>1. ASSUME NEW rs, NEW a, NEW d, NEW k, Write(rs, a, 0, d, k) PROVE lazy' = lazy
  BY <1>0, <1>1, WriteMoves
<1>2. CASE Silent \/ Draining
  BY <1>2 DEF Silent, Draining, CancelAndDrain, LazyOK
<1>3. CASE Asking \/ AskingBlindly \/ Executing
  BY <1>1, <1>3 DEF Asking, AskingBlindly, Executing, Ask, AskBlindly, LazyOK
<1>4. CASE AskingLazily \/ Reclaiming
  BY <1>4 DEF AskingLazily, Reclaiming
<1> QED
  BY <1>0, <1>2, <1>3, <1>4 DEF WireStep

\* Where transaction.go leads, ...
LEMMA TransactionPlaces ==
  ASSUME IInv, Transaction
  PROVE  pc' \notin Reading
<1>1. Begin \/ CommitRetaining \/ Commit \/ Rollback => pc' \in {"tx.begun", "commitRetaining.read", "commit.read", "rollback.read"}
  BY DEF Begin, CommitRetaining, Commit, Rollback, Goto
<1>2. BeginRead => pc' \in {"prepare.begun", "run.begun", "immediate.begun", "begin.done"}
  BY BegunMoves
<1>3. CommitRetainingRead => pc' \in {"exec.committed", "immediate.done", "exec.done", "freed"}
  BY RetainedMoves
<1>4. CommitRead \/ RollbackRead \/ BeginTxDone => pc' \in {"idle", "close"}
  BY EndMoves DEF CommitRead, RollbackRead, BeginTxDone
<1>5. BeginTx => pc' = "tx.begin"
  BY DEF BeginTx, Call, Enter
<1> QED
  BY <1>1, <1>2, <1>3, <1>4, <1>5 DEF Transaction, Reading

\* A read that succeeded in time is not given up.
LEMMA NotEvicted ==
  ASSUME IInv, Deadlines, RowsKept, pc \in {"execute.read", "fetch.read"}, res = "nil", pc = "execute.read" => ~expired
  PROVE  ~Evict
<1>1. ~IsBad(err) /\ ~rows.bad
  BY CleanAt DEF Places
<1> QED
  BY <1>1 DEF Evict, GivingUp, Deadlines, HolderOK, Closing

\* ... and statement.go.
LEMMA StatementPlaces ==
  ASSUME IInv, Deadlines, RowsKept, Statement, pc' \in Reading
  PROVE  \/ Execute
         \/ pc' = "rows" /\ pc = "execute.read" /\ expect = <<>> /\ res = "nil" /\ ~expired /\ lazy' = lazy
<1>1. ASSUME NEW e, Finish(e) PROVE FALSE
  BY <1>1, FinishMoves, EndMoves DEF Reading
<1>2. ASSUME NEW e, Leave(e)
      PROVE  pc' = "rows" /\ e = "nil" /\ job.kind \in {"query", "stmtQuery", "scroll"}
  <2>1. pc' = "rows"
    BY <1>1, <1>2, LeaveMoves DEF Reading
  <2> QED
    BY <1>2, <2>1, LeaveRows
<1>3. ASSUME NEW op, Abandon(op), res # "nil" PROVE FALSE
  <2>1. ~Continue("drain.read")
    BY DEF Continue, Goto, Reading
  <2>2. PICK e : e = (IF expired THEN "bad" ELSE res) /\ Leave(e)
    BY <1>3, <2>1, Abandons
  <2>3. e # "nil"
    BY <1>3, <2>2
  <2> QED
    BY <1>2, <2>2, <2>3
<1>4. CASE Prepare \/ PrepareBegun \/ Allocate \/ PrepareStatement \/ PrepareRead \/ Run \/ RunBegun \/ Bind \/ Upload
           \/ UploadRead \/ UploadClosed \/ Execute
  BY <1>1, <1>4 DEF Prepare, PrepareBegun, Allocate, PrepareStatement, PrepareRead, Run, RunBegun, Bind, Upload, UploadRead,
       UploadClosed, Panic, Continue, Call, Enter, Goto, Reading
<1>5. CASE Immediate \/ ImmediateBegun \/ ImmediateSend \/ ImmediateRead \/ ImmediateDone \/ Free \/ FreeRead \/ Freed \/ ExecDone
  BY <1>1, <1>5, FreedMoves DEF Immediate, ImmediateBegun, ImmediateSend, ImmediateRead, ImmediateDone, Free, Freed, ExecDone,
       Panic, Continue, Call, Enter, Goto, Reading
<1>6. CASE ScrollRefused \/ BindRead \/ SliceStored
  BY <1>2, <1>6 DEF ScrollRefused, BindRead, SliceStored, Continue, Goto, Reading
<1>7. CASE DrainRead
  <2>1. expired /\ Leave("bad")
    BY <1>7 DEF DrainRead, At, Deadlines, TimeoutOK
  <2> QED
    BY <1>2, <2>1
<1>8. CASE InfoRead \/ ExecCommitted
  <2>1. job.kind \in {"exec", "stmtExec"}
    BY <1>8 DEF InfoRead, ExecCommitted, At, RowsKept, InfoKind
  <2>2. (\E e : Leave(e)) \/ (res # "nil" /\ Abandon("info")) \/ Call("commitRetaining", "exec.committed")
    BY <1>8 DEF InfoRead, ExecCommitted
  <2>3. ~Call("commitRetaining", "exec.committed")
    BY DEF Call, Enter, Reading
  <2> QED
    BY <1>2, <1>3, <2>1, <2>2, <2>3
<1>9. CASE ExecuteRead
  <2>1. ~Continue("info.read")
    BY DEF Continue, Goto, Reading
  <2>2. res = "nil" /\ ~expired /\ Disarm /\ Leave("nil")
    BY <1>2, <1>3, <1>9, <2>1 DEF ExecuteRead
  <2> QED
    BY <1>2, <1>9, <2>2 DEF ExecuteRead, At, Disarm, SetDeadline
<1> QED
  BY <1>4, <1>5, <1>6, <1>7, <1>8, <1>9 DEF Statement

\* statement.go keeps LazyOK.
LEMMA StatementLazy ==
  ASSUME IInv, Deadlines, RowsKept, LazyOK, Statement
  PROVE  LazyOK'
<1>0. ~LazySend => lazy' = 0
  BY LazyCounts
<1>1. CASE Execute
  <2>1. pc' = "execute.read" /\ \E rs, c, d, k : \/ Write(rs, <<"execute">>, c, d, k)
                                                 \/ Write(rs, <<"sql", "execute">>, c, d, k)
    BY <1>1 DEF Execute, Goto
  <2>2. res' = "nil" => expect' # <<>>
    BY <2>1, WriteMoves, Tails
  <2> QED
    BY <1>0, <2>1, <2>2 DEF LazyOK
<1>2. CASE pc' = "rows" /\ pc = "execute.read" /\ expect = <<>> /\ res = "nil" /\ ~expired /\ lazy' = lazy
  <2>1. lazy = 0
    BY <1>2, NotEvicted DEF LazyOK
  <2> QED
    BY <1>0, <1>2, <2>1 DEF LazyOK
<1> QED
  BY <1>0, <1>1, <1>2, StatementPlaces, Elsewhere

\* The columns already read.
LEMMA BlobsGrow ==
  ASSUME NEW n \in Nat
  PROVE  /\ Blobs(n) => Blobs(n + 1)
         /\ n \in DOMAIN Columns /\ Columns[n] = "blob" => Blobs(n + 1)
<1>1. \A j \in DOMAIN Columns : j \in Nat
  BY SessionAssumption
<1>2. \A j \in Nat : j < n => j < n + 1
  OBVIOUS
<1>3. n < n + 1
  OBVIOUS
<1> QED
  BY <1>1, <1>2, <1>3 DEF Blobs

\* The column that is being read exists.
LEMMA InColumns ==
  ASSUME IInv, RowsKept, pc \in RowPlaces, rows.col <= Len(Columns)
  PROVE  rows.col \in DOMAIN Columns /\ rows.col \in Nat
<1>1. rows.col \in Nat /\ rows.col >= 1
  BY RowFields DEF RowsKept, Locale
<1>2. DOMAIN Columns = 1..Len(Columns) /\ Len(Columns) \in Nat
  BY SessionAssumption
<1> QED
  BY <1>1, <1>2

\* Rows that fail are read no further, ...
LEMMA FailsLazy ==
  ASSUME IInv, ~LazySend => lazy' = 0, NEW b \in BOOLEAN, RowsFail(b)
  PROVE  LazyOK'
<1>1. pc' = "rows" /\ rows' = [rows EXCEPT !.bad = b, !.more = FALSE, !.chunk = 0, !.fetched = FALSE]
  BY DEF RowsFail, Goto
<1>2. rows'.chunk = 0
  BY <1>1, RowFields
<1> QED
  BY <1>1, <1>2 DEF LazyOK

\* ... and the next column follows those already read.
LEMMA NextLazy ==
  ASSUME IInv, RowsKept, ~LazySend => lazy' = 0, NextColumn, lazy' = lazy, pc \in RowPlaces,
         lazy = 0 \/ ~HasArray \/ Blobs(rows.col) \/ (rows.col <= Len(Columns) /\ Columns[rows.col] = "blob")
  PROVE  LazyOK'
<1>1. pc' = "row" /\ rows' = [rows EXCEPT !.col = @ + 1]
  BY DEF NextColumn, Goto
<1>2. rows'.col = rows.col + 1 /\ rows.col \in Nat
  BY <1>1, RowFields
<1>3. lazy = 0 \/ ~HasArray \/ Blobs(rows.col + 1)
  BY <1>2, InColumns, BlobsGrow
<1> QED
  BY <1>1, <1>2, <1>3 DEF LazyOK

\* rows.go keeps LazyOK, ...
LEMMA CursorLazy ==
  ASSUME SlicesFirst, IInv, Deadlines, RowsKept, LazyOK, Cursor
  PROVE  LazyOK'
<1>0. ~LazySend => lazy' = 0
  BY LazyCounts
<1>1. CASE RowsClose \/ ScrollClose \/ ScrollFetch
  <2>1. pc' \in {"free", "fetch"} \/ \E e : Finish(e)
    BY <1>1 DEF RowsClose, ScrollClose, ScrollFetch, Continue, Goto
  <2>2. pc' \in {"free", "fetch", "idle", "close"}
    BY <2>1, FinishMoves, EndMoves
  <2> QED
    BY <1>0, <2>2, Elsewhere DEF Reading
<1>2. CASE RowsExpired
  BY <1>0, <1>2, FailsLazy DEF RowsExpired
<1>3. CASE RowsNext
  <2>1. CASE rows.chunk > 0 /\ pc = "rows" /\ pc' = "row" /\ UNCHANGED wireVars
    BY <1>0, <2>1 DEF LazyOK, wireVars
  <2>2. CASE pc' = "fetch"
    BY <1>0, <2>2, Elsewhere DEF Reading
  <2> QED
    BY <1>3, <2>1, <2>2 DEF RowsNext, Goto, At
<1>4. CASE Fetch
  <2>1. pc' = "fetch.read" /\ \E rs, c, d, k : Write(rs, <<"fetch">>, c, d, k)
    BY <1>4 DEF Fetch, Goto, Ask
  <2>2. res' = "nil" => expect' # <<>>
    BY <2>1, WriteMoves, Tails
  <2> QED
    BY <1>0, <2>1, <2>2 DEF LazyOK
<1>5. CASE FetchRead
  <2>1. CASE res = "nil"
    <3>1. lazy' = lazy /\ pc' \in {"rows", "row"} /\ pc = "fetch.read" /\ expect = <<>>
      BY <1>5, <2>1 DEF FetchRead, At, Disarm, SetDeadline, Goto, wireVars
    <3>2. lazy = 0
      BY <2>1, <3>1, NotEvicted DEF LazyOK
    <3> QED
      BY <1>0, <3>1, <3>2 DEF LazyOK
  <2>2. CASE res # "nil"
    <3>1. RowsFail(expired \/ IsBad(res))
      BY <1>5, <2>2 DEF FetchRead
    <3>2. (expired \/ IsBad(res)) = TRUE \/ (expired \/ IsBad(res)) = FALSE
      OBVIOUS
    <3>3. RowsFail(TRUE) \/ RowsFail(FALSE)
      BY <3>1, <3>2 DEF RowsFail
    <3> QED
      BY <1>0, <3>3, FailsLazy
  <2> QED
    BY <2>1, <2>2
<1>6. CASE Row
  <2>0. pc = "row" /\ (lazy = 0 \/ ~HasArray \/ Blobs(rows.col)) /\ lazy \in Nat
    BY <1>6, WireParts DEF Row, At, LazyOK
  <2>1. CASE Goto("rows") /\ lazy' = lazy /\ rows' = [rows EXCEPT !.fetched = FALSE]
    <3>2. rows'.chunk = rows.chunk
      BY <2>1, RowFields
    <3>1. rows.chunk > 0 => lazy = 0 \/ ~HasArray
      <4>1. Blobs(rows.col) => HasBlob
        BY DEF Blobs, HasBlob
      <4>2. LazySend /\ HasArray /\ HasBlob => rows.chunk = 0
        BY <2>0 DEF RowsKept, ChunkOK, RowPlaces
      <4>3. ~LazySend => lazy = 0
        BY DEF LazyOK
      <4> QED
        BY <2>0, <4>1, <4>2, <4>3
    <3> QED
      BY <1>0, <2>1, <3>1, <3>2 DEF Goto, LazyOK
  <2>2. CASE NextColumn /\ UNCHANGED wireVars
    BY <1>0, <2>0, <2>2, NextLazy DEF RowPlaces, wireVars
  <2>3. CASE Goto("blob.read")
    BY <1>0, <2>3, Elsewhere DEF Goto, Reading
  <2>4. CASE rows.col <= Len(Columns) /\ Columns[rows.col] = "array" /\ Ask("slice", txs[cur].h, 0, armed) /\ Goto("slice.read")
    <3>1. lazy' = lazy
      <4>1. lazy' = lazy \/ lazy' = lazy + 0
        BY <2>4 DEF Ask, Write
      <4> QED
        BY <2>0, <4>1
    <3>2. rows.col \in DOMAIN Columns
      BY <2>0, <2>4, InColumns DEF RowPlaces
    <3>3. HasArray
      BY <2>4, <3>2 DEF HasArray
    <3>4. ASSUME LazySend, Blobs(rows.col) PROVE FALSE
      <4>1. PICK j \in DOMAIN Columns : j < rows.col /\ Columns[j] = "blob"
        BY <3>4 DEF Blobs
      <4>2. rows.col < j
        BY <2>4, <3>2, <3>4, <4>1 DEF SlicesFirst
      <4>3. j \in Nat /\ rows.col \in Nat
        BY <3>2, SessionAssumption
      <4> QED
        BY <4>1, <4>2, <4>3
    <3>5. lazy = 0
      BY <2>0, <3>3, <3>4 DEF LazyOK
    <3> QED
      BY <1>0, <2>4, <3>1, <3>5 DEF Goto, LazyOK
  <2>5. NextReturns => lazy' = lazy
    BY DEF NextReturns, Disarm, SetDeadline, wireVars
  <2> QED
    BY <1>6, <2>1, <2>2, <2>3, <2>4, <2>5 DEF Row
<1>7. CASE BlobRead \/ SegmentRead \/ ColumnRead
  <2>1. \/ RowsFail(IsBad(res))
        \/ NextColumn /\ UNCHANGED wireVars /\ pc \in {"blob.closed", "slice.read"}
        \/ pc' \in {"segment.read", "blob.closed"}
    BY <1>7 DEF BlobRead, SegmentRead, ColumnRead, ColumnFails, At, Goto
  <2>2. CASE RowsFail(IsBad(res))
    <3>1. IsBad(res) = TRUE \/ IsBad(res) = FALSE
      BY DEF IsBad
    <3>2. RowsFail(TRUE) \/ RowsFail(FALSE)
      BY <2>2, <3>1 DEF RowsFail
    <3> QED
      BY <1>0, <3>2, FailsLazy
  <2>3. CASE NextColumn /\ UNCHANGED wireVars /\ pc \in {"blob.closed", "slice.read"}
    <3>1. lazy = 0 \/ (rows.col <= Len(Columns) /\ Columns[rows.col] = "blob")
      BY <2>3 DEF LazyOK, RowsKept, Locale
    <3> QED
      BY <1>0, <2>3, <3>1, NextLazy DEF RowPlaces, wireVars
  <2>4. CASE pc' \in {"segment.read", "blob.closed"}
    BY <1>0, <2>4, Elsewhere DEF Reading
  <2> QED
    BY <2>1, <2>2, <2>3, <2>4
<1> QED
  BY <1>1, <1>2, <1>3, <1>4, <1>5, <1>6, <1>7 DEF Cursor

\* A read decreases the count, if it changes it.
LEMMA ReceivesLazy ==
  ASSUME IInv, Receive
  PROVE  lazy' = lazy \/ (RecvSkip /\ lazy > 0 /\ lazy' = lazy - 1)
<1>1. CASE RecvSkip
  BY <1>1 DEF RecvSkip, ToSkip
<1>2. CASE RecvOwn
  BY <1>2 DEF RecvOwn, ReadEnds
<1>3. CASE RecvGarbage
  BY <1>3 DEF RecvGarbage, GiveUp, ReadEnds
<1>4. CASE RecvMalformed
  BY <1>4 DEF RecvMalformed, ReadEnds
<1>5. CASE DeadlineFires
  BY <1>5 DEF DeadlineFires, RecvTimeout, GiveUp, ReadEnds
<1> QED
  BY <1>1, <1>2, <1>3, <1>4, <1>5 DEF Receive

\* A read that succeeds has skipped all that was counted.
LEMMA ReadsAll ==
  ASSUME IInv, Owed, Agrees, Receive, pc \in {"execute.read", "fetch.read"}, expect' = <<>>, res' = "nil"
  PROVE  lazy' = 0
<1>0. lazy \in Nat /\ expect # <<>> /\ pend \in Seq(Request)
  BY WireParts, ReceivesMore
<1>1. RecvOwn
  <2>1. ~RecvSkip
    BY <1>0 DEF RecvSkip
  <2>2. ~RecvGarbage /\ ~RecvMalformed /\ ~DeadlineFires
    BY DEF RecvGarbage, RecvMalformed, DeadlineFires, RecvTimeout, GiveUp, ReadEnds
  <2> QED
    BY <2>1, <2>2 DEF Receive
<1> DEFINE t == Head(pend)
           e == Head(expect)
<1>2. Arrived /\ ~ToSkip /\ OutcomeOf(e, t) = "nil" /\ lazy' = lazy
  BY <1>1 DEF RecvOwn, ReadEnds
<1>3. expect' = Tail(expect)
  BY <1>1 DEF RecvOwn, ReadEnds
<1>4. expect = <<"execute">> \/ expect = <<"fetch">>
  BY <1>0, <1>3, Tails DEF Owed, ExpectOK
<1>5. CASE expect = <<"execute">>
  <2>1. e = "execute"
    BY <1>5, Tails
  <2>2. Packet(t) = "response"
    BY <1>2, <2>1 DEF OutcomeOf, Parses, Typed
  <2>3. Skips(e)
    BY <2>1 DEF Skips
  <2> QED
    BY <1>0, <1>2, <2>2, <2>3 DEF ToSkip
<1>6. CASE expect = <<"fetch">>
  <2>1. e = "fetch"
    BY <1>6, Tails
  <2>2. Packet(t) = "fetch"
    BY <1>2, <2>1 DEF OutcomeOf, Parses, Typed
  <2>3. t.op = "fetch"
    BY <2>2 DEF Packet
  <2>4. t.op \in Uncollected \/ lazy = 0
    <3>1. pend # <<>> /\ t = pend[1] /\ 1 \in 1..Len(pend)
      BY <1>0, <1>2 DEF Arrived
    <3> QED
      BY <1>0, <3>1 DEF Agrees, Matches
  <2> QED
    BY <1>2, <2>3, <2>4 DEF Uncollected
<1> QED
  BY <1>4, <1>5, <1>6

\* ... a read does, ...
LEMMA ReceiveLazy ==
  ASSUME IInv, Owed, Sound, LazyOK, Receive
  PROVE  LazyOK'
<1>0. UNCHANGED <<pc, rows>> /\ lazy \in Nat
  BY WireParts, ReceivesMore DEF ctlVars, dataVars, callVars
<1>1. lazy = 0 => lazy' = 0
  BY <1>0, ReceivesLazy
<1>2. ASSUME pc \in {"execute.read", "fetch.read"}, expect' = <<>>, res' = "nil", ~Evict' PROVE lazy' = 0
  <2>1. ~Evict
    BY <1>2, EvictAround
  <2> QED
    BY <1>2, <2>1, ReadsAll DEF Sound, Spoiled
<1> QED
  BY <1>0, <1>1, <1>2 DEF LazyOK

\* ... the application and the environment, ...
LEMMA OthersLazy ==
  ASSUME IInv, Deadlines, LazyOK, Application \/ Environment \/ UNCHANGED vars
  PROVE  LazyOK'
<1>1. CASE CallStart \/ Retry \/ TxEnd
  <2>1. lazy' = lazy /\ pc' \in {"prepare", "run", "free", "begin", "ping", "immediate", "commit", "rollback"}
    BY <1>1, CallMoves, RetryMoves, Starts, StartsAgain DEF TxEnd, Retry, wireVars, Goto
  <2> QED
    BY <2>1, Elsewhere DEF Reading, LazyOK
<1>2. CASE Reconnect
  <2>1. lazy' = 0
    BY <1>2 DEF Reconnect, WireReset
  <2> QED
    BY <2>1 DEF LazyOK
<1>3. CASE Stopped \/ UNCHANGED vars
  BY <1>3 DEF Stopped, vars, wireVars, ctlVars, dataVars, callVars, LazyOK, Evict, GivingUp
<1>4. CASE Server \/ CtxDone \/ Watcher \/ SocketDeath
  <2>1. UNCHANGED <<pc, rows, lazy, expect, res>>
    BY <1>4 DEF Server, Answer, CtxDone, Watcher, WatcherCancel, SocketDeath, SocketDies, ctlVars, callVars, dataVars, wireVars
  <2>2. ~Evict' => ~Evict
    BY <1>4, EvictAround
  <2> QED
    BY <2>1, <2>2 DEF LazyOK
<1>5. CASE PingWatcher
  BY <1>5 DEF PingWatcher, Deadlines, PingOK
<1> QED
  BY <1>1, <1>2, <1>3, <1>4, <1>5 DEF Application, Environment

\* ... so every step does.
LEMMA StepLazy ==
  ASSUME SlicesFirst, IInv, Deadlines, Owed, RowsKept, Sound, LazyOK, [Next]_vars
  PROVE  LazyOK'
<1>1. CASE Transaction \/ Ping \/ PingRead \/ Teardown
  <2>1. pc' \notin Reading
    <3>1. Ping \/ PingRead \/ Teardown => pc' \in {"idle", "close", "ping.read", "close.read", "detach.read"}
      BY FinishMoves, EndMoves DEF Ping, PingRead, Teardown, Close, CloseRead, DetachRead, Continue, Goto
    <3> QED
      BY <1>1, <3>1, TransactionPlaces DEF Reading
  <2> QED
    BY <1>1, <2>1, LazyCounts, Elsewhere
<1> QED
  BY <1>1, StatementLazy, CursorLazy, ReceiveLazy, OthersLazy DEF Next, Driver

LEMMA InitLazy == Init => LazyOK
  BY DEF Init, WireInit, LazyOK

-----------------------------------------------------------------------------
(***************************************************************************)
(* Every step keeps a connection sound.                                    *)
(***************************************************************************)

\* Every step of a connection given up, and every write on one in good standing,
\* keeps it sound.
LEMMA DriverSound ==
  ASSUME IInv, Deadlines, TimedOK, Owed, AllocOK, Sound, Transaction \/ Statement \/ Cursor \/ Ping \/ PingRead \/ Teardown
  PROVE  Sound'
<1>1. Evict' /\ Doomed' => Sound'
  BY DEF Sound, Spoiled
<1>2. CASE Evict
  BY <1>1, <1>2, EvictMoves
<1>3. CASE ~Evict
  <2>0. Agrees /\ WireStep
    BY <1>3, WireSteps DEF Sound, Spoiled
  <2>1. SUFFICES ASSUME ~(Evict' /\ Doomed') PROVE Agrees'
    BY <1>1 DEF Sound
  <2>2. CASE Silent
    <3>1. ~RowsExpired
      <4> SUFFICES ASSUME RowsExpired PROVE Evict' /\ Doomed'
        BY <2>1
      <4>1. expired /\ RowsFail(TRUE) /\ holder' = holder /\ pc = "rows"
        BY DEF RowsExpired, At, rowsElse
      <4>2. holder = "call" /\ stack = <<>>
        BY <4>1, Stacks DEF Plain, Places, Deadlines, HolderOK, TimedOK
      <4> QED
        BY <4>1, <4>2, BadRows
    <3> QED
      BY <2>0, <2>2, <3>1, UnsentAgrees DEF Silent
  <2>3. CASE Asking
    BY <2>0, <2>3, AskAgrees DEF Asking, Ask
  <2>4. CASE AskingBlindly
    BY <2>0, <2>4, AskAgrees DEF AskingBlindly, AskBlindly
  <2>5. CASE AskingLazily
    BY <2>0, <2>5, LazilyAgrees DEF AskingLazily, Uncollected
  <2>6. CASE Reclaiming
    BY <2>0, <2>6, ReclaimAgrees DEF Reclaiming
  <2>7. CASE Executing
    <3>1. "execute" \in Ops
      BY DEF Ops
    <3> QED
      BY <2>0, <2>7, <3>1, AskAgrees, ExecuteAgrees DEF Executing
  <2>8. ~Draining
    <3> SUFFICES ASSUME Draining PROVE Evict' /\ Doomed'
      BY <2>1
    <3>1. expired /\ pc' = "drain.read" /\ UNCHANGED callVars
      BY DEF Draining, Deadlines, TimeoutOK
    <3>2. holder = "call"
      BY <3>1 DEF Deadlines, HolderOK, TimedOK
    <3> QED
      BY <3>1, <3>2 DEF callVars, Evict, GivingUp, Doomed
  <2> QED
    BY <2>0, <2>2, <2>3, <2>4, <2>5, <2>6, <2>7, <2>8 DEF WireStep
<1> QED
  BY <1>2, <1>3

\* A connection given up for good stays so, whatever is read.
LEMMA SpoilsFurther ==
  ASSUME IInv, Evict, Doomed, Receive
  PROVE  Sound'
<1>1. UNCHANGED <<pc, holder, err, rows, expired>>
  BY ReceivesMore DEF ctlVars, dataVars, callVars
<1>2. Evict'
  BY EvictAround
<1> QED
  BY <1>1, <1>2 DEF Sound, Spoiled, Doomed

\* The skip loop reads what was counted.
LEMMA SkipSound ==
  ASSUME IInv, Agrees, RecvSkip
  PROVE  Agrees'
<1>1. /\ pend # <<>> /\ lazy > 0 /\ pend' = Tail(pend) /\ lazy' = lazy - 1
      /\ UNCHANGED <<expect, writer, sock, torn, misread>>
  BY DEF RecvSkip, ToSkip, Arrived
<1>2. pend \in Seq(Request) /\ lazy \in Nat /\ expect \in Seq(Ops)
  BY WireParts
<1>3. /\ Matches(Tail(pend), lazy - 1, expect)
      /\ Len(pend) = lazy + Len(expect) => Len(Tail(pend)) = lazy - 1 + Len(expect)
  BY <1>1, <1>2, MatchesSkipped DEF Agrees
<1> QED
  BY <1>1, <1>3 DEF Agrees

\* Which requests are awaited, and where.
LEMMA AwaitedUntyped ==
  ASSUME ExpectOK, expect # <<>>, pc \notin {"fetch.read", "slice.read", "execute.read"}
  PROVE  /\ Head(expect) \in Untyped
         /\ pc # "prepare.read" => Tail(expect) = <<>>
<1>1. pc \in ReadPlaces
  BY DEF ExpectOK
<1>2. Head(expect) \in Untyped
  BY <1>1, AwaitedHead
<1>3. ASSUME pc # "prepare.read" PROVE Tail(expect) = <<>>
  <2>1. PICK op \in Untyped : expect = <<op>>
    BY <1>1, <1>3 DEF ExpectOK
  <2> QED
    BY <2>1, Tails
<1> QED
  BY <1>2, <1>3

\* In the readers of typed packets it is theirs.
LEMMA AwaitedTyped ==
  ASSUME ExpectOK, expect # <<>>, pc \in {"fetch.read", "slice.read", "execute.read"}
  PROVE  \/ Head(expect) \in {"fetch", "slice", "execute"} /\ Tail(expect) = <<>>
            /\ (Head(expect) = "slice" => pc = "slice.read")
         \/ Head(expect) = "sql" /\ Tail(expect) = <<"execute">> /\ pc = "execute.read"
<1>1. CASE pc = "fetch.read"
  <2>1. expect = <<"fetch">>
    BY <1>1 DEF ExpectOK
  <2> QED
    BY <2>1, Tails
<1>2. CASE pc = "slice.read"
  <2>1. expect = <<"slice">>
    BY <1>2 DEF ExpectOK
  <2> QED
    BY <1>2, <2>1, Tails
<1>3. CASE pc = "execute.read"
  <2>1. expect = <<"execute">> \/ expect = <<"sql", "execute">>
    BY <1>3 DEF ExpectOK
  <2> QED
    BY <1>3, <2>1, Tails
<1> QED
  BY <1>1, <1>2, <1>3

\* Which requests are awaited, and where.
LEMMA Awaited ==
  ASSUME ExpectOK, expect # <<>>
  PROVE  /\ Head(expect) \in Untyped \cup {"fetch", "slice", "sql"}
         /\ Head(expect) = "slice" => pc = "slice.read"
         /\ Head(expect) \notin Untyped => pc \in {"fetch.read", "slice.read", "execute.read"}
         /\ pc # "prepare.read" => Tail(expect) = <<>> \/ Head(expect) = "sql"
<1>1. "execute" \in Untyped /\ "slice" \notin Untyped
  BY UntypedOps DEF Untyped, Typed
<1>2. CASE pc \in {"fetch.read", "slice.read", "execute.read"}
  BY <1>1, <1>2, AwaitedTyped
<1>3. CASE pc \notin {"fetch.read", "slice.read", "execute.read"}
  BY <1>1, <1>3, AwaitedUntyped
<1> QED
  BY <1>2, <1>3

\* The packet taken for the answer to a request is that answer.
LEMMA OwnSound ==
  ASSUME IInv, Owed, SqlOK, LazyOK, Agrees, RecvOwn
  PROVE  Agrees'
<1> DEFINE t == Head(pend)
           e == Head(expect)
           o == OutcomeOf(e, t)
<1>1. /\ expect # <<>> /\ Arrived /\ ~ToSkip /\ pend' = Tail(pend)
      /\ torn' = (Packet(t) \notin Parses(e)) /\ misread' = (misread \/ t.op # e)
      /\ expect' = (IF o # "nil" /\ e \in StopsAtError THEN <<>> ELSE Tail(expect))
      /\ UNCHANGED <<lazy, writer, sock>>
  BY DEF RecvOwn, ReadEnds
<1>2. pend \in Seq(Request) /\ lazy \in Nat /\ expect \in Seq(Ops) /\ pend # <<>>
  BY <1>1, WireParts DEF Arrived
<1>3. t = pend[1] /\ 1 \in 1..Len(pend)
  BY <1>2
<1>4. /\ e \in Untyped \cup {"fetch", "slice", "sql"}
      /\ e = "slice" => pc = "slice.read"
  BY <1>1, Awaited DEF Owed
<1>5. lazy = 0
  <2> SUFFICES ASSUME lazy > 0 PROVE FALSE
    BY <1>2
  <2>1. t.op \in Uncollected
    BY <1>2, <1>3 DEF Agrees, Matches
  <2>2. Packet(t) = "response"
    BY <2>1 DEF Packet, Uncollected, Typed
  <2>3. ~Skips(e)
    BY <1>1, <2>2 DEF ToSkip
  <2> QED
    BY <1>4, <2>3 DEF Skips, LazyOK
<1>6. /\ t.op = e /\ Matches(Tail(pend), 0, Tail(expect))
      /\ Len(pend) = 0 + Len(expect) => Len(Tail(pend)) = 0 + Len(Tail(expect))
  BY <1>1, <1>2, <1>5, MatchesRead DEF Agrees
<1>7. Packet(t) \in Parses(e)
  BY <1>6 DEF Packet, Parses
<1>8. expect' = Tail(expect)
  <2>1. CASE e = "sql"
    <3>1. t.st # "err"
      BY <1>3, <1>6, <2>1 DEF SqlOK
    <3>2. o = "nil"
      BY <1>7, <2>1, <3>1 DEF OutcomeOf, Typed
    <3> QED
      BY <1>1, <3>2
  <2>2. CASE e # "sql"
    <3>1. e \notin StopsAtError
      BY <1>4, <2>2 DEF Untyped, StopsAtError
    <3> QED
      BY <1>1, <3>1
  <2> QED
    BY <2>1, <2>2
<1>9. ~misread' /\ ~torn'
  BY <1>1, <1>6, <1>7 DEF Agrees
<1> HIDE DEF t, e, o
<1> QED
  BY <1>1, <1>5, <1>6, <1>8, <1>9 DEF Agrees

\* Nothing is left to be taken for another answer.
LEMMA DeadSound ==
  ASSUME IInv, IInv', Agrees, DeadEmpty, NEW o, GiveUp(o), sock' = sock
  PROVE  Agrees'
<1>1. pend' = <<>> /\ torn' = torn /\ misread' = misread /\ Len(<<>>) = 0 /\ sock' = "dead"
  BY DEF DeadEmpty, GiveUp, Arrived
<1>2. lazy' \in Nat /\ expect' \in Seq(Ops)
  BY DEF IInv, WireInv, WireTypeOK
<1>3. Len(expect') \in Nat
  BY <1>2
<1>4. Matches(pend', lazy', expect')
  BY <1>1, <1>2, <1>3 DEF Matches
<1> QED
  BY <1>1, <1>4 DEF Agrees

\* A typed packet that cannot be parsed ends in ErrBadConn.
LEMMA MalformedSound ==
  ASSUME TxReadsWell, "malformed" \in Faults, IInv, Deadlines, TxFree, Owed, Agrees, Receive, RecvMalformed
  PROVE  Sound'
<1>0. UNCHANGED <<pc, holder>>
  BY ReceivesMore DEF ctlVars, dataVars, callVars
<1>1. /\ expect # <<>> /\ Head(expect) \in Typed \cup {"sql"} /\ Packet(Head(pend)) = Head(expect)
      /\ res' = "bad" /\ misread' = (misread \/ Head(pend).op # Head(expect))
      /\ expect' = (IF Head(expect) \in StopsAtError THEN <<>> ELSE Tail(expect))
  BY DEF RecvMalformed, ReadEnds
<1>2. Head(expect) \notin Untyped
  BY <1>1 DEF Untyped, StopsAtError
<1>3. pc \in {"fetch.read", "slice.read", "execute.read"} /\ expect' = <<>>
  <2>1. pc \in {"fetch.read", "slice.read", "execute.read"}
    BY <1>1, <1>2, Awaited DEF Owed
  <2>2. Tail(expect) = <<>> \/ Head(expect) = "sql"
    BY <1>1, <2>1, Awaited DEF Owed
  <2> QED
    BY <1>1, <2>1, <2>2 DEF StopsAtError
<1>4. ~misread'
  BY <1>1 DEF Agrees, Packet, Typed
<1>5. holder = "call"
  BY <1>3 DEF TxReadsWell, TxFree, NilOK, TxNeverNil, Deadlines, HolderOK, Closing, IInv, CallType
<1> QED
  BY <1>0, <1>1, <1>3, <1>4, <1>5 DEF Sound, Spoiled, Evict, GivingUp

\* The columns of a row cost no round trip, or are read before the deadline of
\* the Next that fetched the row's chunk.
ColumnsTimed == Columns = <<>> \/ "latecolumn" \notin Faults

\* The deadline that cuts a column's read has nothing to wait for then.
LEMMA ColumnTimed ==
  ASSUME ColumnsTimed, IInv, RowsKept, pc \in ColumnPlaces
  PROVE  "latecolumn" \notin Faults
<1>1. rows.col \in Nat /\ rows.col >= 1 /\ rows.col <= Len(Columns)
  BY RowFields DEF RowsKept, Locale, ColumnPlaces, RowPlaces
<1>2. Len(<<>>) = 0
  OBVIOUS
<1>3. Columns # <<>>
  BY <1>1, <1>2
<1> QED
  BY <1>3 DEF ColumnsTimed

\* A read that times out ends in ErrBadConn, or had nothing to wait for.
LEMMA TimeoutSound ==
  ASSUME "stall" \notin Faults, ColumnsTimed, IInv, IInv', Deadlines, TimedOK, Owed, RowsKept, TxBad, Agrees, Receive, DeadlineFires
  PROVE  Sound'
<1>0. expect # <<>> /\ UNCHANGED <<pc, stack, holder, err, rows, expired, sock>> /\ pc \in ReadPlaces
  BY ReceivesMore DEF ctlVars, dataVars, callVars, Owed, ExpectOK
<1>1. GiveUp("timeout")
  BY DEF DeadlineFires, RecvTimeout
<1>2. ASSUME DeadEmpty PROVE Sound'
  BY <1>0, <1>1, <1>2, DeadSound DEF Sound
<1>3. ASSUME pend = <<>> PROVE Sound'
  <2>1. lazy \in Nat /\ Len(expect) \in Nat /\ Len(expect) # 0 /\ Len(pend) = 0 /\ sock \in {"up", "dead"}
    BY <1>0, <1>3, WireParts
  <2>2. sock = "dead"
    BY <2>1 DEF Agrees
  <2> QED
    BY <1>2, <1>3, <2>2 DEF DeadEmpty
<1>4. CASE armed = "ctx" /\ expired
  <2>4. CASE pc \in ColumnPlaces
    BY <1>3, <1>4, <2>4, ColumnTimed DEF DeadlineFires
  <2>5. SUFFICES ASSUME pc \notin ColumnPlaces PROVE Sound'
    BY <2>4
  <2>1. pc \in {"info.read", "fetch.read", "execute.read"} /\ holder = "call"
    BY <1>0, <1>4, <2>5 DEF ColumnPlaces, Deadlines, ArmedOK, TimeoutOK, HolderOK, TimedOK, UntimedPlaces, ReadPlaces
  <2>2. misread' = misread /\ res' # "nil" /\ (expect' = Tail(expect) \/ expect' = <<>>)
        /\ (Head(expect) \in StopsAtError => expect' = <<>>)
    BY <1>1 DEF GiveUp, ReadEnds
  <2>3. expect' = <<>>
    <3>1. Tail(expect) = <<>> \/ Head(expect) = "sql"
      BY <1>0, <2>1, Awaited DEF Owed
    <3> QED
      BY <2>2, <3>1 DEF StopsAtError
  <2> QED
    BY <1>0, <1>4, <2>1, <2>2, <2>3 DEF Agrees, Sound, Spoiled, Evict, GivingUp
<1>5. CASE armed = "fixed" /\ ~Doomed
  BY <1>3, <1>5 DEF DeadlineFires
<1>6. CASE Doomed
  <2>1. CASE holder \in {"closing", "gone"}
    BY <1>6, <2>1, SpoilsFurther DEF Evict
  <2>2. CASE holder = "call"
    <3>1. GivingUp
      BY <1>0, <1>6, <2>2 DEF Doomed, GivingUp, RowsKept, ErrBad, RowBad, ReadPlaces
    <3> QED
      BY <1>6, <2>2, <3>1, SpoilsFurther DEF Evict
  <2>3. CASE holder = "txcall"
    <3>1. ~expired
      BY <2>3 DEF Deadlines, HolderOK, TimedOK
    <3>2. DeadEmpty
      BY <1>0, <1>6, <2>3, <3>1 DEF Doomed, TxBad, InTx
    <3> QED
      BY <1>2, <3>2
  <2>4. holder \in {"closing", "gone", "call", "txcall"}
    BY <1>0 DEF IInv, CallType, Deadlines, HolderOK, ReadPlaces
  <2> QED
    BY <2>1, <2>2, <2>3, <2>4
<1> QED
  BY <1>4, <1>5, <1>6 DEF DeadlineFires, Deadlines, ArmedOK

\* So every read keeps the connection sound.
LEMMA ReceiveSound ==
  ASSUME "stall" \notin Faults, ColumnsTimed, ReadsWell, IInv, IInv', Deadlines, TimedOK, TxFree, Owed, RowsKept, TxBad, SqlOK, LazyOK,
         Sound, Receive
  PROVE  Sound'
<1>0. expect # <<>> /\ sock' = sock
  BY ReceivesMore
<1>1. CASE Spoiled
  BY <1>0, <1>1, SpoilsFurther DEF Spoiled
<1>2. CASE Agrees
  <2>1. CASE RecvSkip
    BY <1>2, <2>1, SkipSound DEF Sound
  <2>2. CASE RecvOwn
    BY <1>2, <2>2, OwnSound DEF Sound
  <2>3. CASE RecvGarbage
    BY <1>0, <1>2, <2>3, DeadSound DEF RecvGarbage, Agrees, DeadEmpty, Sound
  <2>4. CASE "malformed" \in Faults /\ RecvMalformed
    BY <1>2, <2>4, MalformedSound DEF ReadsWell
  <2>5. CASE DeadlineFires
    BY <1>2, <2>5, TimeoutSound
  <2> QED
    BY <2>1, <2>2, <2>3, <2>4, <2>5 DEF Receive
<1> QED
  BY <1>1, <1>2 DEF Sound

\* A connection given up stays so, whatever its environment does.
LEMMA SpoiledAround ==
  ASSUME IInv, Spoiled, Server \/ CtxDone \/ Watcher \/ SocketDeath
  PROVE  Spoiled'
<1>1. Evict'
  BY EvictAround DEF Spoiled
<1>2. CASE CtxDone
  BY <1>1, <1>2 DEF CtxDone, ctlVars, wireVars, Spoiled, Doomed
<1>3. CASE Server \/ Watcher \/ SocketDeath
  <2>1. UNCHANGED <<ctlVars, callVars, misread, expect>>
    BY <1>3, Answers DEF Watcher, WatcherCancel, SocketDeath, SocketDies, dataVars
  <2> QED
    BY <1>1, <2>1 DEF ctlVars, callVars, Spoiled, Doomed
<1> QED
  BY <1>2, <1>3

\* An answer changes no order, ...
LEMMA ServerSound ==
  ASSUME IInv, Agrees, Server
  PROVE  Agrees'
<1>1. pend \in Seq(Request) /\ lazy \in Nat /\ expect \in Seq(Ops)
  BY WireParts
<1>2. /\ UNCHANGED <<lazy, expect, writer, sock, torn, misread>>
      /\ pend' \in Seq(Request) /\ Len(pend') = Len(pend) /\ \A j \in 1..Len(pend) : pend'[j].op = pend[j].op
  BY Answers
<1>3. Matches(pend', lazy, expect)
  BY <1>1, <1>2, MatchesAnswered DEF Agrees
<1> QED
  BY <1>2, <1>3 DEF Agrees

\* ... nor does the death of the socket.
LEMMA DeathSound ==
  ASSUME IInv, Agrees, SocketDeath
  PROVE  Agrees'
<1>1. pend \in Seq(Request) /\ lazy \in Nat /\ expect \in Seq(Ops)
  BY WireParts
<1>2. UNCHANGED <<lazy, expect, writer, torn, misread>> /\ sock' = "dead" /\ \E n \in 0..Len(pend) : pend' = SubSeq(pend, 1, n)
  BY DEF SocketDeath, SocketDies
<1>3. PICK n \in 0..Len(pend) : pend' = SubSeq(pend, 1, n)
  BY <1>2
<1>4. Matches(pend', lazy, expect)
  BY <1>1, <1>3, MatchesCut DEF Agrees
<1> QED
  BY <1>2, <1>4 DEF Agrees

\* The application and the environment keep the connection sound, ...
LEMMA OthersSound ==
  ASSUME IInv, Deadlines, Sound, Application \/ Environment \/ UNCHANGED vars
  PROVE  Sound'
<1>1. CASE Server \/ CtxDone \/ Watcher \/ SocketDeath
  <2>1. CASE Spoiled
    BY <1>1, <2>1, SpoiledAround DEF Sound
  <2>2. CASE Agrees /\ CtxDone
    BY <2>2, UnsentAgrees DEF CtxDone, wireVars, Sound
  <2>3. CASE Agrees /\ Watcher
    <3>1. UNCHANGED <<pend, lazy, expect, sock, torn, misread>> /\ writer' = IF CanWrite THEN writer ELSE "sticky"
      BY <2>3 DEF Watcher, WatcherCancel, CancelWritten
    <3>2. sock = "up" => CanWrite
      BY DEF Deadlines, ArmedOK, CanWrite
    <3> QED
      BY <2>3, <3>1, <3>2 DEF Agrees, Sound
  <2> QED
    BY <1>1, <2>1, <2>2, <2>3, ServerSound, DeathSound DEF Sound
<1>2. CASE CallStart \/ Retry \/ TxEnd
  <2>1. pc = "idle" /\ holder \in {"pool", "tx"} /\ UNCHANGED wireVars
    BY <1>2 DEF CallStart, Retry, TxEnd
  <2>2. Agrees
    BY <2>1 DEF Sound, Spoiled, Evict
  <2> QED
    BY <2>1, <2>2, UnsentAgrees DEF wireVars, Sound
<1>3. CASE Reconnect
  <2>1. pend' = <<>> /\ lazy' = 0 /\ expect' = <<>> /\ writer' = "ok" /\ ~torn' /\ ~misread'
    BY <1>3 DEF Reconnect, WireReset
  <2>2. Len(<<>>) = 0
    OBVIOUS
  <2> QED
    BY <2>1, <2>2 DEF Agrees, Matches, Sound
<1>4. CASE PingWatcher
  BY <1>4 DEF PingWatcher, Deadlines, PingOK
<1>5. CASE Stopped \/ UNCHANGED vars
  BY <1>5 DEF Stopped, vars, ctlVars, wireVars, dataVars, callVars, Sound, Spoiled, Agrees, Matches, Doomed, Evict, GivingUp
<1> QED
  BY <1>1, <1>2, <1>3, <1>4, <1>5 DEF Application, Environment

\* ... so every step does, ...
LEMMA StepSound ==
  ASSUME "stall" \notin Faults, ColumnsTimed, ReadsWell, IInv, IInv', Deadlines, TimedOK, TxFree, Owed, RowsKept, AllocOK, SqlOK,
         TxBad, LazyOK, Sound, [Next]_vars
  PROVE  Sound'
<1>1. CASE Transaction \/ Statement \/ Cursor \/ Ping \/ PingRead \/ Teardown
  BY <1>1, DriverSound
<1>2. CASE Receive
  BY <1>2, ReceiveSound
<1>3. CASE Application \/ Environment \/ UNCHANGED vars
  BY <1>3, OthersSound
<1> QED
  BY <1>1, <1>2, <1>3 DEF Next, Driver

\* ... and a new connection is.
LEMMA InitSound ==
  ASSUME Init
  PROVE  AllocOK /\ SqlOK /\ Sound
<1>1. pend = <<>> /\ lazy = 0 /\ expect = <<>> /\ writer = "ok" /\ ~torn /\ ~misread /\ pc = "idle"
  BY DEF Init, WireInit
<1>2. Len(<<>>) = 0
  OBVIOUS
<1> QED
  BY <1>1, <1>2 DEF AllocOK, SqlOK, Sound, Agrees, Matches

\* What holds in any case, ...
Basics  == IInv /\ Deadlines /\ TimedOK /\ TxFree /\ Owed /\ RowsKept /\ SqlOK

\* ... what holds until a packet is torn in an explicit transaction, ...
Orderly == AllocOK /\ TxBad /\ LazyOK /\ Sound

\* ... and then.
Torn    == torn /\ ~misread

\* What a connection is spared for each response to be taken for its own.
Served == PoolTimed /\ ColumnsTimed /\ "stall" \notin Faults /\ "sql" \notin Fallible /\ SlicesFirst

\* A new connection is in order, ...
LEMMA InitOrderly == Init => Basics /\ Orderly
  BY InitInv, InitDeadlines, InitTimed, InitOwed, InitKept, InitTxBad, InitLazy, InitSound DEF Basics, Orderly

\* ... every step keeps what holds in any case, ...
LEMMA StepBasics ==
  ASSUME Served, Basics, [Next]_vars
  PROVE  Basics'
<1>0. /\ PoolTimed /\ PingFree /\ "sql" \notin Fallible /\ SlicesFirst
      /\ IInv /\ Deadlines /\ TimedOK /\ TxFree /\ Owed /\ RowsKept /\ SqlOK
  BY DEF Served, Basics, PoolTimed
<1>1. IInv'
  BY <1>0, NextInv
<1>2. Deadlines' /\ TimedOK' /\ TxFree' /\ Owed'
  BY <1>0, StepDeadlines, StepTimed, StepTxFree, StepOwed
<1>3. RowsKept' /\ SqlOK'
  BY <1>0, StepKept, StepSql
<1> QED
  BY <1>1, <1>2, <1>3 DEF Basics

\* ... and the order, unless it tears a packet in an explicit transaction.
LEMMA StepOrderly ==
  ASSUME Served, ReadsWell, Basics, Basics', Orderly, [Next]_vars
  PROVE  Orderly'
<1>0. /\ PoolTimed /\ PingFree /\ ColumnsTimed /\ "stall" \notin Faults /\ "sql" \notin Fallible /\ SlicesFirst
      /\ IInv /\ IInv' /\ Deadlines /\ TimedOK /\ TxFree /\ Owed /\ RowsKept /\ SqlOK
      /\ AllocOK /\ TxBad /\ LazyOK /\ Sound
  BY DEF Served, Basics, Orderly, PoolTimed
<1>1. AllocOK' /\ TxBad' /\ LazyOK'
  BY <1>0, StepAlloc, StepTxBad, StepLazy
<1>2. Sound'
  BY <1>0, StepSound
<1> QED
  BY <1>1, <1>2 DEF Orderly

\* A stream torn inside a packet is read no further.
LEMMA StepTorn ==
  ASSUME Basics, Torn, [Next]_vars, ~Reconnect
  PROVE  Torn'
<1>0. torn \in BOOLEAN /\ misread \in BOOLEAN
  BY WireParts DEF Basics
<1>1. UNCHANGED <<torn, misread>> => Torn'
  BY <1>0 DEF Torn
<1>2. CASE Transaction \/ Statement \/ Cursor \/ Ping \/ PingRead \/ Teardown
  <2>0. WireStep
    BY <1>2, WireSteps DEF Basics, Owed, ExpectOK
  <2>1. ASSUME NEW rs, NEW a, NEW c, NEW d, NEW k, Write(rs, a, c, d, k) PROVE Torn'
    BY <1>1, <2>1, WriteMoves
  <2>2. CASE Silent \/ Draining
    BY <1>1, <2>2 DEF Silent, Draining, CancelAndDrain
  <2>3. CASE Asking \/ AskingBlindly \/ Executing
    BY <2>1, <2>3 DEF Asking, AskingBlindly, Executing, Ask, AskBlindly
  <2>4. CASE AskingLazily \/ Reclaiming
    BY <2>1, <2>4 DEF AskingLazily, Reclaiming, AskLazily, AskReclaiming
  <2> QED
    BY <2>0, <2>2, <2>3, <2>4 DEF WireStep
<1>3. CASE Receive
  <2>1. ~Arrived
    BY DEF Arrived, Torn
  <2>2. ~RecvSkip /\ ~RecvMalformed
    BY <2>1 DEF RecvSkip, RecvMalformed, ToSkip
  <2>3. ~RecvOwn
    BY <2>1 DEF RecvOwn
  <2>4. GiveUp("other") \/ GiveUp("timeout")
    BY <1>3, <2>2, <2>3 DEF Receive, RecvGarbage, DeadlineFires, RecvTimeout
  <2> QED
    <3>1. misread' = misread /\ (torn' = torn \/ torn' = TRUE)
      BY <2>4 DEF GiveUp, ReadEnds
    <3> QED
      BY <1>0, <1>1, <3>1 DEF Torn
<1>4. CASE Server
  BY <1>1, <1>4, Answers DEF Basics
<1>5. CASE CtxDone \/ Watcher \/ PingWatcher \/ SocketDeath
  <2>1. CtxDone => UNCHANGED <<torn, misread>>
    BY DEF CtxDone, wireVars
  <2>2. Watcher \/ PingWatcher => UNCHANGED <<torn, misread>>
    BY DEF Watcher, WatcherCancel, PingWatcher, SetDeadline
  <2>3. SocketDeath => UNCHANGED <<torn, misread>>
    BY DEF SocketDeath, SocketDies
  <2> QED
    BY <1>1, <1>5, <2>1, <2>2, <2>3
<1>6. CASE CallStart \/ Retry \/ TxEnd \/ Stopped \/ UNCHANGED vars
  <2>1. CallStart \/ Retry \/ TxEnd => UNCHANGED wireVars
    BY DEF CallStart, Retry, TxEnd
  <2>2. Stopped \/ UNCHANGED vars => UNCHANGED wireVars
    BY DEF Stopped, vars, wireVars
  <2> QED
    BY <1>1, <1>6, <2>1, <2>2 DEF wireVars
<1> QED
  BY <1>2, <1>3, <1>4, <1>5, <1>6 DEF Next, Driver, Application, Environment

\* A new connection takes the place of an old one.
LEMMA ReconnectOrderly ==
  ASSUME IInv, Deadlines, Reconnect
  PROVE  Orderly'
<1>1. /\ pend' = <<>> /\ lazy' = 0 /\ expect' = <<>> /\ writer' = "ok" /\ ~torn' /\ ~misread'
      /\ pc' = "idle" /\ holder' = "pool"
  BY DEF Reconnect, WireReset, ctlVars
<1>2. Len(<<>>) = 0
  OBVIOUS
<1> QED
  BY <1>1, <1>2 DEF Orderly, AllocOK, TxBad, InTx, LazyOK, Sound, Agrees, Matches

\* A typed packet that cannot be parsed tears the stream.
LEMMA MalformedTears ==
  ASSUME "begin" \in Kinds, "malformed" \in Faults, Served, Basics, Basics', Orderly, Receive, RecvMalformed
  PROVE  Orderly' \/ Torn'
<1>1. torn' /\ misread' = (misread \/ Head(pend).op # Head(expect)) /\ Packet(Head(pend)) = Head(expect)
      /\ Head(expect) \in Typed \cup {"sql"}
  BY DEF RecvMalformed
<1>2. CASE ~misread
  BY <1>1, <1>2 DEF Torn, Packet, Typed
<1>3. CASE misread
  <2>0. expect # <<>> /\ pc \in ReadPlaces /\ UNCHANGED <<pc, holder>>
    BY ReceivesMore DEF ctlVars, dataVars, callVars, Basics, Owed, ExpectOK
  <2>1. Evict /\ Doomed
    BY <1>3, <2>0 DEF Orderly, Sound, Agrees, Spoiled
  <2>2. Sound'
    BY <2>1, SpoilsFurther DEF Basics
  <2>3. TxBad'
    BY <2>0, <2>1 DEF Evict, ReadPlaces, TxBad, InTx
  <2>4. AllocOK' /\ LazyOK'
    BY StepAlloc, StepLazy DEF Served, Basics, Orderly, Next, Driver
  <2> QED
    BY <2>2, <2>3, <2>4 DEF Orderly
<1> QED
  BY <1>2, <1>3

\* opResponse and its like take the next packet for the answer to the request they
\* wait for (wireprotocol.go); lazyResponseCount tells them how many to skip first.
\* A response to one request is taken for another's only on a connection that is
\* given up already: no result, error or transaction handle of one statement reaches
\* the caller of another.  That needs the columns of a fetched row to be read before
\* the deadline deferred by rows.go Next, whose error sets no badConn (ColumnsTimed).
THEOREM NoMisreadAlways ==
  ASSUME Served
  PROVE  Spec => []NoMisread
<1> DEFINE I == Basics /\ (Orderly \/ Torn)
<1>1. Init => I
  BY InitOrderly
<1>2. I /\ [Next]_vars => I'
  <2> SUFFICES ASSUME Basics, Orderly \/ Torn, [Next]_vars PROVE I'
    OBVIOUS
  <2>1. Basics'
    BY StepBasics
  <2>2. CASE Reconnect
    BY <2>1, <2>2, ReconnectOrderly DEF Basics
  <2>3. CASE Torn /\ ~Reconnect
    BY <2>1, <2>3, StepTorn
  <2>4. CASE Orderly /\ ReadsWell
    BY <2>1, <2>4, StepOrderly
  <2>5. CASE Orderly /\ ~ReadsWell
    <3>1. Receive /\ RecvMalformed /\ "begin" \in Kinds /\ "malformed" \in Faults
      BY <2>5 DEF ReadsWell, TxReadsWell
    <3> QED
      BY <2>1, <2>5, <3>1, MalformedTears
  <2> QED
    BY <2>2, <2>3, <2>4, <2>5
<1>3. I => NoMisread
  BY DEF Orderly, Sound, Agrees, Spoiled, Torn, NoMisread
<1> QED
  BY <1>1, <1>2, <1>3, PTL DEF Spec

\* What stmt.exec, stmt.query and rows.Close do after a failed read (cancel and drain,
\* or driver.ErrBadConn) leaves no response, and no deadline, behind for the next
\* user of a pooled connection.  A column read that the deadline of rows.go Next cuts
\* is not among them, and is assumed away (ColumnsTimed).
THEOREM PoolAlignedAlways ==
  ASSUME Served, TxReadsWell
  PROVE  Spec => []PoolAligned
<1>1. ASSUME Basics, Orderly, Pooled, ~Broken PROVE Aligned /\ expect = <<>> /\ armed = "none"
  <2>1. Agrees /\ sock = "up"
    BY <1>1, WireParts DEF Basics, Orderly, Sound, Spoiled, Evict, Pooled, Broken
  <2>2. expect = <<>>
    BY <1>1 DEF Basics, Owed, ExpectOK, Pooled, ReadPlaces
  <2>3. armed = "none"
    <3>1. armed \in Deadline /\ stack = <<>>
      BY <1>1, Stacks DEF Basics, IInv, WireInv, WireTypeOK, Pooled, Plain
    <3> QED
      BY <1>1, <3>1, StackApart DEF Basics, Deadlines, ArmedOK, Pooled, Deadline
  <2>4. lazy \in Nat /\ Len(pend) \in Nat
    BY <1>1, WireParts DEF Basics
  <2>5. Len(<<>>) = 0
    OBVIOUS
  <2>6. /\ Len(pend) = lazy + Len(expect)
        /\ \A i \in 1..lazy : pend[i].op \in Uncollected
        /\ \A i \in 1..Len(expect) : pend[lazy + i].op = expect[i]
    BY <2>1, <2>2, <2>4, <2>5 DEF Agrees, Matches
  <2> QED
    BY <2>1, <2>2, <2>3, <2>6 DEF Agrees, Aligned
<1>2. Basics /\ Orderly => PoolAligned
  BY <1>1 DEF PoolAligned
<1>3. Basics /\ Orderly /\ [Next]_vars => (Basics /\ Orderly)'
  BY StepBasics, StepOrderly DEF ReadsWell
<1> QED
  BY <1>2, <1>3, InitOrderly, PTL DEF Spec
=============================================================================
