----------------------- MODULE InlineBlobCache_proofs -----------------------
(* A BLOB column always reads what the BLOB of its row contains.  The cache  *)
(* may only serve an entry if nothing has happened to its BLOB since: so     *)
(* every entry belongs to an open transaction that has been sent its id.     *)
(* And the size that the cache goes by is the size that it has.              *)
EXTENDS InlineBlobCache, FiniteSetTheorems, TLAPS

IInv == DataType /\ Owned /\ Fresh

LEMMA CachedOf ==
    ASSUME NEW h, NEW id
    PROVE  /\ Cached(h, id) \subseteq byTx /\ Of(h) \subseteq byTx
           /\ \A e \in byTx : e \in Of(h) <=> e.h = h
  BY DEF Cached, Of

\* What the cache keeps when entries leave it.
LEMMA Fewer ==
    ASSUME IInv, byTx' \subseteq byTx, UNCHANGED <<open, blob, named>>
    PROVE  Owned' /\ byTx' \subseteq Entry
  BY DEF IInv, DataType, Owned

LEMMA AddInv ==
    ASSUME IInv, NEW h \in open, NEW id \in Ids, Add(h, id, blob[id]) \/ UNCHANGED <<byTx, size>>,
           named' = [named EXCEPT ![h] = @ \cup {id}], UNCHANGED <<open, blob>>
    PROVE  Owned' /\ byTx' \subseteq Entry
<1> DEFINE new == [h |-> h, id |-> id, data |-> blob[id]]
<1>1. h \in Handles /\ named \in [Handles -> SUBSET Ids] /\ blob[id] \in Contents
  BY DEF IInv, DataType
<1>2. new \in Entry /\ named'[h] = named[h] \cup {id}  BY <1>1 DEF Entry
<1>3. \A g \in Handles : named[g] \subseteq named'[g]  BY <1>1
<1>4. \/ byTx' = byTx
      \/ byTx' = byTx \cup {new} /\ Cached(h, id) = {}
  BY DEF Add
<1>5. \A e \in byTx : e.h \in Handles  BY DEF IInv, DataType, Entry
<1>6. CASE byTx' = byTx  BY <1>3, <1>5, <1>6 DEF IInv, DataType, Owned
<1>7. CASE byTx' = byTx \cup {new} /\ Cached(h, id) = {}
  <2>1. byTx' \subseteq Entry  BY <1>2, <1>7 DEF IInv, DataType
  <2>2. \A e \in byTx' : e.h \in open /\ e.data = blob[e.id] /\ e.id \in named'[e.h]
    BY <1>2, <1>3, <1>5, <1>7 DEF IInv, Owned
  <2>3. ASSUME NEW e \in byTx', NEW f \in byTx', e.h = f.h, e.id = f.id
        PROVE  e = f
    <3>1. \A g \in byTx : ~(g.h = h /\ g.id = id)  BY <1>7 DEF Cached
    <3> QED  BY <1>7, <2>3, <3>1 DEF IInv, Owned
  <2> QED  BY <2>1, <2>2, <2>3 DEF Owned
<1> QED  BY <1>4, <1>6, <1>7

LEMMA Initial == Init => IInv
  BY DEF Init, IInv, DataType, Owned, Fresh, NoRow

LEMMA BeginInv == ASSUME IInv, NEW h \in Handles, Begin(h) PROVE IInv'
  BY DEF Begin, IInv, DataType, Owned, Fresh

LEMMA RowInv ==
    ASSUME IInv, NEW h \in Handles, NEW id \in Ids, Row(h, id) PROVE IInv'
<1>1. h \in open /\ Owned' /\ byTx' \subseteq Entry  BY AddInv DEF Row
<1>2. rows' \in [Handles -> [Ids -> Nat]]
  BY DEF Row, IInv, DataType
<1>3. named' \in [Handles -> SUBSET Ids]  BY DEF Row, IInv, DataType
<1> QED  BY <1>1, <1>2, <1>3 DEF Row, IInv, DataType, Fresh

LEMMA RowLostInv ==
    ASSUME IInv, NEW h \in Handles, NEW id \in Ids, RowLost(h, id) PROVE IInv'
<1>1. h \in open /\ Owned' /\ byTx' \subseteq Entry  BY AddInv DEF RowLost
<1>2. named' \in [Handles -> SUBSET Ids]  BY DEF RowLost, IInv, DataType
<1> QED  BY <1>1, <1>2 DEF RowLost, IInv, DataType, Fresh

LEMMA BlobColumnInv ==
    ASSUME IInv, NEW h \in Handles, NEW id \in Ids, BlobColumn(h, id) PROVE IInv'
<1>1. rows' \in [Handles -> [Ids -> Nat]]
  <2>1. rows[h] \in [Ids -> Nat] /\ rows[h][id] - 1 \in Nat  BY DEF BlobColumn, IInv, DataType
  <2> QED  BY <2>1 DEF BlobColumn, IInv, DataType
<1>2. byTx' \subseteq byTx  BY DEF BlobColumn, Take
<1>3. Owned' /\ byTx' \subseteq Entry  BY <1>2, Fewer DEF BlobColumn
<1>4. served' \in [got : Contents, want : Contents] /\ Fresh'
  <2>1. blob[id] \in Contents  BY DEF IInv, DataType
  <2>2. \A e \in Cached(h, id) : e.data = blob[id]  BY DEF Cached, IInv, Owned
  <2> QED  BY <2>1, <2>2 DEF BlobColumn, Fresh
<1> QED  BY <1>1, <1>3, <1>4 DEF BlobColumn, IInv, DataType

LEMMA RowsCloseInv ==
    ASSUME IInv, NEW h \in Handles, NEW id \in Ids, RowsClose(h, id) PROVE IInv'
  BY DEF RowsClose, IInv, DataType, Owned, Fresh

\* After clearTx no entry is left of the transaction, and the others are as
\* they were.
LEMMA Cleared ==
    ASSUME IInv, NEW h \in Handles, ClearTx(h), (open \ {h}) \subseteq open',
           named' \in [Handles -> SUBSET Ids], UNCHANGED blob,
           (\A g \in Handles \ {h} : named'[g] = named[g])
    PROVE  Owned' /\ byTx' \subseteq Entry
<1>1. byTx' \subseteq byTx /\ \A e \in byTx' : e.h # h  BY CachedOf DEF ClearTx
<1>2. byTx' \subseteq Entry  BY <1>1 DEF IInv, DataType
<1>3. \A e \in byTx' : e.h \in Handles \ {h}  BY <1>1, <1>2 DEF Entry
<1> QED  BY <1>1, <1>2, <1>3 DEF IInv, Owned

LEMMA EndTxInv ==
    ASSUME IInv, NEW h \in Handles, NEW refused \in BOOLEAN, EndTx(h, refused) PROVE IInv'
<1>1. named' \in [Handles -> SUBSET Ids] /\ rows' \in [Handles -> [Ids -> Nat]]
  BY DEF EndTx, IInv, DataType, NoRow
<1>2. \A g \in Handles \ {h} : named'[g] = named[g]  BY DEF EndTx, IInv, DataType
<1>3. Owned' /\ byTx' \subseteq Entry  BY <1>1, <1>2, Cleared DEF EndTx
<1> QED  BY <1>1, <1>3 DEF EndTx, IInv, DataType, Fresh

LEMMA CommitRetainingInv ==
    ASSUME IInv, NEW h \in Handles, CommitRetaining(h) PROVE IInv'
<1>1. named' \in [Handles -> SUBSET Ids]  BY DEF CommitRetaining, IInv, DataType
<1>2. \A g \in Handles \ {h} : named'[g] = named[g]  BY DEF CommitRetaining, IInv, DataType
<1>3. Owned' /\ byTx' \subseteq Entry  BY <1>1, <1>2, Cleared DEF CommitRetaining
<1> QED  BY <1>1, <1>3 DEF CommitRetaining, IInv, DataType, Fresh

LEMMA CloseInv == IInv /\ Close => IInv'
  BY DEF Close, IInv, DataType, Owned, Fresh, NoRow

LEMMA ReuseInv ==
    ASSUME IInv, NEW id \in Ids, NEW c \in Contents, Reuse(id, c) PROVE IInv'
<1>1. \A e \in byTx : e.h \in Handles /\ e.id \in Ids /\ e.id # id
  BY DEF Reuse, IInv, DataType, Owned, Entry
<1> QED  BY <1>1 DEF Reuse, IInv, DataType, Owned, Fresh

LEMMA Preserved == IInv /\ [Next]_vars => IInv'
<1> SUFFICES ASSUME IInv, [Next]_vars PROVE IInv'
  OBVIOUS
<1>1. CASE Next
  BY <1>1, BeginInv, RowInv, RowLostInv, BlobColumnInv, RowsCloseInv, EndTxInv,
     CommitRetainingInv, CloseInv, ReuseInv DEF Next
<1>2. CASE UNCHANGED vars  BY <1>2 DEF vars, IInv, DataType, Owned, Fresh
<1> QED  BY <1>1, <1>2

\* A BLOB column reads what its BLOB contains, from the cache or from the
\* server, for any handles, ids, contents and size limit.
THEOREM FreshAlways == Spec => []Fresh
<1>1. Spec => []IInv  BY Initial, Preserved, PTL DEF Spec
<1>2. IInv => Fresh  BY DEF IInv
<1> QED  BY <1>1, <1>2, PTL

\* No entry outlives its transaction, and no BLOB is cached twice.
THEOREM OwnedAlways == Spec => []Owned
<1>1. Spec => []IInv  BY Initial, Preserved, PTL DEF Spec
<1>2. IInv => Owned  BY DEF IInv
<1> QED  BY <1>1, <1>2, PTL

-----------------------------------------------------------------------------
(* The bytes that the cache holds.                                            *)

\* Accounted needs what it counts to be finite.
Counted == IsFiniteSet(BytesOf(byTx)) /\ Accounted

LEMMA BytesParts ==
    ASSUME NEW S, NEW T
    PROVE  /\ BytesOf(S \cup T) = BytesOf(S) \cup BytesOf(T)
           /\ BytesOf(S \ T) = BytesOf(S) \ BytesOf(T)
           /\ T \subseteq S => BytesOf(T) \subseteq BytesOf(S)
           /\ T \cap S = {} => BytesOf(S) \cap BytesOf(T) = {}
<1>1. \A R, b : b \in BytesOf(R) <=> \E e \in R : \E k \in 1..Length[e.data] : b = <<e, k>>
  BY DEF BytesOf
<1>2. /\ \A R, b : b \in BytesOf(R) => b[1] \in R
      /\ \A R, Q, b : b \in BytesOf(R) /\ b[1] \in Q => b \in BytesOf(Q)
  BY <1>1
<1>3. BytesOf(S \cup T) = BytesOf(S) \cup BytesOf(T)
  <2> SUFFICES ASSUME NEW b PROVE b \in BytesOf(S \cup T) <=> b \in BytesOf(S) \/ b \in BytesOf(T)
    OBVIOUS
  <2>1. b \in BytesOf(S \cup T) => b[1] \in S \/ b[1] \in T  BY <1>2
  <2>2. b \in BytesOf(S) \/ b \in BytesOf(T) => b[1] \in S \cup T  BY <1>2
  <2> QED  BY <1>2, <2>1, <2>2
<1>4. BytesOf(S \ T) = BytesOf(S) \ BytesOf(T)
  <2> SUFFICES ASSUME NEW b PROVE b \in BytesOf(S \ T) <=> b \in BytesOf(S) /\ b \notin BytesOf(T)
    OBVIOUS
  <2>1. b \in BytesOf(S \ T) => b[1] \in S /\ b[1] \notin T  BY <1>2
  <2>2. b \in BytesOf(S) /\ b \notin BytesOf(T) => b[1] \in S \ T  BY <1>2
  <2>3. b \in BytesOf(T) => b[1] \in T  BY <1>2
  <2> QED  BY <1>2, <2>1, <2>2, <2>3
<1>5. T \subseteq S => BytesOf(T) \subseteq BytesOf(S)  BY <1>1
<1>6. T \cap S = {} => BytesOf(S) \cap BytesOf(T) = {}
  <2> SUFFICES ASSUME T \cap S = {}, NEW b, b \in BytesOf(S), b \in BytesOf(T) PROVE FALSE
    OBVIOUS
  <2>1. b[1] \in S /\ b[1] \in T  BY <1>2
  <2> QED  BY <2>1
<1> QED  BY <1>3, <1>4, <1>5, <1>6

LEMMA BytesOfOne ==
    ASSUME NEW e \in Entry
    PROVE  IsFiniteSet(BytesOf({e})) /\ LengthOf({e}) = Length[e.data]
<1>1. Length[e.data] \in Nat  BY CacheAssumption DEF Entry
<1>2. PICK n \in Nat : n = Length[e.data]  BY <1>1
<1>3. IsFiniteSet(1..n) /\ Cardinality(1..n) = n  BY FS_Interval
<1>4. IsFiniteSet({e}) /\ Cardinality({e}) = 1  BY FS_Singleton
<1>5. IsFiniteSet({e} \X (1..n)) /\ Cardinality({e} \X (1..n)) = 1 * n
  BY <1>3, <1>4, FS_Product
<1>6. BytesOf({e}) = {e} \X (1..n)  BY <1>2 DEF BytesOf
<1>7. 1 * n = n  OBVIOUS
<1> QED  BY <1>2, <1>5, <1>6, <1>7 DEF LengthOf

LEMMA BytesNone == BytesOf({}) = {} /\ IsFiniteSet(BytesOf({})) /\ LengthOf({}) = 0
<1>1. BytesOf({}) = {}  BY DEF BytesOf
<1> QED  BY <1>1, FS_EmptySet DEF LengthOf

\* add: what comes was not there.
LEMMA AddCounts ==
    ASSUME DataType, Counted, NEW h \in Handles, NEW id \in Ids, NEW data \in Contents,
           Add(h, id, data)
    PROVE  Counted'
<1>1. CASE Enabled /\ size + Length[data] <= MaxSize /\ Cached(h, id) = {}
  <2>1. PICK new : new = [h |-> h, id |-> id, data |-> data]  OBVIOUS
  <2>2. new \in Entry /\ new.data = data /\ new.h = h /\ new.id = id  BY <2>1 DEF Entry
  <2>3. byTx' = byTx \cup {new} /\ size' = size + Length[data]  BY <1>1, <2>1 DEF Add
  <2>4. {new} \cap byTx = {}  BY <1>1, <2>2 DEF Cached
  <2>5. IsFiniteSet(BytesOf({new})) /\ LengthOf({new}) = Length[data]  BY <2>2, BytesOfOne
  <2>6. /\ BytesOf(byTx \cup {new}) = BytesOf(byTx) \cup BytesOf({new})
        /\ BytesOf(byTx) \cap BytesOf({new}) = {}
    BY <2>4, BytesParts
  <2>7. /\ IsFiniteSet(BytesOf(byTx) \cup BytesOf({new}))
        /\ Cardinality(BytesOf(byTx) \cup BytesOf({new})) =
              Cardinality(BytesOf(byTx)) + Cardinality(BytesOf({new})) - 0
    <3>1. IsFiniteSet(BytesOf(byTx)) /\ IsFiniteSet(BytesOf({new}))  BY <2>5 DEF Counted
    <3>2. Cardinality(BytesOf(byTx) \cap BytesOf({new})) = 0  BY <2>6, FS_EmptySet
    <3> QED  BY ONLY <3>1, <3>2, FS_Union
  <2>8. size = Cardinality(BytesOf(byTx)) /\ size \in Nat
    BY FS_CardinalityType DEF Counted, Accounted, LengthOf
  <2>9. Length[data] \in Nat  BY CacheAssumption
  <2>10. size' = LengthOf(byTx')
    <3>1. Cardinality(BytesOf({new})) = Length[data]  BY <2>5 DEF LengthOf
    <3>2. BytesOf(byTx') = BytesOf(byTx) \cup BytesOf({new})  BY <2>3, <2>6
    <3>3. Cardinality(BytesOf(byTx')) = size + Length[data]  BY <2>7, <2>8, <2>9, <3>1, <3>2
    <3> QED  BY <2>3, <3>3 DEF LengthOf
  <2> QED  BY <1>1, <2>3, <2>6, <2>7, <2>10 DEF Counted, Accounted, Enabled
<1>2. CASE UNCHANGED <<byTx, size>>  BY <1>2 DEF Counted, Accounted, Enabled
<1> QED  BY <1>1, <1>2 DEF Add

\* getAndRemove and clearTx: what goes was there, so the size is not corrected.
LEMMA LessCounts ==
    ASSUME Counted, NEW T \in SUBSET byTx, byTx' = byTx \ T,
           size' = NotBelow0(size - LengthOf(T))
    PROVE  Counted'
<1>1. /\ BytesOf(byTx \ T) = BytesOf(byTx) \ BytesOf(T)
      /\ BytesOf(byTx) \cap BytesOf(T) = BytesOf(T)
  BY BytesParts
<1>2. /\ IsFiniteSet(BytesOf(byTx) \ BytesOf(T))
      /\ Cardinality(BytesOf(byTx) \ BytesOf(T)) = Cardinality(BytesOf(byTx)) - Cardinality(BytesOf(T))
  BY <1>1, FS_Difference DEF Counted
<1>3. IsFiniteSet(BytesOf(T))  BY <1>1, FS_Subset DEF Counted
<1>4. /\ Cardinality(BytesOf(byTx)) \in Nat /\ Cardinality(BytesOf(T)) \in Nat
      /\ Cardinality(BytesOf(byTx) \ BytesOf(T)) \in Nat
  BY <1>2, <1>3, FS_CardinalityType DEF Counted
<1>5. size = Cardinality(BytesOf(byTx))  BY DEF Counted, Accounted, LengthOf
<1>6. size' = Cardinality(BytesOf(byTx) \ BytesOf(T)) /\ size' <= size
  BY <1>2, <1>4, <1>5 DEF NotBelow0, LengthOf
<1>7. Enabled' => size' <= MaxSize
  BY <1>4, <1>5, <1>6, CacheAssumption DEF Counted, Accounted, Enabled
<1> QED  BY <1>1, <1>2, <1>6, <1>7 DEF Counted, Accounted, LengthOf

LEMMA InitCounted == Init => Counted
  BY BytesNone, CacheAssumption DEF Init, Counted, Accounted, Enabled

LEMMA StepCounted == IInv /\ Counted /\ [Next]_vars => Counted'
<1> SUFFICES ASSUME IInv, Counted, [Next]_vars PROVE Counted'
  OBVIOUS
<1>1. DataType  BY DEF IInv
<1>2. CASE UNCHANGED <<byTx, size>>  BY <1>2 DEF Counted, Accounted, Enabled
<1>3. ASSUME NEW h \in Handles, NEW id \in Ids, Row(h, id) \/ RowLost(h, id)
      PROVE  Counted'
  <2>1. blob[id] \in Contents  BY <1>1 DEF DataType
  <2>2. Add(h, id, blob[id]) \/ UNCHANGED <<byTx, size>>  BY <1>3 DEF Row, RowLost
  <2> QED  BY <1>1, <1>2, <2>1, <2>2, AddCounts
<1>4. ASSUME NEW h \in Handles, NEW id \in Ids, BlobColumn(h, id)
      PROVE  Counted'
  <2>1. CASE Take(h, id)
    BY <2>1, CachedOf, LessCounts DEF Take
  <2> QED  BY <1>2, <1>4, <2>1 DEF BlobColumn
<1>5. ASSUME NEW h \in Handles, ClearTx(h)
      PROVE  Counted'
  BY <1>5, CachedOf, LessCounts DEF ClearTx
<1>6. CASE Close
  BY <1>6, BytesNone, CacheAssumption DEF Close, Counted, Accounted, Enabled
<1>7. CASE Next
  BY <1>2, <1>3, <1>4, <1>5, <1>6, <1>7 DEF Next, Begin, CommitRetaining, EndTx, RowsClose, Reuse
<1> QED  BY <1>2, <1>7 DEF vars

\* inlineBlobCache.size is the number of bytes cached, whatever is added, read
\* and cleared in which order, and with a cache it stays within
\* max_blob_cache_size; clearTx and getAndRemove never have to correct it.
THEOREM AccountedAlways == Spec => []Accounted
<1>1. Init => IInv /\ Counted  BY Initial, InitCounted
<1>2. IInv /\ Counted /\ [Next]_vars => (IInv /\ Counted)'  BY Preserved, StepCounted
<1>3. Counted => Accounted  BY DEF Counted
<1> QED  BY <1>1, <1>2, <1>3, PTL DEF Spec
=============================================================================
