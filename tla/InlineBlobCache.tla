--------------------------- MODULE InlineBlobCache ---------------------------
(* BLOBs that the server sends along with the rows that name them            *)
(* (inline_blob.go): the cache keeps each until the application asks for its  *)
(* column or the transaction ends, and getBlobSegments takes it from there    *)
(* instead of opening the BLOB on the server.                                 *)
(*                                                                            *)
(* The cache knows a BLOB by its transaction handle and its id.  The server   *)
(* uses both again: the handle of a transaction that has ended, and the id of *)
(* a BLOB that no transaction can see any more.                               *)
EXTENDS Integers, FiniteSets

CONSTANTS
    Handles,   \* transaction handles of the server
    Ids,       \* BLOB ids
    Contents,  \* what a BLOB may contain
    Length,    \* how long each content is
    MaxSize,   \* max_blob_cache_size of the DSN
    MaxRows    \* bound: rows of one transaction, naming the same BLOB, not yet read

ASSUME CacheAssumption ==
    /\ Contents # {} /\ Length \in [Contents -> Nat]
    /\ MaxSize \in Int /\ MaxRows \in Nat

VARIABLES
    byTx,    \* the BLOBs cached, each a [h, id, data]
    size,    \* inlineBlobCache.size
    open,    \* the transactions that the connection has open
    kept,    \* server: handles of transactions it refused to end
    blob,    \* server: what the BLOB of each id contains
    named,   \* server: the ids each transaction has been sent, and may still ask for
    rows,    \* how many rows still to be read name each BLOB
    served   \* history: the BLOB column read last, and what it should have been

vars == <<byTx, size, open, kept, blob, named, rows, served>>

Entry == [h : Handles, id : Ids, data : Contents]
NoRow == [id \in Ids |-> 0]

Init ==
    /\ byTx = {} /\ size = 0
    /\ open = {} /\ kept = {}
    /\ blob \in [Ids -> Contents]
    /\ named = [h \in Handles |-> {}]
    /\ rows = [h \in Handles |-> NoRow]
    /\ \E c \in Contents : served = [got |-> c, want |-> c]

-----------------------------------------------------------------------------
(* The cache.                                                                 *)

Enabled == MaxSize > 0
Cached(h, id) == {e \in byTx : e.h = h /\ e.id = id}
Of(h) == {e \in byTx : e.h = h}
BytesOf(es) == UNION {{e} \X (1..Length[e.data]) : e \in es}
LengthOf(es) == Cardinality(BytesOf(es))
NotBelow0(n) == IF n < 0 THEN 0 ELSE n

\* Mutant: a BLOB that is there already is stored and counted again.
Add_Overwrites(h, id, data) ==
    IF Enabled /\ size + Length[data] <= MaxSize
    THEN /\ byTx' = (byTx \ Cached(h, id)) \cup {[h |-> h, id |-> id, data |-> data]}
         /\ size' = size + Length[data]
    ELSE UNCHANGED <<byTx, size>>

\* add
Add(h, id, data) ==
    IF Enabled /\ size + Length[data] <= MaxSize /\ Cached(h, id) = {}
    THEN /\ byTx' = byTx \cup {[h |-> h, id |-> id, data |-> data]}
         /\ size' = size + Length[data]
    ELSE UNCHANGED <<byTx, size>>

\* getAndRemove, of a BLOB that is cached.
Take(h, id) ==
    /\ byTx' = byTx \ Cached(h, id)
    /\ size' = NotBelow0(size - LengthOf(Cached(h, id)))

\* clearTx
ClearTx(h) ==
    /\ byTx' = byTx \ Of(h)
    /\ size' = NotBelow0(size - LengthOf(Of(h)))

-----------------------------------------------------------------------------
(* The connection.                                                            *)

Begin(h) ==
    /\ h \notin open \cup kept
    /\ open' = open \cup {h}
    /\ UNCHANGED <<byTx, size, kept, blob, named, rows, served>>

\* One row of opFetchResponse or opSqlResponse that names the BLOB id.  The
\* server may send the BLOB before it (consumeInlineBlobsStarting).
Row(h, id) ==
    /\ h \in open /\ rows[h][id] < MaxRows
    /\ rows' = [rows EXCEPT ![h][id] = @ + 1]
    /\ named' = [named EXCEPT ![h] = @ \cup {id}]
    /\ Add(h, id, blob[id]) \/ UNCHANGED <<byTx, size>>
    /\ UNCHANGED <<open, kept, blob, served>>

\* The fetch fails after the BLOB and before the row: no row is kept.
RowLost(h, id) ==
    /\ h \in open
    /\ named' = [named EXCEPT ![h] = @ \cup {id}]
    /\ Add(h, id, blob[id])
    /\ UNCHANGED <<open, kept, blob, rows, served>>

\* firebirdsqlRows.Next reads a BLOB column: getBlobSegments.
BlobColumn(h, id) ==
    /\ h \in open /\ rows[h][id] > 0
    /\ rows' = [rows EXCEPT ![h][id] = @ - 1]
    /\ \/ /\ Enabled /\ Cached(h, id) # {}
          /\ \E e \in Cached(h, id) : served' = [got |-> e.data, want |-> blob[id]]
          /\ Take(h, id)
       \/ /\ ~Enabled \/ Cached(h, id) = {}
          /\ served' = [got |-> blob[id], want |-> blob[id]]
          /\ UNCHANGED <<byTx, size>>
    /\ UNCHANGED <<open, kept, blob, named>>

\* firebirdsqlRows.Close, with rows left to read.
RowsClose(h, id) ==
    /\ rows[h][id] > 0
    /\ rows' = [rows EXCEPT ![h][id] = 0]
    /\ UNCHANGED <<byTx, size, open, kept, blob, named, served>>

\* Mutant: the BLOBs of the transaction stay.
EndTx_NoClear(h, refused) ==
    /\ h \in open
    /\ open' = open \ {h}
    /\ kept' = IF refused THEN kept \cup {h} ELSE kept
    /\ named' = [named EXCEPT ![h] = {}]
    /\ rows' = [rows EXCEPT ![h] = NoRow]
    /\ UNCHANGED <<byTx, size, blob, served>>

\* Commit and Rollback; the server may refuse.
EndTx(h, refused) ==
    /\ h \in open
    /\ ClearTx(h)
    /\ open' = open \ {h}
    /\ kept' = IF refused THEN kept \cup {h} ELSE kept
    /\ named' = [named EXCEPT ![h] = {}]
    /\ rows' = [rows EXCEPT ![h] = NoRow]
    /\ UNCHANGED <<blob, served>>

\* commitRetainging: the transaction goes on under its handle.
CommitRetaining(h) ==
    /\ h \in open
    /\ ClearTx(h)
    /\ named' = [named EXCEPT ![h] = {id \in Ids : rows[h][id] > 0}]
    /\ UNCHANGED <<open, kept, blob, rows, served>>

\* firebirdsqlConn.Close has rolled back its transactions, each with EndTx or,
\* if op_rollback could not be sent, without; then it clears all.
Close ==
    /\ byTx' = {} /\ size' = 0
    /\ open' = {} /\ kept' = {}
    /\ named' = [h \in Handles |-> {}]
    /\ rows' = [h \in Handles |-> NoRow]
    /\ UNCHANGED <<blob, served>>

\* The server uses the id of a BLOB that nobody can ask for any more.
Reuse(id, c) ==
    /\ \A h \in Handles : id \notin named[h]
    /\ blob' = [blob EXCEPT ![id] = c]
    /\ UNCHANGED <<byTx, size, open, kept, named, rows, served>>

Next ==
    \/ \E h \in Handles :
          \/ Begin(h) \/ CommitRetaining(h)
          \/ \E refused \in BOOLEAN : EndTx(h, refused)
          \/ \E id \in Ids : Row(h, id) \/ RowLost(h, id) \/ BlobColumn(h, id) \/ RowsClose(h, id)
    \/ \E id \in Ids, c \in Contents : Reuse(id, c)
    \/ Close

Spec == Init /\ [][Next]_vars

-----------------------------------------------------------------------------
DataType ==
    /\ byTx \subseteq Entry
    /\ open \subseteq Handles /\ kept \subseteq Handles
    /\ blob \in [Ids -> Contents]
    /\ named \in [Handles -> SUBSET Ids]
    /\ rows \in [Handles -> [Ids -> Nat]]
    /\ served \in [got : Contents, want : Contents]

\* A BLOB column reads what the BLOB of its row contains, from the cache or
\* from the server, whatever handles and ids have been used before.
Fresh == served.got = served.want

\* size is what the cache holds, through every way an entry comes and goes (the
\* code corrects a negative size instead of asserting it), and below the limit.
Accounted == size = LengthOf(byTx) /\ (Enabled => size <= MaxSize)

\* Nothing outlives its transaction in the cache, and no BLOB is there twice.
Owned ==
    /\ \A e \in byTx : e.h \in open /\ e.data = blob[e.id] /\ e.id \in named[e.h]
    /\ \A e, f \in byTx : e.h = f.h /\ e.id = f.id => e = f
=============================================================================
