# A TLA+ verification of firebirdsql-go

firebirdsql-go is a `database/sql` driver for Firebird, written in Go: it speaks
Firebird's wire protocol over one TCP connection per pooled driver connection,
and adds batches, events, services and inline BLOBs to what `database/sql`
offers.  This directory holds TLA+ modules translated from the code, the TLC
configurations that check them, and theorems proved with TLAPS.

## 1. The system

### Components

| Component | Source | State | Operations | What makes it correct |
|---|---|---|---|---|
| Wire channel and protocol | `wirechannel.go`, `wireprotocol.go`, `batch_wire.go` | send buffer, `bufio` reader and writer (sticky error), socket deadline, `lazyResponseCount` | one function per op code; `sendPackets`, `recvPackets`, `opResponse`, `opResponseTimeout`, `opFetchResponse`, `opSqlResponse`, `opSliceResponse`, `opCancel`, `SetDeadline` | every request and its response find each other, by position alone |
| Connection | `connection.go`, `driver.go`, `driver_go18.go` | `tx`, `transactionSet`, `isAutocommit` | open, `begin`/`BeginTx`, `prepare`, `exec`, `query`, `Ping`, `Close` | a connection that goes back to the pool is usable; teardown ends |
| Transaction | `transaction.go` | handle, `isAutocommit`, `needBegin` | `begin`, `commitRetainging`, `Commit`, `Rollback` | acknowledged work is committed, once; a rolled-back transaction commits nothing |
| Statement | `statement.go`, `result.go` | handle, kind, columns and parameters | prepare, `exec`, `query`, `Close`, `closeCursor`, the cancel watcher, `cancelAndDrain` | a call given up leaves no response behind for the next one |
| Rows, scrollable cursor | `rows.go`, `scroll.go` | current chunk, `moreData`, `badConn` | `Next`, `Close`, BLOB and ARRAY columns; `Fetch*` | a cursor that lost its place on the wire evicts its connection |
| Batch | `batch.go`, `batch_encode.go` | queued rows, server batch | `Add`, `Flush`, `Exec`, `Cancel`, `Close` | every row added is executed once, or reported |
| Inline BLOB cache | `inline_blob.go` | map of BLOBs, `size`, `maxSize` | `add`, `getAndRemove`, `clearTx`, `clearAll` | `size` is what the cache holds and stays below `maxSize`; no BLOB survives its transaction |
| Events | `event.go`, `subscriber.go`, `remoteEvent.go`, `eventmanager.go` | subscriber list, per-event counts, channels, auxiliary connection | `Subscribe`, `Unsubscribe`, `Close`, `queueEvents`, `wait` | no event is lost or delivered twice; closing ends all goroutines |
| Handshake, authentication, encryption | `wireprotocol.go`, `wirechannel.go`, `srp.go`, `wire_crypt.go`, `auth_plugin.go` | plugin, session key, compressor, cipher | connect, accept, authenticate, switch to compression and to encryption, attach | both ends switch at the same byte; `wire_crypt=required` holds on every outcome; nothing is computed of the password for a plugin the client does not allow |
| Services | `service_manager.go`, `backup_manager.go`, ..., `trace_manager.go` | service handle, output stream, `TraceSession.state` | attach, start, query, wait; start, pause, resume, stop and close a trace | the output is read to its end; a success is the server's; a call releases its connection; a stopped trace ends its reader |
| Arrays | `array.go`, `array_meta.go`, `array_sdl.go` | none | shapes from values and from the system tables, encode, put, get, decode, scan | the value scanned is the value stored |
| Types | `xsqlvar.go`, `utils.go`, `decfloat.go`, `batch_encode.go`, `wireprotocol.go` | none | messages and their descriptions, rows, dates, times, zones, decimals | what is encoded is what is decoded; a message is what its description says |
| Descriptions, status vectors | `wireprotocol.go` | none | `parse_xsqlda` with its continuations, `_parse_status_vector` | every column described, each by its own items; an error told in its own words |
| Parameter buffers | `xpb.go` and the managers | none | building request blocks, reading answers | the server gets what the caller asked for; records survive however they are cut |
| Names | `dsn.go`, `timezone_resolve.go`, `charset.go`, `firebird_version.go` | none | parsing, look-up, comparison | the name that reaches the server is the one that was meant |
| Generated tables | `errmsgs.go`, `sqlstate_map.go`, `timezonemap.go`, ... | none | look-up | generated |

### How they interact

`database/sql` calls the driver from the application's goroutine; it never runs
two calls on one driver connection at a time, keeps a connection in its pool
when a call returns an ordinary error and closes it when the error is
`driver.ErrBadConn`.  Inside the driver a call is a sequence of exchanges on the
wire.  Four more actors touch the same connection: the **server**, which answers
in order but not promptly; the **watcher** goroutine of `withCancelWatcher`,
which writes `op_cancel` when the context ends; **Ping's goroutine**, which
sets a deadline in the past when the context ends and is not joined; and the
**context's timer**.  The channel's deadline is shared state: `enforceDeadline`,
`opResponseTimeout`, `cancelAndDrain` and Ping all overwrite it.  Connection,
statement, rows and transaction share `fc.tx`, which `BeginTx` replaces under
statements prepared before.  A service connection is such a connection too, with no
`database/sql` above it and no lock: a `TraceSession`'s reader and its `Stop`
share one wire.

### What is hard

* Responses carry no request number.  One response too many or too few on a
  pooled connection shifts all later ones.  On a lazy-send server (all current
  ones) `op_free_statement`, `op_close_blob` and the `op_allocate_statement` of a
  preparation are answered later: the driver counts these responses and the next
  reader skips that many.
* A read given up at a deadline leaves its response on the way.  Four places in
  `statement.go` either drain it (`cancelAndDrain`) or return
  `driver.ErrBadConn`.
* `sendPackets` drops the error of `Flush`; the failure shows in the read that
  follows, and in every later write.
* In the handshake the two ends change the form of the bytes, compressed or not,
  encrypted or not, at a position of the stream that nothing on the wire marks;
  the server chooses the path, and one policy decision must hold on all of them.
* BLOB ids and transaction handles are used again by the server; a cached BLOB
  must not outlive either.
* The parameters of an execution are encoded while its packet is half built:
  storing a BLOB or an array asks the server in between, on the same buffer, and
  before the call's deadline is set.
* A description longer than one buffer, a service's output longer than one chunk
  and a message whose parts are padded to words: where one part ends is known
  only from the parts before it.
* `database/sql` repeats a call that ends in `driver.ErrBadConn`, on another
  connection: that must never happen to a statement that may have been committed.

`PROJECT.json` lists the hazards at their lines, each with the properties that
would catch it.

## 2. The modules

| Module | What it is | Built on |
|---|---|---|
| `FbWire` | the request/response stream: writing, reading, the lazy count, deadlines, the failure of the socket | |
| `FbSession` | one pooled connection: connection, transaction, statement, rows, Ping and Close, `database/sql` around them and the server behind them | `FbWire` |
| `PreparedBatch` | a batch through its calls, with the server's batch and transaction | `FbWire` |
| `EventFeed` | the abstract promise of a subscription: every posting reported, none twice | |
| `EventDelivery` | one subscription's counts, buffers, Events and requests | implements `EventFeed` |
| `EventLifecycle` | how subscriptions begin and end: lists, flags, goroutines, channels | |
| `InlineBlobCache` | the cache of inline BLOBs, with the rows that name them and the ends of transactions | |
| `Handshake` | how a connection comes about, with the form of every packet | |
| `ServiceManagers` | the service connections, the managers' calls and a trace session, with their goroutines and channels | |
| `ArraySlices`, `ArrayColumns` | array values on their way to a column and back; where a column's shape comes from | |
| `WireValues` | messages, rows, dates, times, zones, decimals | |
| `ServiceParams` | parameter blocks: the writer, the reader, the requests, the answers | |
| `StatementReplies` | status vectors and column descriptions | |
| `Names` | data source names, zones, character sets, versions | |
| `Codecs` | one conversion at a time, against what each must give back | the six above |
| `MCSession`, `MCEvents`, `MCLifecycle`, `MCInlineBlob`, `MCHandshake`, `MCCodecs` | the constant definitions the configurations use | |
| `FbWire_proofs`, `FbSession_proofs`, `FbSessionWork_proofs`, `PreparedBatch_proofs`, `Events_proofs`, `InlineBlobCache_proofs`, `Handshake_proofs`, `ServiceManagers_proofs` | the lemmas and theorems | |

`PROJECT.json` maps every definition to the lines it translates.  This section
says how each module reads the code.

### `FbWire`

A request is a record: its op code, the transaction handle it names, the call it
works for and its status (asked, answered, refused).  `pend` is the sequence of
packets the server owes or has sent; nothing but position ties a request to a
reader.  `lazy` is `lazyResponseCount`; `expect` is what the driver's goroutine
is about to read.

* `Write` is a `sendPackets` (wirechannel's buffer and `Flush`): the packets go
  out, or the write fails and the writer is `sticky` from then on, as
  `bufio.Writer` is.  `checked` distinguishes the two ways of the code: an
  error returned as `driver.ErrBadConn`, and an error that is dropped.  `Ask`,
  `AskBlindly`, `AskLazily`, `AskReclaiming`, `AskTwo` are the shapes of an
  exchange: one response, one without looking at the error, none now, one that
  also reclaims the lazy `op_allocate_statement`, two.
* `RecvSkip` is the loop `for lazyResponseCount > 0`, per packet; the readers
  that lack the loop are the ones `Skips` leaves out.  `RecvOwn` reads the next
  packet, whatever it answers: when it is another request's, `misread` records
  it and `OutcomeOf` gives the error or the success that reader makes of that
  packet type.
* `GiveUp`, `RecvTimeout`, `RecvGarbage`, `CancelAndDrain` are the ends of a read
  that did not get its response.
* `SetDeadline` is the socket's one deadline, by the place that set it: the
  context's (`ctx`, which includes the 3 s grace), a fixed 10 s, or one in the
  past (Ping's goroutine).

`lost` and `misread` are history variables; no guard reads them.

### `FbSession`

`pc` and `stack` are the place of the driver's goroutine and where its
subroutine returns; a place is a point at which the code blocks or calls.  Every
exchange is two actions (`Prepare`/`PrepareRead`, `Execute`/`ExecuteRead`, ...):
what the code does up to the write, and what it does with the result of the
read.  `Receive` is the reading in between.  The four deadline-abandon sites of
`statement.go` share `Abandon` and end in `DrainRead` or `driver.ErrBadConn`.

`database/sql` is external, modelled by what the driver relies on: one call at a
time per connection; `driver.ErrBadConn` closes the connection and, where the
package does so, repeats the call (`Retry`) on a new one (`Reconnect`); any
other error keeps it (`Ends`, `Finish`).  The server is external too: it answers
in order (`Server`, `Effect`), keeps transactions, and `applied` counts how often
each call's work was committed.  `fate` is what the application was told.

`Faults` selects what may go wrong: the server silent beyond the context's
deadline (`ctxstall`), beyond the fixed 10 s on a connection already given up
(`doomstall`) or on one in good standing (`stall`), the socket dying (`death`),
a row or slice no decoder accepts (`malformed`), a column of a row still being
read when the context's deadline and its grace have passed (`latecolumn`).
`Fallible` are the requests it may refuse.

`Rows.Next` arms the context's deadline for the fetch and disarms it in a defer
(`rows.go:173`), so it also bounds the reads of the ARRAY and BLOB columns of the
chunk's first row.  `rows.fetched` says that the row is read by the `Next` that fetched
its chunk, and `NextReturns` disarms what that `Next` has armed, at each of its
returns; later rows of the chunk are read without a deadline.  At the places where a
column is read (`ColumnPlaces`) the deadline fires only under `latecolumn`, which
the runs leave out: section 4 says what happens then.

Three calls go beyond statements and rows.  A parameter that is a BLOB or an array
(`Params`) is stored while `op_execute` is half packed (`Upload`): a BLOB is
created and closed, the error of its creation dropped and the close's response read
at once, also on a lazy-send server; an array is put, and a failure ends the call
before `op_execute` is sent.  The deadline is armed after that.  A scrollable cursor
(`Prepare`, `ScrollFetch`, `ScrollClose`) is `Conn.Raw` territory: `database/sql`
does not see its errors, so a connection is evicted only if the program returns
`driver.ErrBadConn` from `Raw`, as it is asked to.  `ExecImmediate`
(`Immediate`, `ImmediateRead`) has the watcher and the deadline of an execution
but not its disposition of an abandoned response.  Both are called outside a `Tx`.

Left out, deliberately: a malformed `op_response`; data already in `bufio`'s
buffer that a read beyond a past deadline would still return; the queries for
array metadata nested in a preparation (`internalQuery`: their exchanges are
those of a query, and what is made of their rows is in `ArrayColumns`); a second
statement on the connection of a `Tx` while rows are open; isolation levels and
transaction parameters.

### `PreparedBatch`

The initial state is the end of `PrepareBatch`.  `Add` queues a row and flushes a
full queue; `Flush`, `Exec`, `Cancel`, `Close` are the other calls; the exchanges
between are `BatchCreate` to `Freed`.  On the server a batch holds rows, an
execution puts a subset of them in the transaction (the rows it accepts; a
nondeterministic choice stands for both settings of `ContinueOnError`), and a
commit applies them.  `owed`, `acked` and `rejected` record what the application
may still expect, was told is done, and was told has failed.

### `EventDelivery`, `EventFeed`

`Post` is another transaction's commit.  `Fire` is the server's answer to a
request that has come due, on the auxiliary connection.  `GetEventCounts` is the
arithmetic of `getEventCounts` (differences to `remoteEvent.counts`, the
thresholds in `BuildEpb`); `SendCount` hands one `Event` over; `DoEventCounts`,
`QueueEvents`, `Queued`, `QueueFails` are the subscription's goroutine, which
requeues once per `Event`, so that requests overlap.  The refinement maps
`posted` and `reported` to themselves.

### `EventLifecycle`

`pc[w][s]` follows each of the three callers that can end subscription `s`: the
application, the goroutine `FbEvent.Close` starts for it, the subscription's own
goroutine on an error of its reader.  `CloseCheck` reads `closed` and `SetClosed` sets it, two
steps with the others' between them, and `EnterOnce`/`PassOnce` are the
`sync.Once`.  A send on an unbuffered channel is a joint step of sender and
receiver (`SendDone` hands the subscription to `FbEvent.run`, whose next step is
`ShutdownSubscriber`).

### `InlineBlobCache`

`byTx` is the map as a set of entries, `size` its counter.  `Add`, `Take` and
`ClearTx` are the operations of the cache; around them are the places that call
them: a row with its BLOB (`Row`), a fetch that fails between the two
(`RowLost`), a BLOB column (`BlobColumn`, which reads the server when the cache
has nothing), the ends of a transaction, `Close`.  The server is external: the
content of each id, the ids each transaction may still ask for (`named`), and
`Reuse`, which gives an id another content once nobody can.  A transaction that
the server refused to end keeps its handle, so the handle is not used again.
`served` is a history variable.

### `Handshake`

A packet carries the `form` in which it was written; whoever reads it needs the
same.  `pc` is what the driver waits for.  `Connect`, `ReadOpcode`, `ReadHeader`,
`ReadAcceptData`, `ReadContAuth`, `ReadVerdict`, `ReadAck`, `ReadAttach` are the
reads of `_parse_connect_response` and `openFirebirdsqlConn`, each with what is
done up to the next; `HeaderLost` and `ReadFails` are reads that fail, `Conclude`
is the one decision about encryption with `op_crypt` and `setCryptKey` behind it,
`FormOf` is the order of the branches in `wireChannel.Read` and `Write`.
`Inflate` is the read inside `enableCompression`: `zlib.NewReader` waits for the first
bytes of the compressed stream, and its error is dropped.  An `op_response` without
an error to `op_connect` or to the public key is taken for the end of the handshake
(`ReadOpcode`, `ReadContAuth`).  `Attach` carries the set `Dpb`: the password itself,
which `opAttach` and `opCreate` always write (`isc_dpb_password`), and what has been
computed of it for a plugin where that has not been sent before.  Cryptography is
data: a key is there or not, a password is right or not, a nonce fits or not.

The server is external, modelled by what the driver takes for granted: it
compresses from right after the accept header, only if asked to; it answers `op_crypt`
as the first packet under the cipher, without an `op_dummy` before it, and does
not refuse what it has offered.  `opts.server` says which of two unusual things it may
do: answer `op_connect` or the public key by an `op_response` that reports no error
(`"answers"`), and compress after a plain `op_accept` (`"compresses"`).

### `ServiceManagers`

Three connections: the one a manager keeps, the one a call builds for itself and
a trace session's.  `pc` has the phase of each of three goroutines: the caller's,
the worker's that `WaitString`, `GetUsers` and `GetLimboTransactions` start, and the
program's own reader of a trace.  `Send` writes a request and `Take` reads the next
answer of that connection, whosever it is (`mixed`); the dispositions of each
phase (`Broken`, `Detached`, `Started`, `Banner`, `Looped`) are its error paths.
`Hand`, `Signal`, `Publish`, `Collect` and `Shut` are the channels: `WaitBuffer`'s
callback, the error channel, the channel of lines and its closing.  The server is
external: it runs one job per connection, its output is counted units, `stop` ends
the trace of another connection by its id, and it may answer any request with an
error (`MaxFaults`); `Cut` is the link failing.  `WaitForReader` says that the
program closes a trace only after its reader has returned.

### `Codecs` and the modules behind it

The pure code is operators, and `Codecs` a machine with one action per conversion:
an input chosen from a constant set, the driver's operators applied, and `done`
set to the input and what came out; the next input follows.  What came out is
compared with a definition that is not the code's: the calendar by days
following one another, a decimal by its value, a request by what the documented
tags mean, a stream by the records that were cut into it.

* `ArraySlices`: `array.go`'s way into a column and back (`ElementsFromGetter`,
  `PutSlice`, `SliceResponse`, `DecodeSliceElements`, `FillArraySetter`), with the
  server's slice in between (`Store`, `Slice`, external), the element layouts of each
  type and the slice descriptor's axes.  Texts are characters, of one or two bytes
  each in UTF8, so that the check of bytes against the column's characters is the
  code's; a scaled number goes through a float of `FloatBits` = 3 bits, in place of the
  53 of a float64, to numbers up to 15.  A slice of more elements than the column has,
  or with a text longer than its own, is refused, and so is one that ends within an
  element.  `StoredCases` are arrays another program has stored.
* `ArrayColumns`: `resolveArrayMeta` as it joins the rows of its two system
  queries, with the system tables as constants.
* `WireValues`: `paramsToBlr` and its descriptions, `encodeBatchRow`, `readRow` (the
  bytes of a value all name the parameter they belong to, so a reader that loses
  its place reads another's), `_convert_date` and its inverse, the zoned types
  through a table of offsets that change in summer, one declet of a decimal.
* `ServiceParams`: `XPBWriter`, `XPBReader`, every request block of the managers with
  its options, and the streams of users, limbo transactions and databases, cut
  into chunks anywhere.
* `StatementReplies`: `_parse_status_vector` with its templates, and `parse_xsqlda`,
  `_parse_select_items` and the loop that asks for the rest of a description.
* `Names`: `parseDSN` from what `net/url` returns on, the zone of a time, the
  encoder of a character set, the version of a banner.

## 3. The runs

| Run | Module | What it shows | Expected |
|---|---|---|---|
| `session_lazy` | `MCSession` | autocommit `exec`, `query`, prepared statements, `INSERT .. RETURNING`, BLOB and ARRAY arguments, rows with an ARRAY and a BLOB column, scrollable cursors and `ExecImmediate`, on a lazy-send server, under every context and fault but `stall` and `latecolumn`: no response lost, none taken for another's, no work applied twice, nothing cancelled pooled | holds |
| `session_tx` | `MCSession` | explicit transactions beside autocommit statements and `ExecImmediate`, without lazy send, with refused begins and commits; statements prepared before, in and after a transaction run in the one `fc.tx` names then, and in no other; a nil `fc.tx` is dereferenced by the calls that do not look at it, and by no other | holds |
| `session_live` | `MCSession` | every teardown, every statement call under a deadline (the `op_info_sql` of `exec`, which no watcher covers, among its reads), an `ExecImmediate` under one, and a Ping whose context is cancelled, end though the server may be silent for ever; before, in and after an explicit transaction | holds |
| `event_delivery` | `MCEvents` | no posting is lost, none told twice; implements `EventFeed` | holds |
| `event_lifecycle` | `MCLifecycle` | closing from three sides at once: no stale subscriber, all are reached, every call ends | holds |
| `batch` | `PreparedBatch` | every row of a successful `Exec` is applied once, a rejected one never | holds |
| `inline_blob` | `MCInlineBlob` | a BLOB column reads its own row's BLOB, whatever handles and ids were used before; `size` is what the map holds | holds |
| `handshake` | `MCHandshake` | every path of the handshake, compression and encryption not asked for together | holds |
| `services` | `ServiceManagers` | every call of the managers, alone and while a trace is read: the output whole, a success the server's, no connection of a call's own left open, `TraceSession.state` true, every call ends | holds |
| `codecs` | `MCCodecs` | every conversion gives back what went in, over every type and the boundaries of every field, with the exceptions each property names | holds |
| `prepared_returning` | `MCSession` | finding 1 | violation |
| `crypt_compress` | `MCHandshake` | finding 2 | violation |

### Bounds

| Constant | Value | Why it is enough |
|---|---|---|
| `MaxCalls` (sessions) | 2; 3 in `session_tx` | a desynchronisation made by one call shows in the next; three let a transaction be begun, used and ended, or a retry sit between two calls |
| `MaxRows` (sessions) | 1 | a fetch that returns a row and one that ends the cursor; more rows repeat the same exchange |
| `MaxTries` | 1 | one repetition is what makes work happen twice |
| `Columns` | none, a BLOB, an ARRAY then a BLOB | the exchanges of one column can only disturb a later one |
| `RawContexts` | none; deadline in `session_live` | the context of `ExecImmediate` and `QueryScrollable`: what one does to the safety properties is an observation below |
| `Params` | a BLOB and an array; none in the others | one argument stored before the execution is packed |
| `MaxPosts`, `PostedBefore` | 3, 1 | two overlapping requests and a posting between them; a name posted before the subscription |
| `Events` | two names | the counts of one are reported with those of the other |
| `Subs` | one | the callers of one subscription share state, subscriptions share only the list |
| `MaxEvents` | 2 | one Event in delivery and one behind it |
| `FlushAt`, `MaxRows`, `MaxCalls` (batch) | 1, 3, 4 | every `Add` after the first flushes; several flushes, an `Exec` and a call after it |
| `Handles`, `Ids`, `Contents` (inline BLOBs) | two each, symmetric | one used again while the other is in use |
| `MaxSize`, `MaxRows` (inline BLOBs) | 3 with lengths 1 and 2, 2 | the limit holds some sets of entries and not others; two rows may name one BLOB, and the second finds the cache empty |
| `Options` | all modes, plugins, right and wrong passwords; three plugin lists, three cipher lists, one of them empty | the preferred plugin in and out of the list with others, the ciphers in an order that is not the server's |
| `Offers` | six | none, ARC4 only, all, and for each ChaCha a nonce that does not fit |
| `MaxDummies` | 1 (0 in `crypt_compress`) | one at each place it may come |
| `MaxCalls`, `MaxTrace` (services) | 2, 5 | a call after one that failed, on a connection it left; a trace started, paused, resumed, stopped and closed |
| `MaxOut`, `MaxFaults` (services) | 2, 1 | a first and a last unit; one error or one broken link, at every step |
| `Years`, `Days`, `Seconds` | nine years, every day of each; five times of day | both kinds of century year, the years around the era of the day numbers, the ends of a day |
| array cases | every type that can be written, one to three dimensions, bounds below and above zero, values smaller and larger than the column; CHAR and VARCHAR slots of 3, 4, 5, 10 and 12 bytes with characters of one and two bytes; numbers of scale -2 around `2^FloatBits` and each type's limit | the stride of each dimension, the padding of each type, a text that fits in characters and not in bytes, a number the float rounds |
| stored arrays | up to four elements for a column of three, texts of its length and longer; the zoned types, the DECFLOATs and INT128 | what no `op_put_slice` of the driver has written |
| `Todays` | January and July | a zone's two offsets |
| messages | up to 130 parameters, each kind, nulls at every place | the null bitmap has more than one word; lengths around a multiple of four |
| `BufferLength` | 1024 | the code's; descriptions that end before, at and after it |
| `Streams` | up to two records, cut at each of the first 30 bytes and at two or three together | a chunk may end inside a tag, a length or a value |

Distinct states: `session_lazy` 808k, `session_tx` 2.9M, `session_live` 150k,
`event_delivery` 16k, `event_lifecycle` 42k, `batch` 620k, `inline_blob` 3.9k,
`handshake` 348k, `services` 272k, `codecs` 26k.
`event_lifecycle` with two subscriptions, no Events and no breaking connection
(6.1M states, two minutes, `Spec` and the symmetry of `MCLifecycle`) satisfies
the same invariants; the run keeps to one so that liveness and faults fit.

`CHECK_DEADLOCK FALSE` is set where the exploration stops: the application has
made its `MaxCalls` calls, or the server has posted or sent its last Event.  In
`FbSession` and `Handshake` this end is the action `Stopped`, so their runs check
for deadlock; so do `inline_blob` and `codecs`, which never stop.

### Properties

* `StreamAligned`: what is unread is exactly what is counted and what is
  awaited, unless a response was left behind or misread; `PoolAligned`: on a
  connection in the pool with a working socket nothing was, and no deadline is
  left armed.  Together they say each way of losing the place evicts the
  connection.
* `NoMisread`: whoever took another's response is about to lose the connection.
* `AckedApplied`, `AtMostOnce`, `OnlyByCommit` (sessions): work reported done in
  autocommit or by a commit is committed, never twice, retries included; work in
  a transaction only by its `Commit`.
* `CancelledEvicted`: `op_cancel` may hit the next statement of a connection, so
  none on which it was written for an execution is pooled.
* `NoPanic`: a nil `fc.tx` is dereferenced by the calls that do not look at it
  (`Unlooked`), and by no other; no call returns nil rows.
* `CallsReturn` (sessions): a teardown ends whatever the server does, and so do a
  call under a deadline and a Ping whose context ends.
* `Conserved`, `Forward`, `NeverDeaf`, `Delivered`, `FeedSpec` (events): counts
  add up, no Event has a count of zero or less, a quiet subscription has a
  request due for each event, all is told in the end.
* `NoStaleSubscriber`, `CloseReachesAll`, `EveryEndEnds` (life cycle): the list
  holds no subscription that is over, `Close` leaves none of those it took, and
  every `Close`, `Unsubscribe` and failed subscription comes to its end.
* `AckedOrCut`, `AtMostOnce`, `RejectedUndone`, `ExecEnds` (batch).  `AckedOrCut`
  is what remains of `AckedApplied` given the first observation on batches
  below: an acknowledged row is applied, or the writer had already failed.
* `Fresh`: what a BLOB column returns is what the BLOB of its row contains;
  `Owned`: no entry outlives its transaction, none is there twice; `Accounted`:
  `size` is the sum over the map and below the limit (inline BLOBs).
* `SameForm`: the head of each stream was written in the form its reader expects.
  `RequiredEncrypted`: under `wire_crypt=required` no attachment is asked for, or
  open, but under a cipher, if the server's responses to `op_connect` and to the public
  key report an error.  `OpenAgrees`: an open connection is open at both
  ends in one form.  `Chosen`: the cipher is the first of the client's list
  that both can use, and what is computed of the password is for a plugin of the
  list, the one the server selected (`Sanctioned`); and the password that every attach
  carries goes under a cipher wherever one fits and encryption is not disabled
  (`Guarded`).  `HandshakeEnds`.  `RequiredOnEveryOutcome` is `RequiredEncrypted` without
  its condition on the server, and no run checks it (section 4).

* `Whole` (services): a call that succeeds was given its job's output, all of it and
  in order.  `StateHonest`: a session said to be running, paused or stopped is so on
  the server.  `Released`: no call leaves a connection of its own open.  `Paired`: no
  goroutine reads the answer to another's request.  `CallsEnd`: every call returns if
  the server answers.
* `ArraysSurvive`, `MessagesParse`, `ValuesSurvive`, `SpbMeans`, `StreamsParse`,
  `StatusParses`, `DescribeComplete`, `NamesResolve` (codecs): one for each kind of
  conversion; the comment over each in `Codecs` says what is compared with what.
  `CharsTrimmed`, `ShapesSurvive`, `SlicesAligned` and `TimeTzSymmetric` are what the
  repository says of arrays and of TIME WITH TIME ZONE where it is not so (section 4); no
  run checks them: `ArraysSurvive` and `ValuesSurvive` say what holds instead, of the same inputs.

`TypeOK` of `PreparedBatch`, `DataType` of `InlineBlobCache` and of `Handshake`,
`Usable`, `CloseClosesAll` and `SilentAfterUnsubscribe` are definitions no run
checks: types, parts of proofs, and what the observations below are about.

### Fairness

`FairSpec` of the session and the batch: the driver's goroutine runs when it can
(the Go scheduler; a read ends when the socket's deadline fires, which is part
of `Receive`), and the timer of a context with a deadline fires.  In the
session, Ping's goroutine runs once its context is done.  In the batch `Overdue`,
the 3 s of grace running out, is a step of its own and fair.  The
server is never fair: it may be silent for ever, and so a read without a
deadline may last for ever, which is why `ExecEnds` and the parts of
`CallsReturn` about statements and Pings speak of calls with a deadline only (a
cancelled context writes `op_cancel` and goes on waiting), and why its part about teardowns depends on the fixed 10 s.

`FairSpec` of the events: the two goroutines run, and the server answers a
request that is due (it is event delivery that is asserted); postings are not
fair.  In the handshake both the driver and the server are fair: no read of the
handshake has a bound, so opening ends only if the server answers or the socket
breaks, and the property is about each waiting for what the other sends.  It leaves
out a server that compresses after a plain `op_accept` (section 4).
In the life cycle: goroutines run, and a server whose main connection has
been closed drops the auxiliary one, on which the driver relies because it does
not close it itself.  In the services all goroutines, the program's reader and the
server are fair: no read of a service connection has a bound.

## 4. Findings

1. **`prepared_returning`** (`statement.go:77`): `INSERT .. RETURNING` through a
   prepared statement in autocommit is reported done and not committed.
2. **`crypt_compress`** (`wirechannel.go:98`): with `wire_compress=true` and a
   cipher negotiated, the compressor's branch of `Read` and `Write` returns before
   the cipher is looked at.  The driver goes on in plain while the server has
   switched, and the response to `op_crypt` is not read as it was written.  The
   README's example `wire_crypt=true&wire_compress=true` asks for both.  The run
   `handshake` and the theorem therefore keep to names that ask for one.

### What the repository says and the models refute

TLC refutes each of these in a moment, with the constants given; no configuration is kept
for them, and what the runs check instead names the exception.

* Rows under a deadline (`rows.go:173`).  The deadline `Next` arms for its fetch also
  bounds the reads of the first row's ARRAY and BLOB columns.  When it cuts one, the
  error is `os.ErrDeadlineExceeded`, not `driver.ErrBadConn`; `badConn` is not set,
  `Close` goes on to free the statement and to commit, and the connection is pooled with
  the answer outstanding, or takes that answer for its own.  The comments at
  `rows.go:193` and `rows.go:223` say that such a connection is evicted.  `LazySend`,
  `Kinds` query, `Shapes` select, `Contexts` deadline, `Columns` ArrayBlob, `Faults`
  latecolumn, one call: `PoolAligned` and `NoMisread`; with an `exec` of a DML statement
  besides, two calls and a commit-retaining that may be refused, `AckedApplied`.  These
  three hold of rows read before that deadline: the runs leave `latecolumn` out, and the
  theorems have `ColumnsTimed` (section 5).
* `wire_crypt=required` (`wireprotocol.go:588`, `662`).  An `op_response` to `op_connect`
  or to the public key ends the handshake, without `wireCryptResolve`; if it reports no
  error the driver attaches in plain, the password in the attachment.  `README.md:134`
  promises a refusal on every non-encrypting outcome; the code's comment there is "error
  occured".  The constants of `handshake`: `RequiredOnEveryOutcome`.
* CHAR arrays (`array_meta.go:420`, `518`).  A CHAR element is read in whole words; the
  zero bytes behind a slot that is none hide its spaces from the trimming, which takes
  the spaces first.  `CHAR(3)` in a character set of one byte gives `'a  '`;
  `array_live_test.go:141` says the elements come back trimmed (its column fills a
  word).  The constants of `codecs`: `CharsTrimmed`.
* Arrays smaller than their column (`array.go:357`).  The elements of a value of several
  dimensions are written one after the other into the column's shape, so those of a
  smaller value change places; `array.go:98` and `README.md:187` say that dimensions are
  kept.  The constants of `codecs`: `ShapesSurvive`.
* Arrays of TIME and TIMESTAMP WITH TIME ZONE, the DECFLOATs and INT128
  (`array_meta.go:422`).  Their elements are taken for four bytes, so the reader stops in
  the middle of the slice, though `wireprotocol.go:1606` says that each is read in its
  wire form.  The zoned types are then refused, with the rest of the response unread on
  a connection that is kept.  The constants of `codecs`: `SlicesAligned`.
* TIME WITH TIME ZONE (`utils.go:243`, `xsqlvar.go:291`) is written with today's offset
  and read with that of 1 January 2020, so it comes back an hour off in summer; the
  comment at `utils.go:247` says the two are symmetric.  The constants of `codecs`:
  `TimeTzSymmetric`.

### Further observations

These follow from the models with other values of the constants; no
configuration is kept for them.

Session:
* a commit-retaining or a statement close whose response takes longer than
  `opResponseTimeout`'s 10 s ends in an ordinary error, or in none; the connection
  is pooled with the response still on its way (`transaction.go:120`), where the
  comment of `opResponseTimeout` says the caller discards it (`LazySend`, `Kinds`
  exec, `Shapes` dml, no context, `Faults` stall; `PoolAligned`);
* `opSliceResponse` has no skip loop (`wireprotocol.go:1610`): in a row with a BLOB
  before an ARRAY, on a lazy-send server, it takes the `op_close_blob` response for
  its own and fails with an error that does not evict the connection (`LazySend`,
  `Kinds` query, `Columns` BlobArray, no faults; `NoMisread`).  `session_lazy` has
  the ARRAY first;
* `ExecImmediate` has no disposition of a response it gave up waiting for: after a
  cancelled context the connection is pooled though `op_cancel` was written
  (`Kinds` immediate, `RawContexts` cancel; `CancelledEvicted`), after an expired one
  with the response outstanding (`RawContexts` deadline; `PoolAligned`,
  `NoMisread`);
* `QueryScrollable` ignores its context, does not check `fc.tx` for nil, and leaves
  ARRAY columns undecoded;
* `paramsToBlr` drops `createBlob`'s error (`wireprotocol.go:2103`, `2154`, `2184`): a
  refused `op_create_blob2` executes the statement with an empty value; and the
  uploads run before the deadline is set;
* a cancelled call inside a transaction, then the transaction's end: the
  connection is pooled with a response outstanding (`LazySend = FALSE`, `Kinds`
  begin and query, `TxContexts` deadline, `ctxstall` and `doomstall`;
  `PoolAligned`);
* Ping's goroutine is not joined: it may set a deadline in the past on the
  connection of the next call (`Kinds` ping, `PingContexts` deadline;
  `PoolAligned`);
* a refused commit-retaining after `query` of a procedure is dropped
  (`Fallible` commit_retaining; `AckedApplied`);
* a context cancelled during a fetch that succeeds has `op_cancel` written on a
  connection that is then pooled; `cancelled`, and with it `CancelledEvicted`,
  speaks of executions only;
* a `begin` the server refuses leaves `fc.tx` nil, which a statement prepared
  before dereferences (`session_tx` reaches it; `NoPanic` says that only such a
  statement, or `QueryScrollable`, does);
* a `query` that fails never closes its statement on the server;
* `Close` leaves the socket open when `op_detach` cannot be sent (`leaked`);
  `transactionSet` only grows; a refused `Commit` leaves the server's transaction
  open.

Batch:
* `Exec` releases the batch and commits while its context's deadline is armed.
  If it passes during the release, the release's timeout is dropped, the commit
  is never sent, which `sendPackets` does not report, and the late response to
  the release is taken for the commit's: `Exec` returns nil and nothing is
  committed (`batch.go:327`; `Contexts` deadline, `Faults` stall, no `Fallible`;
  `AckedApplied`, against `README.md:145`, "In autocommit mode, a successful
  `Exec` calls commit-retaining");
* a refused `op_batch_create` or `op_batch_msg` leaves the second response of the
  pair unread on a connection still in use (`Fallible` batch_msg, no faults;
  `Usable`), where `wireprotocol_parse_test.go:318` expects "clean server error
  must not poison the connection";
* with `batch_release` fallible as well, that leftover hides a refused commit
  (`AckedOrCut`);
* row errors in autocommit roll back what the open transaction held before the
  batch, too;
* `Cancel` and `Close` on a silent server wait without bound.

Events:
* a `Subscribe` that finishes after `FbEvent.Close` has taken the list leaves a
  subscription nobody closes (`event.go:105`; `Subs` of two, `MaxEvents` 0, none
  that may break; `CloseClosesAll`, against `event.go:163`, "Close closes FbEvent
  and all subscribers");
* each `Event` requeues, so the requests outstanding can multiply;
* a name given twice to `Subscribe` is reported twice; postings from before the
  subscription are reported to it;
* a failed requeue leaves the subscription silent without an error
  (`QueueFails`; `NeverDeaf` excepts it);
* an `Unsubscribe` that comes after `FbEvent.Close` blocks for ever
  (`UnsubscribeEnds` excepts it), and an Event may be delivered after
  `Unsubscribe` has returned (`SilentAfterUnsubscribe`, against
  `event_parity_test.go:161`);
* `newSubscription` failing after the attachment leaves its connection open;
* the reader goroutine can stay blocked for ever on its channel; an application
  that does not read its `NotifyClose` channel blocks the close.

Services:
* a program that closes a trace session while its reader is inside `Wait` has both
  read one connection, and each the other's answer (`WaitForReader` FALSE;
  `Paired`); a `Close` whose `Stop` fails cannot close the connection;
* `StartWithName` leaves its connection open on an error, and `NewServiceManager`
  its socket; `TraceManager.List` returns no text and no error when it fails;
* `WaitBuffer`'s cases for truncated output and the end of the output are not
  reached through `WaitStrings`;
* `GetLimboTransactions` sign-extends numbers of 32 bits; `DeleteUser` dereferences
  a `Username` that may be nil; a parameter longer than 65535 bytes loses the high
  part of its length; there is no option that turns `DeactivateIndexes` off again;
* `WithExpand` sets 0x8 (`consts.go:277`), which the server reads as "no garbage
  collection" (`consts.go:273`); the requests of `codecs` leave it out.

Arrays:
* the system tables are asked for all relations and all fields at once, so a
  relation of the statement with a field of another's array's name, of a type no
  array has, fails the whole preparation (`array_meta.go:161`; `Crossed` excepts it);
  names are looked up in upper case, so a relation created in quotes gets no shape,
  or its namesake's.

Types:
* a batch ignores a column's scale, and sends INT128, DECFLOAT, the zoned types and
  D_FLOAT as raw text without padding;
* an `int` parameter is cut to 32 bits;
* a text the character set cannot encode is sent empty.

Replies:
* a column whose description alone exceeds `BUFFER_LEN` is asked for without end
  (`wireprotocol.go:927`);
* after a continuation, `parse_xsqlda` rescans the buffer from `i`; the number of a
  column (1045, for one) may read as the start of another item;
* `@n` is replaced in the whole message built so far, so a parameter's text that
  holds `@2` is filled with the next parameter.

Names:
* a POSIX path with a colon in it loses its leading slash, an alias with one its
  first character (`dsn_test.go:31` expects the former for a drive letter).

Handshake:
* any failure after the socket is open, in `openFirebirdsqlConn`, returns without
  closing it;
* the error of reading the opcode is dropped, and of the accept header too: the
  zeros left are taken for the server's choice, and the failure shows later;
* the last `op_cont_auth` names `auth_plugin_name`, not the plugin selected;
* a ChaCha64 nonce of a wrong length fails the attempt, though another cipher of
  the list would do; `ChaCha` is skipped in that case;
* a server that falls silent hangs the caller: the handshake has no deadline;
* so does one that compresses after a plain `op_accept`: `enableCompression` waits in
  `zlib.NewReader` for the first compressed bytes (`wirechannel.go:90`), and the server
  has nothing to send before `op_attach` (`"compresses"` in `opts.server`;
  `HandshakeEnds` excepts it);
* the password is in every attachment (`isc_dpb_password`, `wireprotocol.go:1195`,
  `1301`), also after an SRP proof, and in plain where no cipher is used.

## 5. The proofs

Assumptions: the ones the modules name (`LazySendAssumption`,
`SessionAssumption`, `BatchAssumption`, `EventsAssumption`, `BoundsAssumption`,
`EventsLifecycleAssumption`, `CacheAssumption`, `OptionsAssumption`,
`ServiceAssumption`), that is, the constants' types and that names are distinct
(the names of events, and a subscription from the other values of `run`).
Except where a theorem names a hypothesis (the tables and paragraphs below say
which), nothing is assumed of sizes and faults: the theorems hold for any number of
calls, rows, columns, retries, names, postings, subscriptions and units of output,
and for every combination of faults.

**Wire** (`FbWire_proofs`).  `WireInv` is the wire's type, `StreamAligned`, and
`TimeoutLost` (a reported timeout has left a response behind).  One lemma per
action says that it preserves `WireInv`: `Ask`, `AskBlindly`, `AskLazily`,
`AskReclaiming`, `AskTwo`, the reads, the ends of a read, the deadline and the
server's answer.  They rest on lemmas about sequences: a request appended to an
aligned stream leaves it aligned, a packet taken from its head too.

**Session** (`FbSession_proofs`; `FbSessionWork_proofs` for `AtMostOnce`,
`OnlyByCommit` and `AckedApplied`).  `TypeOK` and `StreamAligned` are not inductive.
A step at one place needs to know what the place before has left: where the
stack may return to (`ControlOK`, by the table `StacksAt`), that `fc.tx` is set
where a transaction is named (`NilTxPlaces`), that what is reclaimed after a
preparation is the counted `op_allocate_statement` (`ReclaimOK`: without it
`AskReclaiming` could uncount a response that is still counted), and that a call
is repeated only where the package does so (`RetryOK`).  `IInv` is their
conjunction with `WireInv` and the types.  Each action has a lemma; `Invariance`
collects them, and `TypeCorrect` and `AlignedAlways` follow.

Four invariants do not hold under every fault (section 4), so their theorems
have hypotheses on the constants.  Each one is needed: without it TLC violates the
property on a small instance (`PoolAligned` for `TxReadsWell` and for `ColumnsTimed`).  `AckedAppliedAlways`, below, has them too.

| Hypothesis | Says | Needed by |
| --- | --- | --- |
| `PingFree` | Ping is given no context, so that no goroutine of it outlives the call | all four |
| `ColumnsTimed` | a row's columns cost no round trip, or are read before the deadline of the `Next` that fetched it | `NoMisreadAlways`, `PoolAlignedAlways` |
| `PoolTimed` | besides, only statements outside an explicit transaction have a context that ends, and not `ExecImmediate` | the other three |
| `"stall" \notin Faults` | no read under `opResponseTimeout` outlasts it on a connection still in use | `NoMisreadAlways`, `PoolAlignedAlways` |
| `"sql" \notin Fallible` | `op_execute2` fails with its last response, not with a failed `op_sql_response` | the same |
| `SlicesFirst` | on a lazy server a row with both has its ARRAYs before its BLOBs, and comes alone | the same |
| `TxReadsWell` | no malformed packet where explicit transactions are used | `PoolAlignedAlways` |

The runs `session_lazy` and `session_tx`, which check these properties, satisfy the
hypotheses.  The argument goes in layers, each an invariant of its own that rests on those before:

* `Deadlines`: which deadline is armed at which place and stays armed how long.
  None is left at rest, and a statement that timed out has a context that ended
  (`TimeoutOK`), because no stale goroutine of Ping sets one.
* `NilOK`: where `fc.tx` may be nil, and that only the calls in `Unlooked` go where it
  is not looked at.  `NoPanicAlways` follows.
* `TimedOK`, and `Evict`: the call in progress will return `driver.ErrBadConn`
  whatever happens (`GivingUp`), or the connection is closing.  A call that gives up
  goes on doing so at each of its steps (`EvictMoves`).  As `op_cancel` is written
  only by a call that gives up, `CancelledEvictedAlways` follows.
* `WireStep`: each step of a call does one of seven things to the
  wire.  The later lemmas are about those seven, not about the steps.
* `Owed`: which responses are awaited at which place.  `RowsKept`: what a call has
  decided, and the column it reads.  `SqlOK`, `TxBad`: inside an explicit
  transaction, whose connection `database/sql` keeps, `ErrBadConn` means that the
  peer is gone.  `LazyOK`: when a slice is read no response is counted, which
  `opSliceResponse` needs, having no skip loop.
* `Sound`: the packets that will be read are those of the counted requests, then of
  the awaited ones (`Agrees`, by `Matches`; on a socket that is up none is missing),
  or the connection is given up before anything was misread (`Spoiled`).  A
  socket that dies cuts the stream at its end only, so what is read before is
  still what was asked.  `AllocOK` is the case of the response taken back from the
  count.

`StreamAligned` speaks of the connections that have lost nothing; `Sound` also of
those that have, which is why it needs the layers above.  `PoolAlignedAlways`
follows because a connection in the pool is not given up.  For `NoMisreadAlways`
a malformed packet in an explicit transaction need not be excluded: the stream is
then torn, and read no further (`Torn`).

`AtMostOnceAlways` needs no hypothesis.  It does not follow the responses, which may
be misread, but the work of a call itself, which is in one place: asked for by a
request not carried out, done by one transaction of the server, or committed
(`Once`).  No step of the server, a read or the death of the socket takes it further
than that (`Keeps`).  `database/sql` repeats a call that ended in `driver.ErrBadConn`
while its context was not done, so at each place where that may still happen no
commit is under way that would take the work along (`Uncommitted`, in `Safe`); the new
attempt starts on a connection of its own, when the server has dropped what the old
one had left (`Untouched`, in `AgainOK`).  The delicate places are behind the commit:

* `stmt.exec` returns what `commitRetainging` returned.  That is never the
  `ErrBadConn` of a read (`ResOK`: `opResponse` makes none for an untyped
  response), so a commit that was sent is not repeated; only one the writer refused is.
* `fc.exec` closes its statement in a defer, whatever happened, and that commits
  too.  An execution that failed because it could not be written has left its error
  in the `bufio.Writer`, which refuses the commit likewise (`Decided` in `Safe`,
  `ClosingOnce`).  The other `ErrBadConn` of `stmt.exec` is for a context that is done.

`OnlyByCommitAlways` (the work of a call inside an explicit transaction is not
committed before `Tx.Commit`, and never once `Tx.Rollback` was called) follows the same
work with the handle it is on.

* `TxOK`: while the transaction runs (`InTx`), no place that begins or commits
  another is reached (`OutsideTx`), and its object has neither `autocommit` nor
  `needBegin` set; so the steps in between leave the object as it is (`TxObjects`), and
  every execution names its handle.  `BeginOK` says the same of the object `BeginTx` is making.
* `FateOK`: what the application knows of its calls agrees with where they are; a call
  is `Running` only inside the transaction, and not where that ends.
* `Guarded`: a running call's work is uncommitted and on the transaction's own handle
  (`OnOurs`); that of a transaction rolled back is followed by the rollback before any
  commit, wherever it is (`Undone`), or it is uncommitted and nothing more can be sent
  (`Broken`), or the rollback is about to be written.
* `SrvOK`: a transaction the server has ended holds no work.

`Undone` needs the order of the stream: a request carried out moves the work from the
stream to a transaction, and the rollback stays between it and the next commit
(`ServerFollows`).  The hypothesis `"rollback" \notin Fallible` is needed.
`Rollback` marks the object as ended whatever the server has answered
(`transaction.go`), with the old handle; if the server refused, a prepared statement
closed afterwards commits that handle, retaining, as in autocommit
(`freeStatement`), and the work goes with it.  TLC finds it with `Fallible` = {"rollback"} and
four calls of the kinds exec, begin, stmtExec and stmtClose; the runs satisfy the
hypothesis.

`AckedAppliedAlways` (the work of a call that was told it succeeded is committed)
is the other half of `AtMostOnceAlways`, and does follow the responses, so it rests on
`Sound`, with the hypotheses of `NoMisreadAlways`, `ColumnsTimed` among them.  `PoolTimed` and
`"stall" \notin Faults` are needed: without them a response left behind stands in for
that of a refused commit (TLC finds it in calls of the kinds exec, begin, immediate
and ping with the contexts or the fault named).  `"sql"` plays no part under
`PlainQueries` (below); `SlicesFirst` TLC does not show to be needed, `Sound` has it.

* `Accounted`: on a connection that is kept the server agrees with the driver about the
  work of call `i`, whatever the driver has heard so far.  While an execution is awaited
  (`BeingDone`) its request is the call's and names the handle of `fc.tx`, or it was
  answered and the work is done there (`Performed`).  Between the answer and the commit
  (`Held`: on the way to `commitRetainging`, or for the rest of an explicit
  transaction) it stays there.  While the commit is awaited (`BeingCommitted`) its
  request names the transaction that did the work, or it was answered and the work is
  committed; and so it is when the call is about to return no error (`Settled`).
* `AwaitOK`: which responses are awaited where, so that nothing that would undo the
  work is in the stream (`Unthreatened`), and a response that satisfies the driver is
  that of the request it stands for (`ObtainedOps`, by `Sound`).
* `AutoOK`: outside an explicit transaction `fc.tx` is in autocommit, so no call
  succeeds without a commit-retaining (`SucceedsWell`).  `CommitPlaces`: what is
  `committing` is so in `Tx.Commit` only.
* `WorkOK`: a call that has work goes only where `Exec`, a statement's `Exec` and
  `ExecImmediate` go.

The last is where the hypothesis `PlainQueries` comes in: no query runs an EXECUTE
PROCEDURE or a RETURNING statement.  For those the theorem is false: a prepared one
is not committed when it returns (`prepared_returning`), and what `query` runs drops
the error of its commit (section 4).  A malformed packet in an explicit transaction need
not be excluded: once the stream is torn nothing is obtained any more, so no
execution or commit that was awaited succeeds (`Spent`).

**Batch** (`PreparedBatch_proofs`, on the lemmas of `FbWire_proofs`).  That no row
is committed twice needs a row to be followed from `Add` to the server.  `Spread`:
a row is in one place of the driver, the queue, one message, or the hands of an
`Add` that has to flush first.  `Sent`: the request that carries a message is on
the stream once, so that the server takes it once.  `Stored`: the server holds a
row at most once, in the batch, executed or committed, and only if it has taken
the message that carries it.  The lemma `StepKinds` divides the steps into the
message, the server's answer and all others; the others move no message
(`MovedSent`) and no row of the server.  The rows of a message are counted with a
cardinality (`OccursOnce`), for which `FiniteSetTheorems` is used.  `OnceAlways`
does not depend on `FlushAt` or on what the application does after an error.

That a row of an `Exec` which reported row errors is never committed
(`UndoneAlways`) needs the same rows followed past the server's transaction.
`Ended` says it: such a row is `Undone`, that is, it is not committed, and before
any `op_commit_retaining` that still waits the transaction is over or a rollback
waits, unless the row has not been sent by then; a row of the `Exec` under way is
`Safe`, not committed and sent after every commit that waits, until `Exec` commits
itself; and `Exec` commits only without row errors and reports them after its
rollback is sent (`Reports`).  The hypothesis `"rollback" \notin Fallible` is needed
because `Exec` ignores what the rollback returns (`batch.go:326`): if the server
refuses it, the next commit takes the rows along (TLC finds it when `"rollback"` is
added to `Fallible`).  The run `batch` satisfies it.

`AckedOrCut` stays with TLC, and is claimed for the calls of the run only.  Each
refused `op_batch_create`, `op_batch_msg` or `op_release_batch` leaves its second
response unread (`receiveTwoResponses` stops at the first error), so a program
that goes on with the same batch after enough such errors reads an earlier
completion for a later `Exec`; more than twice `MaxCalls` calls are needed.

**Events** (`Events_proofs`).  `IInv` is `TypeOK`, `Conserved`, `Forward`,
`Ordered` and `Awaited`.  That counts never go back although requests overlap
rests on `Ordered`: the buffers on their way, the counts known and the postings
form a non-decreasing sequence.  `NeverDeafAlways` rests on `Awaited`: some
request outstanding has the thresholds of the counts known, or the driver has
still something in hand that leads to one.
`Implements` maps each step to a `Report`, a `Post` or a stutter.

**Life cycle** (`Events_proofs`, which extends both modules of the events, whose
names are therefore distinct).  `LifeInv` says who is inside the `sync.Once` of each subscription
(`Locked`), that `doClose` has set the flag before it comes there
(`ClosedFirst`), that `FbEvent.Close` works only on what it has taken off the
list (`Taken`), that nobody ends a subscription that was not made
(`Unmade`), and that of one that is over and still listed `run` is being told
(`Reported`), unless it was told before the subscription was appended and did
not find it (`dropped`).  `NeverStale` and `CloseReaches` rest on its last two
parts.

**Inline BLOBs** (`InlineBlobCache_proofs`).  `IInv` is the types, `Owned` and
`Fresh`.  `Fresh` alone is not inductive: that what the cache returns is still
the BLOB's content rests on `Owned`, an entry's transaction being open and its id
among those it was sent, so that the server cannot have used it again.
`DataType`, the module's type invariant, is part of it, and no run repeats it.
`AccountedAlways` needs the sum of the entries' lengths.  A sum over a set is a
fold, which would need induction; the module counts the bytes instead
(`LengthOf` is the cardinality of `BytesOf`, the pairs of an entry and an offset),
so that an entry added or dropped is a disjoint union.  `Counted` adds to
`Accounted` that the entries are finitely many.

**Handshake** (`Handshake_proofs`).  `RequiredAlways` is proved for any `Options`
that satisfy `Separate` (no data source name asks for compression unless
encryption is disabled), which finding 2 makes necessary, and is about servers that
do not answer by an `op_response` without an error, which section 4 makes necessary.
`IInv` is the types of
both streams and of the driver, with three facts of place: the compressor is on
only if it was asked for, and the driver has its cipher from `op_crypt` on.  The
lemma `ConcludeInv` is about the one decision, and every path cites it.  The types
(`DataType`) are proved here and not stated in a run.

`SameFormAlways`, `OpenAgreesAlways` and `ChosenAlways` are about both ends and
share one invariant, `Talk`.  `Asked`: at most one request is on its way, it is the
one the driver's place calls for, in the form the server reads.  `Answered`: what
the server has sent for that place, packet by packet, wherever the socket has cut
it off, `op_dummy` included.  `Tuned`: which form each end is in at each place; the
two differ only between a packet that switches and the one after it.  `Agreed`:
what each end knows of the other's plugin, key and ciphers.  The cipher the driver
settles on is the first that fits (`GuessBest`): the model takes the least index of
its list, and that a non-empty set of naturals has a least element (`Least`) comes
from the well-foundedness of `<`, a fact without an operator parameter.

**Services** (`ServiceManagers_proofs`).  `CallInv` says which goroutine works on
which connection (`CallerOK`, `WorkerOK`, `ReaderOK`) and that an open connection
of a call's own has someone who will come to close it (`Owned`); `ReleasedAlways`
follows, whichever step fails.  For `PairedAlways` the lines themselves are needed:
`Lines` says that a live connection carries nothing, or the one request or answer
of the goroutine that waits on it.  The lemma `Alone`, two goroutines never ask on
the same connection, is where `WaitForReader` is used: the theorem is about programs
that close a trace session after its reader has returned.

`WholeAlways` follows the output of one call, from the unit the server's job prints
to what the caller returns.  `Jobs`: a job hands out no more than it has printed.
`Output`: what the collector has, what the goroutine of `WaitBuffer` or
`WaitStrings` holds, what the answer on its way carries and what the job has not
handed out yet follow on each other without a gap, and a call that is about to
return no error has them all.  `HonestAlways` follows a control instead
(`Controls`, `Stages`): where the caller stands in `Pause`, `Resume`, `Stop` or
`Close`, what it has asked for, and what the server's trace session has done of
it.  Both need `PInv`, the invariant of `PairedAlways`: an answer read by the wrong
goroutine is a gap in its output.

Only model-checked: `AckedOrCut` of the batch (above), and every liveness
property: TLAPS proves no liveness under fairness.  The conversions of `Codecs` are folds and recursive
operators over sequences, which would need induction over data; TLC compares
them with their references on the inputs listed.

## 6. Not modelled

* Cryptography: `srp.go`, `chacha20.go`, ARC4, zlib.  A proof is right or wrong, a
  stream is in a form or not (`Handshake`).
* URL syntax, the text of a decimal or a date, the tables generated from Firebird's
  sources: external or data; the runs use a few rows of each table.
* The conversion of each Go type to each column type (`array.go`'s reflection,
  integers with a scale, `INT128`): data.
* `op_crypt_key_callback`, the question of a server with an encrypted database;
  isolation levels.
* Two batches, or a batch and other statements, on one connection: the batch
  alone is checked.
* Delivery and life cycle of events together: a subscription that ends while
  Events are on their way is in the life cycle only, without the counts.
* A subscription whose connection cannot be closed (`connection.go:150`) and the
  sockets left open by a failed `openFirebirdsqlConn` (`connection.go:231`):
  resources of the process, of which the models keep only `leaked`.
* Two applications on one `TraceSession`: the type has no lock and does not promise it.

## 7. What could follow

1. `PreparedBatch` composed with other calls of its connection; delivery
   composed with the life cycle; the inline BLOB cache in the rows of a session.
2. Proofs: `AckedOrCut` of the batch.
