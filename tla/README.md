# effect-tls-client in TLA+

A verification project for `effect-tls-client`: an Effect library (TypeScript)
that talks to a Go process, the Bridge, over its stdin and stdout. The modules
here model both sides, from the HTTP adapter down to Go's goroutines. TLC checks
them on small instances and TLAPS proves the main safety properties for all
values of the constants. `PROJECT.json` maps every definition to the lines it
models and lists the hazards the properties are for.

## 1. The system

```
 user fibres ── TlsHttpClient ── TlsClient ── Bridge service ═stdin/stdout═ dispatcher ── goroutines
                TlsHttpClient.ts TlsClient.ts Bridge.ts, Frame.ts           main.go       session.go, websocket.go
                abort, scopes    sessions,    pending map, loops            operations    sessions, gates, uploads
                                 sockets
```

A frame carries a kind, a 32-bit operation id allocated by the client, JSON
metadata and bytes. One id is one operation; Go ends each with one terminal
frame (`ok`, `error`, `end`, `ws.closed`). Bodies flow under credit in both
directions. `docs/design/03-protocol.md` is the contract.

### Inventory

| Component | State | Operations | What is hard | What makes it correct |
|---|---|---|---|---|
| Dispatcher (`bridge/main.go`) | `operations` table, contexts, the wait group | start, cancel, finish, cancelSession, cancelAll, stop, shutdown | cancel, close, destroy, shutdown and the goroutine race to end an operation | one terminal frame each; shutdown answered last; no destroy waits for ever |
| Credit window (`credits`) | `sent`, `acked`, a channel replaced at each ack | reserve, reserveWhole, ack | sleeping outside the mutex, short reads, clamped acks | no credit lost or made, no lost wake-up, the client's buffer stays within the window |
| Session store (`sessionStore`) | `sessions` map | create, get, remove, closeAll | requests use a session after it left the map | nothing uses a retired session; silence after the ok of destroy |
| Session gate (`proxyGate`, the client places) | `readers`, `writer`, `waitingWriters`, channel, two one-place channels | acquire and release for reading and writing, beginTrackedRequest | give-ups, wake-ups, writer preference, two nested resources | shared/exclusive lock, true counts, nobody starves |
| Request upload (`requestUpload`; `request` in `Bridge.ts`) | queue, credit, pipe, `ended`, `aborted`; `sent`, `acked`, `stopped` | accept, end, abort, run, next, wait; pump, cleanup | early responses, failing bodies, cancels, a transport that stops reading | honest client never refused, dispatcher never blocks, truncated is never whole |
| Request handling (`runRequest`) | locals, ephemeral session | validate, look up, gate, Do, headers, chunks, end | every error path must release what it holds | see the modules that hold its parts |
| WebSocket (`websocket.go`) | connection, `cancelled` | connect, write, close | two threads may end it | as for the dispatcher |
| Bandwidth | three trackers per session, retired totals, `bandwidthMu` | get, reset, retire, per-request delta | snapshots of many sessions under changing membership, a mutex held while waiting for gates | no byte lost or counted twice, a delta is the request's own, everybody ends |
| Bridge service (`Bridge.ts`) | `pending`, `dead`, `closing`, a deferred or queue per operation, `helloDeferred` | start, call, stream, request, webSocket, markDead, handleFrame, loops, release | interruption, death, timeouts and frames cross; finalizer order | a service exists only on agreement; waiters are known or answered; nothing abandoned; exit releases everybody |
| Frame codec (`Frame.ts`) | the undecoded rest | encodeFrame, decodeFrameView, push, finish | arbitrary cuts, limits | what was written is what is read, and when its last byte is there |
| Sessions (`TlsClient.ts`) | `activeSessions`, `destroySent`, `sessionActive`, gauge | session, its methods, destroySession, the layer's finalizer | scopes, interrupts, the layer and the Bridge end in any order | no orphan in Go, one destroy, exact gauge |
| Sockets (`makeWebSocketSocket`) | `connection`, `failure`, latch, `countedConnections`, gauge | reader, writers, closeConnection, setFailure | one value reused over several runs, writers that outlive a run | nobody sleeps on a decided socket, an old run never ends a new one, no operation outlives its run |
| Requests and HTTP adapter (`TlsClient.ts`, `TlsHttpClient.ts`) | requestScope, listener, cached accessors, the taps of `end` | normalizeRequest, requestWith, responseFrom, abortable, stream and accessors | the abort, the scope and several readers close the same thing | nothing left running, a body is whole or an error, counted once, the true error |
| Errors (`Errors.ts`) | – | errorFromMeta, handleErrorFrame, socketError, the adapter's reasons | which of several errors the caller hears | the body's own failure is never replaced |
| Cookie jar (Go) | tls-client's jar | get, set, export, import | data of another library | the form of cookies on the wire is in `RequestForm` |
| Telemetry, generated types, scripts | – | – | – | not modelled: no behaviour of their own at run time |

The components meet as follows. The client service and the dispatcher exchange
frames only. The dispatcher's thread hands each operation to a goroutine and
shares with it the table, the operation's context, its credits and its upload.
Goroutines share the session store, each session's gate and `bandwidthMu`.
`session.destroy` waits for other operations' `done` channels. On the client
every object is guarded by a scope; closing a scope runs finalizers that call
the Bridge again, which is where most of its hazards are.

## 2. Modules

| Module | Models | Role |
|---|---|---|
| `BoundedChannel` | what flow control promises: at most `Capacity` bytes between emit and pull | abstract |
| `Credits`, `CreditsProofs` | one operation's window, its producer, the wire, the client's queue and acks | implements `BoundedChannel` |
| `Dispatcher`, `ProtocolProofs` | table, goroutines, WebSocket close, destroy, shutdown | component |
| `SharedLock` | what the gate promises | abstract |
| `ProxyGate`, `ProxyGateProofs` | the gate, with the client places | implements `SharedLock` |
| `Bandwidth`, `BandwidthProofs` | trackers, deltas, retired totals, process totals | composition over the gate and `bandwidthMu` |
| `RequestUpload`, `RequestProofs` | the upload, on both sides of the pipe | composition of Go and client code; implements `BoundedChannel` |
| `BridgeClient`, `BridgeClientProofs` | the running Bridge service, both pipes and the process as the client sees it | composition |
| `Frames`, `ProtocolProofs` | the codec and the incremental decoder | pure operators |
| `BridgeStart`, `ProtocolProofs` | spawn, handshake, decoding, timeout, release | composition over `Frames` |
| `Errors` | kinds of errors on their way up | pure operators |
| `RequestForm` | bodies, headers, lengths, cookies | pure operators |
| `HttpExchange`, `RequestProofs` | one request through adapter and client | composition over `RequestForm` and `Errors` |
| `Sessions`, `SessionsProofs` | the sessions of a layer | component |
| `Sockets`, `SocketsProofs` | one socket, run again and again | component over `Errors` |
| `MC*` | instances for TLC | |

`ProtocolProofs` holds what `03-protocol.md` promises (the codec, the handshake,
the terminal frames) and `RequestProofs` what concerns one request (its exchange
and the upload of its body). Where a module is used together with another that
has an `Init` and a `Next` of its own, its specification is named after it:
`UploadSpec` with `UploadInit` and `UploadNext`, `StartSpec` with `StartInit` and
`StartNext`.

### How they correspond to the code

**Credits.** `sent`, `acked` and the channel are the fields of `credits`; the
channel is a number, so "a sleeper holds the channel that was current when it
looked" is `channel = its number`. `reserve`, `reserveWhole` and `ack` are one
step per locked section. The three producers (`runStream`, `runRequest`,
`runWebSocket`) are one process with a kind. The producer reads, gives back the
rest of its grant, and writes. A request may read less than was granted.

**Dispatcher.** One step is one locked section of the table or the store, one
frame written or one wait. `pc` is the place of an operation's goroutine. The
dispatcher's thread (`main`) has its own steps for `ws.close`, failed
`ws.write` and shutdown. What the client starts is a *plan*, a function from
operation to kind and session, so that TLC explores chosen mixes in full; the
theorems hold for any set of plans. A session name is created at most once
(`crypto.randomUUID`, `TlsClient.ts`); a create may fail (`RefuseCreate`). Frames
of the operations in `Unwritable` may be refused by the writer, at each of the
places that write one; `unwritten` remembers whose. Who had the gate is in
`readers`, which is what tells apart, in `SilentAfterDestroyed`, the operations
destroy is sure to have waited for from those that left the table before.

**ProxyGate.** A step is a locked section; sleeping on `changed` and being woken
are two. Giving up is possible wherever the code selects on `ctx.Done()`.
`closeIdleConnections` uses `context.Background()` and never gives up.

**Bandwidth.** An operation's place in its handler is its `pc`. The gate is the
lock `ProxyGate` is shown to be: who is inside follows from `pc`, a queued writer
keeps newcomers out, and what is done under the gate without waiting is one
step. `mu` is `bandwidthMu` where it is held across waits, in
`processBandwidth`; `retireSession` and the reset of the retired total hold it
within one step. Bytes read and written are one counter. `counted`, `erased` and
`closed` are bookkeeping of the model. `leaving` is a request that has left the
table and not yet given the gate back: `session.destroy` does not wait for it,
`closeIdleConnections` does. Not in the module: the trackers of WebSocket
clients, which move bytes outside the gate, the reading of a session's trackers
one after the other, and the retirement of every session at shutdown, when no
operation is left.

**RequestUpload.** `accept`, `end`, `abort`, `next`, `abortIfIncomplete` are one
step per locked section; the pipe is the unbuffered `io.Pipe`; the transport is
external: it reads the body, may close it, and answers when it likes. The
client is the pump of `request` with its credit and its `cleanup`; a stop may
catch it between the count of a chunk and its write (`DropChunk`). `held` is the
part of the body between the client's fibre and the transport, and the buffer
of the `BoundedChannel` the upload implements.

**BridgeClient.** A step of the client is a synchronous stretch of JavaScript.
`pending` is the map; deferreds and queue are `answered` (headers, `ws.open`)
and `result`. The process is what `Dispatcher` shows it to be (data, then one
terminal frame; for a WebSocket possibly one late frame), until it crashes, is
killed or emits a frame that must be refused. A write to a process that is gone
fails, or is taken by the pipe and lost, until the exit has been observed
(`Accept`, `Write`). The local queue of a socket refuses a frame when it has been
closed; that it is full, with 16 384 frames, is not reached by the bounds and
does the same. The scope's finalizers run in reverse order of registration, as
Effect does.

**Frames.** `encodeFrame`, `decodeFrameView`, `push` and `finish` with the length
prefix of two bytes and the other fields of one, so that a chunk may still end
inside the prefix. The order of the checks is the code's. The loop of `push` is a
recursive function of the offset.

**BridgeStart.** `makeBridge` up to the check of `helloAck`. What the process says
is chosen from a set of frames, noise and torn ends; stdout is cut anywhere. Of
the frames of one chunk `handleFrame` sees only the first of id 0 with an entry
in the map (`FirstOwn`): it either removes the entry or ends the loop. The
loop over stdout, the observer of the exit, the starter, its timeout or
interruption, and `release` are fibres of their own. `entry` is the operation
of id 0 with its deferred. Versions are one byte; `window` and `chunkSize` are
negotiated alike and one of them is modelled.

**Errors and RequestForm.** Operators. A header is the first one of its name, a
text is what decides about it, a number that is none is `NotANumber`. Cookies
keep their fields, with milliseconds, seconds and the case of `sameSite`
converted as the code does.

**HttpExchange.** `call` is where the caller's fibre is, `reader` where the two
ways of reading a response are (the stream, and the cached accessors, which share
one `Effect.cached`). `rscope` is `requestScope`, forked from the fibre's scope
`outer`; its finalizers run in one step, but for the one that waits for the
terminal frame (`closing`). The operation in Go is `asked`, `headers`, `over`:
what `BridgeClient` and `Dispatcher` say of it in detail. Between Go's answer
and the return to the caller there are two points where others may step in: the
end of the race with the signal (`answered`) and the close of a scope that has
closed already (`late`).

**Sessions.** `request` and `answer` are a caller's call of the Bridge. An
interrupted call still waits for its answer (that is `BridgeClient`'s
`cleanup`), so create and destroy of a session are never both on their way. The
interrupt before the create is written is `InterruptUnsent`: a failure whose
destroy Go answers with an error. The layer's finalizer takes a snapshot and runs
its destroyers in turn. All methods of a session are one kind of call: they differ
in data only.

**Sockets.** Each run of the reader opens a new operation, numbered in order.
`connection`, `failure`, `latch` and `countedConnections` are the variables the
runs share. `setFailure` wakes the writers in the step that opens the latch; a
woken writer looks again (`LookAgain`). `closeConnection` is `CloseConnection`
followed by `ReaderClosed`, `WriterClosed` or `OuterClosed`, where the wait for
Go ends.

## 3. Runs

With two workers every run finishes within about two minutes.

| Run | Bounds | Distinct states | What it shows |
|---|---|---|---|
| `credits` | window 3, chunk 2, body 5, all three producers | 5 427 | the books of the window balance, no lost wake-up, `BoundedChannel`, delivery and release on cancel |
| `dispatcher` | the five plans of `MCDispatcher`, two sessions, two data frames | 807 777 | at most one terminal frame each and exactly one unless a write is refused, no use after retirement, what may follow a goodbye, what is stopped ends |
| `proxy_gate` | two requests of one client, one returning reader, two writers | 14 196 | true counts, wake-ups, `SharedLock`, no starvation |
| `bandwidth` | three requests, a get, a reset, a destroy; one byte each | 711 077 | books balance, deltas are exact, everybody ends |
| `upload` | window 3, chunk 2, body 4 | 178 316 | window agreed, end of file means whole, acks in time, an upload ends |
| `bridge` | two operations of every pair of kinds, a crash, a bad frame, release | 3 440 744 | waiters are accounted for, an honest Bridge is trusted, nothing is abandoned |
| `bridge_ends` | two operations, scope open, honest Bridge that may crash between two frames | 103 865 | exit and interrupts release fibres |
| `bridge_scope_close` | two calls, the scope is closed | – | *violation*: in flight when the loops are stopped |
| `start` | six frames to say, two of them said, three kinds of noise, two torn ends | 162 491 | decoding survives any cut, a service exists exactly on agreement, the start settles |
| `sockets` | two runs, two writers | 98 682 | writers sleep only without connection and reason, own reasons only, true gauge, no operation outlives its run |
| `sessions` | two callers | 14 161 | no orphan, one destroy, exact gauge, abandoned sessions go |
| `http` | every kind of body, five declared lengths, two chunks, two readers | 32 661 | nothing left running, no chunk lost or doubled, one count, the body's own failure told, honest lengths, an abort ends |

### Why the bounds are enough

A chunk size that does not divide the window and a body longer than the window
make every case of `reserve` happen: full grant, clamped grant, wait. Two
readers and two writers make every pair meet on the gate, with a third reader
to overtake. The dispatcher's plans pair each kind that ends others (destroy,
close, shutdown) with each kind it may end, in two sessions, so that one
session's destroy is seen not to touch the other. In `BridgeClient` operations
meet only through `dead` and the wire, so two are enough for every meeting; two
data frames are the first answer and one that is in flight while the socket is
closed. In `Bandwidth` a byte is lost or counted twice as soon as one is, so
every request moves at most one, and one get, one reset and one destroy each meet
a request before, in and after its place, and each other.

In `BridgeStart` two frames are the answer and one that comes with it or late;
`MAX_FRAME_LENGTH` 5 is met exactly by a frame with metadata of two bytes and
exceeded by the noise. In `Sockets` an earlier run can only meet the run that is
open, so two runs are enough; of two writers one may sleep while the other fails.
One operation that may be cancelled and whose writes may be refused is enough in
`Dispatcher`: it is the second of each plan, in turn a request, a WebSocket, a destroy and a
create, with others before, beside and behind it. In `Sessions` callers meet only in the layer's map and the gauge. In
`HttpExchange` a body of two chunks can be cut after the first, and the lengths
are absent, zero, right, wrong and no number.

`MaxFrames`, `Body`, `Ops`, `Plans`, `MaxSaid`, `MaxRuns`, `Size` and `MaxBytes`
are bounds of the models, not of the code.

### Fairness

Go runs every goroutine that can run, and JavaScript's event loop every fibre
that can run: weak fairness on their steps. The rest is stated in each module
next to its specification:

* clients are not obliged to start, cancel, close or leave. Where a property
  speaks of delivery the consumer is assumed to go on pulling, which is the
  caller's contract with the library;
* in `ProxyGate` whoever holds the gate lets it go; strong fairness is used only
  where a locked section competes for the mutex, which Go's mutexes grant in the
  end (starvation mode);
* in `Bandwidth` operations that have begun go on without giving up; that no
  response lasts for ever is the hypothesis `ResponsesEnd` of `EverybodyEnds`, since
  a request without a timeout may last as long as its server wants;
* in `RequestUpload` a transport whose context is done fails; that it reads is the
  hypothesis `TransportReads` of the property that needs it;
* in `BridgeClient`, `HttpExchange` and `Sockets` an operation that was told to end
  ends (`StoppedEnds` of `Dispatcher`, and the close timeout of `websocket.go`);
  nothing is assumed of an operation nobody stopped;
* in `BridgeStart` timers fire and the scope of a failed start is closed; the
  process need not answer or exit by itself;
* in `Sockets` the scope of a reader is closed in the end; in `Sessions` Go answers
  what it is asked until it dies.

What the models assume of Effect's runtime: a scope runs its finalizers once, in
reverse order, and at once when it has closed before; `Effect.cached` runs once;
`Stream.interruptWhen` interrupts; a fibre that is resumed after an asynchronous
wait is not descheduled again in the few operations before its next one, where
the code has no other wait. A reader of a socket runs after the scope of the run
before it has closed, as the package's README asks.

## 4. Findings

`bridge_scope_close`: the loops are forked into the scope after `release` has been
registered and are therefore interrupted before it runs. Nobody reads the answer
to shutdown and nobody fails the operations in flight, where the protocol
document says that the exit fails all pending operations.

Four more places where the code and a reader's expectation part were met while
modelling. They are part of the models, and no run is spent on them:

* the goroutine of a WebSocket checks `isCurrent` and writes in two steps
  (`websocket.go:307`, `315`); the dispatcher may end the operation in between, so
  a `ws.frame` can follow the terminal frame. The client drops frames of ids it
  does not know: `HonestBridgeTrusted` holds with such frames.
* `close` of a socket fails the local queue; the next frame on its way finds it
  closed and ends the operation on the client with "queue capacity exceeded"
  (`Bridge.ts:604`), which is why `NothingAbandoned` leaves WebSockets out.
* `WriteFrame` refuses a frame over 16 MiB (`protocol/frame.go:136-140`). When it
  is the frame of headers, of `ws.open` or of a terminal, or stdout is broken, the
  operation leaves the table without a terminal frame, where
  `docs/design/03-protocol.md:71` promises exactly one. `OneTerminalEach` says at
  most one, and none only for an operation in `unwritten`; `Unwritable = {}` is the
  document's statement.
* only `call` looks at `getDead()` again after it has registered (`Bridge.ts:946`).
  A `stream`, `request` or `webSocket` descheduled between its look and its
  registration (`Bridge.ts:1030`) enters the map of a dead service. It takes the
  end of the scheduler's budget at that point and a start frame accepted before
  the SIGKILL takes effect, or taken by the pipe of a process whose last frame was
  cut short, which ends the service before the exit is known. `WaitersAccounted`
  holds all the same: such a waiter is in the map, and the comment on it says that
  this is no promise that something will still come. `bridge_ends` therefore has
  crashes between frames only. `Kinds = {"stream"}`, `Faults = "badFrame"`,
  `Closes = "never"` shows it against `ExitFailsEveryone`.

Two consequences of the design the models show, and which are stated here
because no document does: the scope of a request that closes while the headers
are awaited ends the operation only once it has been answered (`late` in
`HttpExchange`), and a response whose stream has been read gives an empty or
partial body to a cached accessor that is asked afterwards.

## 5. Proofs

| Theorem | Statement |
|---|---|
| `CreditsProofs!Accounts`, `WakeupNotLost`, `Refinement` | `CreditAccounted`, `NoLostWakeup`, `ImplementsChannel` |
| `ProtocolProofs!RoundTrip` | what `encodeFrame` takes, `decodeFrameView` gives back |
| `ProtocolProofs!FramesSurviveCuts`, `OnlyAgreementDecides` | `CutsKeepFrames`, `AgreementDecides` |
| `ProtocolProofs!TerminalEach`, `RetiredUnused` | `OneTerminalEach`, `NoUseAfterRetire` |
| `ProtocolProofs!DestroyedSilent`, `ShutdownSilent`, `FarewellsAreLast` | what may still be written after the ok of a destroy, that nothing follows the ok of shutdown, and both with `GoodbyeLast` as `SilenceAfterGoodbye` |
| `ProxyGateProofs!GateIsTrue`, `NobodySleepsThrough`, `Refinement` | `GateTrue`, `NoSleepThrough`, `ImplementsLock` |
| `BandwidthProofs!DeltasAreExact`, `BooksAlwaysBalance` | `DeltaExact`, `BooksBalance` |
| `BridgeClientProofs!WaitersAreAccountedFor`, `HonestTrusted`, `NoneAbandoned` | `WaitersAccounted`, `HonestBridgeTrusted`, `NothingAbandoned` |
| `RequestProofs!WindowIsAgreed`, `EofIsWhole`, `AcksAreTimely` | `WindowAgreed`, `EofMeansWhole`, `AcksInTime` |
| `RequestProofs!UploadIsChannel` | the upload implements `BoundedChannel` too: no more than a window of a body is held on its way |
| `RequestProofs!ScopeClosesAll`, `BodiesAreWhole`, `CountedAndTold`, `AdapterTellsTheTruth` | `NothingLeft`, `BodyIsWhole`, `ToldOnceAndTruly`, `DeclaredIsSent` |
| `RequestProofs!CookiesSurvive` | a cookie of the wire survives Effect's jar and back, but for an empty path, which becomes `/` |
| `SessionsProofs!NobodyOrphaned`, `DestroyedOnce`, `GaugeIsExact` | `NoOrphan`, `DestroyOnce`, `GaugeExact` |
| `SocketsProofs!NobodySleepsOn`, `ReasonsAreOwn`, `GaugeIsTrue` | `SleepsOnlyUndecided`, `OnlyOwnReason`, `GaugeTrue` |

Every invariant and every safety property a run checks is a theorem.
`UploadIsChannel` is proved from the invariant of the upload and has no run of its
own (TLC agrees with it within the bounds of `upload`).

They rest on the named assumptions about the constants only. Bounds are natural
numbers, the sets of threads, callers, operations and sessions are finite where
something counts them, operations of different kinds are different, and the
values that mean "none" are not values of anything else. `BridgeStart` assumes of
its inputs what the code fixes: `Said` are frames `encodeFrame` takes, a member of
`Noise` is refused exactly at its last byte (what follows it nobody would read, so
the process says nothing more), a member of `Torn` is an unfinished frame.

Each is proved from an inductive invariant, in three steps: `Init => IInv`,
`IInv /\ [Next]_vars => IInv'`, `IInv => property`.

*Credits.* `Conservation` alone is not inductive: a grant in the producer's hand
must be tied to its place in the loop, and an acknowledgement never exceeds what
is outstanding. `NoLostWakeup` needs that a parked producer's channel is the
current one or older.

*Frames.* The argument about the decoder has three parts. Division with rest in a
base gives the length prefix back (`Division`), and from it `RoundTrip`. `Stream`
says what the bytes under way are: a function `w` from the number of frames read
to the bytes that remain, `w[i] = Encode(fs[i + 1]) \o w[i + 1]`. The loop of
`push` is a recursive function of the offset; `ScanExists` shows that a function
with its equation exists, which needs that every turn looks at larger offsets only,
and `ScanInFrame`, `ScanInTail` and `ScanGives` follow it through one frame, the
last and all of them, so that `PushGives` says what `push` returns for any chunk.

*BridgeStart.* `OutputInv` carries that over the steps: what the decoder keeps and
what is in the pipe are together the rest of the stream (`InStep`). `HelloInv`
ties the entry of id 0 to what has been decoded: while it waits nothing of id 0
has come (`Waiting`), its answer is the first frame of id 0 (`Answered`), and a
failure has an excuse (`Refusal`, `Down`). `AgreementDecides` speaks of what the
process has sent, so it needs that the first frame of id 0 of a prefix is the
first of the whole (`OwnOfPrefix`).

*Dispatcher.* The invariant ties four things: an operation that has left the table
owes its terminal frame at one known place (its goroutine or the dispatcher's
thread), has written it or was refused a frame; a session's users are in the table, or on their last steps, or are
waited for by the destroy; a destroy past its wait has no user left; and the
thread at its goodbye has waited for all.

*ProxyGate.* `CountsTrue` relates three counters to the cardinality of sets of
threads, so the lemmas about adding and removing one thread from a finite set
come first. The refinement maps who is inside the gate to `sharing` and `alone`.

*Bandwidth.* `DeltaExact` compares two snapshots of a shared tracker. It is
inductive with two facts: two requests are never in the same place, and while a
request is in its place the tracker shows its first snapshot and what the
request moved since. Only a byte of another request or a reset could break the
second; the place excludes the one, the gate the other. `BooksBalance` sums over
the sessions that are not retired. Lemmas about the community modules' fold come
first: a sum may be taken apart at any element (`SumRemoves`), changes by the
change of one (`SumChanges`), and a part of a sum of naturals is no larger
(`SumOfPart`). Then `Settled` says who may retire a session: one destroy, after its
session's last request has left the table, or the one session-less request at
its end. So no session is retired twice and no byte moves in a retired one. For
`NeverOvercounts` a get that is under way is `GetsAreBehind`: what it has added and
what the sessions still on its list show is at most what was moved since the bytes
that had been erased when it looked.

*RequestUpload.* Client and Bridge keep two books of the same window. `ClientBooks`
and `AckBooks` say what each has counted, `Arrival` that they differ by what is
under way only, and `EndAnnounced` that an accepted `body.end` has the whole body
before it. `WindowAgreed`, `EofMeansWhole`, `AcksInTime` and the bound on `held`
follow without further induction.

*BridgeClient.* None of the three properties is inductive, since each speaks of
the client while the truth travels in two pipes. `Sent` says where a fibre is by
now whose frame is still on its way to the process; `Worked` ties what the
process has of an operation to the client's map; `Known` that whoever waits is in
the map or told. `HonestBridgeTrusted` needs `Ordered`: as long as the client
listens, an operation that has emitted something and is not answered has its
first answer in the pipe, once, and before its data. The pipes are sequences, so
lemmas first say what appending, reading and cutting do to the sets `Wire` and
`Out` of frames under way and to the order of an operation's frames; the steps
then reason about sets only.

*HttpExchange.* `ScopesAgree` says how far the call, the request's scope and the
operation can be apart; `EndKnown` what a terminal frame says about the chunks
before it and about a body that failed; `Forming` that what is about to be sent
was made by the adapter from one of the program's requests.

*Sessions.* `Life` ties the place of a caller to what was asked and answered and
to what Go holds, `Destroying` bounds the destroys, `Booked` ties the layer's map
to the holders. The gauge is the cardinality of the sessions that are held and not
yet counted out, so each step either adds one, removes one or leaves the set.

*Sockets.* `Owned` says that the connection is the latest run's and who is closing
on which run; `CountedByReader` that only the latest run is counted, so that no
earlier one stays in the gauge.

### Induction over data

The library's induction theorems take an operator as a parameter, which the
provers at hand cannot instantiate. Two facts about what a recursive function
computes are proved all the same, from the theorems about well-founded relations,
whose parameters are sets. `Counting` says that a set which holds 0 and the
successor of whatever it holds has every natural (its complement would have a
least element), and `SubsetInduction` does the same for the parts of a finite set.
The existence of a recursive function is shown by building it: the values below
a bound, one more at each step, and the union of these. The decoder's loop and the
fold of a sum are covered in this way.

### Only model-checked

Liveness, which is out of TLAPS's reach under fairness: `FlowEnds`, `StoppedEnds`,
`Served`, `EverybodyEnds`, `UploadEnds`, `ExitFailsEveryone`, `InterruptEnds`,
`StartSettles`, `NoConnectionLeft`, `SessionsGo` and `AbortEnds`.

## 6. Not modelled

* Scripts, generated types, telemetry's declarations, the diagnostics dump: no
  behaviour of their own at run time.
* The cookie jar in Go: its rules are those of another library. What crosses
  the wire is in `RequestForm`.
* The schemas of metadata, header merging and the classification of Go's errors:
  data. The debug operations, except as producers of a stream.
* Go's frame codec: it reads blocking and whole frames; a malformed one ends the
  process, which is a crash in `BridgeClient`.
* Time. Timeouts are steps that may happen whenever the code waits; how long the
  one second of write deadline lets a peer who does not read hold up the
  dispatcher in `ws.write`, and whether the handshake's timeout is told as one or
  as a cancel, are not expressed.
* The reuse of ids after 2^32 operations: an operation is its id.
* The decoding of text and JSON bodies.

## 7. Plan

Done: `Credits`, `Dispatcher`, `ProxyGate`, `RequestUpload`, `BridgeClient`,
`Bandwidth`, then `Frames` and `BridgeStart`, `Sockets`, `Sessions`, `RequestForm`,
`Errors` and `HttpExchange`; every safety property of them proved.

Left, in this order:

1. One operation as its caller sees it (asked, answered, data, over) as an abstract
   specification: `BridgeClient` implements it for each of its operations, and
   `HttpExchange` takes its operation in Go from it.
2. The process part of `BridgeClient` as what `Dispatcher` implements.
3. `Bandwidth`'s requests and resets as users of `SharedLock`, with the steps under
   the gate taken apart.
4. More action properties like `SilentAfterDestroyed`, of the paths that must not be taken twice: the release of a
   gate, the cancel of an operation, the retirement of a session.
