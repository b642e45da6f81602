# A TLA+ verification of the libp2p daemon

This directory models `go-libp2p-daemon` (the fork with persistent control
connections and unary handlers) in TLA+, checks the models with TLC and proves
part of what they say with TLAPS. It is mostly about concurrency: the daemon serves
every control connection, every request of a persistent connection and every inbound
stream with goroutines of their own, its client library does the same with answers,
and most of their rules are kept by what those goroutines do in which order. Two
sequential parts are here because their inputs are hard to exhaust by tests: the
generated wire format and the way from a command line to a serving daemon.

## 1. Inventory

| Component | State | Operations | Hard behaviours |
|---|---|---|---|
| Registration and routing (`persistent_stream.go`, `conn.go`, `stream.go`) | `registeredUnaryProtocols`, `handlers`, the host's protocol table, one clean-up list per persistent connection | upgrade, AddUnaryHandler, hang-up and deferred clean-up, STREAM_HANDLER, inbound stream | two critical sections per registration; two maps behind one protocol table; streams routed before and served after a clean-up |
| Unary calls (`persistent_stream.go`, `p2pclient/unary_handlers.go`) | `cancelUnary`, `responseWaiters`, the client's `callFutures`, a stream per call | CallUnary, Cancel, UnaryResponse, `exchangeMessages`, `notifyWhenClosed`, the callback, the handler | a goroutine per message, so messages overtake each other; selects with several ready cases; closed channels; unbuffered sends without a way out |
| Daemon life cycle (`daemon.go`, `trap_posix.go`, end of `p2pd/main.go`) | `closed`, the listener and its socket file, `terminateWG`, `terminateOnce`, `cancelTerminateTimer` | Serve, Close, awaitTermination, KillOnTimeout, signals | three goroutines may run Close at once while the main one decides when the process ends |
| Control connection (`conn.go`, `dht.go`, `pubsub.go`, `connmgr.go`) | one request at a time; a DHT query and its forwarder; a stream; a subscription | one handler per request type | clients that send ahead, stop reading or vanish; timeouts; two goroutines per subscription |
| Stream pipe (`stream.go`) | a socket and a stream | two copying goroutines | half-close, reset and hang-up in either direction; an end that does not read |
| Client: persistent connection (`p2pclient/unary_handlers.go`, `p2pclient.go`) | `unaryHandlers`, `callFutures`, `openPersistentConn` | AddUnaryHandler, run, getResponse, handle, Close | a call that arrives before its handler is stored; the two sides of a future in either order; loss of the connection |
| Client: requests (`p2pclient/dht.go`, `pubsub.go`, `p2pclient.go`) | one connection per request; the channels of a streamed answer | simple requests, readDhtResponseStream and its converters, streamPubsubRequest | readers blocked on a caller that left; connections nobody closes |
| Client: streams (`p2pclient/streams.go`) | `handlers` under `mhandlers`, a listener | NewStreamHandler, streamDispatcher, NewStream, Close | head-of-line blocking; the daemon is faster than the client's own table; data right behind a header |
| Bootstrap (`bootstrap.go`) | the host's connections | Bootstrap, connectBootstrapPeers, keepBootstrapConnections | peers that are down or hang, one minute for all dials of a round, lost connections, a loop that never stops |
| Configuration and command line (`config/config.go`, `p2pd/main.go`) | the configuration; the stages of main | UnmarshalJSON, Validate, flags, the order of start-up | a file validated before the flags change it; fatal errors, crashes and untrapped signals after the socket exists; signals and the idle timer before Serve |
| Wire format (`pb/p2pd.pb.go`) | a buffer and its index | Unmarshal, skipP2Pd, Size, MarshalToSizedBuffer | lengths that overflow, truncated and repeated fields, unknown and nil fields, nesting, sizes that must agree with what is written |
| Safe writer, diagnostics, identity, key generation | none to speak of | one-shot | none |

Interactions. `handleConn` starts with every accepted connection and turns into
`handlePersistentConn`, `doStreamPipe` or `doPubsubPipe` for the requests that take
the connection over. Persistent connections and STREAM_HANDLER requests meet in
the host's protocol table under `d.mx`. A unary call crosses two clients and two
daemons, and is unmarshalled and marshalled at each. Persistent connections drive
the life cycle through `terminateWG` and `cancelTerminateTimer`; what a life cycle
leaves in the file system meets the next start.

What makes each part correct: a protocol has one owner, calls go to it, and it is
freed when the owner leaves (registration); a call returns what the handler returned,
once, and returns when it should (unary calls); the daemon closes when its reasons say
so, completely, and under a client only if that came too late (life cycle); answers
are framed and nothing a connection started outlives it (control connection); no byte
is lost that the two ends did not give up (pipe); an added handler serves, an answer
finds its caller (persistent client); the caller gets the daemon's values in order and
the connection is closed after them (client requests); an inbound stream finds its
handler with its data (client streams); the daemon is what its settings say and is not
kept from starting or isolated for long (start-up); what is read is complete and what
is passed on is what was read (wire format).

## 2. Modules

| Module | Models | Runs |
|---|---|---|
| `PersistentConn` | registration and routing; one action per critical section of `d.mx` | `persistent_conn`, `persistent_conn_leak` |
| `ProtocolRegistry` | abstract: protocols as locks, given up when the owner retires; refined by `PersistentConn` | (`persistent_conn`) |
| `UnaryRPC` | one unary call end to end, as seven goroutines and a handler | `unary_rpc`, `unary_hang` |
| `UnaryService` | abstract: a call seen from its two ends; refined by `UnaryRPC` | (`unary_rpc`) |
| `Lifecycle` | start to end of the process | `lifecycle` |
| `ControlConn` | one control connection | `control_conn` |
| `StreamPipe` | `doStreamPipe` | `stream_pipe` |
| `PersistentClient` | a client's persistent connection composed with the daemon's registration and routing | `persistent_client` |
| `ClientRequests` | a client's request over a connection of its own, composed with the daemon's answer | `client_requests` |
| `ClientStreams` | NewStreamHandler, the dispatcher and NewStream, composed with the daemon's proxying | `client_streams` |
| `Wire` | Unmarshal and skipP2Pd of every message | (`wire`) |
| `WireRelay` | Size and Marshal, and a message read, written and read again | `wire` |
| `Startup` | configuration, the stages of main, bootstrap, and a restart | `startup` |
| `PersistentConnProofs`, `UnaryRPCProofs`, `PersistentClientProofs`, `ClientRequestsProofs`, `ClientStreamsProofs`, `StartupProofs`, `WireProofs` | theorems about the module in their name (section 5) | |
| `DaemonProofs` | theorems about `ControlConn`, `StreamPipe` and `Lifecycle` | |
| `MCPersistentConn`, `MCWire`, `MCStartup` | symmetry sets and inputs for TLC | |

`PROJECT.json` maps every definition to the lines it models. Definitions whose
comment begins with `Variant:` are not part of any specification: each is the
operator after it with a plausible mistake put in, and the property named with it
in `PROJECT.json` fails when it takes the operator's place.

### PersistentConn

`registered` is `registeredUnaryProtocols`; the Go map only holds `true`, the model
remembers which connection put it there (a history the code does not keep, used by
properties and never by a guard that the code could not evaluate: guards only ask
whether an entry exists). `host` is the host's protocol table, `streamHandlers` the
clean-up lists, `handlers` the STREAM_HANDLER bindings. `req` follows the goroutine
of an AddUnaryHandler request through its two critical sections to the written
answer, `conn` follows `handlePersistentConn` to its deferred clean-up and
`handleConn` to the closed socket, `inbound` follows a stream from the multiplexer
(external) to its callback. A list is a set here: appending twice and removing by
name make order and repetition invisible.

### UnaryRPC

Each call has a record in `client` (CallUnaryHandler and its helper goroutine),
`daemon` (the CallUnary goroutine, `exchangeMessages`' goroutine, the Cancel
goroutine, the `cancelUnary` entry), `stream`, and `remote` (the callback with its
`responseWaiters` entry, the UnaryResponse goroutine and the handler). Program
counters name where a goroutine is. Go's `select` is two things: a select that finds
ready cases picks any (`TakeResponse`, `TakeCancel`, `TakeClosed` from `"selecting"`),
and one that finds none parks (`Park`), after which the first event decides, which is
why `CancelCall` completes a parked select itself. Panics are recorded in `crashed`
and stop everything. `callerUp` and `handlerUp` are the two clients' connections: a
message that cannot be written, because its connection is gone or Marshal refuses it,
is not noticed by its sender. A connection between the daemons that breaks
(`stream.broken`) is seen by both: the calling daemon's read fails, and so does the
read of `notifyWhenClosed` (`Cut`). A handler answers with a value, an error, or an
error with an empty message (`"blank"`), which CallUnaryHandler, going by the length,
takes for an empty result.

### Lifecycle

`conn` follows a control connection into `handlePersistentConn` up to `Add`,
`terminateOnce` and `Done`; `timer`, `waiter` and `closer` follow the three
goroutines that may run `Close`, whose stages interleave freely; `serve` follows the
main goroutine. When `Serve` returns the process is over, whatever the others were
doing. Waking a WaitGroup that was counted up again panics, as in Go. The return of
`Wait`, the firing of the timer and the receipt of a signal are steps of their own
(`waiter`, `timer`, `caught`), before the first step of the `Close` they call. The
unguarded `cancelTerminateTimer` is part of `timer`: nil while the goroutine is
`"starting"`, there while it is on its way into its select (`"selecting"`, or
`"cancelled"` if a client called it), and able to wake it once it is `"parked"`.
`foundTimer` and `joined` are history: where the timer was when a client upgraded,
and where the waiter was when it was counted.

### ControlConn

`inbox` and `log` are the two directions of the socket, which holds `SockCap` unread
messages; a write waits for room and can fail once the client is gone. Request types
that handleConn treats alike share a type. `held` is what the connection has opened
(a stream, a subscription), `query`, `forwarder`, `ctxDone` and `found` are the parts
of a streamed DHT answer.

### StreamPipe

Two goroutines, two ends, counted chunks, of which `Buffer` may be on their way to an
end that has not read them. A copy reads a chunk and then writes it, and stays in the
Write while there is no room. End of file closes the destination, an error also
resets the stream; closing the socket or the stream fails the other goroutine's read,
but not a Write that waits for room. Either end may close its writing half: the
remote's half-close ends what the client can write and the client's ends what it can
read, because both are passed on as a full close. `NothingLostUp` and
`NothingLostDown` name these cases.

### PersistentClient

`once` is `openPersistentConn`, `caller` follows each AddUnaryHandler through the
write, `getResponse` and the `Store` into `handlers`. `inbox` is what the daemon
wrote and `run` has not read. A future is a number: `channel` is the `LoadOrStore`
that both the caller and the goroutine with the answer (`sender`) do, so one of them
makes the channel and the other finds it. `daemon` and `routed` are the daemon's
side of a registration, `call` an inbound call with its callback in the daemon and
its handler in the client. `died` is a panic in `getPersistentWriter` or the
`log.Fatal` of `run`.

### ClientRequests

One request with its own connection: `api` is the call itself, `control` the
client's end of the connection, `wire` what the daemon has sent, `server` the daemon
as `ControlConn` has it. A DHT answer has a `reader` with an unbuffered channel to
`conv`, which drops values that do not parse (`bad`) and fills the caller's
`buffer`; a subscription has a reader that sends to the caller itself and a second
goroutine that closes the connection when the context is done (`CloseOnDone`). The
caller may stop reading, the context may expire and the daemon may vanish at any
time.

### ClientStreams

`reg` follows each NewStreamHandler through the mutex `mhandlers`; the daemon binds
the protocol (`Bind`) as soon as the request is written and may proxy a stream at
once. `dispatcher` accepts one connection, reads its info, looks the handler up
under the mutex and starts it. `Strays` are connections to the listener that are not
the daemon's and need not say anything. `opener` is one NewStream. `readMsgSafe` is
what makes a message read leave the following bytes alone.

### Wire and WireRelay

The generated Unmarshal methods are one loop with different tables, so the model is
one machine and a table per message (`Request`, ..., `Cancel`, collected in `Schema`).
`stack` holds the active calls of Unmarshal, each with its slice, its index, its
struct and the required fields it has seen: an optional message that comes twice is
merged into the struct it has, but must bring its required fields each time. A
varint's last byte stands for its value; the bytes before it are `Cont`, as many as
`encodeVarintP2Pd` writes, and `sovP2Pd` counts them on its own. Ints are `MaxInt`
wide and wrap, so the code's checks after an addition mean what they mean in Go.
`Spec` of `Wire` reads one buffer, any of `Inputs`; `RelaySpec` reads it, writes what
was accepted and reads that again. A oneof member whose slice is nil is `Nil`: it has
no size and is not written. Sizes and bytes are recursive operators, so `WireRelay` is
for TLC only; `Wire` has none. `complete` looks into a message three levels deep,
which is as deep as the tables nest (`ThreeDeep` in `WireProofs`).

### Startup

`flags` and `file` are a command line and a JSON text; the Boolean settings are a
set. `ReadConfig` to `BootstrapReturns` are the stages of main, `Fatal` is
`log.Fatal` at one of them. `Deciding`, `Enabling`, `OfRelay` and `OfPubSub` are the
ways main lets a flag act on a setting. `closer` is the Close that a signal or the
idle timer starts while main is anywhere after NewDaemon, or awaitTermination while
it serves. `round` is one connectBootstrapPeers and `keeper` the loop around it; a
dial that hangs uses up the round's minute (`expired`), and every dial after it
fails. `Dies` ends the process on the spot: a panic, SIGKILL, a signal that
trapSignals does not ask for, or one that comes before it has called Notify.
`OtherProcess` is any other process that takes the control socket, or gives it back.
`Restart` starts the daemon again with the same settings and the socket file as the
last process left it.

## 3. Runs

| Run | Instance | Checks |
|---|---|---|
| `persistent_conn` | 2 connections, 2 requests, 2 protocols, 1 stream, 1 address | the inductive invariant `IndInv` (with `RegistryMatchesHost`, `ProxyHasAddress`, `RoutedToOwner`), `DeadRouteOnlyUnconfirmed`, `ConfirmedHandlersFreed`, refinement of `ProtocolRegistry` |
| `unary_rpc` | 1 call, either client may leave, fairness | `CallInv` (types, `CancelledOnlyIfExpired`, `StrandedOnlyIfCut`), `AnswerFaithful`, `CrashOnlyIfExpired`, `EveryCallReturns`, `ServerReleased`, refinement of `UnaryService` |
| `lifecycle` | 2 clients, idle timer on, fairness | `DaemonInv` (types, `WaiterNotForgotten`, `StaleSocketOnlyIfCut`), `ClosedOnlyUnderLateClient`, `TimerSparesClients`, `LastClientEndsDaemon`, `CloseEndsDaemon`, `UnusedDaemonEnds` |
| `control_conn` | 3 requests of any type, 2 values, socket of 1 message, fairness | `ConnInv` (types, `WellFramed`, `NothingHeld`), `NoResultLost`, `ForwarderStops`, `ReleasedAfterHangUp` |
| `stream_pipe` | 3 chunks each way, buffers of 1, fairness | `PipeInv` (types, `NothingLostDown`, `NothingLostUp`), `OneEndsBoth` |
| `persistent_client` | 2 AddUnaryHandler calls, 1 inbound call, 2 protocols, fairness | `FutureInv` (types, `LeftoverOnlyOfCancel`), `FatalOnlyDuringAdd`, `AddedHandlerServes`, `AddReturns` |
| `client_requests` | 1 request of any kind, 3 values, channel of 1, fairness | `DeliveryInv` (types, `ValuesInOrder`, `ShortOnlyIfCut`), `OpenForReader`, `StreamReleased` |
| `client_streams` | 2 registrations, 2 protocols, 1 stream, 1 stray, 1 piece of data, fairness | `DispatchInv` (types, `NothingSwallowed`, `FailedOpenCloses`), `ProxiedFindsHandler`, `StreamDispatched` |
| `wire` | every message, whole, cut, damaged, repeated and unknown fields; messages made with small, long, empty, nil and unset fields; two arbitrary cells, out of 16 telling ones, behind a first field, as three message types; ints to 127, varints of 2 bytes of 4 bits | `ReadInv` (types and ranges, `NoPanic`, `OneofIsOne`), `AcceptedIsComplete`, `RelayPreserves`, `EveryStepConsumes` |
| `startup` | 16 command lines, 8 files, 3 bootstrap peers up or down, 0 or 1 other connection, 2 wanted, 2 starts, 1 loss, fairness | `StartInv` (types, `BootstrapTriedAll`, `RoundWithinWanted`), `ServingConfig`, `CloseFreesSocket`, `IsolationEnds` |
| `persistent_conn_leak`, `unary_hang` | the smallest instances | see section 4 |

Bounds. Two connections and two requests reach every race over one protocol (owner
against taker, clean-up against registration, two requests of one connection); the
second protocol shows that a clean-up does not reach too far; a third connection would
repeat one of the two roles. Calls share nothing but the processes they run in, so one
call is enough for the races within it. Two clients let one leave while the other is
counted, which is all a WaitGroup, a timer and a waiter can be raced with; a third
would only leave or arrive next to one of them. Three requests put one between two
others, two values are needed for order, and a socket of one message makes every write
block. Three chunks with room for one fill the buffer, the copying goroutine's hand
and the source. Two callers of AddUnaryHandler race for the connection and for one
protocol, or use two; one inbound call can meet either before or after the Store. A
channel of one and three values make the converter wait with the reader behind it. One
stray before or after a stream is what head-of-line blocking needs. `MaxInt` = 127
lies above every tag and index of the inputs, and a length of `MaxInt` overflows
behind any of them; two varint bytes of four bits hold every number, and numbers and
lengths of one and of two bytes both occur (`LongLength` = 16 is the first of two).
Three peers with two wanted let a round stop early, fall short or fail; two starts let
the second meet the first one's socket. In `unary_rpc` and `unary_hang` deadlock is
not checked: a caller whose message was not written, or whose serving client has left,
really waits for ever. Symmetry is used only in a run without liveness.

Fairness. Weak fairness on every goroutine's own steps: the Go scheduler runs what is
runnable. Nothing is assumed of clients, remote peers, strays, the network and
signals, except that a handler returns while its client is there (`unary_*`), that a
DHT query ends when its context is done (and its timeout expires), that the daemon
answers a client's request and sends the info of a stream it proxies or closes the
connection, that a dial returns at the latest when its round's minute is over and that
tickers and timers expire. No pipe is assumed to end: `ReleasedAfterHangUp` leaves out
a connection that pipes, and `OneEndsBoth` says when a pipe ends. `StreamReleased`
needs a caller that reads until it says it stops, which is a step of its own.

## 4. Where the code and its documents or tests disagree

| Run | What TLC shows |
|---|---|
| `persistent_conn_leak` | A client that hangs up before its registration has reached the clean-up list leaves the protocol registered: the deferred clean-up does not wait for the goroutine of the request. In TLC's trace the clean-up runs before `doAddUnaryHandler`; it can also come between that and the append, so making the two critical sections one would not be enough. `TestAddUnaryHandler`, which closes a client and registers again, waits for its registration first and does not see it. |
| `unary_hang` | The Cancel goroutine runs before the CallUnary goroutine has stored its cancel function; the Cancel is lost, and with the serving client gone the expired call never returns. |

The models show further places where a document says something else than the code
does; no run of its own repeats them:

- `specs/CONTROL.md:200`: a STREAM_HANDLER request overwrites an existing binding.
  `doStreamHandler` sets the callback for an unbound protocol only; after a unary
  registration has taken the protocol, a second STREAM_HANDLER is answered OK, stores
  its address and does not change the routing.
- `p2pd/main.go:107`, the help of `-idleTimeout`: the daemon is killed if no client
  opens a persistent connection in time. A client that upgrades before the goroutine
  of KillOnTimeout has stored `cancelTerminateTimer` cancels nothing
  (`TimerSparesClients`).
- `specs/CONTROL.md:177`: the socket can be used as if it were the stream. A client
  that closes its writing half loses what the remote still sends
  (`NothingLostDown`).
- `specs/CONFIG.md:21`: with `-f` and `-i` all other options are ignored. `-quic`,
  `-tls`, `-noise` and `-listen` decide, by their defaults too, and the others add to
  the file (`ServingConfig`).
- `specs/CONFIG.md:34`, the example file: it holds an address, and no file with an
  address can be read, since `UnmarshalJSON` parses the text with its quotes.
- `README.md:35` starts a plain `p2pd`. QUIC is on by default and needs
  `-hostAddrs`, so that ends in main (`ServingConfig`).

Other properties are stated so as to say exactly when the code does something one
would not want, and pass:

- `CrashOnlyIfExpired`: the calling client can send on the `done` channel its helper
  has closed, and the calling daemon can marshal the nil it received from a closed
  channel; both only for a call whose context is done.
- `AnswerFaithful`: a handler error with an empty message is returned as a success.
- `EveryCallReturns`: a call whose CallUnary message was not written waits for ever
  (the error is dropped), as does one whose own connection is lost, or whose serving
  client leaves with the handler running.
- `CallInv`: the serving daemon's sender stays blocked after the stream was closed or
  broke, the calling daemon's exchange goroutine after its call was cancelled, and the
  client's helper after a call that returned an error, until its context is done.
- `FutureInv`: goroutines are left behind for inbound calls that were cancelled.
- `DeadRouteOnlyUnconfirmed`: the leak above is the only way for a protocol to stay
  routed to a connection that is gone.
- `ClosedOnlyUnderLateClient`: a client counted between the return of `Wait` and the
  end of `Close` is told OK and loses its daemon.
- `TimerSparesClients`: a client that upgrades before the timer's goroutine sleeps in
  its select, or when the time is up, may not be heard.
- `FatalOnlyDuringAdd`: a call that comes between the daemon's registration and the
  client's Store ends the client process with `log.Fatal`; no other does.
- `OneEndsBoth`: a pipe's goroutine stays in a Write to an end that neither reads nor
  goes away, though the other direction is over; the control connection stays with it.
- `OpenForReader`, `DispatchInv`: the error returns of `streamRequest`,
  `readDhtResponseStream`, `streamPubsubRequest` and `NewStream` that leave a control
  connection open.
- `StreamDispatched`: a connection that sends nothing holds up the dispatcher.
- `DaemonInv`, `CloseFreesSocket`: the socket file stays when the process ends inside a
  Close, by a crash or an untrapped signal, or by a fatal error after NewDaemon, and
  blocks the next start.
- `ServingConfig`: `-relay=false` alone leaves the relay on.
- `IsolationEnds`: peers that hang can use up the minute of every round; only the
  random order speaks against it.
- `RelayPreserves`: a handler's nil result is written as an answer without a member.

## 5. Proofs

Each `XProofs` module extends the model `X`, states an inductive invariant `IndInv`
and proves `Spec => []IndInv` (`Invariance`), one step per action; the properties of
section 3 follow from it. `DaemonProofs` does so for three models and
extends all of them, which is why `StreamPipe` and `Lifecycle` have names of their own
for their specifications (`PipeSpec`, `LifeSpec`) and invariants (`PipeIndInv`,
`LifeIndInv`). Every inductive invariant was model-checked on the run's
instance before it was proved. The theorems hold for every value of the constants
under the named assumption of the model, which says no more than that the "none"
values are not members of the sets they complete and that bounds are numbers.

| Module | Theorems | For any |
|---|---|---|
| `PersistentConnProofs` | `TypeCorrect`, `RegistrySafe`, `RoutingSafe`, `ProxySafe`, `ConfirmedSafe`, `ReleaseSafe`, `CleanupSafe`, `ImplementsRegistry` | connections, requests, streams, protocols, addresses |
| `UnaryRPCProofs` | `AnswerSafe`, `CallSafe`, `CrashSafe`, `ImplementsService` | concurrent calls |
| `DaemonProofs`: life cycle | `DaemonSafe`, `AwaitSafe`, `TimerSafe` | finite set of clients, with and without `-idleTimeout` |
| `DaemonProofs`: control connection | `ConnSafe`, `ResultsSafe` | requests, results, socket capacity; DHT and pubsub on or off |
| `DaemonProofs`: pipe | `PipeSafe` | number of chunks, size of the buffers |
| `PersistentClientProofs` | `FutureSafe`, `FatalSafe`, `HandlerSafe` | callers, inbound calls, protocols |
| `ClientRequestsProofs` | `DeliverySafe`, `OpenSafe` | number of values, which of them parse, capacity of the caller's channel |
| `ClientStreamsProofs` | `ProxiedSafe`, `DispatchSafe` | handlers, streams, stray connections, data |
| `WireProofs` | `ReadSafe`, `AcceptedSafe`, `ConsumesSafe`, `MeasureSafe` | buffers, messages they are read as, width of ints (from 8 on), length of varints |
| `StartupProofs` | `ConfigSafe`, `SocketSafe`, `StartSafe` | command lines and files, bootstrap peers, starts |

**PersistentConn.** None of the properties is inductive alone: that a clean-up hurts
nobody else rests on the list of a live connection naming only protocols it owns
(`ListIsOwned`), which rests on a request between its two critical sections still
being the owner, which rests on only the owner's clean-up releasing a registration.
`ListIsOwned` is stated for connections that have not been cleaned up: the append that
comes after the clean-up (the leak above) breaks it for the others, and is harmless
because a connection is cleaned up once. `ConfirmedListed` carries a confirmed
protocol on the list until the clean-up, `Proxied` an address behind every proxy
callback, and `Placed` says that a started request names a connection and a protocol.
`RoutingSafe` adds `RegistrationTraced`, which follows every route to a connection
back to the request that made it and says how far that is. The refinement maps a
clean-up to `Retire` with the list as the set of protocols, which `ListIsOwned` makes
a legal step, and a successful `doAddUnaryHandler` to `Acquire`.

**Lifecycle.** `terminateWG` is the cardinality of the set of counted clients
(`WaiterNotForgotten`), which needs the set of clients to be finite: a step that adds
or removes one client changes the cardinality by one. `CloseOrder` ties the stages
of the three goroutines in `Close` to the flag, the socket and the end of the
process. `WaiterHadClient` says that the waiter came after a client, and that once
`Wait` has returned every counted client came later and one has left; with it
`AwaitSafe` looks at the whole of awaitTermination's Close. `TimerUnheard` says the
same of the timer: as long as its select can still end by the timer, nobody has
upgraded while it was parked.

**UnaryRPC.** The invariant is one formula per call (`CallOK`), and a step changes the
records of one call only (`OthersUntouched`), so the proof is about a single call.
`Before` orders the processes along the call's way, `HandlerOnce` says the handler
runs once, `AnswerCarried` that the handler's answer is the same at every station of
the way back, and `CancelTraced` follows every cancelled context, message and answer
back to the caller's expired context. `ImplementsService` keeps what the two ends
see: the call, the expiry of its context, the handler's start and end, and the
caller's return are steps of `UnaryService`, everything in between is stuttering, and
`AnswerCarried` and `CancelTraced` give the caller only an outcome it may return.

**StreamPipe.** `NothingLostDown` speaks of a pipe that is done; the invariant adds
who ended it: `DownEndedBy` and `UpEndedBy` say which end has given up in every state
in which one copy found its connection closed by the other, `LeftUnread` being a
client that closed its socket with something unread. `ChunkInHand`: a copy that
writes holds a chunk its destination does not have.

**PersistentClient.** `AdderOK` ties the caller, the daemon, the goroutine with the
answer and the `callFutures` entry together: exactly one channel is made per
AddUnaryHandler, by whoever comes first. That run starts one such goroutine rests on
the inbox holding at most one answer per id (`InboxAnswers`, `InboxUnique`).
`WinnerUnique` and `RoutedHasOwner` say that a protocol is won by one caller, which
is why a handler once stored is not lost to another caller's error.

**ClientRequests.** `CallOrder` orders the call, the daemon and the goroutines, and
`WireOK` says what is between the daemon and the reader: exactly the values the
reader has yet to read, and the END behind them once it was sent. `Flow` is the heart
of it: what the caller has, what is in its channel and what the converter holds are
together the values the reader has passed on, less the ones that do not parse, and
they come in this order. So a value cannot be lost, doubled or overtaken between two
goroutines, and the caller's sequence is a prefix. `EndOrder` says who stops first
and why: a reader that is done without the context or the connection being gone has
read everything the daemon sent, the converter ends after it, and the caller sees its
channel closed last, and empty. `OpenForReader` is part of the invariant.

**ClientStreams.** `TableInv`: a bound protocol is `Promised` by a call that has stored
its handler or holds the mutex until it does; so whoever takes the mutex finds the
handler of every bound protocol (`FreeMutex`), and the dispatcher looks up under the
mutex. `PathInv` follows the bytes of a connection from the backlog to the handler
(the info is read first, then nothing but data is left), `OpenerInv` those of
NewStream.

**ControlConn.** `LogOK` relates what has been written to the stage of `handleConn`:
the log is well framed, and its last message is the one the stage expects.
`ForwarderOK` counts the results taken against the results found, the difference
being the one that the forwarder holds; nothing is given up unless the timeout
expired. `HeldOK` names who releases the stream or the subscription.

**Startup.** `ConfigInv` follows every setting from the flags through the stages of
main (`FromFlags`; `RelayRefused` is a file that turns the relay off), `RoundInv`
keeps the numbers of a bootstrap round, and `SocketInv` names the earlier process, or
the other one, that left a socket behind (`LeftBehind`). `InputsAssumption` says that
host addresses in a configuration file are quoted, as JSON makes them; a configuration
the program can read has no others.

**Wire.** The theorems are about `Spec` of `Wire`, for any set of buffers; the steps
of `RelaySpec` that read are the same. That an accepted message is complete at every
depth cannot be seen from the innermost call alone, so the invariant follows the
nesting: messages nest three deep (`ThreeDeep`, a case analysis of the tables), and
the struct of the first, second and third call holds messages whose own messages are
complete (`Shape2`), flat complete messages (`Shape1`), and no messages (`LevelOK`).
The struct an optional field already holds was accepted before, so merging into it
keeps the shape; a required field counts only when this call has seen it, and what it
has seen is set (`FrameOK`). For the indexes, each call's slice ends exactly where its
caller goes on (`Embedded`), and a sum of two ints that overflows is negative
(`Overflow`), which is the only thing the checks of Unmarshal and skipP2Pd look at
before they slice or go on. From there `ConsumesSafe` and `MeasureSafe` together say
that every read ends: the measure is a natural number that every step of a read
lowers, until the read returns or fails.
`BoundsAssumption` lets ints be at least 8 wide so that skipP2Pd's constants are
ints; `InputsAssumption` says that a buffer is a sequence of cells whose length is an
int.

Only model-checked: all liveness properties (no fairness reasoning in the prover) and
`RelayPreserves`, which goes through the recursive sizes and bytes of `WireRelay` and
would take an induction over messages.

## 6. Not modelled

- The DHT, pubsub and the libp2p host: external, only what the code sees of them.
- The contents of payloads, and the conversion of peer ids and addresses, except
  that they may fail.
- Of the wire format, the bits of a varint's bytes and the getters, String methods
  and descriptors of the generated code.
- Of the configuration, what is only handed on to libp2p (connection manager marks,
  hop limit, heartbeats, announced addresses), the metrics and profiling servers and
  the printed summary.
- A daemon that is started while another one's Close is between its listener and
  `clearUnixSockets`, which removes the file by name: the new daemon would lose its
  socket. `Startup` has one daemon at a time.
- Identity and key generation (one-shot file I/O; `Startup` has their failure) and
  the SIGUSR1 dump, which changes nothing.
- `safe_writer.go`: a mutex around WriteMsg, because of which a message written to a
  persistent connection is one step in every module.

## 7. Plan

Done: registration, unary calls, life cycle, control connection, pipe; the client's
three parts; wire format; start-up and bootstrap; and the proofs of section 5, which
cover every safety property of the runs but `RelayPreserves`.

Left, should the code change there: the parts of section 6, of which the settings
handed on to libp2p and the bits of a varint's bytes are the ones a change of the
code would most likely make worth modelling.
