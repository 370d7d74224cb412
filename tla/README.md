# Mango Protocol in TLA+

A model of the Rust crate of this repository (`crates/mango-protocol`): its session,
its transports, its codecs and the contract it serves. TLC checks it on small
instances; TLAPS proves its most important safety properties for every value of the
constants. Paths below are relative to `crates/mango-protocol/src/`.

## The system

A *session* is symmetric: two peers exchange `hello` over any *port*, then each sends
requests (`req`), answers the other's (`res` or `err`), cancels, emits events, pings,
and at last closes. One endpoint is several tasks over one port:

| part | state | operations |
|---|---|---|
| handles (`session/handle.rs`) | each request future: its reply one-shot, deadline, cancel token | `request_with`, its timeout, cancel and drop; `emit`, `events`, `ping`, `close_now`, `handle` |
| driver (`session/driver.rs`, `dispatch.rs`) | pending map, active map, task set, awaiting_pong | one biased `select!`: send failure, handshake timer, liveness tick, settled handler, command, inbound frame |
| writer (`driver.rs`) | queue, the port's send half | send, report the first failure, hand the port back |
| handler tasks | cancel token | finish, fail, panic, never return |
| teardown (`session/teardown.rs`) | reason | nine numbered steps, then `run()` returns |
| shared (`session/shared.rs`) | lifecycle state, ready and closure watches, in-flight counter, sequence table, subscribers, handler registry | short critical sections under separate locks |
| contract (`contract/`) | the methods a `serve` has registered | register, undo, answer, decode |
| NDJSON port (`transports/ndjson.rs`, `codec/ndjson.rs`) | one writer behind a lock with three enders; a line buffer | send, recv, close, the listener's closer |
| WebSocket port (`transports/websocket*`, `codec/chunk.rs`) | a writer task, a command channel, a byte counter, three flags; a reassembler | dial, accept, send, recv, close, give up |
| spawned child (`transports/spawn.rs`) | child, reaper, escalation, two watches | start, terminate, exited, kill, the port's close |
| local socket (`transports/ipc/unix.rs`) | the address, inodes, a listener's connections | probe, stage, publish, accept, dial, close |
| remote command (`transports/ssh.rs`) | an argv | check, quote |

What makes it hard: a handle looks at the state and acts on it later; the answer, the
timeout, the cancel and the drop of one request race; ids are reused while handlers
run; three records of in-flight requests must agree; events are numbered under one
lock and guarded by another; a port is ended by three parties while a fourth is in the
middle of a write the peer may never let finish; backpressure is two tasks reading each
other's atomics; two processes restart on one address; a caller asks for an outcome
after it was announced. `PROJECT.json` lists these at their lines.

## Modules

| module | models |
|---|---|
| `Session` | one endpoint: handles, driver, writer, handlers, teardown; `pc` is where `run()` is, one action per operation, `select!` arm or teardown step |
| `SessionService` | what a session promises whoever holds its handle; `Session` implements it (`ServiceSpec`) |
| `EventStreams` | `emit` (two actions, since the state is read outside the lock), the sequence table, streams, fan-out, teardown's part |
| `HandlerRegistry` | `register_handler` (two actions, since the generation is taken outside the lock), `HandlerGuard` |
| `ContractServing` | building and serving a contract over `HandlerRegistry`, the answering pipeline, the client's decoding |
| `NdjsonPort` | the shared writer, the lock and its queue, `recv` with a cancellation at each await, the closer |
| `NdjsonSession` | the driver from its hello on, writer task and teardown over `NdjsonPort`; shown to use it legally (`PortSpec`) |
| `WebSocketPort` | writer task, channel, counter and flags, one action per atomic access that another task can see between |
| `WebSocketUpgrade` | dialling under a deadline, accepting and judging, then `WebSocketPort` |
| `Spawn` | child, reaper, termination ladder, callers |
| `IpcListener` | processes that listen and crash, dials with deadlines, the file system they share |
| `LineDecoder`, `ChunkCodec`, `FrameNames`, `SshCommand` | the pure parts, each against a reference definition |
| `Peers` | two endpoints' options, hellos, negotiation and limits over an ordered wire |
| `MCSession`, `MCApplication`, `MCIpcListener`, `MCWire` | instances; `MCApplication` puts `ContractServing` and `EventStreams` side by side and `MCWire` does so with `LineDecoder`, `ChunkCodec`, `FrameNames`, `Peers` and `SshCommand`: they share no state, so a behaviour exercises one of them |
| `SessionProofs`, `SessionRefinement`, `HandlerRegistryProofs`, `EventProofs`, `NdjsonProofs`, `WebSocketProofs`, `SpawnProofs` | theorems |

Variables carry the name of the field they stand for, or say it where they are
declared; `PROJECT.json` maps every definition to its lines. Operators called `Mut...`,
and the few next to a definition that are its faulty variant, are used by no
specification: each is a plausible mistake in that code, kept to show that a property
notices it.

Modelling choices:

- In `Session` the peer is unconstrained and needs no variables: a frame has no effect
  before the driver takes it, so the choice is made at `Receive`. `Peers` has two sides
  that keep to the code.
- The biased `select!` appears as guards: an arm runs only when those above it are not
  ready. Timers are ready whenever they choose.
- `RequestAbandon` and `RequestCancel` may run though the reply has landed: it can land
  between the poll of the reply and the poll of the timer.
- Payloads and text are left out. Sizes appear where a limit is at stake (`Peers`,
  `LineDecoder`, `ChunkCodec`, `WebSocketPort`); in `Session` whether a frame fits is a
  free choice, and `err_unfit` is a handler's own error that the port refuses. `closure`
  holds the close code, 0 standing for "not published".
- What has gone by is kept where a property needs it and read by no guard but a
  bound: `delivered` and `outbox` in `Session`, `wire` and `items` in `NdjsonPort`, `gap` in
  `IpcListener`, `stream` and `frames` in `LineDecoder`.
- `on_hello` sets the state and settles `ready()` in two moments of one synchronous
  call; the model has one.
- Dropping a `JoinSet` aborts its tasks, dropping a receiver drops what it holds, a
  detached task outlives its driver: tokio's semantics, taken from how the code relies
  on them. A driver that is dropped takes the send half along while it sends the hello and
  while teardown closes the port; in between the half belongs to the writer task.
- `WebSocketPort` interleaves atomic accesses one by one, that is, under sequential
  consistency. The code stores with `Release` and loads with `Acquire`
  (`websocket.rs:598-611`, `:743-744`), which would let each side's load overtake its own
  store to the other variable. The sender's access is a read-modify-write, and to escape
  both judgements the task's store of `paused` would have to stay invisible across two whole
  sends; the model does not have that execution, so `StalledBacklogIsBounded` is not shown
  for it.
- Time is left out: a timer may fire at any moment. That missed liveness ticks coalesce
  (`MissedTickBehavior::Skip`, `driver.rs:167-173`), and that an interval is longer than a
  healthy round trip, is therefore not modelled: `SilentPeerIsDropped` says that an
  unanswered ping ends the session, and nothing says that a slow one does not.
- JSON, TLS, HTTP and JSON Schema evaluation are libraries: one choice each.

## Runs

| run | instance | distinct states | checks |
|---|---|---|---|
| `session_calls` | 1 call, 2 peer frames, 1 command | 0.29 M | NoLostCall, AbandonedIsReleased, WireOrder, CallsSettle, ServiceSpec |
| `session_serving` | 3 peer ids, ceiling 2, 5 peer frames | 0.46 M | ExactlyOneAnswer, InFlightAgrees |
| `session_close` | 1 call, 1 peer id, 2 peer frames, 1 command | 0.71 M | PublishedIsSettled, ReadyResolves, CloseCompletes, SilentPeerIsDropped |
| `application` | 2 methods and discovery, 1 serve, 1 handler beside it, 1 request; 2 emitters, 2 keys, room for 1, 3 emits, 1 stream, 2 peer events | 1.5 M | NoOrphan, ServedAsDeclared, GoneServeAnswersNothing, SequencesAreContiguous, StreamsAreComplete, NothingAfterClose |
| `ndjson` | hello and 1 frame out, 2 items in | 0.13 M | RecvLosesNothing, TornFrameIsLastFrame, PortSpec, EndersReturn, OnlyAStuckFrameDelays |
| `websocket` | limit 1, 5 frames | 0.23 M | CounterIsQueue, StalledBacklogIsBounded, UpgradeIsJudged, DialIsSettled, GaveUpIsHeard |
| `spawn` | 2 callers, 1 kill | 0.19 M | NoSignalAfterReap, AnswersAreCurrent, StubbornChildIsKilled, WatchedTerminateReturns |
| `ipc` | 2 processes, 2 dials, 3 inodes, 1 crash | 1.2 M | AcceptedAreTold, NarrowWindow |
| `wire` | see `MCWire.cfg` | 1.0 M | SplitIndependent, BufferIsBounded, RoundTrip, NamesFollowPattern, HandshakeAgrees, SentIsRead, RemoteCommandIsMeant |

The comment above each property says what it means and of which code. Why the bounds
are enough:

- A call is hurt by its own race with the session, so one suffices; that one call
  cannot hurt another is the theorem `CallsAreKept`, for any number of them. A peer needs
  five frames to greet, open an id, reuse it, cancel and reuse it again; three ids overrun
  a ceiling of two. One command and one frame after the handshake reach every teardown with
  a call and a handler in progress.
- Two emitters are what it takes to swap two numbers, two keys to overrun a ceiling of one,
  three emits to reuse a key after another was refused.
- Three registrations of the serve and a fourth beside it cover replaced-before,
  replaced-after and refused-in-between.
- The hello is stuck or half written on the driver's own task, and one frame after it is
  already enough to be so on the writer's, waited for by three enders; two items in are a
  frame and an end, with a cancellation at each await.
  `NdjsonProofs` removes both bounds.
- Limit 1 and five frames put the counter below, at and over the limit with frames queued
  behind a write. `WebSocketProofs` removes both bounds.
- Two processes and three inodes let one publish while the other acts on what it saw
  before; one crash leaves a stale address behind.
- In `wire`, streams of six bytes hold two lines, a blank and an oversized one, cut anywhere;
  frames of seven bytes make one, several, exactly filled and dribbling chunks; names of
  five characters reach both ends of every clause of the grammars; the option profiles put
  each side's session ceiling below, at and above its port's and the peer's.

Ids, processes and dials are interchangeable, hence the symmetry of `session_serving` and
`ipc`; no run that checks liveness uses one. Deadlock is checked for `Session` and
`EventStreams`, whose `Done` marks the only legitimate stop (`MCApplication` lets a contract
rest, since handlers may stay unasked for ever). The other systems may really
stop: a dial is refused, a child is gone, a registration is over, a bound is used up.

### Disagreements with the crate's comments

Three runs expect a violation. Each checks one sentence of the documentation.

| run | documentation | code |
|---|---|---|
| `spawn_terminate` | `terminate` is "safe to call after the port already started the sequence on its own" (`transports/spawn.rs:1019-1020`) | the outcome goes out with `watch::Sender::send`, which stores nothing while nobody is subscribed (`spawn.rs:807`); the call that comes later waits for ever. `session/teardown.rs:177-180` describes this pitfall and avoids it with `send_replace` |
| `session_stalled` | `close` resolves "once every handler has settled (bounded by `handler_grace`) and the port is shut" (`session/handle.rs:275-277`) | teardown first waits for the writer task, without a bound (`session/teardown.rs:98`, `driver.rs:85`), and that task waits for a peer that has stopped reading |
| `roles` | "True when the role matches `^[a-z][a-z0-9-]*$`" (`validate.rs:196`; the refusal at `:325`, section 5 of the specification, its JSON schema and the TypeScript schema have the same pattern) | `is_valid_role` shares `is_valid_segment` with the method names, which refuses a last dash (`validate.rs:107`, `:209`): `a-` matches and is refused |

`OnlyAStuckFrameDelays` is the other half of the second: nothing but such a frame can
hold teardown, or the hello, up. `NamesFollowPattern` is the other half of the third: the
roles refused against their pattern are those that end in a dash, and no other name differs.

Smaller differences met while modelling, which the model follows the code on:

- A handler that outlives the grace is aborted when `run()` returns and drops the task set;
  `teardown.rs:136-138` says it "is never aborted".
- An error built by a handler is queued unmeasured (`dispatch.rs:45`); `shared.rs:108-111`
  says every outbound frame is measured. `SentIsRead` excepts exactly this frame and a
  hello, so it shows that nothing else is sent that the peer cannot read, and nothing about
  such an error: one that does not encode, or is too large for the peer, ends the session.
- The in-flight counter is not lowered while teardown joins handlers; `handler.rs:89-90`
  calls it the number "right now". `InFlightAgrees` stops there.
- A stream opened after teardown cleared the subscribers never ends (`handle.rs:120-121`
  says it does).
- On a file system that reuses inode numbers, or that has no hard links, a stale verdict can
  remove a live address outside the window `ipc/unix.rs:429-431` describes; `NarrowWindow`
  says so in its premise.
- A serve that fails has by then displaced earlier registrations of the same names, though
  nothing of its own stays registered.
- An NDJSON port can write frames of a queue after the farewell of a refused line, and a
  second farewell, where section 10 of the specification has `close` "sent once".
- A hello abandoned with its driver (`driver.rs:134`) leaves half a record and the writer
  usable, so a listener's farewell can follow it, glued to its line; the peer reads one
  malformed record. `TornFrameIsLastFrame` allows exactly that. It speaks of frames: a
  *farewell* that is cut short, when its grace runs out or the `recv` that writes it is
  dropped, leaves the writer usable too, and another ender's farewell or a queued frame can
  come after it.
- `ready()` and `closed()` stay pending for ever when a driver is dropped before it is done.
- `reap` records the default status when `wait()` fails (`spawn.rs:657`), so an exit that is
  known is not always a child that has left.
- The WebSocket counter keeps the bytes of at most one farewell when a close loses the
  race with the exit of the writer task; `CounterIsQueue` allows for it.

### Fairness

Weak fairness of what a runtime polls: the driver's arms, the writer, teardown, futures
somebody holds, timers. Nothing is assumed of the peer, of the application or of its
handlers, nor of a child process, which may ignore every signal. Two points need a word:

- `Session` assumes that a port's `send` returns, the hello's included (fairness of
  `WriterStep` and of `Hello`), and `ReadyResolves`, `CallsSettle` and `CloseCompletes` rest
  on it. `NdjsonSession` does not: there finishing a write is the peer's step and has no
  fairness, and `OnlyAStuckFrameDelays` names that write as the one thing in the way.
- `WebSocketUpgrade` has strong fairness of `recv`'s return on `gave_up`: the watch stays
  ready once set, but the driver's select may drop `recv` and call it again any
  number of times in between.

Peer frames are bounded in a run, so an endless flood is not covered; that `select!` polls
the inbound arm last is.

### Refinement

`Session` implements `SessionService` (`ServiceSpec`, by TLC and by proof), with the state,
the two watches and each call's place and reply as the mapping. `NdjsonSession` implements the
port's own specification (`PortSpec`, by TLC and by proof): the session never makes two calls
at once on a half, never uses a half it closed, and abandons no send but the hello, which goes
with the driver that sends it.

## Proofs

| theorem | states |
|---|---|
| `SessionProofs!TypeCorrect` | `Spec => []TypeOK` |
| `SessionProofs!CallsAreKept` | `Spec => []NoLostCall` |
| `SessionProofs!InFlightIsBounded` | `Spec => []InFlightAgrees` |
| `SessionProofs!ClosureIsFinalWord` | `Spec => []PublishedIsSettled` |
| `SessionRefinement!SessionKeepsService` | `Spec => ServiceSpec` |
| `HandlerRegistryProofs!DroppedHandlersAreGone` | `Spec => []NoOrphan` |
| `HandlerRegistryProofs!SuccessorsSurvive` | `Spec => OnlyItsOwnGuardUnregisters` |
| `EventProofs!EventsAreNumbered` | `EventSpec => []SequencesAreContiguous` |
| `EventProofs!StreamKeysAreBounded` | `EventSpec => []KeysAreBounded` |
| `EventProofs!ClosedSessionIsQuiet` | `EventSpec => NothingAfterClose` |
| `NdjsonProofs!SessionUsesPort` | `LiveSpec => PortSpec` |
| `NdjsonProofs!RecvIsCancelSafe` | `LiveSpec => []RecvLosesNothing` |
| `NdjsonProofs!TornFrameEndsTheFrames` | `LiveSpec => []TornFrameIsLastFrame` |
| `WebSocketProofs!ConnectionIsSound` | `ConnectionSpec => []ConnectionInv` |
| `WebSocketProofs!QueueIsCounted` | `ConnectionSpec => []CounterIsQueue` |
| `WebSocketProofs!StalledPeerIsBounded` | `ConnectionSpec => []StalledBacklogIsBounded` |
| `WebSocketProofs!FarewellIsOnce` | `ConnectionSpec => []OneFarewell` |
| `WebSocketProofs!AcceptedIsJudged` | `ConnectionSpec => []UpgradeIsJudged` |
| `WebSocketProofs!DialledIsSettled` | `ConnectionSpec => []DialIsSettled` |
| `SpawnProofs!LauncherAgrees` | `Spec => []IInv` |
| `SpawnProofs!NoSignalToAStranger` | `Spec => NoSignalAfterReap` |
| `SpawnProofs!TerminateIsCurrent` | `Spec => AnswersAreCurrent` |

Assumptions: the close codes of the session are among `Codes` and 0 is not; limits and
bounds are natural numbers, `MaxInFlight`, `MaxKeys` and `Limit` positive; `InIds` and
`Keys` are finite; `None` is no guard. The sets are otherwise arbitrary.

- *Session.* `NoLostCall` and `InFlightAgrees` are inductive together with `TypeOK`; the
  steps that leave a call (or a task) alone are dealt with once, and only the actions that
  move it one by one. `PublishedIsSettled` is not inductive: nothing in it says why `pending`
  is empty when the closure is published. `TeardownPhases` adds what each value of `pc` has
  already achieved.
- *Session, refinement.* A step maps to a step of the service only in the states the session
  can be in, which takes two more inductive invariants. `GreetingInv` says how `pc`, the
  state, `ready` and the reason to close agree, so that the driver's outcomes come in the
  order the service allows. `CallInv` follows one call through its command, its entry in
  `pending`, its reply slot and its cancel: a command for a call is queued at most once, an
  entry has an empty slot, and a cancel that releases an entry belongs to a call that has
  already ended. The client's steps, the driver's control steps, its commands, an answer and
  the two steps that let calls go are then one lemma each.
- *Registry.* The invariant adds that two calls past their first step have different
  generations, which makes "same generation" mean "same registration".
- *Events.* `EmitInv` takes the wire and the queue behind it as one sequence, so that a
  forward changes nothing, and states the number a key is due (`Due`) as a relation between
  that sequence and the table, so that an emit appends one element.
- *NDJSON.* `PortInv` joins four parts: `RecvInv` (where a read, its pending items and the
  closure are while `recv` is in or out), `LockInv` (who may be in the queue, and that only
  its head is past the lock), `WireInv` (a torn frame means that nobody can write again, or
  that it is the hello, the send half is gone and only farewells are left to write) and the
  types. The invariant is proved of the port alone and carried to the session by
  `SessionUsesPort`.
- *WebSocket.* `ConnectionInv` follows a frame's bytes through every place between the
  counter and the socket: counted and not yet queued, queued, being written, released. The
  two-sided rule (the sender reads `paused`, the task reads the counter) needs the order of
  each side's accesses in the invariant.
- *Spawn.* `IInv` adds that the reaper is gone exactly when the exit is known, and that a
  recorded outcome is that exit.

Only model-checked: every liveness property and `WF`/`SF` (out of the prover's reach),
`AbandonedIsReleased`, `ExactlyOneAnswer` and `WireOrder`,
`StreamsAreComplete`, `ServedAsDeclared` and `GoneServeAnswersNothing`, `ipc`, and `wire`, whose
properties compare recursive definitions with references over bounded inputs.

## Not modelled

- The Windows listener: named-pipe instances and security descriptors, a sequence of calls
  whose rules are the operating system's.
- Schema emission, the error types, the frames' serde shapes, JSON text: data without state.
- TLS set-up and the HTTP exchange of an upgrade, JSON Schema evaluation: libraries, one
  choice each where they matter.
- The stderr tail and the environment of a child; pong subscribers; the text of request ids.
- `testing.rs`, the fuzz harnesses and the repository's scripts: not part of the running
  system.
- The TypeScript packages: the same protocol on one event loop, without the threads and
  tasks whose interleavings are modelled here. Their transports rely on Node's stream
  buffering, which is not in this repository.
