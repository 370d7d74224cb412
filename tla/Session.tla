------------------------------- MODULE Session -------------------------------
(***************************************************************************)
(* One endpoint of a Mango Protocol session: the handles that call it, the  *)
(* driver task that owns the port, the writer task that owns the port's     *)
(* send half, and the handler tasks that answer the peer                    *)
(* (crates/mango-protocol/src/session/).                                    *)
(*                                                                          *)
(* Every variable belongs to one of these tasks, or is one of the objects   *)
(* they share: the command channel, the ready and closure watches, the      *)
(* lifecycle state behind its mutex.  An action is what one task does       *)
(* between two points at which another task can be observed.                *)
(*                                                                          *)
(* The peer is unconstrained: it may send any frame at any time, reuse an   *)
(* id, answer what was never asked and drop the transport.  Since a frame   *)
(* has no effect before the driver takes it, the peer's choice is made when *)
(* the driver receives.                                                     *)
(***************************************************************************)
EXTENDS Integers, Sequences, FiniteSets

CONSTANTS
  Calls,        \* request_with futures of this side; a call is its own request id
  InIds,        \* request ids the peer uses; it may reuse them
  Codes,        \* close codes a peer or a caller closes with
  NoArg,        \* the argument of a frame or command that carries none
  MaxInFlight,  \* SessionOptions::max_in_flight
  MaxRecvs,     \* bound: frames the peer sends
  MaxExtras     \* bound: liveness pings, and close_now and ping commands, together

RELEASED == 4000
PROTOCOL_ERROR == 4400
PROTOCOL_MISMATCH == 4426

ASSUME CodesAssumption ==
  /\ {RELEASED, PROTOCOL_ERROR, PROTOCOL_MISMATCH} \subseteq Codes
  /\ Codes \subseteq Nat \ {0}
ASSUME LimitsAssumption ==
  /\ MaxInFlight \in Nat \ {0}
  /\ MaxRecvs \in Nat /\ MaxExtras \in Nat
ASSUME IdsAssumption == IsFiniteSet(InIds)

VARIABLES
  state,        \* Shared.inner.state
  ready,        \* the ready watch: "none" until settled
  closure,      \* the closure watch: 0 until published, then the close code
  unfinished,   \* SessionClosure.unfinished_handlers
  inFlight,     \* Shared.in_flight
  commands,     \* the command channel, handles to driver
  pc,           \* where SessionDriver::run is
  why,          \* the Teardown reason: its code, and whether the port is told
  pending,      \* SessionDriver.pending: calls the driver holds a reply sender for
  active,       \* RequestTracking.active: inbound ids being answered
  tasks,        \* RequestTracking.tasks: the handler task of each inbound id
  cancelled,    \* inbound ids whose CancellationToken has fired
  awaitingPong, \* SessionDriver.awaiting_pong
  outq,         \* the writer's queue
  writer,       \* the writer task: "run" or, port half handed back, "done"
  sendFailed,   \* the writer's one-shot report of a frame that was not sent
  outbox,       \* frames put on the transport, in order
  portUp,       \* FALSE once the transport is gone
  call,         \* where each request_with future is
  reply,        \* each call's reply one-shot
  cancelSent,   \* calls whose cancel token has been forwarded
  delivered,    \* history: req frames taken from the peer, per id
  recvs, ticks, user   \* what is left of the three bounds

shared == <<state, ready, closure, unfinished>>
tracking == <<active, tasks, cancelled, inFlight>>
out == <<outq, writer, sendFailed, outbox>>
client == <<call, reply, cancelSent>>
bounds == <<recvs, ticks, user>>
vars == <<state, ready, closure, unfinished, inFlight, commands, pc, why, pending,
          active, tasks, cancelled, awaitingPong, outq, writer, sendFailed, outbox,
          portUp, call, reply, cancelSent, delivered, recvs, ticks, user>>

(***************************************************************************)
(* Frames and commands.  A frame carries an id, a close code or nothing;    *)
(* payloads are left out.  "hello_mismatch" is a hello of another wire      *)
(* major; "err_unfit" is an err frame the codec refuses, because a          *)
(* handler's own error is too large for the session limit or invalid.       *)
(***************************************************************************)
Frame(type, arg) == [type |-> type, arg |-> arg]
Shutdown == Frame("shutdown", NoArg)

AnswerType == {"res", "err", "err_unfit"}
OutFrame ==
  [type: {"hello", "ping", "pong", "shutdown"}, arg: {NoArg}]
    \cup [type: {"req", "cancel"}, arg: Calls]
    \cup [type: AnswerType, arg: InIds]
    \cup [type: {"close"}, arg: Codes]
InFrame ==
  [type: {"hello", "hello_mismatch", "evt", "ping", "pong"}, arg: {NoArg}]
    \cup [type: {"req", "cancel"}, arg: InIds]
    \cup [type: {"res", "err"}, arg: Calls]
    \cup [type: {"close"}, arg: Codes]

Cmd(type, arg, forget) == [type |-> type, arg |-> arg, forget |-> forget]
Command ==
  [type: {"request"}, arg: Calls, forget: {FALSE}]
    \cup [type: {"cancel"}, arg: Calls, forget: BOOLEAN]
    \cup [type: {"close"}, arg: Codes, forget: {FALSE}]
    \cup [type: {"send"}, arg: {NoArg}, forget: {FALSE}]

Queued(cmd) == \E k \in 1..Len(commands) : commands[k] = cmd

Settled == {"answered", "unavailable", "timeout", "dropped", "refused"}

Init ==
  /\ state = "handshaking" /\ ready = "none" /\ closure = 0 /\ unfinished = 0
  /\ inFlight = 0 /\ commands = <<>>
  /\ pc = "start" /\ why = [code |-> RELEASED, tell |-> FALSE]
  /\ pending = {} /\ active = {} /\ cancelled = {}
  /\ tasks = [i \in InIds |-> "none"]
  /\ awaitingPong = FALSE
  /\ outq = <<>> /\ writer = "run" /\ sendFailed = FALSE /\ outbox = <<>>
  /\ portUp = TRUE
  /\ call = [c \in Calls |-> "idle"] /\ reply = [c \in Calls |-> "empty"]
  /\ cancelSent = {}
  /\ delivered = [i \in InIds |-> 0]
  /\ recvs = 0 /\ ticks = 0 /\ user = 0

-----------------------------------------------------------------------------
(***************************************************************************)
(* The handle: request_with, its cancellation, and close_now.               *)
(***************************************************************************)

\* A send on the command channel; it fails once the driver has dropped the receiver.
SendCommand(cmd) ==
  commands' = IF pc = "returned" THEN commands ELSE Append(commands, cmd)

\* The method name is checked, then the future parks on ready().
RequestStart(c) ==
  /\ call[c] = "idle"
  /\ \E next \in {"ready_wait", "refused"} : call' = [call EXCEPT ![c] = next]
  /\ UNCHANGED <<shared, tracking, commands, pc, why, pending, awaitingPong, out,
                 portUp, reply, cancelSent, delivered, bounds>>

AwaitsReady == ready = "none"

\* ready() resolves; the effective minor and the state are checked.
RequestReady(c) ==
  /\ call[c] = "ready_wait"
  /\ ~AwaitsReady
  /\ \E next \in {"sending", "refused"} :
       call' = [call EXCEPT ![c] = IF ready \in {"failed", "mismatch"} THEN "unavailable"
                                   ELSE IF next = "refused" THEN "refused"
                                   ELSE IF state = "closed" THEN "unavailable"
                                   ELSE "sending"]
  /\ UNCHANGED <<shared, tracking, commands, pc, why, pending, awaitingPong, out,
                 portUp, reply, cancelSent, delivered, bounds>>

\* The frame is measured and handed to the driver.  The state may have changed
\* since RequestReady looked at it.
RequestSend(c) ==
  /\ call[c] = "sending"
  /\ \/ /\ call' = [call EXCEPT ![c] = "refused"]
        /\ UNCHANGED commands
     \/ /\ call' = [call EXCEPT ![c] = IF pc = "returned" THEN "unavailable" ELSE "waiting"]
        /\ SendCommand(Cmd("request", c, FALSE))
  /\ UNCHANGED <<shared, tracking, pc, why, pending, awaitingPong, out,
                 portUp, reply, cancelSent, delivered, bounds>>

RequestReply(c) ==
  /\ call[c] = "waiting"
  /\ reply[c] # "empty"
  /\ call' = [call EXCEPT ![c] = IF reply[c] = "answer" THEN "answered" ELSE "unavailable"]
  /\ UNCHANGED <<shared, tracking, commands, pc, why, pending, awaitingPong, out,
                 portUp, reply, cancelSent, delivered, bounds>>

\* The caller's token fires.  The reply is polled first, but may still land
\* between that poll and this one, so it need not be empty here.
RequestCancel(c) ==
  /\ call[c] = "waiting"
  /\ c \notin cancelSent
  /\ cancelSent' = cancelSent \cup {c}
  /\ SendCommand(Cmd("cancel", c, TRUE))
  /\ UNCHANGED <<shared, tracking, pc, why, pending, awaitingPong, out,
                 portUp, call, reply, delivered, bounds>>

\* Mutant: the driver is asked to keep the pending entry.
ReleaseKept(c) == Cmd("cancel", c, TRUE)

\* Nobody awaits the reply any more, so the entry is released (forget: false).
Release(c) == Cmd("cancel", c, FALSE)

\* The deadline passes, or the future is dropped and CancelGuard runs.
RequestAbandon(c) ==
  /\ call[c] = "waiting"
  /\ \E how \in {"timeout", "dropped"} : call' = [call EXCEPT ![c] = how]
  /\ SendCommand(Release(c))
  /\ UNCHANGED <<shared, tracking, pc, why, pending, awaitingPong, out,
                 portUp, reply, cancelSent, delivered, bounds>>

\* The future is dropped while it waits for ready(): there is no guard yet.
RequestDropEarly(c) ==
  /\ call[c] = "ready_wait"
  /\ call' = [call EXCEPT ![c] = "dropped"]
  /\ UNCHANGED <<shared, tracking, commands, pc, why, pending, awaitingPong, out,
                 portUp, reply, cancelSent, delivered, bounds>>

UserCommand(cmd) ==
  /\ ticks + user < MaxExtras
  /\ user' = user + 1
  /\ SendCommand(cmd)
  /\ UNCHANGED <<shared, tracking, pc, why, pending, awaitingPong, out,
                 portUp, client, delivered, recvs, ticks>>

CloseNow(code) == UserCommand(Cmd("close", code, FALSE))
Ping == UserCommand(Cmd("send", NoArg, FALSE))

-----------------------------------------------------------------------------
(***************************************************************************)
(* The driver's start: the hello is measured and sent on the port itself,   *)
(* before the writer exists.                                                *)
(***************************************************************************)
\* Mutant: a later outcome replaces the first.
SettleReadyAgain(outcome) == ready' = outcome

SettleReady(outcome) == ready' = IF ready = "none" THEN outcome ELSE ready

Break(code, tell) ==
  /\ pc' = "closing"
  /\ why' = [code |-> code, tell |-> tell]

Hello ==
  /\ pc = "start"
  /\ \/ /\ portUp
        /\ outbox' = Append(outbox, Frame("hello", NoArg))
        /\ pc' = "loop"
        /\ UNCHANGED <<why, ready>>
     \/ /\ SettleReady("failed")
        /\ Break(RELEASED, TRUE)
        /\ UNCHANGED outbox
  /\ UNCHANGED <<state, closure, unfinished, tracking, commands, pending, awaitingPong,
                 outq, writer, sendFailed, portUp, client, delivered, bounds>>

(***************************************************************************)
(* The loop.  Its select! is biased: an arm is polled only when the arms    *)
(* above it are not ready.  The timers are ready whenever they choose.      *)
(***************************************************************************)
Arm1 == pc = "loop"
Arm2 == Arm1 /\ ~sendFailed
Arm5 == Arm2 /\ \A i \in InIds : tasks[i] # "finished"
Arm6 == Arm5 /\ commands = <<>>

Enqueue(frame) == outq' = Append(outq, frame)

OnSendFailure ==
  /\ Arm1
  /\ sendFailed
  /\ Break(RELEASED, TRUE)
  /\ UNCHANGED <<shared, tracking, commands, pending, awaitingPong, out,
                 portUp, client, delivered, bounds>>

OnHandshakeTimeout ==
  /\ Arm2
  /\ state = "handshaking"
  /\ SettleReady("failed")
  /\ Break(PROTOCOL_ERROR, TRUE)
  /\ UNCHANGED <<state, closure, unfinished, tracking, commands, pending, awaitingPong,
                 out, portUp, client, delivered, bounds>>

\* Mutant: the tick never looks for the pong.
PongMissedNever == FALSE

PongMissed == awaitingPong

\* The interval exists once the session is ready.  The bound is on the pings,
\* never on the tick that finds the last one unanswered.
OnLivenessTick ==
  /\ Arm2
  /\ state = "ready"
  /\ \/ /\ PongMissed
        /\ Break(RELEASED, TRUE)
        /\ UNCHANGED <<awaitingPong, outq, ticks>>
     \/ /\ ~PongMissed /\ ticks + user < MaxExtras
        /\ awaitingPong' = TRUE
        /\ Enqueue(Frame("ping", NoArg))
        /\ ticks' = ticks + 1
        /\ UNCHANGED <<pc, why>>
  /\ UNCHANGED <<shared, tracking, commands, pending, writer, sendFailed, outbox,
                 portUp, client, delivered, recvs, user>>

\* respond_error and respond_result: exactly one frame for the id.
Respond(i, type) == Enqueue(Frame(type, i))

\* A handler's own error is queued unmeasured; a result that does not fit, and
\* a panic, are answered with a small err.
OnHandlerSettled(i) ==
  /\ Arm2
  /\ tasks[i] = "finished"
  /\ tasks' = [tasks EXCEPT ![i] = "none"]
  /\ inFlight' = inFlight - 1
  /\ active' = active \ {i}
  /\ cancelled' = cancelled \ {i}
  /\ \E type \in AnswerType : Respond(i, type)
  /\ UNCHANGED <<shared, commands, pc, why, pending, awaitingPong, writer, sendFailed,
                 outbox, portUp, client, delivered, bounds>>

\* Dropping a reply sender wakes the caller, if it still waits, with an error.
DropReplies(dropped) ==
  reply' = [c \in Calls |-> IF c \in dropped /\ reply[c] = "empty" THEN "dropped" ELSE reply[c]]

OnCommand ==
  /\ Arm5
  /\ commands # <<>>
  /\ commands' = Tail(commands)
  /\ LET cmd == Head(commands) IN
     \/ /\ cmd.type = "close"
        /\ Break(cmd.arg, TRUE)
        /\ UNCHANGED <<pending, outq, reply>>
     \/ /\ cmd.type = "request"
        /\ pending' = pending \cup {cmd.arg}
        /\ Enqueue(Frame("req", cmd.arg))
        /\ UNCHANGED <<pc, why, reply>>
     \/ /\ cmd.type = "cancel"
        /\ pending' = IF cmd.forget THEN pending ELSE pending \ {cmd.arg}
        /\ DropReplies(pending \ pending')
        /\ Enqueue(Frame("cancel", cmd.arg))
        /\ UNCHANGED <<pc, why>>
     \/ /\ cmd.type = "send"
        /\ Enqueue(Frame("ping", NoArg))
        /\ UNCHANGED <<pc, why, pending, reply>>
  /\ UNCHANGED <<shared, tracking, awaitingPong, writer, sendFailed, outbox,
                 portUp, call, cancelSent, delivered, bounds>>

-----------------------------------------------------------------------------
(***************************************************************************)
(* on_frame, one operator per kind of frame.  Each says what happens to     *)
(* everything but the transport and the bounds.                             *)
(***************************************************************************)
OnHello(compatible) ==
  /\ \/ /\ state # "handshaking"
        /\ Break(PROTOCOL_ERROR, TRUE)
        /\ UNCHANGED <<state, ready>>
     \/ /\ state = "handshaking" /\ ~compatible
        /\ SettleReady("mismatch")
        /\ Break(PROTOCOL_MISMATCH, TRUE)
        /\ UNCHANGED state
     \/ /\ state = "handshaking" /\ compatible
        /\ state' = "ready"
        /\ SettleReady("ok")
        /\ UNCHANGED <<pc, why>>
  /\ UNCHANGED <<closure, unfinished, tracking, commands, pending, awaitingPong, out,
                 client, delivered>>

OnClose(code) ==
  /\ Break(code, FALSE)
  /\ UNCHANGED <<shared, tracking, commands, pending, awaitingPong, out, client, delivered>>

\* Mutant: an id already in flight is served again.
AdmitsDuplicate(i) == state = "ready" /\ Cardinality(active) < MaxInFlight

\* Mutant: the ceiling is compared one too late.
AdmitsOneMore(i) == state = "ready" /\ Cardinality(active) <= MaxInFlight /\ i \notin active

Admits(i) == state = "ready" /\ Cardinality(active) < MaxInFlight /\ i \notin active

\* The five refusals, then the handler is spawned.  "routed" is FALSE for a
\* reserved method and for one without a handler.
OnRequest(i) ==
  /\ delivered' = [delivered EXCEPT ![i] = @ + 1]
  /\ \E routed \in BOOLEAN :
       IF Admits(i) /\ routed
       THEN /\ inFlight' = inFlight + 1
            /\ tasks' = [tasks EXCEPT ![i] = "running"]
            /\ active' = active \cup {i}
            /\ UNCHANGED <<cancelled, outq>>
       ELSE Respond(i, "err") /\ UNCHANGED tracking
  /\ UNCHANGED <<shared, commands, pc, why, pending, awaitingPong, writer, sendFailed,
                 outbox, client>>

OnResponse(c) ==
  /\ pending' = pending \ {c}
  /\ reply' = IF c \in pending THEN [reply EXCEPT ![c] = "answer"] ELSE reply
  /\ UNCHANGED <<shared, tracking, commands, pc, why, awaitingPong, out, call,
                 cancelSent, delivered>>

OnCancel(i) ==
  /\ cancelled' = IF i \in active THEN cancelled \cup {i} ELSE cancelled
  /\ UNCHANGED <<shared, active, tasks, inFlight, commands, pc, why, pending,
                 awaitingPong, out, client, delivered>>

OnPing ==
  /\ Enqueue(Frame("pong", NoArg))
  /\ UNCHANGED <<shared, tracking, commands, pc, why, pending, awaitingPong, writer,
                 sendFailed, outbox, client, delivered>>

OnPong ==
  /\ awaitingPong' = FALSE
  /\ UNCHANGED <<shared, tracking, commands, pc, why, pending, out, client, delivered>>

\* The subscribers an event is fanned out to are in EventStreams.
OnEvent ==
  UNCHANGED <<shared, tracking, commands, pc, why, pending, awaitingPong, out, client,
              delivered>>

OnFrame(f) ==
  \/ f.type = "hello" /\ OnHello(TRUE)
  \/ f.type = "hello_mismatch" /\ OnHello(FALSE)
  \/ f.type = "close" /\ OnClose(f.arg)
  \/ f.type = "req" /\ OnRequest(f.arg)
  \/ f.type \in {"res", "err"} /\ OnResponse(f.arg)
  \/ f.type = "cancel" /\ OnCancel(f.arg)
  \/ f.type = "ping" /\ OnPing
  \/ f.type = "pong" /\ OnPong
  \/ f.type = "evt" /\ OnEvent

Receive ==
  /\ Arm6
  /\ recvs < MaxRecvs
  /\ recvs' = recvs + 1
  /\ \E f \in InFrame : OnFrame(f)
  /\ UNCHANGED <<portUp, ticks, user>>

ClosureCodes == Codes

\* The port ends the stream: with the peer's code, with the code of a refused
\* record, or with none, which counts as RELEASED.
ReceiveClosed ==
  /\ Arm6
  /\ \E code \in ClosureCodes : Break(code, FALSE)
  /\ UNCHANGED <<shared, tracking, commands, pending, awaitingPong, out,
                 portUp, client, delivered, bounds>>

-----------------------------------------------------------------------------
(***************************************************************************)
(* The writer task, the handler tasks and the transport.                    *)
(***************************************************************************)
WriterStep ==
  /\ writer = "run"
  /\ outq # <<>>
  /\ outq' = Tail(outq)
  /\ LET f == Head(outq) IN
     \/ /\ f = Shutdown
        /\ writer' = "done"
        /\ UNCHANGED <<sendFailed, outbox>>
     \/ /\ f # Shutdown /\ portUp /\ f.type # "err_unfit"
        /\ outbox' = Append(outbox, f)
        /\ UNCHANGED <<writer, sendFailed>>
     \/ /\ f # Shutdown /\ (~portUp \/ f.type = "err_unfit")
        /\ sendFailed' = TRUE
        /\ UNCHANGED <<writer, outbox>>
  /\ UNCHANGED <<shared, tracking, commands, pc, why, pending, awaitingPong,
                 portUp, client, delivered, bounds>>

HandlerFinish(i) ==
  /\ tasks[i] = "running"
  /\ tasks' = [tasks EXCEPT ![i] = "finished"]
  /\ UNCHANGED <<shared, inFlight, active, cancelled, commands, pc, why, pending,
                 awaitingPong, out, portUp, client, delivered, bounds>>

PortDown ==
  /\ portUp
  /\ portUp' = FALSE
  /\ UNCHANGED <<shared, tracking, commands, pc, why, pending, awaitingPong, out,
                 client, delivered, bounds>>

-----------------------------------------------------------------------------
(***************************************************************************)
(* Teardown, in the order of its numbered steps.                            *)
(***************************************************************************)
\* Step 2, and the Shutdown that Writer::shut_down queues before it waits.
TeardownState ==
  /\ pc = "closing"
  /\ state' = "closed"
  /\ Enqueue(Shutdown)
  /\ pc' = "flush"
  /\ UNCHANGED <<ready, closure, unfinished, tracking, commands, why, pending,
                 awaitingPong, writer, sendFailed, outbox, portUp, client, delivered, bounds>>

\* Mutant: the port is closed without waiting for the writer.
FlushedAlways == TRUE

Flushed == writer = "done"

\* Step 3: the writer has handed the port back; the port is told, or dropped.
TeardownPort ==
  /\ pc = "flush"
  /\ Flushed
  /\ outbox' = IF why.tell /\ portUp THEN Append(outbox, Frame("close", why.code)) ELSE outbox
  /\ pc' = "settle"
  /\ UNCHANGED <<shared, tracking, commands, why, pending, awaitingPong, outq, writer,
                 sendFailed, portUp, client, delivered, bounds>>

\* Mutant: a mismatch is reported as any other failure.
ReadyFailureGeneric == "failed"

\* Mutant: teardown leaves ready unsettled.
ReadyFailureNone == "none"

ReadyFailure == IF why.code = PROTOCOL_MISMATCH THEN "mismatch" ELSE "failed"

\* Step 4.
TeardownReady ==
  /\ pc = "settle"
  /\ SettleReady(ReadyFailure)
  /\ pc' = "fail"
  /\ UNCHANGED <<state, closure, unfinished, tracking, commands, why, pending,
                 awaitingPong, out, portUp, client, delivered, bounds>>

\* Step 5.
TeardownPending ==
  /\ pc = "fail"
  /\ pending' = {}
  /\ reply' = [c \in Calls |-> IF c \in pending THEN "unavailable" ELSE reply[c]]
  /\ pc' = "cancel"
  /\ UNCHANGED <<shared, tracking, commands, why, awaitingPong, out, portUp, call,
                 cancelSent, delivered, bounds>>

\* Mutant: the handlers are forgotten, not cancelled.
FiredTokensUntouched == cancelled

FiredTokens == cancelled \cup active

\* Step 6.
TeardownTokens ==
  /\ pc = "cancel"
  /\ active' = {}
  /\ cancelled' = FiredTokens
  /\ pc' = "drain"
  /\ UNCHANGED <<shared, tasks, inFlight, commands, why, pending, awaitingPong, out,
                 portUp, client, delivered, bounds>>

\* Step 8: a settled handler is joined; its outcome goes nowhere.
DrainJoin(i) ==
  /\ pc = "drain"
  /\ tasks[i] = "finished"
  /\ tasks' = [tasks EXCEPT ![i] = "none"]
  /\ UNCHANGED <<shared, inFlight, active, cancelled, commands, pc, why, pending,
                 awaitingPong, out, portUp, client, delivered, bounds>>

\* Mutant: the drain has no grace period.
DrainOverWhenEmpty == \A i \in InIds : tasks[i] = "none"

DrainOver == \A i \in InIds : tasks[i] # "finished"

\* Steps 8 and 9: no handler is left, or the grace has passed with none settled.
Publish ==
  /\ pc = "drain"
  /\ DrainOver
  /\ unfinished' = Cardinality({i \in InIds : tasks[i] = "running"})
  /\ closure' = why.code
  /\ pc' = "published"
  /\ UNCHANGED <<state, ready, tracking, commands, why, pending, awaitingPong, out,
                 portUp, client, delivered, bounds>>

\* Mutant: queued requests are discarded with their callers left waiting.
QueuedRequestsNone == {}

QueuedRequests == {c \in Calls : Queued(Cmd("request", c, FALSE))}

\* run() returns: the JoinSet aborts what still runs, the command receiver is
\* dropped with whatever is queued.
DriverReturn ==
  /\ pc = "published"
  /\ tasks' = [i \in InIds |-> IF tasks[i] = "running" THEN "aborted" ELSE tasks[i]]
  /\ DropReplies(QueuedRequests)
  /\ commands' = <<>>
  /\ pc' = "returned"
  /\ UNCHANGED <<shared, inFlight, active, cancelled, why, pending, awaitingPong, out,
                 portUp, call, cancelSent, delivered, bounds>>

Done ==
  /\ pc = "returned"
  /\ \A c \in Calls : call[c] \in Settled
  /\ UNCHANGED vars

CallNext(c) ==
  \/ RequestStart(c) \/ RequestReady(c) \/ RequestSend(c) \/ RequestReply(c)
  \/ RequestCancel(c) \/ RequestAbandon(c) \/ RequestDropEarly(c)

LoopNext ==
  \/ OnSendFailure \/ OnHandshakeTimeout \/ OnLivenessTick
  \/ \E i \in InIds : OnHandlerSettled(i)
  \/ OnCommand \/ Receive \/ ReceiveClosed

TeardownNext ==
  \/ TeardownState \/ TeardownPort \/ TeardownReady \/ TeardownPending
  \/ TeardownTokens \/ Publish \/ DriverReturn
  \/ \E i \in InIds : DrainJoin(i)

Next ==
  \/ \E c \in Calls : CallNext(c)
  \/ \E code \in Codes : CloseNow(code)
  \/ Ping \/ Hello \/ LoopNext \/ WriterStep \/ PortDown
  \/ \E i \in InIds : HandlerFinish(i)
  \/ TeardownNext
  \/ Done

Spec == Init /\ [][Next]_vars

(***************************************************************************)
(* Fairness.  A spawned driver is polled whenever one of its arms is ready, *)
(* the timers it waits for fire, the writer is a task of its own, and a     *)
(* caller polls the future it holds.  The writer's fairness is that of a    *)
(* port whose sends complete; NdjsonSession is about one whose peer stopped *)
(* reading.  Nothing else is assumed of the peer, and nothing of the        *)
(* application or of its handlers: they may stay silent for ever.           *)
(***************************************************************************)
Fairness ==
  /\ WF_vars(Hello) /\ WF_vars(OnSendFailure) /\ WF_vars(OnHandshakeTimeout)
  /\ WF_vars(OnLivenessTick) /\ WF_vars(OnCommand) /\ WF_vars(WriterStep)
  /\ WF_vars(\E i \in InIds : OnHandlerSettled(i))
  /\ WF_vars(TeardownNext)
  /\ \A c \in Calls : WF_vars(RequestReady(c) \/ RequestSend(c) \/ RequestReply(c))

LiveSpec == Spec /\ Fairness

-----------------------------------------------------------------------------
(***************************************************************************)
(* Safety.                                                                  *)
(***************************************************************************)
\* Every variable holds a value of its kind.
TypeOK ==
  /\ state \in {"handshaking", "ready", "closed"}
  /\ ready \in {"none", "ok", "failed", "mismatch"}
  /\ closure \in {0} \cup Codes /\ unfinished \in Nat /\ inFlight \in Int
  /\ commands \in Seq(Command)
  /\ pc \in {"start", "loop", "closing", "flush", "settle", "fail", "cancel", "drain",
             "published", "returned"}
  /\ why \in [code: Codes, tell: BOOLEAN]
  /\ pending \in SUBSET Calls /\ cancelSent \in SUBSET Calls
  /\ active \in SUBSET InIds /\ cancelled \in SUBSET InIds
  /\ tasks \in [InIds -> {"none", "running", "finished", "aborted"}]
  /\ awaitingPong \in BOOLEAN /\ sendFailed \in BOOLEAN /\ portUp \in BOOLEAN
  /\ outq \in Seq(OutFrame) /\ outbox \in Seq(OutFrame) /\ writer \in {"run", "done"}
  /\ call \in [Calls -> {"idle", "ready_wait", "sending", "waiting"} \cup Settled]
  /\ reply \in [Calls -> {"empty", "answer", "unavailable", "dropped"}]
  /\ delivered \in [InIds -> Nat]
  /\ recvs \in Nat /\ ticks \in Nat /\ user \in Nat

\* A request that waits for its reply is never forgotten: its command is still
\* queued, or the driver holds its entry, or the reply is there.  It holds
\* through every step of teardown, where a request that passed the state check
\* in time can still be queued behind the closing driver.
NoLostCall ==
  \A c \in Calls :
    call[c] = "waiting" =>
      \/ reply[c] # "empty"
      \/ c \in pending
      \/ Queued(Cmd("request", c, FALSE))

\* A request that timed out or was dropped does not leak its entry in the
\* driver's map: while the loop runs, the Cancel that releases it is queued.
AbandonedIsReleased ==
  \A c \in pending :
    pc = "loop" /\ call[c] \in Settled => Queued(Cmd("cancel", c, FALSE))

AnswersTo(i, frames) ==
  Cardinality({k \in 1..Len(frames) : frames[k].type \in AnswerType /\ frames[k].arg = i})

\* Spec 6.2: exactly one res or err for every req taken from the peer, refused,
\* duplicated and cancelled ones included.  While the loop runs and no frame was
\* lost, a request is answered, on the wire or in the writer's queue, or it is
\* the one its id is active for; and no id is ever answered more often than asked.
ExactlyOneAnswer ==
  \A i \in InIds :
    LET answers == AnswersTo(i, outbox) + AnswersTo(i, outq) IN
    /\ answers + (IF i \in active THEN 1 ELSE 0) <= delivered[i]
    /\ pc = "loop" /\ ~sendFailed =>
         delivered[i] = answers + (IF i \in active THEN 1 ELSE 0)

\* The in-flight ceiling holds, and until teardown the three records of what is
\* being answered agree: the active map, the tasks and the shared counter.
InFlightAgrees ==
  /\ Cardinality(active) <= MaxInFlight
  /\ pc \in {"start", "loop", "closing", "flush", "settle", "fail", "cancel"} =>
       /\ inFlight = Cardinality(active)
       /\ active = {i \in InIds : tasks[i] # "none"}

\* Spec 5.1 and 10, on what reaches the transport: a hello comes first and only
\* once, and a close is the last frame; a cancel follows the req it is about and
\* no request is sent twice.
WireOrder ==
  \A k \in 1..Len(outbox) :
    /\ outbox[k].type = "hello" <=> k = 1 /\ outbox[k].type # "close"
    /\ outbox[k].type = "close" => k = Len(outbox)
    /\ outbox[k].type = "cancel" => \E j \in 1..(k - 1) : outbox[j] = Frame("req", outbox[k].arg)
    /\ outbox[k].type = "req" => \A j \in 1..(k - 1) : outbox[j] # outbox[k]

\* What closed() resolving promises: ready() has an outcome, the driver holds no
\* reply, every handler still running has been told to stop, and a caller that
\* still waits without a reply is one whose request is queued at a driver that is
\* about to drop it.
PublishedIsSettled ==
  closure # 0 =>
    /\ state = "closed" /\ ready # "none" /\ pending = {}
    /\ \A i \in InIds : tasks[i] = "running" => i \in cancelled
    /\ \A c \in Calls : call[c] = "waiting" /\ reply[c] = "empty" =>
         pc = "published" /\ Queued(Cmd("request", c, FALSE))

-----------------------------------------------------------------------------
(***************************************************************************)
(* What all of this amounts to for the holder of a handle: SessionService.  *)
(* A request that is under way is open until its reply one-shot holds       *)
(* something.                                                               *)
(***************************************************************************)
Outcome ==
  [c \in Calls |-> IF call[c] \notin {"ready_wait", "sending", "waiting"} THEN call[c]
                   ELSE IF reply[c] = "empty" THEN "open"
                   ELSE IF reply[c] = "answer" THEN "answer"
                   ELSE "failure"]

Service == INSTANCE SessionService
             WITH Mismatch <- PROTOCOL_MISMATCH, stage <- state, greeting <- ready,
                  outcome <- Outcome

\* The driver, the writer and the handles together keep what SessionService
\* promises: ready(), closed() and every request settle at most once and never
\* change, an answer is taken only while the session is open, a request is let go
\* only once it is closed, and ready() and closed() agree on a version mismatch.
ServiceSpec == Service!Spec

-----------------------------------------------------------------------------
(***************************************************************************)
(* Liveness, under Fairness.                                                *)
(***************************************************************************)
\* ready() always resolves: the peer greets, or the handshake times out, or the
\* session closes.
ReadyResolves == <>(ready # "none")

\* A queued close lands, and every teardown ends with a published closure,
\* whatever the peer keeps sending and though a handler never returns.
CloseCompletes ==
  (pc = "closing" \/ \E code \in Codes : Queued(Cmd("close", code, FALSE))) ~> (closure # 0)

\* No call outlives its session.
CallsSettle ==
  \A c \in Calls : (state = "closed" /\ call[c] \notin {"idle"}) ~> (call[c] \in Settled)

\* A ping of this side that is never answered ends the session.
SilentPeerIsDropped ==
  awaitingPong ~> (~awaitingPong \/ closure # 0)
=============================================================================
