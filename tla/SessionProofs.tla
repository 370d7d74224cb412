---------------------------- MODULE SessionProofs ----------------------------
(***************************************************************************)
(* Theorems about Session, for every set of calls and ids and every bound.  *)
(***************************************************************************)
EXTENDS Session, TLAPS, FiniteSetTheorems

\* What an action leaves alone is written with these groups of variables.
USE DEF shared, tracking, out, client, bounds

-----------------------------------------------------------------------------
(***************************************************************************)
(* Frames, commands and the two queues.                                     *)
(***************************************************************************)
\* Every frame the session builds is one the writer's queue may hold.
LEMMA FramesTyped ==
  /\ \A t \in {"hello", "ping", "pong", "shutdown"} : Frame(t, NoArg) \in OutFrame
  /\ \A t \in {"req", "cancel"}, c \in Calls : Frame(t, c) \in OutFrame
  /\ \A t \in AnswerType, i \in InIds : Frame(t, i) \in OutFrame
  /\ \A code \in Codes : Frame("close", code) \in OutFrame
BY DEF Frame, OutFrame, AnswerType

\* Every command a handle builds is one the command channel may hold.
LEMMA CommandsTyped ==
  /\ \A c \in Calls : Cmd("request", c, FALSE) \in Command
  /\ \A c \in Calls, b \in BOOLEAN : Cmd("cancel", c, b) \in Command
  /\ \A code \in Codes : Cmd("close", code, FALSE) \in Command
  /\ Cmd("send", NoArg, FALSE) \in Command
BY DEF Cmd, Command

\* What the driver reads out of a command it takes.
LEMMA CommandArgs ==
  ASSUME NEW cmd \in Command
  PROVE  /\ cmd.type \in {"request", "cancel"} => cmd.arg \in Calls
         /\ cmd.type = "close" => cmd.arg \in Codes
         /\ cmd.type \in {"request", "cancel", "close", "send"}
         /\ cmd.forget \in BOOLEAN
BY DEF Command

\* The fields of a request command.
LEMMA RequestShape ==
  ASSUME NEW c
  PROVE  Cmd("request", c, FALSE).type = "request" /\ Cmd("request", c, FALSE).arg = c
BY DEF Cmd

\* Appending to a typed queue and taking its head keep it typed.
LEMMA QueueTyped ==
  ASSUME NEW S, NEW q \in Seq(S)
  PROVE  /\ \A e \in S : Append(q, e) \in Seq(S)
         /\ q # <<>> => Tail(q) \in Seq(S) /\ Head(q) \in S
OBVIOUS

\* The three codes the session itself closes with are close codes.
LEMMA OwnCodes ==
  /\ RELEASED \in Codes /\ PROTOCOL_ERROR \in Codes /\ PROTOCOL_MISMATCH \in Codes
  /\ 0 \notin Codes
BY CodesAssumption

-----------------------------------------------------------------------------
(***************************************************************************)
(* Type correctness, one step per action.                                   *)
(***************************************************************************)
\* The handles' actions keep every variable typed.
LEMMA TypeOKClient ==
  ASSUME TypeOK, NEW c \in Calls, CallNext(c)
  PROVE  TypeOK'
<1>1. \A cmd \in Command : SendCommand(cmd) => commands' \in Seq(Command)
  BY QueueTyped DEF SendCommand, TypeOK
<1>2. CASE RequestStart(c)
  BY <1>2 DEF RequestStart, TypeOK, Settled
<1>3. CASE RequestReady(c)
  BY <1>3 DEF RequestReady, TypeOK, Settled
<1>4. CASE RequestSend(c)
  <2>1. commands' \in Seq(Command)
    BY <1>1, <1>4, CommandsTyped DEF RequestSend, TypeOK
  <2>2. call' \in [Calls -> {"idle", "ready_wait", "sending", "waiting"} \cup Settled]
    BY <1>4 DEF RequestSend, TypeOK, Settled
  <2> QED BY <1>4, <2>1, <2>2 DEF RequestSend, TypeOK
<1>5. CASE RequestReply(c)
  BY <1>5 DEF RequestReply, TypeOK, Settled
<1>6. CASE RequestCancel(c)
  <2>1. commands' \in Seq(Command)
    BY <1>1, <1>6, CommandsTyped DEF RequestCancel
  <2> QED BY <1>6, <2>1 DEF RequestCancel, TypeOK
<1>7. CASE RequestAbandon(c)
  <2>1. commands' \in Seq(Command)
    BY <1>1, <1>7, CommandsTyped DEF RequestAbandon, Release
  <2> QED BY <1>7, <2>1 DEF RequestAbandon, TypeOK, Settled
<1>8. CASE RequestDropEarly(c)
  BY <1>8 DEF RequestDropEarly, TypeOK, Settled
<1> QED BY <1>2, <1>3, <1>4, <1>5, <1>6, <1>7, <1>8 DEF CallNext

\* An application's own command keeps every variable typed.
LEMMA TypeOKUser ==
  ASSUME TypeOK, NEW cmd \in Command, UserCommand(cmd)
  PROVE  TypeOK'
<1>1. commands' \in Seq(Command)
  BY QueueTyped DEF UserCommand, SendCommand, TypeOK
<1> QED BY <1>1, LimitsAssumption DEF UserCommand, TypeOK

\* Break's reason is a typed one.
LEMMA BreakTyped ==
  ASSUME NEW code \in Codes, NEW tell \in BOOLEAN, Break(code, tell)
  PROVE  /\ pc' = "closing"
         /\ why' \in [code: Codes, tell: BOOLEAN]
BY DEF Break

\* The driver's start and the arms of its loop above the inbound one keep every
\* variable typed.
LEMMA TypeOKControl ==
  ASSUME TypeOK,
         \/ Hello \/ OnSendFailure \/ OnHandshakeTimeout \/ OnLivenessTick \/ OnCommand
         \/ \E i \in InIds : OnHandlerSettled(i)
  PROVE  TypeOK'
<1>1. CASE Hello
  <2>0. Frame("hello", NoArg) \in OutFrame
    BY FramesTyped
  <2>1. outbox' \in Seq(OutFrame)
    <3>1. outbox \in Seq(OutFrame)
      BY DEF TypeOK
    <3>2. outbox' \in {outbox, Append(outbox, Frame("hello", NoArg))}
      BY <1>1, Zenon DEF Hello
    <3> QED BY <2>0, <3>1, <3>2
  <2>2. pc' \in {"loop", "closing"} /\ why' \in [code: Codes, tell: BOOLEAN]
    BY <1>1, BreakTyped, OwnCodes DEF Hello, TypeOK
  <2>3. ready' \in {"none", "ok", "failed", "mismatch"}
    BY <1>1 DEF Hello, SettleReady, TypeOK
  <2> QED BY <1>1, <2>1, <2>2, <2>3 DEF Hello, TypeOK
<1>2. CASE OnSendFailure
  <2>1. pc' = "closing" /\ why' \in [code: Codes, tell: BOOLEAN]
    BY <1>2, BreakTyped, OwnCodes DEF OnSendFailure
  <2> QED BY <1>2, <2>1 DEF OnSendFailure, TypeOK
<1>3. CASE OnHandshakeTimeout
  <2>1. pc' = "closing" /\ why' \in [code: Codes, tell: BOOLEAN]
    BY <1>3, BreakTyped, OwnCodes DEF OnHandshakeTimeout
  <2> QED BY <1>3, <2>1 DEF OnHandshakeTimeout, SettleReady, TypeOK
<1>4. CASE OnLivenessTick
  <2>0. Frame("ping", NoArg) \in OutFrame
    BY FramesTyped
  <2>1. outq' \in Seq(OutFrame)
    <3>1. outq \in Seq(OutFrame)
      BY DEF TypeOK
    <3>2. outq' \in {outq, Append(outq, Frame("ping", NoArg))}
      BY <1>4, Zenon DEF OnLivenessTick, Enqueue
    <3> QED BY <2>0, <3>1, <3>2
  <2>2. pc' \in {pc, "closing"} /\ why' \in [code: Codes, tell: BOOLEAN]
    BY <1>4, BreakTyped, OwnCodes DEF OnLivenessTick, TypeOK
  <2>3. ticks' \in Nat
    <3>1. ticks' \in {ticks, ticks + 1}
      BY <1>4, Zenon DEF OnLivenessTick
    <3> QED BY <3>1 DEF TypeOK
  <2>4. awaitingPong' \in BOOLEAN
    BY <1>4, Zenon DEF OnLivenessTick, TypeOK
  <2> QED BY <1>4, <2>1, <2>2, <2>3, <2>4 DEF OnLivenessTick, TypeOK
<1>5. CASE OnCommand
  <2> DEFINE cmd == Head(commands)
  <2>1. cmd \in Command /\ commands' \in Seq(Command)
    BY <1>5, QueueTyped DEF OnCommand, TypeOK
  <2>2. /\ cmd.type \in {"request", "cancel"} => cmd.arg \in Calls
        /\ cmd.type = "close" => cmd.arg \in Codes
    BY <2>1, CommandArgs
  <2>3. pc' \in {pc, "closing"} /\ why' \in [code: Codes, tell: BOOLEAN]
    BY <1>5, <2>2, BreakTyped DEF OnCommand, TypeOK
  <2>4. outq' \in Seq(OutFrame)
    <3>1. /\ cmd.type = "request" => Frame("req", cmd.arg) \in OutFrame
          /\ cmd.type = "cancel" => Frame("cancel", cmd.arg) \in OutFrame
          /\ Frame("ping", NoArg) \in OutFrame
      BY <2>2, FramesTyped
    <3>2. outq \in Seq(OutFrame)
      BY DEF TypeOK
    <3>3. \/ outq' = outq
          \/ cmd.type = "request" /\ outq' = Append(outq, Frame("req", cmd.arg))
          \/ cmd.type = "cancel" /\ outq' = Append(outq, Frame("cancel", cmd.arg))
          \/ outq' = Append(outq, Frame("ping", NoArg))
      BY <1>5, Zenon DEF OnCommand, Enqueue
    <3> QED BY <3>1, <3>2, <3>3
  <2>5. pending' \in SUBSET Calls
    BY <1>5, <2>2 DEF OnCommand, TypeOK
  <2>6. reply' \in [Calls -> {"empty", "answer", "unavailable", "dropped"}]
    BY <1>5 DEF OnCommand, DropReplies, TypeOK
  <2> QED BY <1>5, <2>1, <2>3, <2>4, <2>5, <2>6 DEF OnCommand, TypeOK
<1>6. ASSUME NEW i \in InIds, OnHandlerSettled(i)
      PROVE  TypeOK'
  <2>1. outq' \in Seq(OutFrame)
    BY <1>6, QueueTyped, FramesTyped DEF OnHandlerSettled, Respond, Enqueue, TypeOK
  <2> QED BY <1>6, <2>1 DEF OnHandlerSettled, TypeOK
<1> QED BY <1>1, <1>2, <1>3, <1>4, <1>5, <1>6

\* Whatever frame the peer sends, on_frame keeps every variable typed.
LEMMA TypeOKReceive ==
  ASSUME TypeOK, Receive
  PROVE  TypeOK'
<1>1. recvs' \in Nat /\ ticks' = ticks /\ user' = user /\ portUp' = portUp
  BY DEF Receive, TypeOK
<1>2. PICK f \in InFrame : OnFrame(f)
  BY DEF Receive
<1>3. /\ f.type = "close" => f.arg \in Codes
      /\ f.type \in {"req", "cancel"} => f.arg \in InIds
      /\ f.type \in {"res", "err"} => f.arg \in Calls
  BY DEF InFrame
<1>4. ASSUME NEW compatible \in BOOLEAN, OnHello(compatible)
      PROVE  TypeOK'
  <2>1. pc' \in {pc, "closing"} /\ why' \in [code: Codes, tell: BOOLEAN]
    BY <1>4, BreakTyped, OwnCodes DEF OnHello, TypeOK
  <2>2. /\ ready' \in {"none", "ok", "failed", "mismatch"}
        /\ state' \in {"handshaking", "ready", "closed"}
    BY <1>4 DEF OnHello, SettleReady, TypeOK
  <2> QED BY <1>1, <1>4, <2>1, <2>2 DEF OnHello, TypeOK
<1>5. CASE f.type = "close" /\ OnClose(f.arg)
  <2>1. pc' = "closing" /\ why' \in [code: Codes, tell: BOOLEAN]
    BY <1>3, <1>5, BreakTyped DEF OnClose
  <2> QED BY <1>1, <1>5, <2>1 DEF OnClose, TypeOK
<1>6. CASE f.type = "req" /\ OnRequest(f.arg)
  <2>0. Frame("err", f.arg) \in OutFrame
    BY <1>3, <1>6, FramesTyped DEF AnswerType
  <2>1. outq' \in Seq(OutFrame)
    <3>1. outq \in Seq(OutFrame)
      BY DEF TypeOK
    <3>2. outq' \in {outq, Append(outq, Frame("err", f.arg))}
      BY <1>6 DEF OnRequest, Respond, Enqueue
    <3> QED BY <2>0, <3>1, <3>2
  <2>2. delivered' \in [InIds -> Nat]
    BY <1>3, <1>6 DEF OnRequest, TypeOK
  <2>3. /\ active' \in SUBSET InIds /\ cancelled' \in SUBSET InIds /\ inFlight' \in Int
        /\ tasks' \in [InIds -> {"none", "running", "finished", "aborted"}]
    <3>1. CASE UNCHANGED tracking
      BY <3>1 DEF TypeOK
    <3>2. CASE /\ inFlight' = inFlight + 1
               /\ tasks' = [tasks EXCEPT ![f.arg] = "running"]
               /\ active' = active \cup {f.arg}
               /\ UNCHANGED cancelled
      BY <1>3, <1>6, <3>2 DEF TypeOK
    <3> QED BY <1>6, <3>1, <3>2 DEF OnRequest
  <2> QED BY <1>1, <1>6, <2>1, <2>2, <2>3 DEF OnRequest, TypeOK
<1>7. CASE f.type \in {"res", "err"} /\ OnResponse(f.arg)
  BY <1>1, <1>3, <1>7 DEF OnResponse, TypeOK
<1>8. CASE f.type = "cancel" /\ OnCancel(f.arg)
  BY <1>1, <1>3, <1>8 DEF OnCancel, TypeOK
<1>9. CASE OnPing
  <2>1. outq' \in Seq(OutFrame)
    BY <1>9, QueueTyped, FramesTyped DEF OnPing, Enqueue, TypeOK
  <2> QED BY <1>1, <1>9, <2>1 DEF OnPing, TypeOK
<1>10. CASE OnPong
  <2>1. awaitingPong' \in BOOLEAN
    BY <1>10, Zenon DEF OnPong
  <2> QED BY <1>1, <1>10, <2>1 DEF OnPong, TypeOK
<1>11. CASE OnEvent
  BY <1>1, <1>11 DEF OnEvent, TypeOK
<1> QED BY <1>2, <1>4, <1>5, <1>6, <1>7, <1>8, <1>9, <1>10, <1>11 DEF OnFrame

\* The writer, the handlers and the transport keep every variable typed.
LEMMA TypeOKTasks ==
  ASSUME TypeOK,
         \/ ReceiveClosed \/ WriterStep \/ PortDown
         \/ \E i \in InIds : HandlerFinish(i)
  PROVE  TypeOK'
<1>1. CASE ReceiveClosed
  <2>1. pc' = "closing" /\ why' \in [code: Codes, tell: BOOLEAN]
    BY <1>1, BreakTyped DEF ReceiveClosed, ClosureCodes
  <2> QED BY <1>1, <2>1 DEF ReceiveClosed, TypeOK
<1>2. CASE WriterStep
  <2>1. outq \in Seq(OutFrame) /\ outbox \in Seq(OutFrame) /\ outq # <<>>
    BY <1>2, Zenon DEF WriterStep, TypeOK
  <2>2. outq' \in Seq(OutFrame) /\ Head(outq) \in OutFrame
    BY <1>2, <2>1 DEF WriterStep
  <2>3. outbox' \in {outbox, Append(outbox, Head(outq))}
    BY <1>2, Zenon DEF WriterStep
  <2>4. outbox' \in Seq(OutFrame)
    <3>1. \A e \in OutFrame : Append(outbox, e) \in Seq(OutFrame)
      BY <2>1, QueueTyped
    <3> QED BY <2>1, <2>2, <2>3, <3>1, Zenon
  <2>5. writer' \in {"run", "done"}
    BY <1>2, Zenon DEF WriterStep
  <2>6. sendFailed' \in BOOLEAN
    BY <1>2, Zenon DEF WriterStep, TypeOK
  <2> QED BY <1>2, <2>2, <2>4, <2>5, <2>6 DEF WriterStep, TypeOK
<1>3. CASE PortDown
  <2>1. portUp' \in BOOLEAN
    BY <1>3, Zenon DEF PortDown
  <2> QED BY <1>3, <2>1 DEF PortDown, TypeOK
<1>4. ASSUME NEW i \in InIds, HandlerFinish(i)
      PROVE  TypeOK'
  BY <1>4 DEF HandlerFinish, TypeOK
<1> QED BY <1>1, <1>2, <1>3, <1>4

\* The steps of teardown keep every variable typed.
LEMMA TypeOKTeardown ==
  ASSUME TypeOK, TeardownNext
  PROVE  TypeOK'
<1>1. CASE TeardownState
  <2>1. outq \in Seq(OutFrame) /\ Shutdown \in OutFrame
    BY FramesTyped DEF TypeOK, Shutdown
  <2>2. outq' \in Seq(OutFrame)
    BY <1>1, <2>1 DEF TeardownState, Enqueue
  <2> QED BY <1>1, <2>2 DEF TeardownState, TypeOK
<1>2. CASE TeardownPort
  <2>1. outbox \in Seq(OutFrame) /\ Frame("close", why.code) \in OutFrame
    BY FramesTyped DEF TypeOK
  <2>2. outbox' \in {outbox, Append(outbox, Frame("close", why.code))}
    BY <1>2, Zenon DEF TeardownPort
  <2>3. outbox' \in Seq(OutFrame)
    BY <2>1, <2>2
  <2> QED BY <1>2, <2>3 DEF TeardownPort, TypeOK
<1>3. CASE TeardownReady
  BY <1>3 DEF TeardownReady, SettleReady, ReadyFailure, TypeOK
<1>4. CASE TeardownPending
  BY <1>4 DEF TeardownPending, TypeOK
<1>5. CASE TeardownTokens
  BY <1>5 DEF TeardownTokens, FiredTokens, TypeOK
<1>6. CASE Publish
  <2>1. unfinished' \in Nat
    <3>1. IsFiniteSet({i \in InIds : tasks[i] = "running"})
      BY IdsAssumption, FS_Subset
    <3> QED BY <1>6, <3>1, FS_CardinalityType DEF Publish
  <2>2. closure' \in Codes
    BY <1>6 DEF Publish, TypeOK
  <2> QED BY <1>6, <2>1, <2>2 DEF Publish, TypeOK
<1>7. CASE DriverReturn
  <2>1. reply' \in [Calls -> {"empty", "answer", "unavailable", "dropped"}]
    BY <1>7 DEF DriverReturn, DropReplies, TypeOK
  <2>2. tasks' \in [InIds -> {"none", "running", "finished", "aborted"}]
    BY <1>7 DEF DriverReturn, TypeOK
  <2>3. commands' \in Seq(Command)
    BY <1>7 DEF DriverReturn
  <2> QED BY <1>7, <2>1, <2>2, <2>3 DEF DriverReturn, TypeOK
<1>8. ASSUME NEW i \in InIds, DrainJoin(i)
      PROVE  TypeOK'
  BY <1>8 DEF DrainJoin, TypeOK
<1> QED BY <1>1, <1>2, <1>3, <1>4, <1>5, <1>6, <1>7, <1>8 DEF TeardownNext

\* Every variable is typed in every reachable state: TypeOK needs no
\* strengthening.
THEOREM TypeCorrect == Spec => []TypeOK
<1>1. Init => TypeOK
  <2> SUFFICES ASSUME Init PROVE TypeOK
    OBVIOUS
  <2>1. awaitingPong \in BOOLEAN /\ sendFailed \in BOOLEAN /\ portUp \in BOOLEAN
    BY Zenon DEF Init
  <2>2. why \in [code: Codes, tell: BOOLEAN]
    BY OwnCodes DEF Init
  <2>3. commands \in Seq(Command) /\ outq \in Seq(OutFrame) /\ outbox \in Seq(OutFrame)
    BY DEF Init
  <2> QED BY <2>1, <2>2, <2>3 DEF Init, TypeOK, Settled
<1>2. TypeOK /\ [Next]_vars => TypeOK'
  <2> SUFFICES ASSUME TypeOK, [Next]_vars PROVE TypeOK'
    OBVIOUS
  <2>1. CASE \E c \in Calls : CallNext(c)
    BY <2>1, TypeOKClient
  <2>2. CASE Ping \/ \E code \in Codes : CloseNow(code)
    BY <2>2, TypeOKUser, CommandsTyped DEF Ping, CloseNow
  <2>3. CASE Hello \/ LoopNext
    BY <2>3, TypeOKControl, TypeOKReceive, TypeOKTasks DEF LoopNext
  <2>4. CASE WriterStep \/ PortDown \/ \E i \in InIds : HandlerFinish(i)
    BY <2>4, TypeOKTasks
  <2>5. CASE TeardownNext
    BY <2>5, TypeOKTeardown
  <2>6. CASE UNCHANGED vars
    BY <2>6 DEF vars, TypeOK
  <2> QED BY <2>1, <2>2, <2>3, <2>4, <2>5, <2>6 DEF Next, Done
<1> QED BY <1>1, <1>2, PTL DEF Spec

-----------------------------------------------------------------------------
(***************************************************************************)
(* No call is lost.                                                         *)
(***************************************************************************)
\* What is in a queue after an append and after its head is taken.
LEMMA QueueMembers ==
  ASSUME NEW S, NEW q \in Seq(S), NEW x, \E k \in 1..Len(q) : q[k] = x
  PROVE  /\ \A e : \E k \in 1..Len(Append(q, e)) : Append(q, e)[k] = x
         /\ x = Head(q) \/ \E k \in 1..Len(Tail(q)) : Tail(q)[k] = x
<1>1. PICK k \in 1..Len(q) : q[k] = x
  OBVIOUS
<1>2. ASSUME NEW e PROVE \E j \in 1..Len(Append(q, e)) : Append(q, e)[j] = x
  <2>1. k \in 1..Len(Append(q, e)) /\ Append(q, e)[k] = x
    BY <1>1
  <2> QED BY <2>1
<1>3. CASE k = 1
  BY <1>1, <1>3
<1>4. CASE k # 1
  <2>1. (k - 1) \in 1..Len(Tail(q)) /\ Tail(q)[k - 1] = x
    BY <1>1, <1>4
  <2> QED BY <1>2, <2>1
<1> QED BY <1>2, <1>3, <1>4

\* The element just appended is in the queue.
LEMMA QueueLast ==
  ASSUME NEW S, NEW q \in Seq(S), NEW x
  PROVE  \E k \in 1..Len(Append(q, x)) : Append(q, x)[k] = x
<1>1. Len(q) + 1 \in 1..Len(Append(q, x)) /\ Append(q, x)[Len(q) + 1] = x
  OBVIOUS
<1> QED BY <1>1

\* A step that touches neither a reply, nor the pending map, nor the command
\* channel, and puts no call into "waiting".
NoCallMoves ==
  /\ UNCHANGED <<commands, pending, reply>>
  /\ \A c \in Calls : call'[c] = "waiting" => call[c] = "waiting"

\* A step that only appends a command.
OnlyAppends ==
  /\ UNCHANGED <<pending, reply>>
  /\ \E cmd : SendCommand(cmd)
  /\ \A c \in Calls : call'[c] = "waiting" => call[c] = "waiting"

\* The steps that decide the fate of a call, and all the others.
LEMMA CallMoves ==
  ASSUME TypeOK, [Next]_vars
  PROVE  \/ NoCallMoves \/ OnlyAppends \/ OnCommand \/ TeardownPending \/ DriverReturn
         \/ \E c \in Calls : RequestSend(c)
         \/ \E c \in Calls : OnResponse(c)
<1>1. ASSUME NEW c \in Calls, CallNext(c)
      PROVE  NoCallMoves \/ OnlyAppends \/ RequestSend(c)
  <2>1. call \in [Calls -> {"idle", "ready_wait", "sending", "waiting"} \cup Settled]
    BY DEF TypeOK
  <2>2. CASE RequestStart(c) \/ RequestReady(c) \/ RequestReply(c) \/ RequestDropEarly(c)
    BY <2>1, <2>2 DEF RequestStart, RequestReady, RequestReply, RequestDropEarly, NoCallMoves
  <2>3. CASE RequestCancel(c)
    BY <2>3 DEF RequestCancel, OnlyAppends
  <2>4. CASE RequestAbandon(c)
    <3>1. \A d \in Calls : call'[d] = "waiting" => call[d] = "waiting"
      BY <2>1, <2>4 DEF RequestAbandon
    <3> QED BY <2>4, <3>1 DEF RequestAbandon, OnlyAppends
  <2> QED BY <1>1, <2>2, <2>3, <2>4 DEF CallNext
<1>2. CASE Ping \/ \E code \in Codes : CloseNow(code)
  BY <1>2 DEF Ping, CloseNow, UserCommand, OnlyAppends
<1>3. CASE Hello \/ WriterStep \/ PortDown \/ \E i \in InIds : HandlerFinish(i)
  BY <1>3 DEF Hello, WriterStep, PortDown, HandlerFinish, NoCallMoves
<1>4. CASE LoopNext
  <2>1. CASE \/ OnSendFailure \/ OnHandshakeTimeout \/ OnLivenessTick \/ ReceiveClosed
             \/ \E i \in InIds : OnHandlerSettled(i)
    BY <2>1 DEF OnSendFailure, OnHandshakeTimeout, OnLivenessTick, ReceiveClosed,
                OnHandlerSettled, NoCallMoves
  <2>2. CASE Receive
    <3>1. PICK f \in InFrame : OnFrame(f)
      BY <2>2 DEF Receive
    <3>2. f.type \in {"res", "err"} => f.arg \in Calls
      BY DEF InFrame
    <3>3. CASE f.type \in {"res", "err"} /\ OnResponse(f.arg)
      BY <3>2, <3>3
    <3>4. CASE \/ OnHello(TRUE) \/ OnHello(FALSE) \/ OnClose(f.arg) \/ OnRequest(f.arg)
               \/ OnCancel(f.arg) \/ OnPing \/ OnPong \/ OnEvent
      BY <3>4 DEF OnHello, OnClose, OnRequest, OnCancel, OnPing, OnPong, OnEvent, NoCallMoves
    <3> QED BY <3>1, <3>3, <3>4 DEF OnFrame
  <2> QED BY <1>4, <2>1, <2>2 DEF LoopNext
<1>5. CASE TeardownNext
  BY <1>5 DEF TeardownNext, TeardownState, TeardownPort, TeardownReady, TeardownTokens,
              Publish, DrainJoin, NoCallMoves
<1>6. CASE UNCHANGED vars
  BY <1>6 DEF vars, NoCallMoves
<1> QED BY <1>1, <1>2, <1>3, <1>4, <1>5, <1>6 DEF Next, Done

\* Each of those steps keeps hold of every waiting call.
LEMMA NoLostCallStep ==
  ASSUME TypeOK, NoLostCall, [Next]_vars
  PROVE  NoLostCall'
<1> DEFINE req(c) == Cmd("request", c, FALSE)
<1> SUFFICES ASSUME NEW c \in Calls, call'[c] = "waiting"
             PROVE  reply'[c] # "empty" \/ c \in pending' \/ Queued(req(c))'
  BY DEF NoLostCall
<1>1. commands \in Seq(Command) /\ reply \in [Calls -> {"empty", "answer", "unavailable", "dropped"}]
  BY DEF TypeOK
<1>2. call[c] = "waiting" => reply[c] # "empty" \/ c \in pending \/ Queued(req(c))
  BY DEF NoLostCall
<1>3. ASSUME NEW cmd, SendCommand(cmd)
      PROVE  Queued(req(c)) => Queued(req(c))'
  BY <1>1, <1>3, QueueMembers DEF SendCommand, Queued, Cmd
<1>4. CASE NoCallMoves
  BY <1>2, <1>4 DEF NoCallMoves, Queued, Cmd
<1>5. CASE OnlyAppends
  BY <1>2, <1>3, <1>5 DEF OnlyAppends
<1>6. ASSUME NEW d \in Calls, RequestSend(d)
      PROVE  reply'[c] # "empty" \/ c \in pending' \/ Queued(req(c))'
  <2>1. CASE c = d
    <3>1. call' = [call EXCEPT ![d] = IF pc = "returned" THEN "unavailable" ELSE "waiting"]
          /\ SendCommand(req(d))
      BY <1>6, <2>1 DEF RequestSend, TypeOK
    <3>2. pc # "returned" /\ commands' = Append(commands, req(c))
      BY <2>1, <3>1 DEF SendCommand, TypeOK
    <3> QED BY <1>1, <3>2, QueueLast DEF Queued, Cmd
  <2>2. CASE c # d
    <3>1. call[c] = "waiting" /\ UNCHANGED <<reply, pending>>
      BY <1>6, <2>2 DEF RequestSend, TypeOK
    <3>2. UNCHANGED commands \/ SendCommand(req(d))
      BY <1>6 DEF RequestSend
    <3> QED BY <1>2, <1>3, <3>1, <3>2 DEF Queued, Cmd
  <2> QED BY <2>1, <2>2
<1>7. CASE OnCommand
  <2> DEFINE cmd == Head(commands)
  <2>1. call[c] = "waiting" /\ commands # <<>> /\ commands' = Tail(commands)
    BY <1>7 DEF OnCommand
  <2>2. CASE reply[c] # "empty"
    BY <1>1, <1>7, <2>2 DEF OnCommand, DropReplies
  <2>3. CASE reply[c] = "empty" /\ c \in pending
    BY <1>1, <1>7, <2>3 DEF OnCommand, DropReplies
  <2>4. CASE Queued(req(c))
    <3>1. cmd = req(c) \/ Queued(req(c))'
      BY <1>1, <2>1, <2>4, QueueMembers DEF Queued, Cmd
    <3>2. cmd = req(c) => c \in pending'
      BY <1>7, RequestShape DEF OnCommand
    <3> QED BY <3>1, <3>2
  <2> QED BY <1>2, <2>1, <2>2, <2>3, <2>4
<1>8. ASSUME NEW d \in Calls, OnResponse(d)
      PROVE  reply'[c] # "empty" \/ c \in pending' \/ Queued(req(c))'
  <2>1. call[c] = "waiting" /\ UNCHANGED commands
    BY <1>8 DEF OnResponse
  <2>2. Queued(req(c)) => Queued(req(c))'
    BY <2>1 DEF Queued, Cmd
  <2>3. reply[c] # "empty" \/ c \in pending => reply'[c] # "empty" \/ c \in pending'
    BY <1>1, <1>8 DEF OnResponse
  <2> QED BY <1>2, <2>1, <2>2, <2>3
<1>9. CASE TeardownPending
  <2>1. call[c] = "waiting" /\ UNCHANGED commands
    BY <1>9 DEF TeardownPending
  <2>2. Queued(req(c)) => Queued(req(c))'
    BY <2>1 DEF Queued, Cmd
  <2>3. reply[c] # "empty" \/ c \in pending => reply'[c] # "empty"
    BY <1>1, <1>9 DEF TeardownPending
  <2> QED BY <1>2, <2>1, <2>2, <2>3
<1>10. CASE DriverReturn
  <2>1. call[c] = "waiting" /\ UNCHANGED pending
    BY <1>10 DEF DriverReturn
  <2>2. reply[c] # "empty" \/ Queued(req(c)) => reply'[c] # "empty"
    BY <1>1, <1>10 DEF DriverReturn, DropReplies, QueuedRequests
  <2> QED BY <1>2, <2>1, <2>2
<1> QED BY <1>4, <1>5, <1>6, <1>7, <1>8, <1>9, <1>10, CallMoves

\* No request that waits for its reply is ever forgotten, whatever the peer
\* sends and wherever the session is in its teardown.
THEOREM CallsAreKept == Spec => []NoLostCall
<1>1. Init => NoLostCall
  BY DEF Init, NoLostCall
<1> QED BY <1>1, NoLostCallStep, TypeCorrect, PTL DEF Spec

-----------------------------------------------------------------------------
(***************************************************************************)
(* The in-flight ceiling and the three records of what is being answered.   *)
(***************************************************************************)
\* The program points at which the active map still stands for the tasks.
Serving == {"start", "loop", "closing", "flush", "settle", "fail", "cancel"}

\* The active map is finite, and adding or removing one id moves its size by one.
LEMMA ActiveCount ==
  ASSUME TypeOK, NEW i \in InIds
  PROVE  /\ IsFiniteSet(active) /\ Cardinality(active) \in Nat
         /\ i \notin active => Cardinality(active \cup {i}) = Cardinality(active) + 1
         /\ i \in active => Cardinality(active \ {i}) = Cardinality(active) - 1
<1>1. IsFiniteSet(active)
  BY IdsAssumption, FS_Subset DEF TypeOK
<1> QED BY <1>1, FS_CardinalityType, FS_AddElement, FS_RemoveElement

\* A step that neither starts nor settles a handler, and does not go back to
\* serving.
NoTaskStarts ==
  /\ UNCHANGED <<active, inFlight>>
  /\ \A i \in InIds : tasks'[i] = "none" <=> tasks[i] = "none"
  /\ pc' \in Serving => pc \in Serving

\* The steps that start or settle a handler or empty the active map, and all the
\* others.
LEMMA TaskMoves ==
  ASSUME TypeOK, [Next]_vars
  PROVE  \/ NoTaskStarts \/ TeardownTokens \/ DriverReturn
         \/ \E i \in InIds : OnHandlerSettled(i) \/ DrainJoin(i)
         \/ \E i \in InIds : OnRequest(i)
<1>1. CASE \E c \in Calls : CallNext(c)
  BY <1>1 DEF CallNext, RequestStart, RequestReady, RequestSend, RequestReply,
              RequestCancel, RequestAbandon, RequestDropEarly, NoTaskStarts
<1>2. CASE Ping \/ \E code \in Codes : CloseNow(code)
  BY <1>2 DEF Ping, CloseNow, UserCommand, NoTaskStarts
<1>3. CASE Hello
  BY <1>3 DEF Hello, Break, NoTaskStarts, Serving
<1>4. CASE WriterStep \/ PortDown
  BY <1>4 DEF WriterStep, PortDown, NoTaskStarts
<1>5. CASE \E i \in InIds : HandlerFinish(i)
  BY <1>5 DEF HandlerFinish, NoTaskStarts, TypeOK
<1>6. CASE LoopNext
  <2>1. CASE OnSendFailure \/ OnHandshakeTimeout \/ ReceiveClosed
    BY <2>1 DEF OnSendFailure, OnHandshakeTimeout, ReceiveClosed, Break, Arm1, Arm2, Arm5,
                Arm6, NoTaskStarts, Serving
  <2>2. CASE OnLivenessTick
    <3>1. pc = "loop" /\ UNCHANGED <<active, inFlight, tasks>>
      BY <2>2, Zenon DEF OnLivenessTick, Arm1, Arm2
    <3> QED BY <3>1 DEF NoTaskStarts, Serving
  <2>3. CASE OnCommand
    <3>1. pc = "loop" /\ UNCHANGED <<active, inFlight, tasks>>
      BY <2>3, Zenon DEF OnCommand, Arm1, Arm2, Arm5
    <3> QED BY <3>1 DEF NoTaskStarts, Serving
  <2>4. CASE Receive
    <3>1. PICK f \in InFrame : OnFrame(f)
      BY <2>4 DEF Receive
    <3>2. pc = "loop"
      BY <2>4 DEF Receive, Arm1, Arm2, Arm5, Arm6
    <3>3. f.type = "req" => f.arg \in InIds
      BY DEF InFrame
    <3>4. CASE f.type = "req" /\ OnRequest(f.arg)
      BY <3>3, <3>4
    <3>5. CASE \/ OnHello(TRUE) \/ OnHello(FALSE) \/ OnClose(f.arg) \/ OnResponse(f.arg)
               \/ OnCancel(f.arg) \/ OnPing \/ OnPong \/ OnEvent
      <4>1. UNCHANGED <<active, inFlight, tasks>>
        BY <3>5 DEF OnHello, OnClose, OnResponse, OnCancel, OnPing, OnPong, OnEvent
      <4> QED BY <3>2, <4>1 DEF NoTaskStarts, Serving
    <3> QED BY <3>1, <3>4, <3>5 DEF OnFrame
  <2> QED BY <1>6, <2>1, <2>2, <2>3, <2>4 DEF LoopNext
<1>7. CASE TeardownNext
  BY <1>7 DEF TeardownNext, TeardownState, TeardownPort, TeardownReady, TeardownPending,
              Publish, NoTaskStarts, Serving
<1>8. CASE UNCHANGED vars
  BY <1>8 DEF vars, NoTaskStarts
<1> QED BY <1>1, <1>2, <1>3, <1>4, <1>5, <1>6, <1>7, <1>8 DEF Next, Done

\* Each of those steps keeps the three records in agreement.
LEMMA InFlightStep ==
  ASSUME TypeOK, InFlightAgrees, [Next]_vars
  PROVE  InFlightAgrees'
<1>1. /\ Cardinality(active) <= MaxInFlight
      /\ pc \in Serving => /\ inFlight = Cardinality(active)
                           /\ active = {i \in InIds : tasks[i] # "none"}
  BY DEF InFlightAgrees, Serving
<1> SUFFICES /\ Cardinality(active') <= MaxInFlight
             /\ pc' \in Serving => /\ inFlight' = Cardinality(active')
                                   /\ active' = {i \in InIds : tasks'[i] # "none"}
  BY DEF InFlightAgrees, Serving
<1>2. CASE NoTaskStarts
  BY <1>1, <1>2 DEF NoTaskStarts
<1>3. CASE TeardownTokens
  BY <1>3, FS_EmptySet, LimitsAssumption DEF TeardownTokens, Serving
<1>4. CASE DriverReturn
  BY <1>1, <1>4 DEF DriverReturn, Serving
<1>5. ASSUME NEW i \in InIds, DrainJoin(i)
      PROVE  /\ Cardinality(active') <= MaxInFlight
             /\ pc' \notin Serving
  BY <1>1, <1>5 DEF DrainJoin, Serving
<1>6. ASSUME NEW i \in InIds, OnHandlerSettled(i)
      PROVE  /\ Cardinality(active') <= MaxInFlight
             /\ inFlight' = Cardinality(active')
             /\ active' = {j \in InIds : tasks'[j] # "none"}
  <2>1. pc = "loop" /\ tasks[i] = "finished" /\ i \in active
    BY <1>1, <1>6 DEF OnHandlerSettled, Arm1, Arm2, Serving
  <2>2. active' = active \ {i} /\ inFlight' = inFlight - 1 /\ tasks' = [tasks EXCEPT ![i] = "none"]
    BY <1>6 DEF OnHandlerSettled
  <2>3. Cardinality(active') = Cardinality(active) - 1 /\ Cardinality(active) \in Nat
    BY <2>1, <2>2, ActiveCount
  <2>4. active' = {j \in InIds : tasks'[j] # "none"}
    BY <1>1, <2>1, <2>2 DEF TypeOK, Serving
  <2> QED BY <1>1, <2>1, <2>2, <2>3, <2>4, LimitsAssumption DEF Serving
<1>7. ASSUME NEW i \in InIds, OnRequest(i)
      PROVE  /\ Cardinality(active') <= MaxInFlight
             /\ pc' \in Serving => /\ inFlight' = Cardinality(active')
                                   /\ active' = {j \in InIds : tasks'[j] # "none"}
  <2>1. pc' = pc
    BY <1>7 DEF OnRequest
  <2>2. CASE UNCHANGED tracking
    BY <1>1, <2>1, <2>2
  <2>3. CASE /\ Admits(i) /\ inFlight' = inFlight + 1 /\ active' = active \cup {i}
             /\ tasks' = [tasks EXCEPT ![i] = "running"]
    <3>1. i \notin active /\ Cardinality(active) < MaxInFlight
      BY <2>3 DEF Admits
    <3>2. Cardinality(active') = Cardinality(active) + 1 /\ Cardinality(active) \in Nat
      BY <2>3, <3>1, ActiveCount
    <3>3. pc' \in Serving => active' = {j \in InIds : tasks'[j] # "none"}
      BY <1>1, <2>1, <2>3 DEF TypeOK
    <3> QED BY <1>1, <2>1, <2>3, <3>1, <3>2, <3>3, LimitsAssumption
  <2> QED BY <1>7, <2>2, <2>3 DEF OnRequest
<1> QED BY <1>2, <1>3, <1>4, <1>5, <1>6, <1>7, TaskMoves

\* The session never answers more than MaxInFlight requests at once, and until
\* teardown its counter, its map and its tasks agree; in particular the counter
\* never goes below zero.
THEOREM InFlightIsBounded == Spec => []InFlightAgrees
<1>1. Init => InFlightAgrees
  BY FS_EmptySet, LimitsAssumption DEF Init, InFlightAgrees
<1> QED BY <1>1, InFlightStep, TypeCorrect, PTL DEF Spec

-----------------------------------------------------------------------------
(***************************************************************************)
(* What a published closure promises.                                       *)
(***************************************************************************)
\* What each step of teardown has established by the time the next one runs.
TeardownPhases ==
  /\ pc \notin {"start", "loop", "closing"} => state = "closed"
  /\ pc \notin {"start", "loop", "closing", "flush", "settle"} => ready # "none"
  /\ pc \in {"cancel", "drain", "published", "returned"} => pending = {}
  /\ pc \in {"drain", "published", "returned"} =>
       \A i \in InIds : tasks[i] = "running" => i \in cancelled
  /\ closure # 0 => pc \in {"published", "returned"}
  /\ pc = "returned" => commands = <<>>

\* Everything the driver does before teardown leaves it before teardown's second
\* step, with no closure published.
LEMMA BeforeTeardown ==
  ASSUME Hello \/ LoopNext
  PROVE  /\ pc \in {"start", "loop"} /\ pc' \in {"loop", "closing"}
         /\ closure' = closure
<1>1. CASE Hello
  BY <1>1 DEF Hello, Break
<1>2. CASE OnSendFailure \/ OnHandshakeTimeout \/ ReceiveClosed
  BY <1>2 DEF OnSendFailure, OnHandshakeTimeout, ReceiveClosed, Break, Arm1, Arm2, Arm5, Arm6
<1>3. CASE OnLivenessTick
  BY <1>3, Zenon DEF OnLivenessTick, Break, Arm1, Arm2
<1>4. CASE OnCommand
  BY <1>4, Zenon DEF OnCommand, Break, Arm1, Arm2, Arm5
<1>5. CASE \E i \in InIds : OnHandlerSettled(i)
  BY <1>5 DEF OnHandlerSettled, Arm1, Arm2
<1>6. CASE Receive
  <2>1. pc = "loop"
    BY <1>6 DEF Receive, Arm1, Arm2, Arm5, Arm6
  <2>2. PICK f \in InFrame : OnFrame(f)
    BY <1>6 DEF Receive
  <2>3. CASE OnHello(TRUE) \/ OnHello(FALSE) \/ OnClose(f.arg)
    BY <2>1, <2>3 DEF OnHello, OnClose, Break
  <2>4. CASE \/ OnRequest(f.arg) \/ OnResponse(f.arg) \/ OnCancel(f.arg)
             \/ OnPing \/ OnPong \/ OnEvent
    BY <2>1, <2>4 DEF OnRequest, OnResponse, OnCancel, OnPing, OnPong, OnEvent
  <2> QED BY <2>2, <2>3, <2>4 DEF OnFrame
<1> QED BY <1>1, <1>2, <1>3, <1>4, <1>5, <1>6 DEF LoopNext

\* A step of a handle, of the writer or of the transport moves nothing teardown
\* relies on.
LEMMA Bystanders ==
  ASSUME \/ \E c \in Calls : CallNext(c)
         \/ Ping \/ \E code \in Codes : CloseNow(code)
         \/ WriterStep \/ PortDown \/ UNCHANGED vars
  PROVE  /\ UNCHANGED <<pc, state, ready, closure, pending, tasks, cancelled>>
         /\ pc = "returned" => commands' = commands
<1>1. CASE \E c \in Calls : CallNext(c)
  BY <1>1 DEF CallNext, RequestStart, RequestReady, RequestSend, RequestReply,
              RequestCancel, RequestAbandon, RequestDropEarly, SendCommand
<1>2. CASE Ping \/ \E code \in Codes : CloseNow(code)
  BY <1>2 DEF Ping, CloseNow, UserCommand, SendCommand
<1>3. CASE WriterStep \/ PortDown \/ UNCHANGED vars
  BY <1>3 DEF WriterStep, PortDown, vars
<1> QED BY <1>1, <1>2, <1>3

\* Teardown's steps establish their facts in order, and nothing undoes them.
LEMMA TeardownPhasesStep ==
  ASSUME TypeOK, InFlightAgrees, TeardownPhases, [Next]_vars
  PROVE  TeardownPhases'
<1>1. CASE Hello \/ LoopNext
  BY <1>1, BeforeTeardown DEF TeardownPhases
<1>2. CASE \/ \E c \in Calls : CallNext(c)
           \/ Ping \/ \E code \in Codes : CloseNow(code)
           \/ WriterStep \/ PortDown \/ UNCHANGED vars
  BY <1>2, Bystanders DEF TeardownPhases
<1>3. CASE \E i \in InIds : HandlerFinish(i)
  BY <1>3 DEF HandlerFinish, TeardownPhases, TypeOK
<1>4. CASE TeardownState
  BY <1>4 DEF TeardownState, TeardownPhases
<1>5. CASE TeardownPort
  BY <1>5 DEF TeardownPort, TeardownPhases
<1>6. CASE TeardownReady
  BY <1>6 DEF TeardownReady, SettleReady, ReadyFailure, TeardownPhases
<1>7. CASE TeardownPending
  BY <1>7 DEF TeardownPending, TeardownPhases
<1>8. CASE TeardownTokens
  <2>1. \A i \in InIds : tasks[i] = "running" => i \in active
    BY <1>8 DEF TeardownTokens, InFlightAgrees
  <2> QED BY <1>8, <2>1 DEF TeardownTokens, FiredTokens, TeardownPhases
<1>9. CASE \E i \in InIds : DrainJoin(i)
  BY <1>9 DEF DrainJoin, TeardownPhases, TypeOK
<1>10. CASE Publish
  BY <1>10 DEF Publish, TeardownPhases
<1>11. CASE DriverReturn
  BY <1>11 DEF DriverReturn, TeardownPhases
<1> QED BY <1>1, <1>2, <1>3, <1>4, <1>5, <1>6, <1>7, <1>8, <1>9, <1>10, <1>11
        DEF Next, TeardownNext, Done

\* Once closed() resolves, everything is settled: ready() has an outcome, no
\* reply is held, every handler left has been cancelled, and a caller without a
\* reply is one the returning driver is about to wake.
THEOREM ClosureIsFinalWord == Spec => []PublishedIsSettled
<1>1. Init => TeardownPhases
  BY DEF Init, TeardownPhases
<1>2. Spec => []TeardownPhases
  BY <1>1, TeardownPhasesStep, TypeCorrect, InFlightIsBounded, PTL DEF Spec
<1>3. TypeOK /\ NoLostCall /\ TeardownPhases => PublishedIsSettled
  <2> SUFFICES ASSUME TypeOK, NoLostCall, TeardownPhases, closure # 0
               PROVE  /\ state = "closed" /\ ready # "none" /\ pending = {}
                      /\ \A i \in InIds : tasks[i] = "running" => i \in cancelled
                      /\ \A c \in Calls : call[c] = "waiting" /\ reply[c] = "empty" =>
                           pc = "published" /\ Queued(Cmd("request", c, FALSE))
    BY DEF PublishedIsSettled
  <2>1. pc \in {"published", "returned"}
    BY DEF TeardownPhases
  <2>2. pending = {}
    BY <2>1 DEF TeardownPhases
  <2>3. ASSUME NEW c \in Calls, call[c] = "waiting", reply[c] = "empty"
        PROVE  pc = "published" /\ Queued(Cmd("request", c, FALSE))
    <3>1. Queued(Cmd("request", c, FALSE))
      BY <2>2, <2>3 DEF NoLostCall
    <3>2. commands # <<>>
      BY <3>1 DEF Queued
    <3> QED BY <2>1, <3>1, <3>2 DEF TeardownPhases
  <2> QED BY <2>1, <2>2, <2>3 DEF TeardownPhases
<1> QED BY <1>2, <1>3, TypeCorrect, CallsAreKept, PTL
=============================================================================
