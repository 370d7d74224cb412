-------------------------- MODULE SessionRefinement --------------------------
(***************************************************************************)
(* Session implements SessionService, for every set of calls and ids and    *)
(* every bound: under the mapping of Session's Outcome each step of the     *)
(* session is a step of the service or changes nothing the service has.     *)
(***************************************************************************)
EXTENDS SessionProofs

\* What an action leaves alone is written with these groups of variables.
USE DEF shared, tracking, out, client, bounds

-----------------------------------------------------------------------------
(***************************************************************************)
(* Where the session is, and what ready() says by then.                     *)
(***************************************************************************)
\* The state, the ready watch and the reason agree with where run() is.
GreetingInv ==
  /\ pc \in {"start", "loop"} => ready \in {"none", "ok"}
  /\ pc \in {"start", "loop"} /\ state = "handshaking" => ready = "none"
  /\ pc \in {"start", "loop", "closing"} => state # "closed"
  /\ pc \notin {"start", "loop"} =>
       /\ ready = "mismatch" => why.code = PROTOCOL_MISMATCH
       /\ ready = "failed" => why.code # PROTOCOL_MISMATCH

\* The loop is left without a word to ready(), or with one that fits the reason.
LEMMA BreakAgrees ==
  ASSUME GreetingInv, pc \in {"start", "loop"}, UNCHANGED state, NEW code \in Codes,
         NEW tell \in BOOLEAN, Break(code, tell),
         \/ ready' = ready
         \/ ready' = "mismatch" /\ code = PROTOCOL_MISMATCH
         \/ ready' = "failed" /\ code # PROTOCOL_MISMATCH
  PROVE  GreetingInv'
BY DEF GreetingInv, Break

\* Every step keeps the agreement.
LEMMA GreetingStep ==
  ASSUME TypeOK, GreetingInv, [Next]_vars
  PROVE  GreetingInv'
<1>0. /\ PROTOCOL_ERROR # PROTOCOL_MISMATCH /\ RELEASED # PROTOCOL_MISMATCH
  BY DEF PROTOCOL_ERROR, PROTOCOL_MISMATCH, RELEASED
<1>1. CASE Hello
  <2>1. CASE pc' = "loop" /\ UNCHANGED <<state, ready>>
    BY <1>1, <2>1 DEF Hello, GreetingInv
  <2>2. CASE SettleReady("failed") /\ Break(RELEASED, TRUE)
    BY <1>0, <1>1, <2>2, BreakAgrees, OwnCodes, Zenon DEF Hello, SettleReady
  <2> QED BY <1>1, <2>1, <2>2, Zenon DEF Hello
<1>2. CASE OnSendFailure
  BY <1>2, BreakAgrees, OwnCodes, Zenon DEF OnSendFailure, Arm1
<1>3. CASE OnHandshakeTimeout
  BY <1>0, <1>3, BreakAgrees, OwnCodes, Zenon DEF OnHandshakeTimeout, SettleReady, Arm1, Arm2
<1>4. CASE OnLivenessTick
  <2>1. pc = "loop" /\ UNCHANGED <<state, ready>>
    BY <1>4, Zenon DEF OnLivenessTick, Arm1, Arm2
  <2>2. Break(RELEASED, TRUE) \/ UNCHANGED <<pc, why>>
    BY <1>4, Zenon DEF OnLivenessTick
  <2>3. CASE Break(RELEASED, TRUE)
    BY <2>1, <2>3, BreakAgrees, OwnCodes, Zenon
  <2>4. CASE UNCHANGED <<pc, why>>
    BY <2>1, <2>4 DEF GreetingInv
  <2> QED BY <2>2, <2>3, <2>4, Zenon
<1>5. CASE OnCommand
  <2> DEFINE cmd == Head(commands)
  <2>1. pc = "loop" /\ UNCHANGED <<state, ready>>
    BY <1>5, Zenon DEF OnCommand, Arm1, Arm2, Arm5
  <2>2. (cmd.type = "close" /\ Break(cmd.arg, TRUE)) \/ UNCHANGED <<pc, why>>
    BY <1>5, Zenon DEF OnCommand
  <2>3. CASE cmd.type = "close" /\ Break(cmd.arg, TRUE)
    <3>1. cmd \in Command
      BY <1>5, QueueTyped DEF OnCommand, TypeOK
    <3>2. cmd.arg \in Codes
      BY <2>3, <3>1, CommandArgs
    <3> QED BY <2>1, <2>3, <3>2, BreakAgrees, Zenon
  <2>4. CASE UNCHANGED <<pc, why>>
    BY <2>1, <2>4 DEF GreetingInv
  <2> QED BY <2>2, <2>3, <2>4, Zenon
<1>6. CASE ReceiveClosed
  <2>1. pc = "loop" /\ UNCHANGED <<state, ready>>
    BY <1>6 DEF ReceiveClosed, Arm1, Arm2, Arm5, Arm6
  <2>2. PICK code \in Codes : Break(code, FALSE)
    BY <1>6, Zenon DEF ReceiveClosed, ClosureCodes
  <2> QED BY <2>1, <2>2, BreakAgrees, Zenon
<1>7. CASE Receive
  <2>1. pc = "loop"
    BY <1>7 DEF Receive, Arm1, Arm2, Arm5, Arm6
  <2>2. PICK f \in InFrame : OnFrame(f)
    BY <1>7 DEF Receive
  <2>3. f.type = "close" => f.arg \in Codes
    BY DEF InFrame
  <2>4. CASE f.type = "close" /\ OnClose(f.arg)
    BY <2>1, <2>3, <2>4, BreakAgrees, Zenon DEF OnClose
  <2>5. ASSUME NEW compatible \in BOOLEAN, OnHello(compatible)
        PROVE  GreetingInv'
    <3>1. CASE Break(PROTOCOL_ERROR, TRUE) /\ UNCHANGED <<state, ready>>
      BY <2>1, <3>1, BreakAgrees, OwnCodes, Zenon
    <3>2. CASE Break(PROTOCOL_MISMATCH, TRUE) /\ SettleReady("mismatch") /\ UNCHANGED state
      BY <2>1, <3>2, BreakAgrees, OwnCodes, Zenon DEF SettleReady
    <3>3. CASE state' = "ready" /\ SettleReady("ok") /\ UNCHANGED <<pc, why>>
      BY <2>1, <3>3 DEF SettleReady, GreetingInv
    <3> QED BY <2>5, <3>1, <3>2, <3>3, Zenon DEF OnHello
  <2>6. CASE \/ OnRequest(f.arg) \/ OnResponse(f.arg) \/ OnCancel(f.arg)
             \/ OnPing \/ OnPong \/ OnEvent
    BY <2>6 DEF OnRequest, OnResponse, OnCancel, OnPing, OnPong, OnEvent, GreetingInv
  <2> QED BY <2>2, <2>4, <2>5, <2>6, Zenon DEF OnFrame
<1>8. CASE TeardownReady
  BY <1>8 DEF TeardownReady, SettleReady, ReadyFailure, GreetingInv
<1>9. CASE \/ TeardownState \/ TeardownPort \/ TeardownPending \/ TeardownTokens
           \/ Publish \/ DriverReturn
  BY <1>9 DEF TeardownState, TeardownPort, TeardownPending, TeardownTokens, Publish,
              DriverReturn, GreetingInv
<1>10. CASE \E i \in InIds : OnHandlerSettled(i) \/ HandlerFinish(i) \/ DrainJoin(i)
  BY <1>10 DEF OnHandlerSettled, HandlerFinish, DrainJoin, GreetingInv
<1>11. CASE \/ \E c \in Calls : CallNext(c)
            \/ Ping \/ \E code \in Codes : CloseNow(code)
            \/ WriterStep \/ PortDown \/ UNCHANGED vars
  <2>1. UNCHANGED <<pc, state, ready, why>>
    <3>1. CASE \E c \in Calls : CallNext(c)
      BY <3>1, Zenon DEF CallNext, RequestStart, RequestReady, RequestSend, RequestReply,
                  RequestCancel, RequestAbandon, RequestDropEarly
    <3>2. CASE \/ Ping \/ \E code \in Codes : CloseNow(code)
               \/ WriterStep \/ PortDown \/ UNCHANGED vars
      BY <3>2, Zenon DEF Ping, CloseNow, UserCommand, WriterStep, PortDown, vars
    <3> QED BY <1>11, <3>1, <3>2
  <2> QED BY <2>1 DEF GreetingInv
<1> QED BY <1>1, <1>2, <1>3, <1>4, <1>5, <1>6, <1>7, <1>8, <1>9, <1>10, <1>11
        DEF Next, LoopNext, TeardownNext, Done

-----------------------------------------------------------------------------
(***************************************************************************)
(* Where a call is, and what the driver holds of it.                        *)
(***************************************************************************)
In(x, q) == \E k \in 1..Len(q) : q[k] = x
Once(x, q) == \A j, k \in 1..Len(q) : q[j] = x /\ q[k] = x => j = k

\* A request is queued once at most, and only for a call that is past its
\* handshake; until the driver lets go of it there is no reply; and a command to
\* release a call is queued only when nobody waits for it any more.
CallOk(c) ==
  /\ call[c] \in {"idle", "ready_wait", "sending"} =>
       /\ reply[c] = "empty" /\ c \notin pending
       /\ ~In(Cmd("request", c, FALSE), commands)
  /\ c \in pending => reply[c] = "empty"
  /\ In(Cmd("request", c, FALSE), commands) => reply[c] = "empty" /\ c \notin pending
  /\ Once(Cmd("request", c, FALSE), commands)
  /\ call[c] = "sending" \/ c \in pending \/ In(Cmd("request", c, FALSE), commands) =>
       ready = "ok"
  /\ In(Cmd("cancel", c, FALSE), commands) => call[c] \in Settled

CallInv == \A c \in Calls : CallOk(c)

\* What CallOk says after a step.
LEMMA CallOkNext ==
  ASSUME NEW c, TypeOK
  PROVE  CallOk(c)' <=>
         /\ call'[c] \in {"idle", "ready_wait", "sending"} =>
              /\ reply'[c] = "empty" /\ c \notin pending'
              /\ ~In(Cmd("request", c, FALSE), commands')
         /\ c \in pending' => reply'[c] = "empty"
         /\ In(Cmd("request", c, FALSE), commands') => reply'[c] = "empty" /\ c \notin pending'
         /\ Once(Cmd("request", c, FALSE), commands')
         /\ call'[c] = "sending" \/ c \in pending' \/ In(Cmd("request", c, FALSE), commands') =>
              ready' = "ok"
         /\ In(Cmd("cancel", c, FALSE), commands') => call'[c] \in Settled
BY DEF CallOk, In, Once, Cmd, Settled

\* What an append adds to a queue.
LEMMA AppendHolds ==
  ASSUME NEW S, NEW q \in Seq(S), NEW x, NEW e
  PROVE  /\ In(x, Append(q, e)) => In(x, q) \/ x = e
         /\ Once(x, q) /\ (x # e \/ ~In(x, q)) => Once(x, Append(q, e))
BY DEF In, Once

\* What is left of a queue when its head is taken.
LEMMA TailHolds ==
  ASSUME NEW S, NEW q \in Seq(S), q # <<>>, NEW x
  PROVE  /\ In(x, Tail(q)) => In(x, q)
         /\ Once(x, q) => Once(x, Tail(q))
         /\ Once(x, q) /\ x = Head(q) => In(x, q) /\ ~In(x, Tail(q))
         /\ x = Head(q) => In(x, q)
<1>1. /\ Len(Tail(q)) = Len(q) - 1 /\ Len(q) \in Nat /\ Len(q) # 0
      /\ \A k \in 1..Len(Tail(q)) : k + 1 \in 1..Len(q) /\ Tail(q)[k] = q[k + 1]
  OBVIOUS
<1>2. Head(q) = q[1] /\ 1 \in 1..Len(q)
  OBVIOUS
<1> QED BY <1>1, <1>2 DEF In, Once

\* Commands of different kinds, or for different calls, differ.
LEMMA CommandsDiffer ==
  ASSUME NEW c, NEW d
  PROVE  /\ Cmd("request", c, FALSE) = Cmd("request", d, FALSE) => c = d
         /\ Cmd("cancel", c, FALSE) = Cmd("cancel", d, FALSE) => c = d
         /\ Cmd("request", c, FALSE) # Cmd("cancel", d, FALSE)
         /\ Cmd("request", c, FALSE) # Cmd("cancel", d, TRUE)
         /\ Cmd("cancel", c, FALSE) # Cmd("cancel", d, TRUE)
         /\ \A t \in {"close", "send"} :
              /\ Cmd("request", c, FALSE) # Cmd(t, d, FALSE)
              /\ Cmd("cancel", c, FALSE) # Cmd(t, d, FALSE)
<1>1. /\ Cmd("request", c, FALSE).arg = c /\ Cmd("request", d, FALSE).arg = d
      /\ Cmd("cancel", c, FALSE).arg = c /\ Cmd("cancel", d, FALSE).arg = d
  BY DEF Cmd
<1>2. Cmd("cancel", c, FALSE).forget = FALSE /\ Cmd("cancel", d, TRUE).forget = TRUE
  BY Zenon DEF Cmd
<1>3. Cmd("cancel", c, FALSE) # Cmd("cancel", d, TRUE)
  BY <1>2, Zenon
<1>4. /\ Cmd("request", c, FALSE) = Cmd("request", d, FALSE) => c = d
      /\ Cmd("cancel", c, FALSE) = Cmd("cancel", d, FALSE) => c = d
  BY <1>1, Zenon
<1>5. ASSUME NEW t \in {"cancel", "close", "send"}, NEW b
      PROVE  Cmd("request", c, FALSE) # Cmd(t, d, b)
  <2>1. Cmd("request", c, FALSE).type = "request" /\ Cmd(t, d, b).type = t
    BY DEF Cmd
  <2> QED BY <2>1, Zenon
<1>6. ASSUME NEW t \in {"close", "send"}
      PROVE  Cmd("cancel", c, FALSE) # Cmd(t, d, FALSE)
  <2>1. Cmd("cancel", c, FALSE).type = "cancel" /\ Cmd(t, d, FALSE).type = t
    BY DEF Cmd
  <2> QED BY <2>1, ZenonT(30)
<1> QED BY <1>3, <1>4, <1>5, <1>6, Zenon

\* A step that leaves every call and the driver's hold on it alone.
LeavesCalls ==
  /\ UNCHANGED <<call, reply, pending, commands>>
  /\ ready = "ok" => ready' = "ok"

\* The steps that move a call, and all the others.
LEMMA CallSteps ==
  ASSUME [Next]_vars
  PROVE  \/ LeavesCalls \/ OnCommand \/ TeardownPending \/ DriverReturn
         \/ Ping \/ \E code \in Codes : CloseNow(code)
         \/ \E c \in Calls : CallNext(c)
         \/ \E c \in Calls : Receive /\ OnResponse(c)
<1>1. CASE Hello \/ WriterStep \/ PortDown \/ \E i \in InIds : HandlerFinish(i)
  BY <1>1, Zenon DEF Hello, SettleReady, WriterStep, PortDown, HandlerFinish, LeavesCalls
<1>2. CASE \/ OnSendFailure \/ OnHandshakeTimeout \/ OnLivenessTick \/ ReceiveClosed
           \/ \E i \in InIds : OnHandlerSettled(i)
  BY <1>2, Zenon DEF OnSendFailure, OnHandshakeTimeout, SettleReady, OnLivenessTick, ReceiveClosed,
              OnHandlerSettled, LeavesCalls
<1>3. CASE Receive
  <2>1. PICK f \in InFrame : OnFrame(f)
    BY <1>3 DEF Receive
  <2>2. f.type \in {"res", "err"} => f.arg \in Calls
    BY DEF InFrame
  <2>3. CASE f.type \in {"res", "err"} /\ OnResponse(f.arg)
    BY <1>3, <2>2, <2>3
  <2>4. CASE \/ OnHello(TRUE) \/ OnHello(FALSE) \/ OnClose(f.arg) \/ OnRequest(f.arg)
             \/ OnCancel(f.arg) \/ OnPing \/ OnPong \/ OnEvent
    BY <2>4, Zenon DEF OnHello, SettleReady, OnClose, OnRequest, OnCancel, OnPing, OnPong, OnEvent,
                LeavesCalls
  <2> QED BY <2>1, <2>3, <2>4, ZenonT(30) DEF OnFrame
<1>4. CASE \/ TeardownState \/ TeardownPort \/ TeardownReady \/ TeardownTokens \/ Publish
           \/ \E i \in InIds : DrainJoin(i)
  BY <1>4 DEF TeardownState, TeardownPort, TeardownReady, SettleReady, TeardownTokens,
              Publish, DrainJoin, LeavesCalls
<1>5. CASE UNCHANGED vars
  BY <1>5 DEF vars, LeavesCalls
<1> QED BY <1>1, <1>2, <1>3, <1>4, <1>5 DEF Next, LoopNext, TeardownNext, Done

\* A handle's step keeps the hold on every call in order.
LEMMA CallOkClient ==
  ASSUME TypeOK, CallInv, NEW d \in Calls, CallNext(d), NEW c \in Calls
  PROVE  CallOk(c)'
<1> DEFINE req == Cmd("request", c, FALSE)
           release == Cmd("cancel", c, FALSE)
<1>1. /\ CallOk(c) /\ CallOk(d)
      /\ commands \in Seq(Command)
      /\ call \in [Calls -> {"idle", "ready_wait", "sending", "waiting"} \cup Settled]
      /\ ready \in {"none", "ok", "failed", "mismatch"}
  BY DEF CallInv, TypeOK
<1>2. ASSUME NEW cmd, SendCommand(cmd)
      PROVE  /\ In(req, commands') => In(req, commands) \/ req = cmd
             /\ In(release, commands') => In(release, commands) \/ release = cmd
             /\ Once(req, commands) /\ (req # cmd \/ ~In(req, commands)) => Once(req, commands')
  <2> HIDE DEF req, release
  <2> QED BY <1>1, <1>2, AppendHolds DEF SendCommand
<1>3. CASE RequestStart(d)
  BY <1>1, <1>3, CallOkNext, Zenon DEF RequestStart, CallOk, Settled
<1>4. CASE RequestReady(d)
  BY <1>1, <1>4, CallOkNext, Zenon DEF RequestReady, AwaitsReady, CallOk, Settled
<1>5. CASE RequestReply(d)
  BY <1>1, <1>5, CallOkNext, Zenon DEF RequestReply, CallOk, Settled
<1>6. CASE RequestDropEarly(d)
  BY <1>1, <1>6, CallOkNext, Zenon DEF RequestDropEarly, CallOk, Settled
<1>7. CASE RequestSend(d)
  <2>1. CASE UNCHANGED commands /\ call' = [call EXCEPT ![d] = "refused"]
    BY <1>1, <1>7, <2>1, CallOkNext, Zenon DEF RequestSend, CallOk, Settled
  <2>2. CASE /\ call' = [call EXCEPT ![d] = IF pc = "returned" THEN "unavailable" ELSE "waiting"]
             /\ SendCommand(Cmd("request", d, FALSE))
    <3>1. /\ In(req, commands') => In(req, commands) \/ c = d
          /\ In(release, commands') => In(release, commands)
          /\ Once(req, commands')
      <4>1. ~In(Cmd("request", d, FALSE), commands) /\ Once(req, commands)
        BY <1>1, <1>7, Zenon DEF CallOk, RequestSend
      <4>2. /\ In(req, commands') => In(req, commands) \/ req = Cmd("request", d, FALSE)
            /\ In(release, commands') => In(release, commands) \/ release = Cmd("request", d, FALSE)
            /\ Once(req, commands) /\ (req # Cmd("request", d, FALSE) \/ ~In(req, commands)) =>
                 Once(req, commands')
        BY <1>2, <2>2, Zenon
      <4>3. release # Cmd("request", d, FALSE) /\ (req = Cmd("request", d, FALSE) => c = d)
        BY CommandsDiffer, Zenon
      <4> QED BY <4>1, <4>2, <4>3, Zenon
    <3>2. call[d] = "sending" /\ ready = "ok" /\ UNCHANGED <<reply, pending, ready>>
      BY <1>1, <1>7 DEF RequestSend, CallOk
    <3> HIDE DEF req, release
    <3>3. CASE c = d
      BY <1>1, <2>2, <3>1, <3>2, <3>3, CallOkNext, Zenon DEF CallOk, Settled, req, release
    <3>4. CASE c # d
      BY <1>1, <2>2, <3>1, <3>2, <3>4, CallOkNext, Zenon DEF CallOk, Settled, req, release
    <3> QED BY <3>3, <3>4
  <2> QED BY <1>7, <2>1, <2>2, Zenon DEF RequestSend
<1>8. CASE RequestCancel(d)
  <2>1. /\ In(req, commands') => In(req, commands)
        /\ In(release, commands') => In(release, commands)
        /\ Once(req, commands')
    BY <1>1, <1>2, <1>8, CommandsDiffer, Zenon DEF CallOk, RequestCancel
  <2> QED BY <1>1, <1>8, <2>1, CallOkNext, Zenon DEF RequestCancel, CallOk
<1>9. CASE RequestAbandon(d)
  <2>1. /\ In(req, commands') => In(req, commands)
        /\ In(release, commands') => In(release, commands) \/ c = d
        /\ Once(req, commands')
    BY <1>1, <1>2, <1>9, CommandsDiffer, ZenonT(30) DEF CallOk, RequestAbandon, Release
  <2> QED BY <1>1, <1>9, <2>1, CallOkNext, Zenon DEF RequestAbandon, CallOk, Settled
<1> QED BY <1>3, <1>4, <1>5, <1>6, <1>7, <1>8, <1>9 DEF CallNext

\* The driver takes a command: it then holds the call, or lets go of one that
\* nobody waits for.
LEMMA CallOkCommand ==
  ASSUME TypeOK, CallInv, OnCommand, NEW c \in Calls
  PROVE  CallOk(c)'
<1> DEFINE cmd == Head(commands)
           req == Cmd("request", c, FALSE)
           release == Cmd("cancel", c, FALSE)
<1>1. /\ CallOk(c) /\ commands \in Seq(Command) /\ commands # <<>>
      /\ commands' = Tail(commands) /\ UNCHANGED <<call, ready>>
      /\ reply \in [Calls -> {"empty", "answer", "unavailable", "dropped"}]
  BY DEF CallInv, TypeOK, OnCommand
<1>2. /\ In(req, commands') => In(req, commands)
      /\ Once(req, commands')
      /\ cmd = req => In(req, commands) /\ ~In(req, commands')
      /\ In(release, commands') => In(release, commands)
      /\ cmd = release => In(release, commands)
  <2>1. Once(req, commands)
    BY <1>1, Zenon DEF CallOk
  <2> HIDE DEF req, release
  <2> QED BY <1>1, <2>1, TailHolds
<1>3. cmd \in Command
  BY <1>1, QueueTyped
<1>4. CASE UNCHANGED <<pending, reply>>
  BY <1>1, <1>2, <1>4, CallOkNext, Zenon DEF CallOk
<1>5. CASE cmd.type = "request" /\ pending' = pending \cup {cmd.arg} /\ UNCHANGED reply
  <2>1. CASE cmd.arg = c
    <3>1. cmd = req
      BY <1>3, <1>5, <2>1, ZenonT(30) DEF Command, Cmd
    <3> QED BY <1>1, <1>2, <1>5, <2>1, <3>1, CallOkNext, Zenon DEF CallOk
  <2>2. CASE cmd.arg # c
    <3>1. c \in pending' <=> c \in pending
      BY <1>5, <2>2
    <3> QED BY <1>1, <1>2, <1>5, <3>1, CallOkNext, Zenon DEF CallOk
  <2> QED BY <2>1, <2>2
<1>6. CASE /\ cmd.type = "cancel" /\ ~cmd.forget /\ pending' = pending \ {cmd.arg}
           /\ DropReplies(pending \ pending')
  <2>1. CASE cmd.arg = c
    <3>1. cmd = release
      <4>1. cmd.forget = FALSE
        BY <1>3, <1>6, CommandArgs, Zenon
      <4> QED BY <1>3, <1>6, <2>1, <4>1, Zenon DEF Command, Cmd
    <3>2. call[c] \in Settled
      BY <1>1, <1>2, <3>1 DEF CallOk
    <3>3. c \notin pending'
      BY <1>6, <2>1
    <3>4. reply[c] = "empty" /\ c \notin pending => reply'[c] = "empty"
      BY <1>1, <1>6 DEF DropReplies
    <3> QED BY <1>1, <1>2, <3>2, <3>3, <3>4, CallOkNext, ZenonT(30) DEF CallOk, Settled
  <2>2. CASE cmd.arg # c
    <3>1. (c \in pending' <=> c \in pending) /\ reply'[c] = reply[c]
      BY <1>1, <1>6, <2>2 DEF DropReplies
    <3> QED BY <1>1, <1>2, <3>1, CallOkNext, ZenonT(30) DEF CallOk
  <2> QED BY <2>1, <2>2
<1>7. CASE /\ cmd.type = "cancel" /\ cmd.forget /\ pending' = pending
           /\ DropReplies(pending \ pending')
  <2>1. reply'[c] = reply[c]
    BY <1>1, <1>7 DEF DropReplies
  <2> QED BY <1>1, <1>2, <1>7, <2>1, CallOkNext, Zenon DEF CallOk
<1> QED
  <2>1. \/ UNCHANGED <<pending, reply>>
        \/ cmd.type = "request" /\ pending' = pending \cup {cmd.arg} /\ UNCHANGED reply
        \/ /\ cmd.type = "cancel"
           /\ pending' = IF cmd.forget THEN pending ELSE pending \ {cmd.arg}
           /\ DropReplies(pending \ pending')
    BY Zenon DEF OnCommand
  <2>2. CASE /\ cmd.type = "cancel"
             /\ pending' = IF cmd.forget THEN pending ELSE pending \ {cmd.arg}
             /\ DropReplies(pending \ pending')
    BY <1>6, <1>7, <2>2, Zenon
  <2> QED BY <1>4, <1>5, <2>1, <2>2, Zenon

\* Every step keeps the hold on every call in order.
LEMMA CallStep ==
  ASSUME TypeOK, CallInv, [Next]_vars
  PROVE  CallInv'
<1> SUFFICES ASSUME NEW c \in Calls PROVE CallOk(c)'
  BY DEF CallInv
<1>1. /\ CallOk(c) /\ commands \in Seq(Command)
      /\ reply \in [Calls -> {"empty", "answer", "unavailable", "dropped"}]
  BY DEF CallInv, TypeOK
<1>2. CASE LeavesCalls
  BY <1>1, <1>2, CallOkNext, Zenon DEF LeavesCalls, CallOk
<1>3. ASSUME NEW t \in {"close", "send"}, NEW a, UserCommand(Cmd(t, a, FALSE))
      PROVE  CallOk(c)'
  <2> DEFINE cmd == Cmd(t, a, FALSE)
             req == Cmd("request", c, FALSE)
             release == Cmd("cancel", c, FALSE)
  <2>1. commands' \in {commands, Append(commands, cmd)} /\ UNCHANGED <<call, reply, pending, ready>>
    BY <1>3 DEF UserCommand, SendCommand
  <2>2. cmd # req /\ cmd # release
    BY CommandsDiffer, Zenon
  <2>3. Once(req, commands)
    BY <1>1, Zenon DEF CallOk
  <2>4. /\ In(req, commands') => In(req, commands)
        /\ In(release, commands') => In(release, commands)
        /\ Once(req, commands')
    <3> HIDE DEF cmd, req, release
    <3> QED BY <1>1, <2>1, <2>2, <2>3, AppendHolds, Zenon
  <2> QED BY <1>1, <2>1, <2>4, CallOkNext, Zenon DEF CallOk
<1>4. CASE \E d \in Calls : CallNext(d)
  BY <1>4, CallOkClient
<1>5. CASE OnCommand
  BY <1>5, CallOkCommand
<1>6. ASSUME NEW d \in Calls, OnResponse(d)
      PROVE  CallOk(c)'
  <2>1. c \in pending' => c \in pending /\ reply'[c] = reply[c]
    BY <1>1, <1>6 DEF OnResponse
  <2>2. c \notin pending => reply'[c] = reply[c]
    BY <1>1, <1>6 DEF OnResponse
  <2> QED BY <1>1, <1>6, <2>1, <2>2, CallOkNext, Zenon DEF OnResponse, CallOk
<1>7. CASE TeardownPending
  <2>1. c \notin pending => reply'[c] = reply[c]
    BY <1>1, <1>7 DEF TeardownPending
  <2> QED BY <1>1, <1>7, <2>1, CallOkNext, Zenon DEF TeardownPending, CallOk
<1>8. CASE DriverReturn
  <2>1. \A x : ~In(x, commands') /\ Once(x, commands')
    BY <1>8 DEF DriverReturn, In, Once
  <2>2. ~In(Cmd("request", c, FALSE), commands) => reply'[c] = reply[c]
    BY <1>1, <1>8 DEF DriverReturn, DropReplies, QueuedRequests, Queued, In
  <2> QED BY <1>1, <1>8, <2>1, <2>2, CallOkNext, Zenon DEF DriverReturn, CallOk
<1> QED BY <1>2, <1>3, <1>4, <1>5, <1>6, <1>7, <1>8, CallSteps, Zenon DEF Ping, CloseNow

-----------------------------------------------------------------------------
(***************************************************************************)
(* The steps of the session as steps of the service.                        *)
(***************************************************************************)
\* What the service sees of one call.
OutcomeOf(at, rep) ==
  IF at \notin {"ready_wait", "sending", "waiting"} THEN at
  ELSE IF rep = "empty" THEN "open"
  ELSE IF rep = "answer" THEN "answer"
  ELSE "failure"

\* What the service sees of the calls, before and after a step.
LEMMA OutcomeIs ==
  /\ Outcome = [c \in Calls |-> OutcomeOf(call[c], reply[c])]
  /\ Outcome' = [c \in Calls |-> OutcomeOf(call'[c], reply'[c])]
BY DEF Outcome, OutcomeOf

\* A step that moves one call moves one outcome.
LEMMA OneBecomes ==
  ASSUME NEW d \in Calls, NEW x, TypeOK,
         \A c \in Calls \ {d} : call'[c] = call[c] /\ reply'[c] = reply[c],
         OutcomeOf(call'[d], reply'[d]) = x
  PROVE  Service!Become(d, x)
BY OutcomeIs DEF Service!Become

\* A step that moves no call moves no outcome.
LEMMA NoneBecomes ==
  ASSUME \A c \in Calls : OutcomeOf(call'[c], reply'[c]) = OutcomeOf(call[c], reply[c])
  PROVE  Outcome' = Outcome
BY OutcomeIs

\* A handle's step is the service being asked, returning, or being left.
LEMMA ClientRefines ==
  ASSUME TypeOK, CallInv, TeardownPhases, NEW d \in Calls, CallNext(d)
  PROVE  [Service!ServiceNext]_(Service!service)
<1>1. /\ call \in [Calls -> {"idle", "ready_wait", "sending", "waiting"} \cup Settled]
      /\ reply \in [Calls -> {"empty", "answer", "unavailable", "dropped"}]
      /\ ready \in {"none", "ok", "failed", "mismatch"}
      /\ CallOk(d)
  BY DEF TypeOK, CallInv
<1>2. UNCHANGED <<state, ready, closure, reply>>
  BY ZenonT(30) DEF CallNext, RequestStart, RequestReady, RequestSend, RequestReply, RequestCancel,
         RequestAbandon, RequestDropEarly
<1>3. \A c \in Calls \ {d} : call'[c] = call[c] /\ reply'[c] = reply[c]
  BY <1>1, <1>2, Zenon DEF CallNext, RequestStart, RequestReady, RequestSend, RequestReply,
                    RequestCancel, RequestAbandon, RequestDropEarly
<1>4. Outcome[d] = OutcomeOf(call[d], reply[d])
  BY OutcomeIs
<1>5. ASSUME call'[d] = call[d] PROVE UNCHANGED Service!service
  <2>1. Outcome' = Outcome
    BY <1>2, <1>3, <1>5, NoneBecomes
  <2> QED BY <1>2, <2>1 DEF Service!service
<1>6. CASE RequestStart(d)
  <2>1. Outcome[d] = "idle" /\ reply[d] = "empty"
    BY <1>1, <1>4, <1>6 DEF RequestStart, OutcomeOf, CallOk
  <2>2. Service!Become(d, "open") \/ Service!Become(d, "refused")
    <3>1. call'[d] \in {"ready_wait", "refused"}
      BY <1>1, <1>6 DEF RequestStart
    <3>2. OutcomeOf(call'[d], reply'[d]) \in {"open", "refused"}
      BY <1>2, <2>1, <3>1, ZenonT(30) DEF OutcomeOf
    <3> QED BY <1>3, <3>2, OneBecomes, Zenon
  <2>3. Service!Ask(d)
    BY <1>2, <2>1, <2>2, Zenon DEF Service!Ask
  <2> QED BY <2>3 DEF Service!ServiceNext
<1>7. CASE RequestReady(d)
  <2>1. Outcome[d] = "open" /\ reply[d] = "empty"
    BY <1>1, <1>4, <1>7 DEF RequestReady, OutcomeOf, CallOk
  <2>2. \/ call'[d] = "sending"
        \/ call'[d] = "refused"
        \/ call'[d] = "unavailable" /\ (state = "closed" \/ ready \in {"failed", "mismatch"})
    BY <1>1, <1>7 DEF RequestReady
  <2>3. CASE call'[d] = "sending"
    <3>1. Outcome' = Outcome
      <4>1. OutcomeOf(call'[d], reply'[d]) = OutcomeOf(call[d], reply[d])
        BY <1>2, <1>7, <2>1, <2>3 DEF OutcomeOf, RequestReady
      <4> QED BY <1>3, <4>1, NoneBecomes
    <3> QED BY <1>2, <3>1 DEF Service!service
  <2>4. CASE call'[d] = "refused"
    <3>1. Service!Become(d, "refused")
      BY <1>3, <2>4, OneBecomes DEF OutcomeOf
    <3>2. Service!Return(d)
      BY <1>2, <2>1, <3>1 DEF Service!Return
    <3> QED BY <3>2 DEF Service!ServiceNext
  <2>5. CASE call'[d] = "unavailable" /\ (state = "closed" \/ ready \in {"failed", "mismatch"})
    <3>1. Service!Become(d, "unavailable")
      BY <1>3, <2>5, OneBecomes DEF OutcomeOf
    <3>2. Service!Return(d)
      BY <1>2, <2>1, <2>5, <3>1 DEF Service!Return, Service!Unavailable
    <3> QED BY <3>2 DEF Service!ServiceNext
  <2> QED BY <2>2, <2>3, <2>4, <2>5
<1>8. CASE RequestSend(d)
  <2>1. Outcome[d] = "open" /\ reply[d] = "empty"
    BY <1>1, <1>4, <1>8 DEF RequestSend, OutcomeOf, CallOk
  <2>2. \/ call'[d] \in {"waiting", "refused"}
        \/ call'[d] = "unavailable" /\ state = "closed"
    BY <1>1, <1>8, ZenonT(30) DEF RequestSend, TeardownPhases
  <2>3. CASE call'[d] = "waiting"
    <3>1. Outcome' = Outcome
      <4>1. OutcomeOf(call'[d], reply'[d]) = OutcomeOf(call[d], reply[d])
        BY <1>2, <1>8, <2>1, <2>3 DEF OutcomeOf, RequestSend
      <4> QED BY <1>3, <4>1, NoneBecomes
    <3> QED BY <1>2, <3>1 DEF Service!service
  <2>4. CASE call'[d] = "refused"
    <3>1. Service!Become(d, "refused")
      BY <1>3, <2>4, OneBecomes DEF OutcomeOf
    <3>2. Service!Return(d)
      BY <1>2, <2>1, <3>1 DEF Service!Return
    <3> QED BY <3>2 DEF Service!ServiceNext
  <2>5. CASE call'[d] = "unavailable" /\ state = "closed"
    <3>1. Service!Become(d, "unavailable")
      BY <1>3, <2>5, OneBecomes DEF OutcomeOf
    <3>2. Service!Return(d)
      BY <1>2, <2>1, <2>5, <3>1 DEF Service!Return, Service!Unavailable
    <3> QED BY <3>2 DEF Service!ServiceNext
  <2> QED BY <2>2, <2>3, <2>4, <2>5
<1>9. CASE RequestReply(d)
  <2>1. \/ Outcome[d] = "answer" /\ call'[d] = "answered"
        \/ Outcome[d] = "failure" /\ call'[d] = "unavailable"
    BY <1>1, <1>4, <1>9 DEF RequestReply, OutcomeOf
  <2>2. \/ Outcome[d] = "answer" /\ Service!Become(d, "answered")
        \/ Outcome[d] = "failure" /\ Service!Become(d, "unavailable")
    BY <1>3, <2>1, OneBecomes DEF OutcomeOf
  <2>3. Service!Return(d)
    BY <1>2, <2>2 DEF Service!Return
  <2> QED BY <2>3 DEF Service!ServiceNext
<1>10. CASE RequestCancel(d)
  BY <1>5, <1>10 DEF RequestCancel
<1>11. CASE RequestAbandon(d) \/ RequestDropEarly(d)
  <2>1. Outcome[d] \in {"open", "answer", "failure"}
    BY <1>1, <1>4, <1>11 DEF RequestAbandon, RequestDropEarly, OutcomeOf
  <2>2. call'[d] \in {"timeout", "dropped"}
    BY <1>1, <1>11 DEF RequestAbandon, RequestDropEarly
  <2>3. Service!Become(d, "timeout") \/ Service!Become(d, "dropped")
    BY <1>3, <2>2, OneBecomes DEF OutcomeOf
  <2>4. Service!Leave(d)
    BY <1>2, <2>1, <2>3 DEF Service!Leave
  <2> QED BY <2>4 DEF Service!ServiceNext
<1> QED BY <1>6, <1>7, <1>8, <1>9, <1>10, <1>11 DEF CallNext

\* The greeting and the closure, while no call moves: the service greets, fails
\* to, closes, ends, or is left alone.
LEMMA ControlRefines ==
  ASSUME TypeOK, GreetingInv, TeardownPhases,
         \/ Hello \/ OnSendFailure \/ OnHandshakeTimeout \/ OnLivenessTick \/ ReceiveClosed
         \/ TeardownState \/ TeardownPort \/ TeardownReady \/ TeardownTokens \/ Publish
         \/ WriterStep \/ PortDown \/ Ping \/ UNCHANGED vars
         \/ \E code \in Codes : CloseNow(code)
         \/ \E i \in InIds : OnHandlerSettled(i) \/ HandlerFinish(i) \/ DrainJoin(i)
         \/ \E compatible \in BOOLEAN : Receive /\ OnHello(compatible)
         \/ \E x : OnClose(x) \/ OnRequest(x) \/ OnCancel(x)
         \/ OnPing \/ OnPong \/ OnEvent
  PROVE  [Service!ServiceNext]_(Service!service)
<1>1. UNCHANGED <<call, reply>>
  BY ZenonT(30) DEF Hello, OnSendFailure, OnHandshakeTimeout, OnLivenessTick, ReceiveClosed,
         TeardownState, TeardownPort, TeardownReady, TeardownTokens, Publish, WriterStep,
         PortDown, Ping, vars, CloseNow, UserCommand, OnHandlerSettled, HandlerFinish,
         DrainJoin, OnHello, OnClose, OnRequest, OnCancel, OnPing, OnPong, OnEvent
<1>2. Outcome' = Outcome
  BY <1>1, NoneBecomes, Zenon
<1>3. ASSUME UNCHANGED <<state, ready, closure>>
      PROVE  UNCHANGED Service!service
  BY <1>2, <1>3 DEF Service!service
<1>4. ASSUME UNCHANGED <<state, closure>>, NEW o \in {"failed", "mismatch"}, SettleReady(o)
      PROVE  [Service!ServiceNext]_(Service!service)
  <2>1. CASE ready = "none"
    BY <1>2, <1>4, <2>1 DEF SettleReady, Service!NoGreeting, Service!ServiceNext
  <2>2. CASE ready # "none"
    BY <1>3, <1>4, <2>2 DEF SettleReady
  <2> QED BY <2>1, <2>2
<1>5. CASE Hello
  BY <1>3, <1>4, <1>5, Zenon DEF Hello
<1>6. CASE OnHandshakeTimeout
  BY <1>4, <1>6 DEF OnHandshakeTimeout
<1>7. CASE TeardownReady
  BY <1>4, <1>7 DEF TeardownReady, ReadyFailure
<1>8. CASE TeardownState
  <2>1. state # "closed" /\ state' = "closed" /\ UNCHANGED <<ready, closure>>
    BY <1>8 DEF TeardownState, GreetingInv
  <2> QED BY <1>2, <2>1 DEF Service!Close, Service!ServiceNext
<1>9. CASE Publish
  <2>1. /\ state = "closed" /\ closure = 0 /\ ready # "none"
        /\ UNCHANGED <<state, ready>> /\ closure' = why.code
    BY <1>9 DEF Publish, TeardownPhases
  <2>2. /\ ready = "mismatch" => why.code = PROTOCOL_MISMATCH
        /\ why.code = PROTOCOL_MISMATCH => ready # "failed"
    BY <1>9 DEF Publish, GreetingInv
  <2>3. why.code \in Codes
    BY DEF TypeOK
  <2>4. Service!End(why.code)
    BY <1>2, <2>1, <2>2 DEF Service!End
  <2> QED BY <2>3, <2>4 DEF Service!ServiceNext
<1>10. ASSUME NEW compatible \in BOOLEAN, Receive, OnHello(compatible)
       PROVE  [Service!ServiceNext]_(Service!service)
  <2>1. pc = "loop"
    BY <1>10 DEF Receive, Arm1, Arm2, Arm5, Arm6
  <2>2. CASE UNCHANGED <<state, ready>>
    BY <1>3, <1>10, <2>2 DEF OnHello
  <2>3. CASE SettleReady("mismatch") /\ UNCHANGED state
    BY <1>4, <1>10, <2>3 DEF OnHello
  <2>4. CASE state = "handshaking" /\ state' = "ready" /\ SettleReady("ok")
    <3>1. ready = "none" /\ ready' = "ok" /\ UNCHANGED closure
      BY <1>10, <2>1, <2>4 DEF SettleReady, GreetingInv, OnHello
    <3> QED BY <1>2, <2>4, <3>1 DEF Service!Greet, Service!ServiceNext
  <2> QED BY <1>10, <2>2, <2>3, <2>4, Zenon DEF OnHello
<1>11. CASE \/ OnSendFailure \/ OnLivenessTick \/ ReceiveClosed
            \/ TeardownPort \/ TeardownTokens \/ WriterStep \/ PortDown \/ Ping
            \/ \E code \in Codes : CloseNow(code)
            \/ \E i \in InIds : OnHandlerSettled(i) \/ HandlerFinish(i) \/ DrainJoin(i)
            \/ \E x : OnClose(x) \/ OnRequest(x) \/ OnCancel(x)
            \/ OnPing \/ OnPong \/ OnEvent \/ UNCHANGED vars
  <2>1. UNCHANGED <<state, ready, closure>>
    BY <1>11, Zenon DEF OnSendFailure, OnLivenessTick, ReceiveClosed, TeardownPort, TeardownTokens,
                 WriterStep, PortDown, Ping, vars, CloseNow, UserCommand, OnHandlerSettled,
                 HandlerFinish, DrainJoin, OnClose, OnRequest, OnCancel, OnPing, OnPong, OnEvent
  <2> QED BY <1>3, <2>1
<1> QED BY <1>5, <1>6, <1>7, <1>8, <1>9, <1>10, <1>11

\* The driver takes a command: the one it releases a call for is left already.
LEMMA CommandRefines ==
  ASSUME TypeOK, CallInv, OnCommand
  PROVE  UNCHANGED Service!service
<1> DEFINE cmd == Head(commands)
<1>1. /\ commands \in Seq(Command) /\ commands # <<>>
      /\ UNCHANGED <<state, ready, closure, call>>
      /\ reply \in [Calls -> {"empty", "answer", "unavailable", "dropped"}]
      /\ cmd \in Command
  BY QueueTyped DEF TypeOK, OnCommand
<1>2. ASSUME NEW c \in Calls
      PROVE  reply'[c] = reply[c] \/ call[c] \in Settled
  <2>1. CASE UNCHANGED reply
    BY <2>1
  <2>2. CASE /\ cmd.type = "cancel"
             /\ pending' = IF cmd.forget THEN pending ELSE pending \ {cmd.arg}
             /\ DropReplies(pending \ pending')
    <3>1. CASE c \notin pending \/ c \in pending'
      BY <1>1, <2>2, <3>1 DEF DropReplies
    <3>2. CASE c \in pending /\ c \notin pending'
      <4>1. ~cmd.forget /\ cmd.arg = c
        BY <2>2, <3>2
      <4>2. cmd.forget = FALSE
        BY <1>1, <4>1, CommandArgs, Zenon
      <4>3. cmd = Cmd("cancel", c, FALSE)
        BY <1>1, <2>2, <4>1, <4>2, Zenon DEF Command, Cmd
      <4>4. In(Cmd("cancel", c, FALSE), commands)
        BY <1>1, <4>3, TailHolds, Zenon
      <4> QED BY <4>4, Zenon DEF CallInv, CallOk
    <3> QED BY <3>1, <3>2
  <2> QED BY <2>1, <2>2, Zenon DEF OnCommand
<1>3. \A c \in Calls : OutcomeOf(call'[c], reply'[c]) = OutcomeOf(call[c], reply[c])
  BY <1>1, <1>2 DEF OutcomeOf, Settled
<1>4. Outcome' = Outcome
  BY <1>3, NoneBecomes
<1> QED BY <1>1, <1>4 DEF Service!service

\* An answer reaches a call that is open, in a session that is ready, or one
\* nobody waits for.
LEMMA ResponseRefines ==
  ASSUME TypeOK, CallInv, GreetingInv, NEW d \in Calls, Receive, OnResponse(d)
  PROVE  [Service!ServiceNext]_(Service!service)
<1>1. /\ call \in [Calls -> {"idle", "ready_wait", "sending", "waiting"} \cup Settled]
      /\ reply \in [Calls -> {"empty", "answer", "unavailable", "dropped"}]
      /\ state \in {"handshaking", "ready", "closed"}
      /\ UNCHANGED <<state, ready, closure, call>>
      /\ CallOk(d) /\ pc = "loop"
  BY DEF TypeOK, OnResponse, CallInv, Receive, Arm1, Arm2, Arm5, Arm6
<1>2. CASE d \notin pending \/ call[d] \in Settled
  <2>1. \A c \in Calls : OutcomeOf(call'[c], reply'[c]) = OutcomeOf(call[c], reply[c])
    BY <1>1, <1>2 DEF OnResponse, OutcomeOf, Settled
  <2>2. Outcome' = Outcome
    BY <2>1, NoneBecomes, Zenon
  <2> QED BY <1>1, <2>2 DEF Service!service
<1>3. CASE d \in pending /\ call[d] \notin Settled
  <2>1. call[d] = "waiting" /\ reply[d] = "empty" /\ ready = "ok"
    BY <1>1, <1>3, ZenonT(30) DEF CallOk
  <2>2. state = "ready"
    BY <1>1, <2>1 DEF GreetingInv
  <2>3. reply' = [reply EXCEPT ![d] = "answer"]
    BY <1>3 DEF OnResponse
  <2>4. Service!Become(d, "answer")
    BY <1>1, <2>1, <2>3, OneBecomes DEF OutcomeOf
  <2>5. Outcome[d] = "open"
    BY <2>1, OutcomeIs DEF OutcomeOf
  <2>6. Service!Answer(d)
    BY <1>1, <2>2, <2>4, <2>5 DEF Service!Answer
  <2> QED BY <2>6 DEF Service!ServiceNext
<1> QED BY <1>2, <1>3

\* Teardown's fifth step and the return of run() let go of calls that are open,
\* in a session that is closed.
LEMMA LettingGoRefines ==
  ASSUME TypeOK, CallInv, TeardownPhases, TeardownPending \/ DriverReturn
  PROVE  Service!ServiceNext
<1>1. /\ reply \in [Calls -> {"empty", "answer", "unavailable", "dropped"}]
      /\ UNCHANGED <<state, ready, closure, call>> /\ state = "closed"
  BY DEF TypeOK, TeardownPending, DriverReturn, TeardownPhases
<1>2. \A c \in Calls : \/ reply'[c] = reply[c]
                       \/ reply[c] = "empty" /\ reply'[c] \in {"unavailable", "dropped"}
  <2>1. CASE TeardownPending
    BY <2>1, Zenon DEF TeardownPending, CallInv, CallOk
  <2>2. CASE DriverReturn
    BY <2>2 DEF DriverReturn, DropReplies
  <2> QED BY <2>1, <2>2
<1> DEFINE S == {c \in Calls : Outcome[c] = "open" /\ Outcome'[c] = "failure"}
<1>3. S \in SUBSET {c \in Calls : Outcome[c] = "open"}
  OBVIOUS
<1>4. Outcome' = [c \in Calls |-> IF c \in S THEN "failure" ELSE Outcome[c]]
  <2>1. \A c \in Calls :
          (Outcome[c] = "open" /\ Outcome'[c] = "failure") \/ Outcome'[c] = Outcome[c]
    BY <1>1, <1>2, OutcomeIs DEF OutcomeOf
  <2> QED BY <2>1, OutcomeIs
<1> HIDE DEF S
<1>5. Service!LetGo
  BY <1>1, <1>3, <1>4 DEF Service!LetGo
<1> QED BY <1>5 DEF Service!ServiceNext

-----------------------------------------------------------------------------
\* A session starts as the service starts.
LEMMA InitRefines ==
  ASSUME Init
  PROVE  Service!ServiceInit /\ GreetingInv /\ CallInv /\ TeardownPhases
<1>1. Outcome = [c \in Calls |-> "idle"]
  BY OutcomeIs DEF Init, OutcomeOf
<1>2. Service!ServiceInit
  BY <1>1 DEF Init, Service!ServiceInit
<1>3. CallInv
  BY DEF Init, CallInv, CallOk, In, Once
<1> QED BY <1>2, <1>3 DEF Init, GreetingInv, TeardownPhases

\* Every step of a session is a step of the service, or the service does not move.
LEMMA StepRefines ==
  ASSUME TypeOK, GreetingInv, CallInv, TeardownPhases, [Next]_vars
  PROVE  [Service!ServiceNext]_(Service!service)
<1>1. CASE Receive
  <2>1. PICK f \in InFrame : OnFrame(f)
    BY <1>1 DEF Receive
  <2>2. f.type \in {"res", "err"} => f.arg \in Calls
    BY DEF InFrame
  <2>3. CASE f.type \in {"res", "err"} /\ OnResponse(f.arg)
    BY <1>1, <2>2, <2>3, ResponseRefines
  <2>4. CASE OnHello(TRUE) \/ OnHello(FALSE)
    BY <1>1, <2>4, ControlRefines, Zenon
  <2>5. CASE OnClose(f.arg) \/ OnRequest(f.arg) \/ OnCancel(f.arg) \/ OnPing \/ OnPong \/ OnEvent
    BY <2>5, ControlRefines
  <2> QED BY <2>1, <2>3, <2>4, <2>5, Zenon DEF OnFrame
<1>2. CASE \E c \in Calls : CallNext(c)
  BY <1>2, ClientRefines
<1>3. CASE OnCommand
  BY <1>3, CommandRefines
<1>4. CASE TeardownPending \/ DriverReturn
  BY <1>4, LettingGoRefines
<1>5. CASE \/ Hello \/ OnSendFailure \/ OnHandshakeTimeout \/ OnLivenessTick \/ ReceiveClosed
           \/ TeardownState \/ TeardownPort \/ TeardownReady \/ TeardownTokens \/ Publish
           \/ WriterStep \/ PortDown \/ Ping \/ UNCHANGED vars
           \/ \E code \in Codes : CloseNow(code)
           \/ \E i \in InIds : OnHandlerSettled(i) \/ HandlerFinish(i) \/ DrainJoin(i)
  BY <1>5, ControlRefines
<1> QED BY <1>1, <1>2, <1>3, <1>4, <1>5 DEF Next, LoopNext, TeardownNext, Done

\* SessionDriver::run, teardown and request_with (session/driver.rs:122,
\* session/teardown.rs:73, session/handle.rs:334) together: for any number of calls
\* and ids, ready(), closed() and every request behave as SessionService says.
THEOREM SessionKeepsService == Spec => ServiceSpec
<1>1. Init => Service!ServiceInit /\ GreetingInv /\ CallInv /\ TeardownPhases
  BY InitRefines
<1>2. TypeOK /\ InFlightAgrees /\ GreetingInv /\ CallInv /\ TeardownPhases /\ [Next]_vars =>
        GreetingInv' /\ CallInv' /\ TeardownPhases'
  BY GreetingStep, CallStep, TeardownPhasesStep
<1>3. TypeOK /\ GreetingInv /\ CallInv /\ TeardownPhases /\ [Next]_vars =>
        [Service!ServiceNext]_(Service!service)
  BY StepRefines
<1> QED BY <1>1, <1>2, <1>3, TypeCorrect, InFlightIsBounded, PTL
        DEF Spec, ServiceSpec, Service!Spec
=============================================================================
