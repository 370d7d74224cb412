---------------------------- MODULE WebSocketPort ----------------------------
(***************************************************************************)
(* The WebSocket port of transports/websocket.rs.  The halves hand commands *)
(* to one writer task over an unbounded channel; three atomics and a watch  *)
(* tell them what the task sees of the socket.  The model counts a frame as *)
(* one unit of the byte counter and keeps every atomic access a step of its *)
(* own.                                                                     *)
(***************************************************************************)
EXTENDS Integers, Sequences, FiniteSets

CONSTANTS
    Limit,       \* max_frame_bytes, in frames
    MaxSends     \* frames the session sends

ASSUME LimitAssumption == Limit \in Nat \ {0} /\ MaxSends \in Nat

Halves == {"tx", "rx"}

VARIABLES
    cmds,       \* the WriteCommand channel
    channel,    \* whether its receiver still takes commands
    queued,     \* queued_bytes
    open,
    paused,
    gaveUp,     \* the gave_up watch
    writer,     \* where the writer task is
    giveUp,     \* its local give_up
    closes,     \* Close commands ever queued
    pc,         \* where each half is
    waiting,    \* what send_frame found queued before its own frame
    sends,      \* frames tried so far
    closure,    \* WebSocketRx.closure
    told        \* the closure recv has returned; terminal when not "none"

chanVars == <<cmds, channel, queued, closes>>
flagVars == <<open, paused, gaveUp>>
taskVars == <<writer, giveUp>>
txVars == <<waiting, sends>>
rxVars == <<closure, told>>
vars == <<chanVars, flagVars, taskVars, pc, txVars, rxVars>>

-----------------------------------------------------------------------------
(* WebSocketPort::split and SocketWriter::spawn.                             *)
Init ==
    /\ cmds = <<>> /\ channel = TRUE /\ queued = 0 /\ closes = 0
    /\ open = TRUE /\ paused = FALSE /\ gaveUp = FALSE
    /\ writer = "recv" /\ giveUp = FALSE
    /\ pc = [h \in Halves |-> IF h = "tx" THEN "idle" ELSE "out"]
    /\ waiting = 0 /\ sends = 0
    /\ closure = "none" /\ told = "none"

Goto(h, where) == pc' = [pc EXCEPT ![h] = where]

(* A half's next place after a close of its own: recv goes round its loop.   *)
AfterClose(h) == IF h = "rx" THEN "in" ELSE "idle"

Push(c) == cmds' = IF channel THEN Append(cmds, c) ELSE cmds

-----------------------------------------------------------------------------
(* send_frame, one step per atomic.  A closed port or a frame the codec      *)
(* refuses returns at once.                                                  *)
SendStart ==
    /\ pc["tx"] = "idle"
    /\ sends < MaxSends
    /\ sends' = sends + 1
    /\ IF open THEN Goto("tx", "add") \/ UNCHANGED pc ELSE UNCHANGED pc
    /\ UNCHANGED <<chanVars, flagVars, taskVars, waiting, rxVars>>

(* fetch_add: counted before the command is queued.                          *)
Count == queued' = queued + 1

SendAdd ==
    /\ pc["tx"] = "add"
    /\ waiting' = queued
    /\ Count
    /\ Goto("tx", "push")
    /\ UNCHANGED <<cmds, channel, closes, flagVars, taskVars, sends, rxVars>>

SendPush ==
    /\ pc["tx"] = "push"
    /\ Push("frame")
    /\ IF channel
         THEN Goto("tx", "judge") /\ UNCHANGED <<queued, open>>
         ELSE Goto("tx", "idle") /\ queued' = queued - 1 /\ open' = FALSE
    /\ UNCHANGED <<channel, closes, paused, gaveUp, taskVars, txVars, rxVars>>

(* Both halves of the rule: a backlog over the limit, and a socket that is   *)
(* not taking what it is given.                                              *)
Stalled == waiting > Limit /\ paused

SendJudge ==
    /\ pc["tx"] = "judge"
    /\ IF Stalled THEN Goto("tx", "close") ELSE Goto("tx", "idle")
    /\ UNCHANGED <<chanVars, flagVars, taskVars, txVars, rxVars>>

-----------------------------------------------------------------------------
(* SocketWriter::close, from either half.                                    *)
TxClose ==
    /\ pc["tx"] = "idle"
    /\ Goto("tx", "close")
    /\ UNCHANGED <<chanVars, flagVars, taskVars, txVars, rxVars>>

(* open.swap(false): only the first close goes on.                           *)
SwapOpen(h) ==
    IF open
      THEN Goto(h, "bye") /\ open' = FALSE
      ELSE Goto(h, AfterClose(h)) /\ UNCHANGED open

CloseSwap(h) ==
    /\ pc[h] = "close"
    /\ SwapOpen(h)
    /\ UNCHANGED <<chanVars, paused, gaveUp, taskVars, txVars, rxVars>>

(* queue_farewell: counted, then queued, whatever the channel says.  A port  *)
(* whose send_close_frame is off, or a farewell that does not encode, skips  *)
(* it.                                                                       *)
CloseBye(h) ==
    /\ pc[h] = "bye"
    /\ \/ queued' = queued + 1 /\ Goto(h, "pushbye")
       \/ UNCHANGED queued /\ Goto(h, "pushclose")
    /\ UNCHANGED <<cmds, channel, closes, flagVars, taskVars, txVars, rxVars>>

ClosePushBye(h) ==
    /\ pc[h] = "pushbye"
    /\ Push("bye")
    /\ Goto(h, "pushclose")
    /\ UNCHANGED <<channel, queued, closes, flagVars, taskVars, txVars, rxVars>>

ClosePushClose(h) ==
    /\ pc[h] = "pushclose"
    /\ Push("close")
    /\ closes' = closes + 1
    /\ Goto(h, IF channel THEN "grace" ELSE AfterClose(h))
    /\ UNCHANGED <<channel, queued, flagVars, taskVars, txVars, rxVars>>

(* The task said done, dropped the command, or CLOSE_FLUSH_GRACE ran out.    *)
CloseReturns(h) ==
    /\ pc[h] = "grace"
    /\ Goto(h, AfterClose(h))
    /\ UNCHANGED <<chanVars, flagVars, taskVars, txVars, rxVars>>

-----------------------------------------------------------------------------
(* drive: the writer task.                                                   *)
WriterTakes ==
    /\ writer = "recv"
    /\ cmds # <<>>
    /\ cmds' = Tail(cmds)
    /\ IF Head(cmds) = "close"
         THEN writer' = "farewell" /\ UNCHANGED queued
         ELSE writer' = "poll" /\ queued' = queued - 1
    /\ UNCHANGED <<channel, closes, flagVars, giveUp, pc, txVars, rxVars>>

(* One poll of write_chunks finished: written, or the socket failed.  A port *)
(* given up meanwhile is closed on the wire too.                             *)
WriterDone ==
    /\ writer \in {"poll", "stuck"}
    /\ paused' = FALSE
    /\ \/ /\ writer' = IF giveUp THEN "farewell" ELSE "recv"
          /\ UNCHANGED open
       \/ /\ writer' = "exit"
          /\ open' = FALSE
    /\ UNCHANGED <<chanVars, gaveUp, giveUp, pc, txVars, rxVars>>

(* ... or the socket answered Pending: `paused` is raised, then the backlog  *)
(* is judged.  A later poll may find it still pending.  The accesses of the  *)
(* two tasks interleave one by one: sequential consistency, where the code   *)
(* has Release stores and Acquire loads.                                     *)
WriterPauses ==
    /\ writer \in {"poll", "stuck"}
    /\ paused' = TRUE
    /\ writer' = "judge"
    /\ UNCHANGED <<chanVars, open, gaveUp, giveUp, pc, txVars, rxVars>>

MutNeverJudged == FALSE

BacklogOver == queued > Limit

WriterJudges ==
    /\ writer = "judge"
    /\ writer' = "stuck"
    /\ IF BacklogOver
         THEN giveUp' = TRUE /\ open' = FALSE /\ gaveUp' = TRUE
         ELSE UNCHANGED <<giveUp, open, gaveUp>>
    /\ UNCHANGED <<chanVars, paused, pc, txVars, rxVars>>

(* close_stalled_peer or the Close command: the close frame went out.        *)
WriterFarewell ==
    /\ writer = "farewell"
    /\ writer' = "exit"
    /\ UNCHANGED <<chanVars, flagVars, giveUp, pc, txVars, rxVars>>

Chunks == Cardinality({i \in 1 .. Len(cmds) : cmds[i] # "close"})

MutKeepsUnwritten == queued

Unwritten == queued - Chunks

(* release_unwritten, then the sink is closed.                               *)
WriterExits ==
    /\ writer = "exit"
    /\ channel' = FALSE
    /\ queued' = Unwritten
    /\ cmds' = <<>>
    /\ writer' = "gone"
    /\ UNCHANGED <<closes, flagVars, giveUp, pc, txVars, rxVars>>

-----------------------------------------------------------------------------
(* WebSocketRx::recv.                                                        *)
RecvCall ==
    /\ pc["rx"] = "out"
    /\ Goto("rx", "in")
    /\ UNCHANGED <<chanVars, flagVars, taskVars, txVars, rxVars>>

RecvReturns ==
    /\ pc["rx"] = "in"
    /\ \/ closure # "none" /\ told' = closure /\ closure' = "none"
       \/ closure = "none" /\ told # "none" /\ UNCHANGED rxVars
    /\ Goto("rx", "out")
    /\ UNCHANGED <<chanVars, flagVars, taskVars, txVars>>

Listening == pc["rx"] = "in" /\ closure = "none" /\ told = "none"

MutDeaf == FALSE

(* The loop head, or the select's second branch.                             *)
HearsGiveUp == Listening /\ gaveUp

RecvGaveUp ==
    /\ HearsGiveUp
    /\ open' = FALSE
    /\ closure' = "gaveup"
    /\ UNCHANGED <<chanVars, paused, gaveUp, taskVars, pc, txVars, told>>

(* A whole frame is returned; a part of one, or a control frame, is not.     *)
RecvFrame ==
    /\ Listening
    /\ Goto("rx", "out")
    /\ UNCHANGED <<chanVars, flagVars, taskVars, txVars, rxVars>>

(* The peer's close frame, a failed socket, or its end.                      *)
RecvEnds ==
    /\ Listening
    /\ open' = FALSE
    /\ closure' \in {"peer", "lost"}
    /\ UNCHANGED <<chanVars, paused, gaveUp, taskVars, pc, txVars, told>>

(* refuse: recorded before the close is awaited.                             *)
RecvRefuses ==
    /\ Listening
    /\ closure' = "refused"
    /\ Goto("rx", "close")
    /\ UNCHANGED <<chanVars, flagVars, taskVars, txVars, told>>

(* The future is dropped at one of its two awaits: the select, or the grace. *)
RecvCancelled ==
    /\ pc["rx"] \in {"in", "grace"}
    /\ Goto("rx", "out")
    /\ UNCHANGED <<chanVars, flagVars, taskVars, txVars, rxVars>>

(* Both halves are gone: AbortOnDrop ends the task at its current await.     *)
Dropped ==
    /\ pc["tx"] = "idle" /\ pc["rx"] = "out"
    /\ writer \in {"recv", "stuck", "farewell", "gone"}
    /\ pc' = [tx |-> "gone", rx |-> "gone"]
    /\ writer' = "gone"
    /\ channel' = FALSE
    /\ cmds' = <<>>
    /\ UNCHANGED <<queued, closes, flagVars, giveUp, txVars, rxVars>>

-----------------------------------------------------------------------------
CloseStep(h) ==
    CloseSwap(h) \/ CloseBye(h) \/ ClosePushBye(h) \/ ClosePushClose(h) \/ CloseReturns(h)

SendStep == SendAdd \/ SendPush \/ SendJudge

RecvStep == RecvCall \/ RecvReturns \/ RecvGaveUp

Next ==
    \/ SendStart \/ SendStep \/ TxClose
    \/ \E h \in Halves : CloseStep(h)
    \/ WriterTakes \/ WriterDone \/ WriterPauses \/ WriterJudges
    \/ WriterFarewell \/ WriterExits
    \/ RecvStep \/ RecvFrame \/ RecvEnds \/ RecvRefuses \/ RecvCancelled
    \/ Dropped

Spec == Init /\ [][Next]_vars
-----------------------------------------------------------------------------
Commands == {"frame", "bye", "close"}
Places == {"idle", "out", "in", "add", "push", "judge", "close", "bye",
           "pushbye", "pushclose", "grace", "gone"}
Closures == {"none", "gaveup", "peer", "lost", "refused"}

(* Every variable of the port holds a value of its kind.                     *)
TypeOK ==
    /\ cmds \in Seq(Commands) /\ channel \in BOOLEAN
    /\ queued \in Int /\ closes \in Nat
    /\ open \in BOOLEAN /\ paused \in BOOLEAN /\ gaveUp \in BOOLEAN
    /\ writer \in {"recv", "poll", "judge", "stuck", "farewell", "exit", "gone"}
    /\ giveUp \in BOOLEAN
    /\ pc \in [Halves -> Places]
    /\ waiting \in Int /\ sends \in 0 .. MaxSends
    /\ closure \in Closures /\ told \in Closures

(* Chunks counted and not queued yet.                                        *)
Counted ==
    (IF pc["tx"] = "push" THEN 1 ELSE 0)
        + (IF \E h \in Halves : pc[h] = "pushbye" THEN 1 ELSE 0)

(* The counter backpressure reads says what is queued (release_unwritten:    *)
(* "keeps an invariant"): exactly, while the channel takes commands, and     *)
(* with at most the one farewell of a close that lost the race against the   *)
(* task's exit afterwards.                                                   *)
CounterIsQueue ==
    pc["tx"] # "gone" =>
        IF channel
          THEN queued = Chunks + Counted
          ELSE queued - Chunks - Counted \in {0, 1}

(* A peer that stopped reading is noticed: behind a write that is stuck, a   *)
(* port that still says it is open holds at most one frame more than the     *)
(* limit, the send in progress excluded, however the sender's check of       *)
(* `paused` and the task's check of the counter interleave.                  *)
StalledBacklogIsBounded ==
    writer = "stuck" /\ open =>
        queued <= Limit + 1 + (IF pc["tx"] \in {"push", "judge", "close"} THEN 1 ELSE 0)

(* open.swap: whichever half closes first, the writer task is sent one Close *)
(* command and the peer one close code.                                      *)
OneFarewell == closes <= 1

(* "a concurrent `recv` [...] must not wait on it either": a port given up   *)
(* on is reported to the session although the peer never sends or takes      *)
(* another byte.                                                             *)
GaveUpIsHeard == gaveUp ~> told # "none" \/ pc["rx"] = "gone"
=============================================================================
