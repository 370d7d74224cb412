---------------------------- MODULE NdjsonSession ----------------------------
(***************************************************************************)
(* A session's driver over the port of NdjsonPort: what SessionDriver::run, *)
(* its Writer task and teardown do to the two halves, with frames queued    *)
(* behind a write the peer may never let finish.                            *)
(***************************************************************************)
EXTENDS NdjsonPort

VARIABLES
    driver,     \* "hello" and its send, "run", the awaits of teardown, or "aborted"
    outbox,     \* frames queued for the writer task
    queued,     \* frames queued so far
    closePort   \* teardown's close_port

sessionVars == <<driver, outbox, queued, closePort>>
allVars == <<vars, sessionVars>>

SessionInit ==
    /\ Init
    /\ driver = "hello"
    /\ outbox = 0
    /\ queued = 0
    /\ closePort = FALSE

-----------------------------------------------------------------------------
(* SessionDriver::run.  The hello goes out on the driver's own task: there   *)
(* is no writer task yet and nobody polls recv.  One that does not fit, or   *)
(* whose send does not end in Sent, goes straight to teardown.               *)
HelloRefused == driver' = "flush" /\ closePort' = TRUE

HelloStart ==
    /\ driver = "hello"
    /\ \/ HelloRefused /\ UNCHANGED vars              \* assert_fits
       \/ /\ SendStart
          /\ IF pc'["tx"] = "idle"
               THEN HelloRefused
               ELSE driver' = "greeting" /\ UNCHANGED closePort
    /\ UNCHANGED <<outbox, queued>>

HelloStep ==
    /\ driver = "greeting"
    /\ SendLocked \/ SendEvicted
    /\ IF pc'["tx"] = "idle" THEN HelloRefused ELSE UNCHANGED <<driver, closePort>>
    /\ UNCHANGED <<outbox, queued>>

HelloPeerStep ==
    /\ driver = "greeting"
    /\ \/ SendWritten /\ driver' = "run" /\ UNCHANGED closePort
       \/ SendFailed /\ HelloRefused
    /\ UNCHANGED <<outbox, queued>>

-----------------------------------------------------------------------------
(* Writer::enqueue, from the select loop.  The hello was one of the sends.   *)
Enqueue ==
    /\ driver = "run"
    /\ queued + 1 < MaxSends
    /\ queued' = queued + 1
    /\ outbox' = outbox + 1
    /\ UNCHANGED <<vars, driver, closePort>>

(* The writer task takes the next frame; what follows are the port's steps.  *)
WriterTakes ==
    /\ outbox > 0
    /\ SendStart
    /\ outbox' = outbox - 1
    /\ UNCHANGED <<driver, queued, closePort>>

WriterStep ==
    driver # "greeting" /\ (SendLocked \/ SendEvicted) /\ UNCHANGED sessionVars

WriterPeerStep ==
    driver # "greeting" /\ (SendWritten \/ SendFailed) /\ UNCHANGED sessionVars

(* The select loop polls recv and drops it when another branch wins; an item *)
(* that closes the port ends the loop.                                       *)
DriverRecv ==
    /\ driver = "run"
    /\ \/ RecvCall /\ UNCHANGED sessionVars
       \/ /\ RecvReturns
          /\ driver' = IF terminal' THEN "flush" ELSE "run"
          /\ closePort' = FALSE
          /\ UNCHANGED <<outbox, queued>>
       \/ ReadEnds /\ UNCHANGED sessionVars
       \/ ReadChunk /\ UNCHANGED sessionVars
       \/ RecvCancelled /\ UNCHANGED sessionVars

(* Another branch ends the loop: a Close command, a timer, a refused frame   *)
(* or a send that failed (which write a farewell), or the peer's own close   *)
(* frame (which does not).  recv is not polled again.                        *)
DriverCloses ==
    /\ driver = "run"
    /\ pc["rx"] = "out"
    /\ driver' = "flush"
    /\ closePort' \in BOOLEAN
    /\ UNCHANGED <<vars, outbox, queued>>

(* Step 3 of teardown: Writer::shut_down awaits the task, which first sends  *)
(* whatever is queued.                                                       *)
WriterReturned == driver = "flush" /\ outbox = 0 /\ pc["tx"] = "idle"

FlushOver ==
    /\ WriterReturned
    /\ IF closePort
         THEN TxClose /\ driver' = "farewell"
         ELSE LoseHalf("tx") /\ driver' = "settle"
    /\ UNCHANGED <<outbox, queued, closePort>>

FarewellOver ==
    /\ driver = "farewell"
    /\ pc["tx"] = "done"
    /\ driver' = "settle"
    /\ UNCHANGED <<vars, outbox, queued, closePort>>

(* Steps 4 to 9, bounded by handler_grace; then run returns and drops rx.    *)
Publish ==
    /\ driver = "settle"
    /\ LoseHalf("rx")
    /\ driver' = "published"
    /\ UNCHANGED <<outbox, queued, closePort>>

MutAbortKillsWriter ==
    /\ outbox = 0 /\ pc["tx"] \notin {"done", "gone"}
    /\ pc' = [pc EXCEPT !["tx"] = "gone"]
    /\ queue' = Without("tx")
    /\ arcs' = arcs \ {"tx"}
    /\ handle' = IF arcs' = {} THEN "dropped" ELSE handle
    /\ UNCHANGED <<writable, ending, wire, sends, recvVars>>

(* The driver's task is aborted.  While the hello is being sent and while    *)
(* teardown closes the port the driver owns the send half, which goes first, *)
(* with the call in progress; otherwise the detached writer task keeps it    *)
(* until it has sent what was queued.  The receive half goes in any case.    *)
OwnsTx == driver \in {"hello", "greeting", "farewell"} /\ "tx" \in arcs

DriverAborted ==
    /\ driver \notin {"dropping", "published", "aborted"}
    /\ IF OwnsTx
         THEN LoseHalf("tx") /\ driver' = "dropping"
         ELSE LoseHalf("rx") /\ driver' = "aborted"
    /\ UNCHANGED <<outbox, queued, closePort>>

DropCompletes ==
    /\ driver = "dropping"
    /\ LoseHalf("rx")
    /\ driver' = "aborted"
    /\ UNCHANGED <<outbox, queued, closePort>>

WriterDropped == outbox = 0 /\ pc["tx"] = "idle" /\ LoseHalf("tx")

AbortedWriterEnds ==
    /\ driver = "aborted"
    /\ WriterDropped
    /\ UNCHANGED sessionVars

EndSteps(a) == EndStep(a) /\ UNCHANGED sessionVars
PeerSteps(a) == PeerStep(a) /\ UNCHANGED sessionVars
ListenerCloses == CloserClose /\ UNCHANGED sessionVars

SessionNext ==
    \/ HelloStart \/ HelloStep \/ HelloPeerStep
    \/ Enqueue \/ WriterTakes \/ WriterStep \/ WriterPeerStep
    \/ DriverRecv \/ DriverCloses \/ FlushOver \/ FarewellOver \/ Publish
    \/ DriverAborted \/ DropCompletes \/ AbortedWriterEnds
    \/ \E a \in Actors : EndSteps(a) \/ PeerSteps(a)
    \/ ListenerCloses

(* The runtime polls every task that is ready and its timers fire.  Nothing  *)
(* is assumed of the peer, which may never take another byte.                *)
LiveSpec ==
    /\ SessionInit /\ [][SessionNext]_allVars
    /\ WF_allVars(HelloStart) /\ WF_allVars(HelloStep)
    /\ WF_allVars(WriterTakes)
    /\ WF_allVars(WriterStep)
    /\ WF_allVars(FlushOver) /\ WF_allVars(FarewellOver) /\ WF_allVars(Publish)
    /\ WF_allVars(DropCompletes)
    /\ \A a \in Actors : WF_allVars(EndSteps(a))

-----------------------------------------------------------------------------
(* The session uses the port as the port relies on being used: one call at a *)
(* time on each half, none after the half was closed, and no send but the    *)
(* hello abandoned half way - the writer task of driver.rs is detached, not  *)
(* aborted, when its driver is dropped.                                      *)
PortSpec == Spec

(* Ending a port never waits for its peer: every close that was started      *)
(* returns (or its future is dropped) although the peer reads nothing, a     *)
(* frame is half written and the other enders compete for the lock.          *)
EndersReturn ==
    \A a \in Actors :
        pc[a] \in {"bye", "shut"} ~> pc[a] \in {"done", "in", "out", "gone"}

Over == driver \in {"published", "aborted"}

(* The one thing that holds up the hello, and with it ready(), or a          *)
(* session's teardown without bound is a frame the peer does not take:       *)
(* locks, farewells, shutdowns and a listener's own farewell never do.       *)
OnlyAStuckFrameDelays ==
    \/ /\ driver = "greeting" ~> driver # "greeting"
       /\ driver = "flush" ~> Over
    \/ <>[](pc["tx"] = "write")

(* "resolving once every handler has settled (bounded by `handler_grace`)    *)
(* and the port is shut" (Session::close, session/handle.rs:275-277).        *)
CloseResolves == driver = "flush" ~> Over

=============================================================================
