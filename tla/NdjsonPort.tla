----------------------------- MODULE NdjsonPort -----------------------------
(***************************************************************************)
(* The newline-delimited port of transports/ndjson.rs: one write handle     *)
(* behind a fair lock, shared by the send half ("tx"), the receive half     *)
(* ("rx", which writes a farewell when it refuses a line) and a listener's  *)
(* closer.  Any of the three may end the port, the peer may stop reading at *)
(* any moment, and a call of recv may be dropped at every await, because    *)
(* the session driver polls it inside a select.                             *)
(***************************************************************************)
EXTENDS Naturals, Sequences, FiniteSets

CONSTANTS
    MaxSends,    \* frames the session hands to the send half
    MaxReads     \* reads of the inbound stream that return something

ASSUME BoundsAssumption == MaxSends \in Nat /\ MaxReads \in Nat

Actors == {"tx", "rx", "closer"}

VARIABLES
    pc,        \* where each actor is
    queue,     \* actors waiting for the lock; its head holds it
    writable,  \* WriterState.writable
    handle,    \* WriterState.writer: "held", "taken" by an ender, "dropped"
    ending,    \* WriterShared.ending
    arcs,      \* who still owns a strong reference to WriterShared
    wire,      \* the lines that reached the pipe
    sends,     \* frames tried so far
    pending,   \* NdjsonRx.pending
    closure,   \* NdjsonRx.closure
    terminal,  \* NdjsonRx.terminal
    reads,     \* frames and endings the inbound stream has produced
    items      \* what recv has returned

writerVars == <<queue, writable, handle, ending, arcs>>
recvVars == <<pending, closure, terminal, reads, items>>
vars == <<pc, writerVars, wire, sends, recvVars>>

Frame(n) == [kind |-> "frame", n |-> n]
Ended(k) == [kind |-> k, n |-> 0]
NoClosure == Ended("none")
Line(k, whole) == [kind |-> k, whole |-> whole]

-----------------------------------------------------------------------------
(* SharedWriter::new, NdjsonPort::split and closer.                        *)
Init ==
    /\ pc = [a \in Actors |-> IF a = "rx" THEN "out" ELSE "idle"]
    /\ queue = <<>>
    /\ writable = TRUE
    /\ handle = "held"
    /\ ending = FALSE
    /\ arcs = {"tx", "rx"}
    /\ wire = <<>>
    /\ sends = 0
    /\ pending = <<>>
    /\ closure = NoClosure
    /\ terminal = FALSE
    /\ reads = <<>>
    /\ items = <<>>

Holds(a) == queue # <<>> /\ Head(queue) = a
Waits(a) == \E i \in 1 .. Len(queue) : queue[i] = a
Without(a) ==
    LET place == CHOOSE i \in 1 .. Len(queue) : queue[i] = a
    IN  IF Waits(a) THEN SubSeq(queue, 1, place - 1) \o SubSeq(queue, place + 1, Len(queue))
                    ELSE queue
CanWrite == writable /\ handle = "held"

(* Where an actor goes once its shut_down has returned: recv goes round its  *)
(* loop, a close is over.                                                    *)
AfterEnd(a) == IF a = "rx" THEN "in" ELSE "done"

(* A write that was cut short left nothing, a torn line, or - when only its  *)
(* flush was outstanding - the whole line behind.                            *)
CutShort(k) ==
    \E left \in {<<>>, <<Line(k, FALSE)>>, <<Line(k, TRUE)>>} :
        wire' = wire \o left

-----------------------------------------------------------------------------
(* write_frame.  The first step encodes, subscribes to `ending` and asks for *)
(* the lock; a frame that does not encode, or a port already ending, returns *)
(* at once.                                                                  *)
SendStart ==
    /\ pc["tx"] = "idle"
    /\ sends < MaxSends
    /\ sends' = sends + 1
    /\ \/ UNCHANGED <<pc, queue>>                    \* Refused by the codec
       \/ /\ ending
          /\ UNCHANGED <<pc, queue>>                 \* Closed
       \/ /\ ~ending
          /\ pc' = [pc EXCEPT !["tx"] = "lock"]
          /\ queue' = Append(queue, "tx")
    /\ UNCHANGED <<writable, handle, ending, arcs, wire, recvVars>>

SendLocked ==
    /\ pc["tx"] = "lock"
    /\ Holds("tx")
    /\ IF CanWrite
         THEN /\ pc' = [pc EXCEPT !["tx"] = "write"]
              /\ UNCHANGED queue
         ELSE /\ pc' = [pc EXCEPT !["tx"] = "idle"]
              /\ queue' = Tail(queue)
    /\ UNCHANGED <<writable, handle, ending, arcs, wire, sends, recvVars>>

SendWritten ==
    /\ pc["tx"] = "write"
    /\ wire' = Append(wire, Line("frame", TRUE))
    /\ pc' = [pc EXCEPT !["tx"] = "idle"]
    /\ queue' = Tail(queue)
    /\ UNCHANGED <<writable, handle, ending, arcs, sends, recvVars>>

MutEvictKeepsWritable == ending /\ UNCHANGED writable

MutNeverEvicted == FALSE /\ UNCHANGED writable

(* `ended` won the select: whoever ends the port evicts a stuck write.       *)
Evicted == ending /\ writable' = FALSE

(* The pipe may refuse a write at any moment; the writer is dead from then on. *)
WriteFails == writable' = FALSE

SendCutShort ==
    /\ pc["tx"] = "write"
    /\ CutShort("frame")
    /\ pc' = [pc EXCEPT !["tx"] = "idle"]
    /\ queue' = Tail(queue)
    /\ UNCHANGED <<handle, ending, arcs, sends, recvVars>>

SendEvicted == Evicted /\ SendCutShort
SendFailed == WriteFails /\ SendCutShort

-----------------------------------------------------------------------------
(* SharedWriter::end: the farewell under a grace, then shut_down.            *)
EndStart(a) ==
    /\ pc' = [pc EXCEPT ![a] = "bye"]
    /\ queue' = Append(queue, a)

(* NdjsonTx::close.                                                          *)
TxClose ==
    /\ pc["tx"] = "idle"
    /\ EndStart("tx")
    /\ UNCHANGED <<writable, handle, ending, arcs, wire, sends, recvVars>>

(* PortCloser::close: nothing when both halves are gone.                     *)
CloserClose ==
    /\ pc["closer"] = "idle"
    /\ IF arcs = {}
         THEN /\ pc' = [pc EXCEPT !["closer"] = "done"]
              /\ UNCHANGED <<queue, arcs>>
         ELSE /\ EndStart("closer")
              /\ arcs' = arcs \union {"closer"}
    /\ UNCHANGED <<writable, handle, ending, wire, sends, recvVars>>

(* write_close: under the lock, and nothing at all on a dead writer.         *)
ByeLocked(a) ==
    /\ pc[a] = "bye"
    /\ Holds(a)
    /\ IF CanWrite
         THEN /\ pc' = [pc EXCEPT ![a] = "byewrite"]
              /\ UNCHANGED queue
         ELSE /\ pc' = [pc EXCEPT ![a] = "shut"]
              /\ queue' = Tail(queue)
    /\ UNCHANGED <<writable, handle, ending, arcs, wire, sends, recvVars>>

ByeWritten(a) ==
    /\ pc[a] = "byewrite"
    /\ wire' = Append(wire, Line("farewell", TRUE))
    /\ pc' = [pc EXCEPT ![a] = "shut"]
    /\ queue' = Tail(queue)
    /\ UNCHANGED <<writable, handle, ending, arcs, sends, recvVars>>

ByeFailed(a) ==
    /\ pc[a] = "byewrite"
    /\ CutShort("farewell")
    /\ WriteFails
    /\ pc' = [pc EXCEPT ![a] = "shut"]
    /\ queue' = Tail(queue)
    /\ UNCHANGED <<handle, ending, arcs, sends, recvVars>>

MutNoGrace(a) == FALSE

(* write_close has been waiting, for the lock or for the peer.               *)
GraceOver(a) == pc[a] \in {"bye", "byewrite"}

(* CLOSE_FLUSH_GRACE expired: the farewell is dropped, with the lock or the  *)
(* place in the queue it had.                                                *)
ByeTimeout(a) ==
    /\ GraceOver(a)
    /\ IF pc[a] = "byewrite" THEN CutShort("farewell") ELSE UNCHANGED wire
    /\ pc' = [pc EXCEPT ![a] = "shut"]
    /\ queue' = Without(a)
    /\ UNCHANGED <<writable, handle, ending, arcs, sends, recvVars>>

(* shut_down: `ending` is flipped before the lock is asked for.              *)
ShutStart(a) ==
    /\ pc[a] = "shut"
    /\ ending' = TRUE
    /\ pc' = [pc EXCEPT ![a] = "shutlock"]
    /\ queue' = Append(queue, a)
    /\ UNCHANGED <<writable, handle, arcs, wire, sends, recvVars>>

(* What shut_down leaves behind under the lock.                              *)
TakeHandle ==
    /\ writable' = FALSE
    /\ handle' = IF handle = "held" THEN "taken" ELSE handle

Settle(a) == IF a = "rx" THEN UNCHANGED arcs ELSE arcs' = arcs \ {a}

ShutLocked(a) ==
    /\ pc[a] = "shutlock"
    /\ Holds(a)
    /\ TakeHandle
    /\ queue' = Tail(queue)
    /\ IF handle = "held"
         THEN /\ pc' = [pc EXCEPT ![a] = "shutdown"]
              /\ UNCHANGED arcs
         ELSE /\ pc' = [pc EXCEPT ![a] = AfterEnd(a)]
              /\ Settle(a)
    /\ UNCHANGED <<ending, wire, sends, recvVars>>

(* writer.shutdown() returned or ran out of grace; the handle is dropped.    *)
ShutdownOver(a) ==
    /\ pc[a] = "shutdown"
    /\ handle' = "dropped"
    /\ pc' = [pc EXCEPT ![a] = AfterEnd(a)]
    /\ Settle(a)
    /\ UNCHANGED <<queue, writable, ending, wire, sends, recvVars>>

-----------------------------------------------------------------------------
(* NdjsonRx::recv.                                                           *)
RecvCall ==
    /\ pc["rx"] = "out"
    /\ pc' = [pc EXCEPT !["rx"] = "in"]
    /\ UNCHANGED <<writerVars, wire, sends, recvVars>>

RecvReturns ==
    /\ pc["rx"] = "in"
    /\ \/ /\ pending # <<>>
          /\ items' = Append(items, Head(pending))
          /\ pending' = Tail(pending)
          /\ UNCHANGED <<closure, terminal>>
       \/ /\ pending = <<>>
          /\ closure # NoClosure
          /\ items' = Append(items, closure)
          /\ closure' = NoClosure
          /\ terminal' = TRUE
          /\ UNCHANGED pending
       \/ /\ pending = <<>> /\ closure = NoClosure /\ terminal
          /\ UNCHANGED <<items, pending, closure, terminal>>     \* None
    /\ pc' = [pc EXCEPT !["rx"] = "out"]
    /\ UNCHANGED <<writerVars, wire, sends, reads>>

Reading ==
    /\ pc["rx"] = "in"
    /\ pending = <<>> /\ closure = NoClosure /\ ~terminal
    /\ Len(reads) < MaxReads

MutClosureAfterAwait(k) == UNCHANGED closure

(* on_eof, on_failure and refuse record the closure before their first await. *)
Record(k) == closure' = Ended(k)

(* on_eof and on_failure: straight to shut_down.                             *)
ReadEnds ==
    /\ Reading
    /\ \E k \in {"eof", "failed"} :
        /\ reads' = Append(reads, Ended(k))
        /\ Record(k)
    /\ pc' = [pc EXCEPT !["rx"] = "shut"]
    /\ UNCHANGED <<writerVars, wire, sends, pending, terminal, items>>

(* decode_chunk: some whole frames, and perhaps a line the decoder refuses.  *)
ReadChunk ==
    /\ Reading
    /\ \E k \in 0 .. MaxReads - Len(reads), bad \in BOOLEAN :
        LET new == [i \in 1 .. k |-> Frame(Len(reads) + i)] IN
        /\ k + (IF bad THEN 1 ELSE 0) \in 1 .. MaxReads - Len(reads)
        /\ pending' = new
        /\ IF bad
             THEN /\ reads' = (reads \o new) \o <<Ended("refused")>>
                  /\ Record("refused")
                  /\ EndStart("rx")
             ELSE /\ reads' = reads \o new
                  /\ UNCHANGED <<closure, pc, queue>>
    /\ UNCHANGED <<writable, handle, ending, arcs, wire, sends, terminal, items>>

-----------------------------------------------------------------------------
(* What dropping an actor's future at its current await undoes: the lock or  *)
(* the place in its queue, a line half written, a handle being shut down.    *)
Abandon(a) ==
    /\ queue' = Without(a)
    /\ CASE pc[a] = "write" -> CutShort("frame")
         [] pc[a] = "byewrite" -> CutShort("farewell")
         [] OTHER -> UNCHANGED wire

HandleAfterDrop(a) == IF pc[a] = "shutdown" THEN "dropped" ELSE handle

(* The driver's select took another branch: the recv future is dropped.      *)
RecvCancelled ==
    /\ pc["rx"] \notin {"out", "shut", "gone"}      \* "shut" is not an await
    /\ Abandon("rx")
    /\ handle' = HandleAfterDrop("rx")
    /\ pc' = [pc EXCEPT !["rx"] = "out"]
    /\ UNCHANGED <<writable, ending, arcs, sends, recvVars>>

(* A half is dropped, with the call that was in progress on it: the driver   *)
(* returned or its task was aborted.  The last strong reference takes the    *)
(* handle with it.                                                           *)
LoseHalf(a) ==
    /\ a \in arcs \ {"closer"}
    /\ pc[a] # "shut"
    /\ Abandon(a)
    /\ arcs' = arcs \ {a}
    /\ handle' = IF arcs' = {} /\ handle = "held" THEN "dropped"
                 ELSE HandleAfterDrop(a)
    /\ pc' = [pc EXCEPT ![a] = "gone"]
    /\ UNCHANGED <<writable, ending, sends, recvVars>>

(* What the port may count on: the only send that is dropped half way is its *)
(* first, the hello.                                                         *)
DropHalf(a) ==
    /\ pc[a] \in {"lock", "write"} => sends = 1
    /\ LoseHalf(a)

-----------------------------------------------------------------------------
EndStep(a) ==
    \/ ByeLocked(a) \/ ByeTimeout(a) \/ ShutStart(a) \/ ShutLocked(a) \/ ShutdownOver(a)

(* What only the peer makes happen: it takes the bytes, or the pipe breaks.  *)
PeerStep(a) == ByeWritten(a) \/ ByeFailed(a)

Next ==
    \/ SendStart \/ SendLocked \/ SendWritten \/ SendEvicted \/ SendFailed
    \/ TxClose \/ CloserClose
    \/ \E a \in Actors : EndStep(a) \/ PeerStep(a)
    \/ RecvCall \/ RecvReturns \/ ReadEnds \/ ReadChunk
    \/ RecvCancelled
    \/ \E a \in {"tx", "rx"} : DropHalf(a)

Spec == Init /\ [][Next]_vars

-----------------------------------------------------------------------------
Items == [kind : {"frame", "eof", "failed", "refused", "none"}, n : Nat]
Lines == [kind : {"frame", "farewell"}, whole : BOOLEAN]
Places == {"idle", "lock", "write", "bye", "byewrite", "shut",
           "shutlock", "shutdown", "done", "out", "in", "gone"}

(* Every variable of the port holds a value of its kind.                     *)
TypeOK ==
    /\ pc \in [Actors -> Places]
    /\ queue \in Seq(Actors)
    /\ writable \in BOOLEAN /\ ending \in BOOLEAN /\ terminal \in BOOLEAN
    /\ handle \in {"held", "taken", "dropped"}
    /\ arcs \subseteq Actors
    /\ wire \in Seq(Lines)
    /\ sends \in 0 .. MaxSends
    /\ pending \in Seq(Items) /\ reads \in Seq(Items) /\ items \in Seq(Items)
    /\ closure \in Items

(* recv loses nothing to a cancellation: what it has returned, what it still *)
(* holds and the closure it owes are together exactly what the stream        *)
(* produced, in order, whatever await its future was dropped at.             *)
RecvLosesNothing ==
    reads = (items \o pending)
            \o (IF closure = NoClosure THEN <<>> ELSE <<closure>>)

(* No frame follows a frame that was cut short.  Behind an evicted or a      *)
(* failed write not even a farewell does, although an ender may be queued    *)
(* for the lock: the comment of write_frame, "the half-written line does not *)
(* matter", rests on this.  Behind a hello whose driver was dropped while    *)
(* sending it the pipe is still writable and a farewell may follow, glued to *)
(* the torn line.  (A torn farewell is no frame; see the README.)            *)
TornFrameIsLastFrame ==
    \A i \in DOMAIN wire :
        wire[i] = Line("frame", FALSE) =>
            \/ i = Len(wire)
            \/ /\ sends = 1 /\ pc["tx"] = "gone"
               /\ \A j \in i + 1 .. Len(wire) : wire[j].kind = "farewell"

=============================================================================
