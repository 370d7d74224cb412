---------------------------- MODULE NdjsonProofs ----------------------------
(***************************************************************************)
(* Theorems about the newline-delimited port and the session that uses it,  *)
(* for any number of frames sent and read.                                  *)
(***************************************************************************)
EXTENDS NdjsonSession, SequenceTheorems, TLAPS

\* An actor in the middle of a write.
Writing(a) == pc[a] \in {"write", "byewrite"}

\* What the receive half holds are sequences of items, all of them accounted for.
RecvInv ==
    /\ pending \in Seq(Items) /\ reads \in Seq(Items) /\ items \in Seq(Items)
    /\ closure \in Items
    /\ RecvLosesNothing

\* The lock: whoever writes is at the head of its queue, and the receive half
\* writes nothing but farewells.
LockInv ==
    /\ pc \in [Actors -> Places]
    /\ queue \in Seq(Actors)
    /\ \A a \in Actors : Writing(a) => queue # <<>> /\ Head(queue) = a
    /\ pc["rx"] \notin {"lock", "write"}

\* Line i is a frame cut short.
TornAt(i) == wire[i] = Line("frame", FALSE)

\* Nothing can follow it: the writer is dead and nobody is in a write.
EndsTheWire(i) == i = Len(wire) /\ ~writable /\ \A a \in Actors : ~Writing(a)

\* It is the hello of a send half that is gone, and only farewells follow it.
IsLostHello(i) ==
    /\ sends = 1 /\ pc["tx"] = "gone"
    /\ \A j \in i + 1 .. Len(wire) : wire[j].kind = "farewell"

\* The pipe: a torn frame is followed by nothing, or was a hello.
WireInv ==
    /\ wire \in Seq(Lines)
    /\ \A i \in 1 .. Len(wire) : TornAt(i) => EndsTheWire(i) \/ IsLostHello(i)

-----------------------------------------------------------------------------
\* Leaving the lock's queue keeps everybody else's place, its head included.
LEMMA WithoutKeepsHead ==
    ASSUME queue \in Seq(Actors), NEW a \in Actors
    PROVE  /\ Without(a) \in Seq(Actors)
           /\ queue # <<>> /\ Head(queue) # a => Without(a) # <<>> /\ Head(Without(a)) = Head(queue)
<1>1. CASE ~Waits(a)
  BY <1>1 DEF Without
<1>2. CASE Waits(a)
  <2> DEFINE k == CHOOSE i \in 1 .. Len(queue) : queue[i] = a
  <2>1. k \in 1 .. Len(queue) /\ queue[k] = a
    BY <1>2 DEF Waits
  <2> HIDE DEF k
  <2>2. Len(queue) \in Nat /\ \A i \in 1 .. Len(queue) : queue[i] \in Actors
    OBVIOUS
  <2>3. /\ SubSeq(queue, 1, k - 1) \in Seq(Actors)
        /\ Len(SubSeq(queue, 1, k - 1)) = k - 1
        /\ SubSeq(queue, k + 1, Len(queue)) \in Seq(Actors)
    <3>1. \A i \in 1 .. k - 1 : queue[i] \in Actors
      BY <2>1, <2>2
    <3>2. \A i \in k + 1 .. Len(queue) : queue[i] \in Actors
      BY <2>1, <2>2
    <3>3. k - 1 \in Int /\ k + 1 \in Int /\ Len(queue) \in Int
      BY <2>1, <2>2
    <3>4. SubSeq(queue, k + 1, Len(queue)) \in Seq(Actors)
      BY <3>2, <3>3, SubSeqProperties
    <3>5. /\ SubSeq(queue, 1, k - 1) \in Seq(Actors)
          /\ Len(SubSeq(queue, 1, k - 1)) = IF 1 <= k - 1 THEN k - 1 - 1 + 1 ELSE 0
      BY <3>1, <3>3, SubSeqProperties
    <3> QED BY <2>1, <3>4, <3>5
  <2> DEFINE front == SubSeq(queue, 1, k - 1)
             back == SubSeq(queue, k + 1, Len(queue))
  <2>4. Without(a) = front \o back
    BY <1>2 DEF Without, k
  <2>5. ASSUME queue # <<>>, Head(queue) # a
        PROVE  front # <<>> /\ front[1] = Head(queue)
    <3>1. k > 1
      BY <2>1, <2>5
    <3>2. front[1] = queue[1]
      BY <2>1, <3>1
    <3> QED BY <2>1, <2>3, <2>5, <3>1, <3>2
  <2> HIDE DEF front, back
  <2>6. front \in Seq(Actors) /\ back \in Seq(Actors)
    BY <2>3 DEF front, back
  <2>7. front \o back \in Seq(Actors)
    BY <2>6
  <2>8. front # <<>> => front \o back # <<>> /\ Head(front \o back) = front[1]
    BY <2>6
  <2> QED BY <2>4, <2>5, <2>7, <2>8
<1> QED BY <1>1, <1>2

\* Without(a) after an actor in a write has left, or has been left alone by
\* another that waited behind it.
LEMMA LeavingKeepsLock ==
    ASSUME LockInv, NEW a \in Actors, NEW w \in Places \ {"lock", "write", "byewrite"},
           queue' = Without(a), pc' = [pc EXCEPT ![a] = w]
    PROVE  LockInv'
<1>1. Without(a) \in Seq(Actors)
  BY WithoutKeepsHead DEF LockInv
<1>2. ASSUME NEW b \in Actors, Writing(b)' PROVE queue' # <<>> /\ Head(queue') = b
  <2>1. b # a /\ Writing(b)
    BY <1>2 DEF LockInv, Writing
  <2>2. queue # <<>> /\ Head(queue) = b
    BY <2>1 DEF LockInv
  <2> QED BY <2>1, <2>2, WithoutKeepsHead DEF LockInv
<1> QED BY <1>1, <1>2 DEF LockInv, Actors, Places

\* A step that added at most one line, of kind k, to the pipe.
Grown(k) ==
    /\ wire' \in Seq(Lines)
    /\ Len(wire') \in {Len(wire), Len(wire) + 1}
    /\ \A i \in 1 .. Len(wire) : wire'[i] = wire[i]
    /\ \A i \in 1 .. Len(wire') : i > Len(wire) => wire'[i].kind = k

\* The lines a write can leave.
LEMMA LineIs ==
    ASSUME NEW k \in {"frame", "farewell"}, NEW whole \in BOOLEAN
    PROVE  /\ Line(k, whole) \in Lines /\ Line(k, whole).kind = k
           /\ Line(k, TRUE) # Line("frame", FALSE)
BY Zenon DEF Line, Lines

\* A write leaves at most its one line, torn or whole.
LEMMA WriteGrows ==
    ASSUME wire \in Seq(Lines), NEW k \in {"frame", "farewell"},
           \/ CutShort(k)
           \/ wire' = Append(wire, Line(k, TRUE))
    PROVE  Grown(k)
<1> DEFINE torn == Line(k, FALSE)
           whole == Line(k, TRUE)
<1>1. torn \in Lines /\ whole \in Lines /\ torn.kind = k /\ whole.kind = k
  BY LineIs
<1>2. PICK left \in {<<>>, <<torn>>, <<whole>>} : wire' = wire \o left
  <2>1. CASE CutShort(k)
    BY <2>1 DEF CutShort
  <2>2. CASE wire' = Append(wire, whole)
    BY <1>1, <2>2, AppendIsConcat
  <2> QED BY <2>1, <2>2
<1> HIDE DEF torn, whole
<1>3. left \in Seq(Lines) /\ Len(left) \in {0, 1} /\ (Len(left) = 1 => left[1].kind = k)
  <2>1. CASE left = <<>>
    BY <2>1
  <2>2. CASE left = <<torn>>
    BY <1>1, <2>2
  <2>3. CASE left = <<whole>>
    BY <1>1, <2>3
  <2> QED BY <2>1, <2>2, <2>3
<1>4. /\ wire \o left \in Seq(Lines)
      /\ Len(wire \o left) = Len(wire) + Len(left)
      /\ \A i \in 1 .. Len(wire) + Len(left) :
           (wire \o left)[i] = IF i <= Len(wire) THEN wire[i] ELSE left[i - Len(wire)]
  BY <1>3, ConcatProperties
<1>5. Len(wire) \in Nat /\ Len(left) \in Nat
  BY <1>3
<1>6. \A i \in 1 .. Len(wire) : wire'[i] = wire[i]
  BY <1>2, <1>4, <1>5
<1>7. ASSUME NEW i \in 1 .. Len(wire'), i > Len(wire) PROVE wire'[i].kind = k
  <2>1. Len(left) = 1 /\ i = Len(wire) + 1
    BY <1>2, <1>3, <1>4, <1>5, <1>7
  <2>2. wire'[i] = left[1]
    BY <1>2, <1>4, <1>5, <2>1
  <2> QED BY <1>3, <2>1, <2>2
<1>8. wire' \in Seq(Lines) /\ Len(wire') \in {Len(wire), Len(wire) + 1}
  BY <1>2, <1>3, <1>4, <1>5
<1> QED BY <1>6, <1>7, <1>8 DEF Grown

-----------------------------------------------------------------------------
\* The ways a step of actor a moves it to place w: it queues for the lock, it
\* enters a write as the queue's head, it lets go of the lock, or it stays where
\* it is in the queue.
Joins(a, w) == queue' = Append(queue, a) /\ ~(w \in {"write", "byewrite"})
Enters(a, w) == Holds(a) /\ queue' = queue
Releases(a, w) == Holds(a) /\ queue' = Tail(queue) /\ ~(w \in {"write", "byewrite"})
Stays(a, w) == queue' = queue /\ ~(w \in {"write", "byewrite"})

\* Each of them keeps the lock.
LEMMA MoveKeepsLock ==
    ASSUME LockInv, NEW a \in Actors, NEW w \in Places,
           a = "rx" => w \notin {"lock", "write"},
           pc' = [pc EXCEPT ![a] = w],
           Joins(a, w) \/ Enters(a, w) \/ Releases(a, w) \/ Stays(a, w)
    PROVE  LockInv'
<1>1. /\ pc \in [Actors -> Places] /\ queue \in Seq(Actors)
      /\ \A b \in Actors : Writing(b) => queue # <<>> /\ Head(queue) = b
      /\ pc["rx"] \notin {"lock", "write"} /\ "rx" \in Actors
  BY DEF LockInv, Actors
<1>2. pc' \in [Actors -> Places]
  BY <1>1
<1>3. pc'["rx"] \notin {"lock", "write"}
  BY <1>1
<1>4. queue' \in Seq(Actors)
  <2>1. CASE Joins(a, w)
    BY <1>1, <2>1 DEF Joins
  <2>2. CASE Releases(a, w)
    BY <1>1, <2>2 DEF Releases, Holds
  <2>3. CASE Enters(a, w) \/ Stays(a, w)
    BY <1>1, <2>3 DEF Enters, Stays
  <2> QED BY <2>1, <2>2, <2>3
<1>5. ASSUME NEW b \in Actors, Writing(b)' PROVE queue' # <<>> /\ Head(queue') = b
  <2>1. CASE b = a
    <3>1. w \in {"write", "byewrite"}
      BY <1>1, <1>5, <2>1 DEF Writing
    <3> QED BY <2>1, <3>1 DEF Joins, Enters, Releases, Stays, Holds
  <2>2. CASE b # a
    <3>1. Writing(b)
      BY <1>1, <1>5, <2>2 DEF Writing
    <3>2. queue # <<>> /\ Head(queue) = b
      BY <1>1, <3>1
    <3>3. CASE Joins(a, w)
      BY <1>1, <3>2, <3>3 DEF Joins
    <3>4. CASE Enters(a, w) \/ Releases(a, w) \/ Stays(a, w)
      BY <2>2, <3>2, <3>4 DEF Enters, Releases, Stays, Holds
    <3> QED BY <3>3, <3>4
  <2> QED BY <2>1, <2>2
<1> QED BY <1>2, <1>3, <1>4, <1>5 DEF LockInv

\* Every step of the port keeps the lock: an actor enters a write only as the
\* queue's head, and the head leaves only by its own step.
LEMMA LockKeeps ==
    ASSUME LockInv, Next
    PROVE  LockInv'
<1>0. {"tx", "rx", "closer"} = Actors
  BY DEF Actors
<1>1. ASSUME UNCHANGED <<pc, queue>> PROVE LockInv'
  BY <1>1 DEF LockInv, Writing
<1>2. ASSUME Writing("tx") PROVE Holds("tx")
  BY <1>0, <1>2 DEF LockInv, Holds
<1>3. CASE SendStart
  <2>1. \/ UNCHANGED <<pc, queue>>
        \/ pc' = [pc EXCEPT !["tx"] = "lock"] /\ Joins("tx", "lock")
    BY <1>3 DEF SendStart, Joins
  <2> QED BY <1>0, <1>1, <2>1, MoveKeepsLock DEF Places
<1>4. CASE SendLocked
  <2>1. \/ pc' = [pc EXCEPT !["tx"] = "write"] /\ Enters("tx", "write")
        \/ pc' = [pc EXCEPT !["tx"] = "idle"] /\ Releases("tx", "idle")
    BY <1>4 DEF SendLocked, Enters, Releases
  <2> QED BY <1>0, <2>1, MoveKeepsLock DEF Places
<1>5. CASE SendWritten \/ SendEvicted \/ SendFailed
  <2>1. pc' = [pc EXCEPT !["tx"] = "idle"] /\ Releases("tx", "idle")
    BY <1>2, <1>5
    DEF SendWritten, SendEvicted, SendFailed, SendCutShort, Releases, Writing
  <2> QED BY <1>0, <2>1, MoveKeepsLock DEF Places
<1>6. CASE TxClose
  <2>1. pc' = [pc EXCEPT !["tx"] = "bye"] /\ Joins("tx", "bye")
    BY <1>6 DEF TxClose, EndStart, Joins
  <2> QED BY <1>0, <2>1, MoveKeepsLock DEF Places
<1>7. CASE CloserClose
  <2>1. \/ pc' = [pc EXCEPT !["closer"] = "bye"] /\ Joins("closer", "bye")
        \/ pc' = [pc EXCEPT !["closer"] = "done"] /\ Stays("closer", "done")
    BY <1>7 DEF CloserClose, EndStart, Joins, Stays
  <2> QED BY <1>0, <2>1, MoveKeepsLock DEF Places
<1>8. ASSUME NEW a \in Actors, ByeLocked(a) PROVE LockInv'
  <2>1. \/ pc' = [pc EXCEPT ![a] = "byewrite"] /\ Enters(a, "byewrite")
        \/ pc' = [pc EXCEPT ![a] = "shut"] /\ Releases(a, "shut")
    BY <1>8 DEF ByeLocked, Enters, Releases
  <2> QED BY <2>1, MoveKeepsLock DEF Places
<1>9. ASSUME NEW a \in Actors, ByeTimeout(a) PROVE LockInv'
  BY <1>9, LeavingKeepsLock DEF ByeTimeout, Places
<1>10. ASSUME NEW a \in Actors, ShutStart(a) PROVE LockInv'
  <2>1. pc' = [pc EXCEPT ![a] = "shutlock"] /\ Joins(a, "shutlock")
    BY <1>10 DEF ShutStart, Joins
  <2> QED BY <2>1, MoveKeepsLock DEF Places
<1>11. ASSUME NEW a \in Actors, ShutLocked(a) PROVE LockInv'
  <2>1. \E w \in {"shutdown", "in", "done"} :
            pc' = [pc EXCEPT ![a] = w] /\ Releases(a, w)
    BY <1>11 DEF ShutLocked, AfterEnd, Releases
  <2> QED BY <2>1, MoveKeepsLock DEF Places
<1>12. ASSUME NEW a \in Actors, ShutdownOver(a) PROVE LockInv'
  <2>1. \E w \in {"in", "done"} : pc' = [pc EXCEPT ![a] = w] /\ Stays(a, w)
    BY <1>12 DEF ShutdownOver, AfterEnd, Stays
  <2> QED BY <2>1, MoveKeepsLock DEF Places
<1>13. ASSUME NEW a \in Actors, ByeWritten(a) \/ ByeFailed(a) PROVE LockInv'
  <2>1. pc[a] = "byewrite" /\ pc' = [pc EXCEPT ![a] = "shut"] /\ queue' = Tail(queue)
    BY <1>13 DEF ByeWritten, ByeFailed
  <2>2. Releases(a, "shut")
    BY <2>1 DEF LockInv, Writing, Holds, Releases
  <2> QED BY <2>1, <2>2, MoveKeepsLock DEF Places
<1>14. CASE RecvCall \/ RecvReturns \/ ReadEnds
  <2>1. \E w \in {"in", "out", "shut"} : pc' = [pc EXCEPT !["rx"] = w] /\ Stays("rx", w)
    BY <1>14 DEF RecvCall, RecvReturns, ReadEnds, writerVars, Stays
  <2> QED BY <1>0, <2>1, MoveKeepsLock DEF Places
<1>15. CASE ReadChunk
  <2>1. EndStart("rx") \/ UNCHANGED <<pc, queue>>
    BY <1>15, Zenon DEF ReadChunk
  <2>2. ASSUME EndStart("rx") PROVE LockInv'
    <3>1. pc' = [pc EXCEPT !["rx"] = "bye"] /\ Joins("rx", "bye")
      BY <2>2 DEF EndStart, Joins
    <3> QED BY <1>0, <3>1, MoveKeepsLock DEF Places
  <2> QED BY <1>1, <2>1, <2>2
<1>16. CASE RecvCancelled
  BY <1>16, LeavingKeepsLock DEF RecvCancelled, Abandon, Actors, Places
<1>17. ASSUME NEW a \in {"tx", "rx"}, DropHalf(a) PROVE LockInv'
  BY <1>17, LeavingKeepsLock DEF DropHalf, LoseHalf, Abandon, Actors, Places
<1> QED BY <1>3, <1>4, <1>5, <1>6, <1>7, <1>8, <1>9, <1>10, <1>11, <1>12, <1>13,
        <1>14, <1>15, <1>16, <1>17 DEF Next, EndStep, PeerStep

\* A send half that is gone stays gone, and sends nothing.
LEMMA GoneIsGone ==
    ASSUME LockInv, Next, pc["tx"] = "gone"
    PROVE  pc'["tx"] = "gone" /\ sends' = sends
<1>1. CASE SendStart \/ SendLocked \/ SendWritten \/ SendEvicted \/ SendFailed \/ TxClose
  BY <1>1 DEF SendStart, SendLocked, SendWritten, SendEvicted, SendFailed, SendCutShort, TxClose
<1>2. CASE CloserClose
  BY <1>2 DEF CloserClose, EndStart, LockInv, Actors
<1>3. ASSUME NEW a \in Actors, EndStep(a) \/ PeerStep(a)
      PROVE  pc'["tx"] = "gone" /\ sends' = sends
  <2>1. a # "tx"
    BY <1>3 DEF EndStep, PeerStep, ByeLocked, ByeTimeout, GraceOver, ShutStart, ShutLocked,
                ShutdownOver, ByeWritten, ByeFailed
  <2>2. CASE ByeLocked(a) \/ ByeTimeout(a)
    BY <2>1, <2>2 DEF ByeLocked, ByeTimeout, LockInv, Actors
  <2>3. CASE ShutStart(a) \/ ShutLocked(a) \/ ShutdownOver(a)
    BY <2>1, <2>3 DEF ShutStart, ShutLocked, ShutdownOver, LockInv, Actors
  <2>4. CASE ByeWritten(a) \/ ByeFailed(a)
    BY <2>1, <2>4 DEF ByeWritten, ByeFailed, LockInv, Actors
  <2> QED BY <1>3, <2>2, <2>3, <2>4 DEF EndStep, PeerStep
<1>4. CASE RecvCall \/ RecvReturns \/ ReadEnds \/ RecvCancelled
  BY <1>4 DEF RecvCall, RecvReturns, ReadEnds, RecvCancelled, LockInv, Actors
<1>5. CASE ReadChunk
  <2>1. sends' = sends /\ (EndStart("rx") \/ UNCHANGED <<pc, queue>>)
    BY <1>5, Zenon DEF ReadChunk
  <2> QED BY <2>1 DEF EndStart, LockInv, Actors
<1>6. ASSUME NEW a \in {"tx", "rx"}, DropHalf(a) PROVE pc'["tx"] = "gone" /\ sends' = sends
  BY <1>6 DEF DropHalf, LoseHalf, LockInv, Actors
<1> QED BY <1>1, <1>2, <1>3, <1>4, <1>5, <1>6 DEF Next

\* Every step of the port keeps the pipe: a torn frame leaves the writer dead or
\* the send half gone, and then no frame is added, only farewells if the writer
\* lives.
LEMMA WireKeeps ==
    ASSUME LockInv, WireInv, Next
    PROVE  WireInv'
<1>0. wire \in Seq(Lines) /\ Len(wire) \in Nat
  BY DEF WireInv
\* A farewell, whole or torn, is added by the one actor in a write.
<1>1. ASSUME NEW a \in Actors, Writing(a), Grown("farewell")
      PROVE  WireInv'
  <2> SUFFICES ASSUME NEW i \in 1 .. Len(wire'), TornAt(i)'
               PROVE  IsLostHello(i)'
    BY <1>1 DEF WireInv, Grown
  <2>1. i \in 1 .. Len(wire) /\ TornAt(i)
    <3>0. Len(wire') \in Nat
      BY <1>1 DEF Grown
    <3>1. wire'[i].kind = "frame"
      BY LineIs, Zenon DEF TornAt
    <3>2. ~(i > Len(wire))
      BY <1>1, <3>0, <3>1 DEF Grown
    <3>3. i \in 1 .. Len(wire)
      BY ONLY <1>0, <3>0, <3>2, i \in 1 .. Len(wire')
    <3>4. wire'[i] = wire[i]
      BY <1>1, <3>3 DEF Grown
    <3> QED BY <3>3, <3>4 DEF TornAt
  <2>2. IsLostHello(i)
    BY <1>1, <2>1 DEF WireInv, EndsTheWire
  <2>3. pc'["tx"] = "gone" /\ sends' = 1
    BY <2>2, GoneIsGone DEF IsLostHello
  <2>4. ASSUME NEW j \in i + 1 .. Len(wire') PROVE wire'[j].kind = "farewell"
    <3>1. CASE j > Len(wire)
      BY <1>0, <1>1, <2>1, <3>1 DEF Grown
    <3>2. CASE j <= Len(wire)
      BY <1>0, <1>1, <2>1, <2>2, <3>2 DEF Grown, IsLostHello
    <3> QED BY <1>0, <1>1, <2>1, <3>1, <3>2 DEF Grown
  <2> QED BY <2>3, <2>4 DEF IsLostHello
\* A frame, whole or torn, is added by the send half.
<1>2. ASSUME pc["tx"] = "write", Grown("frame"),
             \/ wire' = Append(wire, Line("frame", TRUE))
             \/ ~writable' /\ \A a \in Actors : ~Writing(a)'
             \/ sends' = 1 /\ pc'["tx"] = "gone"
      PROVE  WireInv'
  <2> SUFFICES ASSUME NEW i \in 1 .. Len(wire'), TornAt(i)'
               PROVE  EndsTheWire(i)' \/ IsLostHello(i)'
    BY <1>2 DEF WireInv, Grown
  <2>1. \A k \in 1 .. Len(wire) : ~TornAt(k)
    BY <1>2 DEF WireInv, EndsTheWire, IsLostHello, Writing, Actors
  <2>2. i = Len(wire') /\ i = Len(wire) + 1
    <3>1. ~(i \in 1 .. Len(wire))
      BY <1>2, <2>1 DEF Grown, TornAt
    <3> QED BY <1>0, <1>2, <3>1 DEF Grown
  <2>3. wire' # Append(wire, Line("frame", TRUE))
    <3>1. Line("frame", TRUE) \in Lines /\ Line("frame", TRUE) # Line("frame", FALSE)
      BY LineIs
    <3>2. ASSUME NEW l \in Lines, wire' = Append(wire, l) PROVE wire'[i] = l
      BY <1>0, <2>2, <3>2
    <3> QED BY <3>1, <3>2 DEF TornAt
  <2>4. \A j \in i + 1 .. Len(wire') : FALSE
    BY <1>0, <2>2
  <2> QED BY <1>2, <2>2, <2>3, <2>4 DEF EndsTheWire, IsLostHello
\* Nothing is added, and nobody enters a write unless the writer lives.
<1>4. ASSUME wire' = wire, ~writable => ~writable',
             \A a \in Actors : Writing(a)' => Writing(a) \/ writable
      PROVE  WireInv'
  <2> SUFFICES ASSUME NEW i \in 1 .. Len(wire), TornAt(i)
               PROVE  EndsTheWire(i)' \/ IsLostHello(i)'
    BY <1>0, <1>4 DEF WireInv, TornAt
  <2>1. CASE EndsTheWire(i)
    BY <1>4, <2>1 DEF EndsTheWire
  <2>2. CASE IsLostHello(i)
    BY <1>4, <2>2, GoneIsGone DEF IsLostHello
  <2> QED BY <2>1, <2>2 DEF WireInv
<1>5. CASE SendStart
  <2>1. wire' = wire /\ (~writable => ~writable')
    BY <1>5 DEF SendStart
  <2>2. \A b \in Actors : Writing(b)' => Writing(b) \/ writable
    BY <1>5 DEF SendStart, LockInv, Writing, Actors
  <2> QED BY <1>4, <2>1, <2>2
<1>6. CASE SendLocked
  <2>1. wire' = wire /\ (~writable => ~writable')
    BY <1>6 DEF SendLocked, CanWrite
  <2>2. \A b \in Actors : Writing(b)' => Writing(b) \/ writable
    BY <1>6 DEF SendLocked, CanWrite, LockInv, Writing, Actors
  <2> QED BY <1>4, <2>1, <2>2
<1>7. CASE TxClose
  <2>1. wire' = wire /\ (~writable => ~writable')
    BY <1>7 DEF TxClose, EndStart
  <2>2. \A b \in Actors : Writing(b)' => Writing(b) \/ writable
    BY <1>7 DEF TxClose, EndStart, LockInv, Writing, Actors
  <2> QED BY <1>4, <2>1, <2>2
<1>8. CASE CloserClose
  <2>1. wire' = wire /\ (~writable => ~writable')
    BY <1>8 DEF CloserClose, EndStart
  <2>2. \A b \in Actors : Writing(b)' => Writing(b) \/ writable
    BY <1>8 DEF CloserClose, EndStart, LockInv, Writing, Actors
  <2> QED BY <1>4, <2>1, <2>2
<1>9. CASE SendWritten
  <2>1. pc["tx"] = "write" /\ wire' = Append(wire, Line("frame", TRUE))
    BY <1>9 DEF SendWritten
  <2>2. Grown("frame")
    BY <1>0, <2>1, WriteGrows
  <2> QED BY <1>2, <2>1, <2>2
<1>10. CASE SendEvicted \/ SendFailed
  <2>1. /\ pc["tx"] = "write" /\ CutShort("frame") /\ ~writable'
        /\ pc' = [pc EXCEPT !["tx"] = "idle"]
    BY <1>10 DEF SendEvicted, SendFailed, Evicted, WriteFails, SendCutShort
  <2>2. Grown("frame")
    BY <1>0, <2>1, WriteGrows
  <2>3. ASSUME NEW a \in Actors PROVE ~Writing(a)'
    BY <2>1 DEF LockInv, Writing, Actors
  <2> QED BY <1>2, <2>1, <2>2, <2>3
<1>12. ASSUME NEW a \in Actors, ByeLocked(a) PROVE WireInv'
  <2>1. wire' = wire /\ (~writable => ~writable')
    BY <1>12 DEF ByeLocked, CanWrite
  <2>2. \A b \in Actors : Writing(b)' => Writing(b) \/ writable
    BY <1>12 DEF ByeLocked, CanWrite, LockInv, Writing, Actors
  <2> QED BY <1>4, <2>1, <2>2
<1>13. ASSUME NEW a \in Actors, ShutStart(a) PROVE WireInv'
  <2>1. wire' = wire /\ (~writable => ~writable')
    BY <1>13 DEF ShutStart
  <2>2. \A b \in Actors : Writing(b)' => Writing(b) \/ writable
    BY <1>13 DEF ShutStart, LockInv, Writing, Actors
  <2> QED BY <1>4, <2>1, <2>2
<1>14. ASSUME NEW a \in Actors, ShutLocked(a) PROVE WireInv'
  <2>1. wire' = wire /\ (~writable => ~writable')
    BY <1>14 DEF ShutLocked, TakeHandle, AfterEnd
  <2>2. \A b \in Actors : Writing(b)' => Writing(b) \/ writable
    BY <1>14 DEF ShutLocked, TakeHandle, AfterEnd, LockInv, Writing, Actors
  <2> QED BY <1>4, <2>1, <2>2
<1>15. ASSUME NEW a \in Actors, ShutdownOver(a) PROVE WireInv'
  <2>1. wire' = wire /\ (~writable => ~writable')
    BY <1>15 DEF ShutdownOver, AfterEnd
  <2>2. \A b \in Actors : Writing(b)' => Writing(b) \/ writable
    BY <1>15 DEF ShutdownOver, AfterEnd, LockInv, Writing, Actors
  <2> QED BY <1>4, <2>1, <2>2
<1>16. ASSUME NEW a \in Actors, ByeWritten(a) PROVE WireInv'
  <2>1. Writing(a) /\ wire' = Append(wire, Line("farewell", TRUE))
    BY <1>16 DEF ByeWritten, Writing
  <2> QED BY <1>0, <1>1, <2>1, WriteGrows
<1>17. ASSUME NEW a \in Actors, ByeFailed(a) PROVE WireInv'
  <2>1. Writing(a) /\ CutShort("farewell")
    BY <1>17 DEF ByeFailed, Writing
  <2> QED BY <1>0, <1>1, <2>1, WriteGrows
<1>18. ASSUME NEW a \in Actors, ByeTimeout(a) PROVE WireInv'
  <2>1. CASE pc[a] = "byewrite"
    <3>1. Writing(a) /\ a \in Actors /\ CutShort("farewell")
      BY <1>18, <2>1 DEF ByeTimeout, Writing, Actors
    <3> QED BY <1>0, <1>1, <3>1, WriteGrows
  <2>2. CASE pc[a] # "byewrite"
    <3>1. wire' = wire /\ writable' = writable
      BY <1>18, <2>2 DEF ByeTimeout
    <3>2. \A b \in Actors : Writing(b)' => Writing(b)
      BY <1>18 DEF ByeTimeout, LockInv, Writing, Actors
    <3> QED BY <1>4, <3>1, <3>2
  <2> QED BY <2>1, <2>2
<1>19. CASE RecvCall
  <2>1. wire' = wire /\ (~writable => ~writable')
    BY <1>19 DEF RecvCall, writerVars
  <2>2. \A b \in Actors : Writing(b)' => Writing(b) \/ writable
    BY <1>19 DEF RecvCall, writerVars, LockInv, Writing, Actors
  <2> QED BY <1>4, <2>1, <2>2
<1>20. CASE RecvReturns
  <2>1. wire' = wire /\ (~writable => ~writable')
    BY <1>20 DEF RecvReturns, writerVars
  <2>2. \A b \in Actors : Writing(b)' => Writing(b) \/ writable
    BY <1>20 DEF RecvReturns, writerVars, LockInv, Writing, Actors
  <2> QED BY <1>4, <2>1, <2>2
<1>21. CASE ReadEnds
  <2>1. wire' = wire /\ (~writable => ~writable')
    BY <1>21 DEF ReadEnds, writerVars
  <2>2. \A b \in Actors : Writing(b)' => Writing(b) \/ writable
    BY <1>21 DEF ReadEnds, writerVars, LockInv, Writing, Actors
  <2> QED BY <1>4, <2>1, <2>2
<1>22. CASE ReadChunk
  <2>1. wire' = wire /\ writable' = writable /\ (EndStart("rx") \/ UNCHANGED <<pc, queue>>)
    BY <1>22, Zenon DEF ReadChunk
  <2>2. \A b \in Actors : Writing(b)' => Writing(b)
    BY <2>1 DEF EndStart, LockInv, Writing, Actors
  <2> QED BY <1>4, <2>1, <2>2
<1>23. CASE RecvCancelled
  <2>1. CASE pc["rx"] = "byewrite"
    <3>1. Writing("rx") /\ "rx" \in Actors /\ CutShort("farewell")
      BY <1>23, <2>1 DEF RecvCancelled, Abandon, Writing, Actors
    <3> QED BY <1>0, <1>1, <3>1, WriteGrows
  <2>2. CASE pc["rx"] # "byewrite"
    <3>1. wire' = wire /\ writable' = writable
      BY <1>23, <2>2 DEF RecvCancelled, Abandon, LockInv
    <3>2. \A b \in Actors : Writing(b)' => Writing(b)
      BY <1>23 DEF RecvCancelled, Abandon, LockInv, Writing, Actors
    <3> QED BY <1>4, <3>1, <3>2
  <2> QED BY <2>1, <2>2
<1>24. ASSUME NEW a \in {"tx", "rx"}, DropHalf(a) PROVE WireInv'
  <2>0. pc' = [pc EXCEPT ![a] = "gone"] /\ writable' = writable /\ sends' = sends
    BY <1>24 DEF DropHalf, LoseHalf
  <2>1. CASE pc[a] = "byewrite"
    <3>1. Writing(a) /\ a \in Actors /\ CutShort("farewell")
      BY <1>24, <2>1 DEF DropHalf, LoseHalf, Abandon, Writing, Actors
    <3> QED BY <1>0, <1>1, <3>1, WriteGrows
  <2>2. CASE pc[a] = "write" /\ a = "tx"
    <3>1. CutShort("frame") /\ sends = 1
      BY <1>24, <2>2 DEF DropHalf, LoseHalf, Abandon
    <3>2. pc'["tx"] = "gone" /\ sends' = 1
      BY <2>0, <2>2, <3>1 DEF LockInv, Actors
    <3> QED BY <1>0, <1>2, <2>2, <3>1, <3>2, WriteGrows
  <2>3. CASE pc[a] \notin {"byewrite", "write"}
    <3>1. wire' = wire
      BY <1>24, <2>3 DEF DropHalf, LoseHalf, Abandon
    <3>2. \A b \in Actors : Writing(b)' => Writing(b)
      BY <2>0 DEF LockInv, Writing, Actors
    <3> QED BY <1>4, <2>0, <3>1, <3>2
  <2> QED BY <2>1, <2>2, <2>3 DEF LockInv
<1> QED BY <1>5, <1>6, <1>7, <1>8, <1>9, <1>10, <1>12, <1>13, <1>14, <1>15, <1>16,
        <1>17, <1>18, <1>19, <1>20, <1>21, <1>22, <1>23, <1>24
     DEF Next, EndStep, PeerStep

-----------------------------------------------------------------------------
\* The closure recv still owes, as a sequence.
Owed(c) == IF c = NoClosure THEN <<>> ELSE <<c>>

\* What the owed closure is of: itself, or nothing.
LEMMA OwedIs ==
    /\ NoClosure \in Items
    /\ \A k \in {"eof", "failed", "refused"} : Ended(k) \in Items /\ Ended(k) # NoClosure
    /\ \A c \in Items : Owed(c) \in Seq(Items)
    /\ \A c \in Items : c # NoClosure => Owed(c) = <<c>>
    /\ Owed(NoClosure) = <<>>
<1>1. NoClosure \in Items
  BY DEF NoClosure, Ended, Items
<1>2. \A k \in {"eof", "failed", "refused"} : Ended(k) \in Items /\ Ended(k) # NoClosure
  BY DEF NoClosure, Ended, Items
<1>3. \A c \in Items : Owed(c) \in Seq(Items)
  BY DEF Owed
<1> QED BY <1>1, <1>2, <1>3 DEF Owed

\* The account of recv in terms of Owed.
LEMMA LosesNothingIs ==
    /\ RecvLosesNothing <=> reads = (items \o pending) \o Owed(closure)
    /\ RecvLosesNothing' <=> reads' = (items' \o pending') \o Owed(closure')
BY DEF RecvLosesNothing, Owed

\* Every step of the port keeps the account: the ones that are not recv's own
\* leave it alone, a cancelled recv included.
LEMMA RecvKeeps ==
    ASSUME RecvInv, Next
    PROVE  RecvInv'
<1> USE DEF RecvInv
<1>1. CASE UNCHANGED recvVars
  BY <1>1, LosesNothingIs DEF recvVars
<1>2. CASE RecvReturns
  <2>1. reads' = reads /\ reads = (items \o pending) \o Owed(closure)
    BY <1>2, LosesNothingIs DEF RecvReturns
  <2>2. CASE pending # <<>>
    <3>1. /\ items' = Append(items, Head(pending)) /\ pending' = Tail(pending)
          /\ closure' = closure
      BY <1>2, <2>2 DEF RecvReturns
    <3>2. items' \in Seq(Items) /\ pending' \in Seq(Items)
      BY <2>2, <3>1
    <3>3. items' \o pending' = items \o pending
      BY <2>2, <3>1, <3>2
    <3> QED BY <2>1, <3>1, <3>2, <3>3, LosesNothingIs
  <2>3. CASE pending = <<>> /\ closure # NoClosure
    <3>1. /\ items' = Append(items, closure) /\ pending' = <<>>
          /\ closure' = NoClosure
      BY <1>2, <2>3 DEF RecvReturns
    <3>2. items' \in Seq(Items) /\ pending' \in Seq(Items) /\ closure' \in Items
      BY <3>1, OwedIs
    <3>3. reads = items \o <<closure>>
      <4>1. items \o <<>> = items
        OBVIOUS
      <4> QED BY <2>1, <2>3, <4>1, OwedIs
    <3>4. (items' \o <<>>) \o <<>> = items' /\ items' = items \o <<closure>>
      BY <3>1, <3>2, AppendIsConcat
    <3> QED BY <2>1, <3>1, <3>2, <3>3, <3>4, LosesNothingIs, OwedIs
  <2>4. CASE pending = <<>> /\ closure = NoClosure
    BY <1>2, <2>1, <2>4, LosesNothingIs DEF RecvReturns
  <2> QED BY <2>2, <2>3, <2>4
<1>3. CASE Reading /\ pending' = <<>> /\ items' = items
           /\ \E k \in {"eof", "failed"} : reads' = Append(reads, Ended(k)) /\ closure' = Ended(k)
  <2>1. PICK k \in {"eof", "failed"} : reads' = Append(reads, Ended(k)) /\ closure' = Ended(k)
    BY <1>3
  <2>2. Ended(k) \in Items /\ Owed(Ended(k)) = <<Ended(k)>>
    BY OwedIs
  <2>3. reads = items
    <3>1. reads = (items \o <<>>) \o <<>>
      BY <1>3, LosesNothingIs, OwedIs DEF Reading
    <3> QED BY <3>1
  <2>4. reads' = (items \o <<>>) \o <<Ended(k)>>
    <3>1. reads' = items \o <<Ended(k)>>
      BY <2>1, <2>2, <2>3, AppendIsConcat
    <3> QED BY <3>1
  <2>5. reads' \in Seq(Items) /\ pending' \in Seq(Items)
    BY <1>3, <2>1, <2>2
  <2> QED BY <1>3, <2>1, <2>2, <2>4, <2>5, LosesNothingIs
<1>4. CASE ReadChunk
  <2>1. PICK k \in 0 .. MaxReads - Len(reads), bad \in BOOLEAN :
          LET new == [i \in 1 .. k |-> Frame(Len(reads) + i)] IN
          /\ k + (IF bad THEN 1 ELSE 0) \in 1 .. MaxReads - Len(reads)
          /\ pending' = new
          /\ IF bad
               THEN /\ reads' = (reads \o new) \o <<Ended("refused")>>
                    /\ Record("refused")
                    /\ EndStart("rx")
               ELSE /\ reads' = reads \o new
                    /\ UNCHANGED <<closure, pc, queue>>
    BY <1>4 DEF ReadChunk
  <2> DEFINE new == [i \in 1 .. k |-> Frame(Len(reads) + i)]
  <2>2. new \in Seq(Items)
    <3>1. k \in Nat /\ Len(reads) \in Nat
      BY BoundsAssumption
    <3>2. \A i \in 1 .. k : Frame(Len(reads) + i) \in Items
      BY <3>1 DEF Frame, Items
    <3> QED BY <3>1, <3>2
  <2>3. pending' = new
    BY <2>1
  <2>4. \/ reads' = (reads \o new) \o <<Ended("refused")>> /\ closure' = Ended("refused")
        \/ reads' = reads \o new /\ closure' = closure
    BY <2>1 DEF Record
  <2> HIDE DEF new
  <2>5. reads = items /\ closure = NoClosure /\ items' = items
    <3>1. reads = (items \o <<>>) \o <<>>
      BY <1>4, LosesNothingIs, OwedIs DEF ReadChunk, Reading
    <3> QED BY <1>4, <3>1 DEF ReadChunk, Reading
  <2>6. CASE reads' = (reads \o new) \o <<Ended("refused")>> /\ closure' = Ended("refused")
    <3>1. Ended("refused") \in Items /\ Owed(Ended("refused")) = <<Ended("refused")>>
      BY OwedIs
    <3>2. reads' \in Seq(Items)
      BY <2>2, <2>6, <3>1
    <3> QED BY <2>2, <2>3, <2>5, <2>6, <3>1, <3>2, LosesNothingIs
  <2>7. CASE reads' = reads \o new /\ closure' = closure
    <3>1. reads' \in Seq(Items) /\ (items \o new) \o <<>> = items \o new
      BY <2>2, <2>7
    <3> QED BY <2>2, <2>3, <2>5, <2>7, <3>1, LosesNothingIs, OwedIs
  <2> QED BY <2>4, <2>6, <2>7
<1>5. CASE ReadEnds
  BY <1>3, <1>5 DEF ReadEnds, Record, Reading
<1> QED
  BY <1>1, <1>2, <1>4, <1>5
  DEF Next, EndStep, PeerStep, SendStart, SendLocked, SendWritten, SendEvicted, SendFailed,
      SendCutShort, TxClose, CloserClose, ByeLocked, ByeTimeout, ShutStart, ShutLocked,
      ShutdownOver, ByeWritten, ByeFailed, RecvCall, RecvCancelled, DropHalf, LoseHalf

-----------------------------------------------------------------------------
\* The variables the other invariants do not speak of keep their types.
FlagsTyped ==
    /\ writable \in BOOLEAN /\ ending \in BOOLEAN /\ terminal \in BOOLEAN
    /\ handle \in {"held", "taken", "dropped"}
    /\ arcs \subseteq Actors
    /\ sends \in 0 .. MaxSends

\* Every step of the port keeps them.
LEMMA FlagsKeep ==
    ASSUME FlagsTyped, Next
    PROVE  FlagsTyped'
<1>1. CASE SendStart
  <2>1. {writable', ending', terminal'} \subseteq BOOLEAN
    BY <1>1, Zenon DEF SendStart, FlagsTyped, writerVars, recvVars
  <2>2. handle' \in {"held", "taken", "dropped"} /\ arcs' \subseteq Actors /\ sends' \in 0 .. MaxSends
    BY <1>1, BoundsAssumption DEF SendStart, FlagsTyped, writerVars, recvVars, Actors
  <2> QED BY <2>1, <2>2, Zenon DEF FlagsTyped
<1>2. CASE SendLocked
  <2>1. {writable', ending', terminal'} \subseteq BOOLEAN
    BY <1>2, Zenon DEF SendLocked, FlagsTyped, writerVars, recvVars
  <2>2. handle' \in {"held", "taken", "dropped"} /\ arcs' \subseteq Actors /\ sends' \in 0 .. MaxSends
    BY <1>2, BoundsAssumption DEF SendLocked, FlagsTyped, writerVars, recvVars, Actors
  <2> QED BY <2>1, <2>2, Zenon DEF FlagsTyped
<1>3. CASE SendWritten
  <2>1. {writable', ending', terminal'} \subseteq BOOLEAN
    BY <1>3, Zenon DEF SendWritten, FlagsTyped, writerVars, recvVars
  <2>2. handle' \in {"held", "taken", "dropped"} /\ arcs' \subseteq Actors /\ sends' \in 0 .. MaxSends
    BY <1>3, BoundsAssumption DEF SendWritten, FlagsTyped, writerVars, recvVars, Actors
  <2> QED BY <2>1, <2>2, Zenon DEF FlagsTyped
<1>4. CASE SendEvicted
  <2>1. {writable', ending', terminal'} \subseteq BOOLEAN
    BY <1>4, Zenon DEF SendEvicted, Evicted, SendCutShort, FlagsTyped, writerVars, recvVars
  <2>2. handle' \in {"held", "taken", "dropped"} /\ arcs' \subseteq Actors /\ sends' \in 0 .. MaxSends
    BY <1>4, BoundsAssumption DEF SendEvicted, Evicted, SendCutShort, FlagsTyped, writerVars, recvVars, Actors
  <2> QED BY <2>1, <2>2, Zenon DEF FlagsTyped
<1>5. CASE SendFailed
  <2>1. {writable', ending', terminal'} \subseteq BOOLEAN
    BY <1>5, Zenon DEF SendFailed, WriteFails, SendCutShort, FlagsTyped, writerVars, recvVars
  <2>2. handle' \in {"held", "taken", "dropped"} /\ arcs' \subseteq Actors /\ sends' \in 0 .. MaxSends
    BY <1>5, BoundsAssumption DEF SendFailed, WriteFails, SendCutShort, FlagsTyped, writerVars, recvVars, Actors
  <2> QED BY <2>1, <2>2, Zenon DEF FlagsTyped
<1>6. CASE TxClose
  <2>1. {writable', ending', terminal'} \subseteq BOOLEAN
    BY <1>6, Zenon DEF TxClose, FlagsTyped, writerVars, recvVars
  <2>2. handle' \in {"held", "taken", "dropped"} /\ arcs' \subseteq Actors /\ sends' \in 0 .. MaxSends
    BY <1>6, BoundsAssumption DEF TxClose, FlagsTyped, writerVars, recvVars, Actors
  <2> QED BY <2>1, <2>2, Zenon DEF FlagsTyped
<1>7. CASE CloserClose
  <2>1. {writable', ending', terminal'} \subseteq BOOLEAN
    BY <1>7, Zenon DEF CloserClose, FlagsTyped, writerVars, recvVars
  <2>2. handle' \in {"held", "taken", "dropped"} /\ arcs' \subseteq Actors /\ sends' \in 0 .. MaxSends
    BY <1>7, BoundsAssumption DEF CloserClose, FlagsTyped, writerVars, recvVars, Actors
  <2> QED BY <2>1, <2>2, Zenon DEF FlagsTyped
<1>8. ASSUME NEW a \in Actors, ByeLocked(a) PROVE FlagsTyped'
  <2>1. {writable', ending', terminal'} \subseteq BOOLEAN
    BY <1>8, Zenon DEF ByeLocked, FlagsTyped, writerVars, recvVars
  <2>2. handle' \in {"held", "taken", "dropped"} /\ arcs' \subseteq Actors /\ sends' \in 0 .. MaxSends
    BY <1>8, BoundsAssumption DEF ByeLocked, FlagsTyped, writerVars, recvVars, Actors
  <2> QED BY <2>1, <2>2, Zenon DEF FlagsTyped
<1>9. ASSUME NEW a \in Actors, ByeTimeout(a) PROVE FlagsTyped'
  <2>1. {writable', ending', terminal'} \subseteq BOOLEAN
    BY <1>9, Zenon DEF ByeTimeout, FlagsTyped, writerVars, recvVars
  <2>2. handle' \in {"held", "taken", "dropped"} /\ arcs' \subseteq Actors /\ sends' \in 0 .. MaxSends
    BY <1>9, BoundsAssumption DEF ByeTimeout, FlagsTyped, writerVars, recvVars, Actors
  <2> QED BY <2>1, <2>2, Zenon DEF FlagsTyped
<1>10. ASSUME NEW a \in Actors, ShutStart(a) PROVE FlagsTyped'
  <2>1. {writable', ending', terminal'} \subseteq BOOLEAN
    BY <1>10, Zenon DEF ShutStart, FlagsTyped, writerVars, recvVars
  <2>2. handle' \in {"held", "taken", "dropped"} /\ arcs' \subseteq Actors /\ sends' \in 0 .. MaxSends
    BY <1>10, BoundsAssumption DEF ShutStart, FlagsTyped, writerVars, recvVars, Actors
  <2> QED BY <2>1, <2>2, Zenon DEF FlagsTyped
<1>11. ASSUME NEW a \in Actors, ShutLocked(a) PROVE FlagsTyped'
  <2>1. {writable', ending', terminal'} \subseteq BOOLEAN
    BY <1>11, Zenon DEF ShutLocked, TakeHandle, Settle, FlagsTyped, writerVars, recvVars
  <2>2. handle' \in {"held", "taken", "dropped"} /\ arcs' \subseteq Actors /\ sends' \in 0 .. MaxSends
    BY <1>11, BoundsAssumption DEF ShutLocked, TakeHandle, Settle, FlagsTyped, writerVars, recvVars, Actors
  <2> QED BY <2>1, <2>2, Zenon DEF FlagsTyped
<1>12. ASSUME NEW a \in Actors, ShutdownOver(a) PROVE FlagsTyped'
  <2>1. {writable', ending', terminal'} \subseteq BOOLEAN
    BY <1>12, Zenon DEF ShutdownOver, Settle, FlagsTyped, writerVars, recvVars
  <2>2. handle' \in {"held", "taken", "dropped"} /\ arcs' \subseteq Actors /\ sends' \in 0 .. MaxSends
    BY <1>12, BoundsAssumption DEF ShutdownOver, Settle, FlagsTyped, writerVars, recvVars, Actors
  <2> QED BY <2>1, <2>2, Zenon DEF FlagsTyped
<1>13. ASSUME NEW a \in Actors, ByeWritten(a) PROVE FlagsTyped'
  <2>1. {writable', ending', terminal'} \subseteq BOOLEAN
    BY <1>13, Zenon DEF ByeWritten, FlagsTyped, writerVars, recvVars
  <2>2. handle' \in {"held", "taken", "dropped"} /\ arcs' \subseteq Actors /\ sends' \in 0 .. MaxSends
    BY <1>13, BoundsAssumption DEF ByeWritten, FlagsTyped, writerVars, recvVars, Actors
  <2> QED BY <2>1, <2>2, Zenon DEF FlagsTyped
<1>14. ASSUME NEW a \in Actors, ByeFailed(a) PROVE FlagsTyped'
  <2>1. {writable', ending', terminal'} \subseteq BOOLEAN
    BY <1>14, Zenon DEF ByeFailed, WriteFails, FlagsTyped, writerVars, recvVars
  <2>2. handle' \in {"held", "taken", "dropped"} /\ arcs' \subseteq Actors /\ sends' \in 0 .. MaxSends
    BY <1>14, BoundsAssumption DEF ByeFailed, WriteFails, FlagsTyped, writerVars, recvVars, Actors
  <2> QED BY <2>1, <2>2, Zenon DEF FlagsTyped
<1>15. CASE RecvCall
  <2>1. {writable', ending', terminal'} \subseteq BOOLEAN
    BY <1>15, Zenon DEF RecvCall, FlagsTyped, writerVars, recvVars
  <2>2. handle' \in {"held", "taken", "dropped"} /\ arcs' \subseteq Actors /\ sends' \in 0 .. MaxSends
    BY <1>15, BoundsAssumption DEF RecvCall, FlagsTyped, writerVars, recvVars, Actors
  <2> QED BY <2>1, <2>2, Zenon DEF FlagsTyped
<1>16. CASE RecvReturns
  <2>1. {writable', ending', terminal'} \subseteq BOOLEAN
    BY <1>16, Zenon DEF RecvReturns, FlagsTyped, writerVars, recvVars
  <2>2. handle' \in {"held", "taken", "dropped"} /\ arcs' \subseteq Actors /\ sends' \in 0 .. MaxSends
    BY <1>16, BoundsAssumption DEF RecvReturns, FlagsTyped, writerVars, recvVars, Actors
  <2> QED BY <2>1, <2>2, Zenon DEF FlagsTyped
<1>17. CASE ReadEnds
  <2>1. {writable', ending', terminal'} \subseteq BOOLEAN
    BY <1>17, Zenon DEF ReadEnds, FlagsTyped, writerVars, recvVars
  <2>2. handle' \in {"held", "taken", "dropped"} /\ arcs' \subseteq Actors /\ sends' \in 0 .. MaxSends
    BY <1>17, BoundsAssumption DEF ReadEnds, FlagsTyped, writerVars, recvVars, Actors
  <2> QED BY <2>1, <2>2, Zenon DEF FlagsTyped
<1>18. CASE ReadChunk
  <2>1. {writable', ending', terminal'} \subseteq BOOLEAN
    BY <1>18, Zenon DEF ReadChunk, FlagsTyped, writerVars, recvVars
  <2>2. handle' \in {"held", "taken", "dropped"} /\ arcs' \subseteq Actors /\ sends' \in 0 .. MaxSends
    BY <1>18, BoundsAssumption DEF ReadChunk, FlagsTyped, writerVars, recvVars, Actors
  <2> QED BY <2>1, <2>2, Zenon DEF FlagsTyped
<1>19. CASE RecvCancelled
  <2>1. {writable', ending', terminal'} \subseteq BOOLEAN
    BY <1>19, Zenon DEF RecvCancelled, HandleAfterDrop, FlagsTyped, writerVars, recvVars
  <2>2. handle' \in {"held", "taken", "dropped"} /\ arcs' \subseteq Actors /\ sends' \in 0 .. MaxSends
    BY <1>19, BoundsAssumption DEF RecvCancelled, HandleAfterDrop, FlagsTyped, writerVars, recvVars, Actors
  <2> QED BY <2>1, <2>2, Zenon DEF FlagsTyped
<1>20. ASSUME NEW a \in {"tx", "rx"}, DropHalf(a) PROVE FlagsTyped'
  <2>1. {writable', ending', terminal'} \subseteq BOOLEAN
    BY <1>20, Zenon DEF DropHalf, LoseHalf, HandleAfterDrop, FlagsTyped, writerVars, recvVars
  <2>2. handle' \in {"held", "taken", "dropped"} /\ arcs' \subseteq Actors /\ sends' \in 0 .. MaxSends
    BY <1>20, BoundsAssumption DEF DropHalf, LoseHalf, HandleAfterDrop, FlagsTyped, writerVars, recvVars, Actors
  <2> QED BY <2>1, <2>2, Zenon DEF FlagsTyped
<1> QED BY <1>1, <1>2, <1>3, <1>4, <1>5, <1>6, <1>7, <1>8, <1>9, <1>10, <1>11, <1>12,
           <1>13, <1>14, <1>15, <1>16, <1>17, <1>18, <1>19, <1>20
        DEF Next, EndStep, PeerStep

-----------------------------------------------------------------------------
\* The inductive invariant of the port.
PortInv == RecvInv /\ LockInv /\ WireInv /\ FlagsTyped

\* The invariant holds initially and every step keeps it.
LEMMA PortInductive ==
    /\ Init => PortInv
    /\ PortInv /\ [Next]_vars => PortInv'
<1>1. ASSUME Init PROVE PortInv
  <2>1. /\ queue = <<>> /\ wire = <<>> /\ pending = <<>> /\ reads = <<>> /\ items = <<>>
        /\ closure = NoClosure
        /\ pc = [a \in Actors |-> IF a = "rx" THEN "out" ELSE "idle"]
    BY <1>1, Zenon DEF Init
  <2>2. RecvInv
    <3>1. (<<>> \o <<>>) \o <<>> = <<>> /\ <<>> \in Seq(Items)
      OBVIOUS
    <3> QED BY <2>1, <3>1, OwedIs, LosesNothingIs DEF RecvInv
  <2>3. LockInv
    BY <2>1 DEF LockInv, Writing, Actors, Places
  <2>4. WireInv
    BY <2>1 DEF WireInv
  <2>5. FlagsTyped
    <3>1. {writable, ending, terminal} \subseteq BOOLEAN
      BY <1>1, Zenon DEF Init
    <3>2. handle = "held" /\ arcs = {"tx", "rx"} /\ sends = 0
      BY <1>1, Zenon DEF Init
    <3>3. arcs \subseteq Actors /\ sends \in 0 .. MaxSends
      BY <3>2, BoundsAssumption DEF Actors
    <3> QED BY <3>1, <3>2, <3>3, Zenon DEF FlagsTyped
  <2> QED BY <2>2, <2>3, <2>4, <2>5 DEF PortInv
<1>2. ASSUME PortInv, UNCHANGED vars PROVE PortInv'
  <2>1. RecvInv'
    BY <1>2, LosesNothingIs DEF PortInv, RecvInv, vars, recvVars
  <2>2. LockInv'
    BY <1>2 DEF PortInv, LockInv, Writing, vars, writerVars
  <2>3. WireInv'
    BY <1>2 DEF PortInv, WireInv, TornAt, EndsTheWire, IsLostHello, Writing, vars, writerVars
  <2>4. FlagsTyped'
    BY <1>2, Zenon DEF PortInv, FlagsTyped, vars, writerVars, recvVars
  <2> QED BY <2>1, <2>2, <2>3, <2>4 DEF PortInv
<1>3. ASSUME PortInv, Next PROVE PortInv'
  BY <1>3, RecvKeeps, LockKeeps, WireKeeps, FlagsKeep DEF PortInv
<1> QED BY <1>1, <1>2, <1>3

\* The port keeps its invariant whoever uses it.
LEMMA PortIsSound == Spec => []PortInv
BY PortInductive, PTL DEF Spec

\* Every variable of the port keeps its type.
LEMMA PortTypeCorrect == Spec => []TypeOK
<1>1. PortInv => TypeOK
  BY Zenon DEF PortInv, RecvInv, LockInv, WireInv, FlagsTyped, TypeOK
<1> QED BY <1>1, PortIsSound, PTL

\* What the session owes the port: nothing is queued for a writer task before the
\* hello is out, which is the first send, and a half being closed sends nothing.
SessionInv ==
    /\ driver \in {"hello", "greeting"} => outbox = 0
    /\ driver = "hello" => sends = 0 /\ pc["tx"] = "idle"
    /\ driver = "greeting" => sends = 1
    /\ driver = "farewell" => pc["tx"] \notin {"idle", "lock", "write"}

\* A step of the session is a step of the port, or leaves it alone.
LEMMA SessionStepIsPortStep ==
    ASSUME SessionInv, LockInv, [SessionNext]_allVars
    PROVE  [Next]_vars
<1>1. CASE UNCHANGED allVars
  BY <1>1 DEF allVars
<1>2. CASE Enqueue \/ DriverCloses \/ FarewellOver
  BY <1>2 DEF Enqueue, DriverCloses, FarewellOver
<1>3. CASE HelloStart \/ HelloStep \/ HelloPeerStep
  BY <1>3 DEF HelloStart, HelloStep, HelloPeerStep, Next
<1>4. CASE WriterTakes \/ WriterStep \/ WriterPeerStep
  BY <1>4 DEF WriterTakes, WriterStep, WriterPeerStep, Next
<1>5. CASE DriverRecv
  BY <1>5 DEF DriverRecv, Next
\* The receive half is never in the middle of a send.
<1>6. CASE LoseHalf("rx")
  BY <1>6 DEF DropHalf, LockInv, Next
<1>7. CASE Publish \/ DropCompletes
  BY <1>6, <1>7 DEF Publish, DropCompletes
\* The send half is dropped idle, closing, or in the middle of the hello.
<1>8. CASE FlushOver \/ AbortedWriterEnds
  BY <1>8 DEF FlushOver, WriterReturned, AbortedWriterEnds, WriterDropped, DropHalf, Next
<1>9. CASE DriverAborted
  <2>1. CASE OwnsTx
    <3>1. LoseHalf("tx") /\ (pc["tx"] \in {"lock", "write"} => sends = 1)
      BY <1>9, <2>1 DEF DriverAborted, OwnsTx, SessionInv
    <3> QED BY <3>1 DEF DropHalf, Next
  <2>2. CASE ~OwnsTx
    BY <1>6, <1>9, <2>2 DEF DriverAborted
  <2> QED BY <2>1, <2>2
<1>10. CASE ListenerCloses \/ \E a \in Actors : EndSteps(a) \/ PeerSteps(a)
  BY <1>10 DEF ListenerCloses, EndSteps, PeerSteps, Next
<1> QED BY <1>1, <1>2, <1>3, <1>4, <1>5, <1>7, <1>8, <1>9, <1>10 DEF SessionNext

\* Every step of the session keeps what it owes.
LEMMA SessionKeeps ==
    ASSUME SessionInv, LockInv, [SessionNext]_allVars
    PROVE  SessionInv'
<1> USE DEF SessionInv
<1>1. CASE UNCHANGED allVars
  BY <1>1 DEF allVars, vars, sessionVars
<1>2. CASE Enqueue \/ DriverCloses \/ FarewellOver
  BY <1>2 DEF Enqueue, DriverCloses, FarewellOver, vars
<1>3. CASE HelloStart
  <2>1. CASE UNCHANGED vars /\ HelloRefused
    BY <1>3, <2>1 DEF HelloStart, HelloRefused, vars
  <2>2. CASE SendStart
    BY <1>3, <2>2 DEF HelloStart, HelloRefused, SendStart
  <2> QED BY <1>3, <2>1, <2>2 DEF HelloStart
<1>4. CASE HelloStep
  BY <1>4 DEF HelloStep, HelloRefused, SendLocked, SendEvicted, SendCutShort
<1>5. CASE HelloPeerStep
  BY <1>5 DEF HelloPeerStep, HelloRefused, SendWritten, SendFailed, SendCutShort
<1>6. CASE WriterTakes
  <2>1. pc["tx"] = "idle" /\ outbox > 0 /\ driver' = driver
    BY <1>6 DEF WriterTakes, SendStart
  <2>2. driver \notin {"hello", "greeting", "farewell"}
    BY <2>1
  <2> QED BY <2>1, <2>2
<1>7. CASE WriterStep \/ WriterPeerStep
  <2>1. pc["tx"] \in {"lock", "write"} /\ driver # "greeting" /\ driver' = driver
    BY <1>7 DEF WriterStep, WriterPeerStep, SendLocked, SendEvicted, SendWritten, SendFailed,
                SendCutShort, sessionVars
  <2>2. driver \notin {"hello", "greeting", "farewell"}
    BY <2>1
  <2> QED BY <2>1, <2>2
<1>8. CASE DriverRecv
  <2>1. driver = "run" /\ driver' \in {"run", "flush"}
    BY <1>8 DEF DriverRecv, sessionVars
  <2> QED BY <2>1
<1>9. CASE FlushOver
  <2>1. CASE closePort
    <3>1. pc' = [pc EXCEPT !["tx"] = "bye"] /\ driver' = "farewell"
      BY <1>9, <2>1 DEF FlushOver, TxClose, EndStart
    <3> QED BY <3>1 DEF LockInv, Actors
  <2>2. CASE ~closePort
    BY <1>9, <2>2 DEF FlushOver
  <2> QED BY <2>1, <2>2
<1>10. CASE Publish \/ DriverAborted \/ DropCompletes
  <2>1. driver' \in {"published", "dropping", "aborted"}
    BY <1>10 DEF Publish, DriverAborted, DropCompletes
  <2> QED BY <2>1
<1>11. CASE AbortedWriterEnds
  BY <1>11 DEF AbortedWriterEnds, sessionVars
\* An ender's step leaves the send half alone, or is its own and moves it on.
<1>12. ASSUME NEW a \in Actors, EndStep(a) \/ PeerStep(a), UNCHANGED sessionVars
       PROVE  SessionInv'
  <2>1. /\ pc[a] \notin {"idle", "lock", "write"} /\ sends' = sends
        /\ \E w \in {"byewrite", "shut", "shutlock", "shutdown", "in", "done"} :
              pc' = [pc EXCEPT ![a] = w]
    <3>1. CASE ByeLocked(a) \/ ByeTimeout(a)
      BY <3>1 DEF ByeLocked, ByeTimeout, GraceOver
    <3>2. CASE ShutStart(a) \/ ShutLocked(a) \/ ShutdownOver(a)
      BY <3>2 DEF ShutStart, ShutLocked, ShutdownOver, AfterEnd
    <3>3. CASE ByeWritten(a) \/ ByeFailed(a)
      BY <3>3 DEF ByeWritten, ByeFailed
    <3> QED BY <1>12, <3>1, <3>2, <3>3 DEF EndStep, PeerStep
  <2> QED BY <1>12, <2>1 DEF LockInv, Actors, sessionVars
<1>13. CASE ListenerCloses
  <2>1. pc'["tx"] = pc["tx"] /\ sends' = sends /\ UNCHANGED sessionVars
    BY <1>13 DEF ListenerCloses, CloserClose, EndStart, LockInv, Actors
  <2> QED BY <2>1 DEF sessionVars
<1> QED BY <1>1, <1>2, <1>3, <1>4, <1>5, <1>6, <1>7, <1>8, <1>9, <1>10, <1>11, <1>12, <1>13
        DEF SessionNext, EndSteps, PeerSteps

\* SessionDriver::run, Writer and teardown (session/driver.rs:48, :122,
\* session/teardown.rs:93): whatever the session does is a use of the port that the
\* port allows.  A driver aborted while it sends the hello abandons that send; the
\* sends of the writer task are never abandoned.
THEOREM SessionUsesPort == LiveSpec => PortSpec
<1>1. SessionInit => Init /\ SessionInv /\ LockInv
  BY PortInductive DEF SessionInit, SessionInv, Init, PortInv, Actors
<1>2. SessionInv /\ LockInv /\ [SessionNext]_allVars => [Next]_vars
  BY SessionStepIsPortStep
<1>3. SessionInv /\ LockInv /\ [SessionNext]_allVars => SessionInv'
  BY SessionKeeps
<1>4. LockInv /\ [Next]_vars => LockInv'
  <2>1. ASSUME LockInv, UNCHANGED vars PROVE LockInv'
    BY <2>1 DEF LockInv, Writing, vars, writerVars
  <2> QED BY <2>1, LockKeeps
<1> QED BY <1>1, <1>2, <1>3, <1>4, PTL DEF LiveSpec, PortSpec, Spec

\* NdjsonRx::recv (transports/ndjson.rs:330) is cancel safe: for any stream and any
\* cancellations, what it returned and still holds is what the stream produced.
THEOREM RecvIsCancelSafe == LiveSpec => []RecvLosesNothing
<1>1. PortInv => RecvLosesNothing
  BY DEF PortInv, RecvInv
<1> QED BY <1>1, PortIsSound, SessionUsesPort, PTL DEF PortSpec

\* SharedWriter::write_frame (transports/ndjson.rs:461): no frame is ever written
\* behind a frame cut short, whoever cut it, and not even a farewell is unless the
\* frame was the hello of a driver that was dropped.
THEOREM TornFrameEndsTheFrames == LiveSpec => []TornFrameIsLastFrame
<1>1. ASSUME PortInv PROVE TornFrameIsLastFrame
  <2>1. wire \in Seq(Lines)
    BY <1>1 DEF PortInv, WireInv
  <2>2. DOMAIN wire = 1 .. Len(wire)
    BY <2>1
  <2>3. \A i \in 1 .. Len(wire) : TornAt(i) => EndsTheWire(i) \/ IsLostHello(i)
    BY <1>1 DEF PortInv, WireInv
  <2> QED BY <2>2, <2>3, Zenon DEF TornAt, EndsTheWire, IsLostHello, TornFrameIsLastFrame
<1> QED BY <1>1, PortIsSound, SessionUsesPort, PTL DEF PortSpec

=============================================================================
