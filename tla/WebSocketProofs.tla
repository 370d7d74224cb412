--------------------------- MODULE WebSocketProofs ---------------------------
(***************************************************************************)
(* Theorems about the WebSocket port and the upgrade that leads to it, for  *)
(* any frame limit and any number of frames.                                *)
(***************************************************************************)
EXTENDS WebSocketUpgrade, FiniteSetTheorems, TLAPS

\* The places of a queue that hold chunks.
Writes(q) == {i \in 1 .. Len(q) : q[i] # "close"}

-----------------------------------------------------------------------------
\* How many chunks a queue holds is a natural number, none for an empty one.
LEMMA WritesFinite ==
    ASSUME NEW q \in Seq(Commands)
    PROVE  /\ IsFiniteSet(Writes(q))
           /\ Cardinality(Writes(q)) \in Nat
           /\ q = <<>> => Cardinality(Writes(q)) = 0
<1>1. IsFiniteSet(1 .. Len(q))
  BY FS_Interval
<1>2. Writes(q) \in SUBSET (1 .. Len(q))
  BY DEF Writes
<1>3. IsFiniteSet(Writes(q))
  BY <1>1, <1>2, FS_Subset
<1>4. q = <<>> => Writes(q) = {}
  BY DEF Writes
<1> QED BY <1>3, <1>4, FS_CardinalityType, FS_EmptySet

\* Queueing a command adds one when it carries chunks.
LEMMA WritesAppend ==
    ASSUME NEW q \in Seq(Commands), NEW c \in Commands
    PROVE  Cardinality(Writes(Append(q, c))) =
             Cardinality(Writes(q)) + (IF c # "close" THEN 1 ELSE 0)
<1>1. IsFiniteSet(Writes(q)) /\ Cardinality(Writes(q)) \in Nat
  BY WritesFinite
<1>2. CASE c = "close"
  <2>1. Writes(Append(q, c)) = Writes(q)
    BY <1>2 DEF Writes
  <2> QED BY <1>1, <1>2, <2>1
<1>3. CASE c # "close"
  <2>1. Writes(Append(q, c)) = Writes(q) \cup {Len(q) + 1}
    BY <1>3 DEF Writes
  <2>2. Len(q) + 1 \notin Writes(q)
    BY DEF Writes
  <2>3. Cardinality(Writes(q) \cup {Len(q) + 1}) = Cardinality(Writes(q)) + 1
    BY <1>1, <2>2, FS_AddElement
  <2> QED BY <1>3, <2>1, <2>3
<1> QED BY <1>2, <1>3

\* Taking the oldest command takes one away when it carried chunks.
LEMMA WritesTail ==
    ASSUME NEW q \in Seq(Commands), q # <<>>
    PROVE  Cardinality(Writes(Tail(q))) =
             Cardinality(Writes(q)) - (IF Head(q) # "close" THEN 1 ELSE 0)
<1> DEFINE Later == Writes(q) \ {1}
           f == [i \in Writes(Tail(q)) |-> i + 1]
<1>1. IsFiniteSet(Writes(q)) /\ Cardinality(Writes(q)) \in Nat
  BY WritesFinite
<1>2. Tail(q) \in Seq(Commands) /\ Len(q) \in Nat \ {0} /\ Len(Tail(q)) = Len(q) - 1
  OBVIOUS
<1>3. \A i \in 1 .. Len(q) - 1 : Tail(q)[i] = q[i + 1]
  OBVIOUS
<1>4. f \in Bijection(Writes(Tail(q)), Later)
  <2>1. f \in [Writes(Tail(q)) -> Later]
    BY <1>2, <1>3 DEF Writes
  <2>2. \A i, j \in Writes(Tail(q)) : f[i] = f[j] => i = j
    BY DEF Writes
  <2>3. \A k \in Later : \E i \in Writes(Tail(q)) : f[i] = k
    <3> SUFFICES ASSUME NEW k \in Later PROVE \E i \in Writes(Tail(q)) : f[i] = k
      OBVIOUS
    <3>1. k - 1 \in Writes(Tail(q)) /\ k \in Int
      BY <1>2, <1>3 DEF Writes
    <3> QED BY <3>1
  <2> HIDE DEF f
  <2> QED BY <2>1, <2>2, <2>3 DEF Bijection, Injection, IsInjective, Surjection
<1>5. ExistsBijection(Writes(Tail(q)), Later)
  BY <1>4 DEF ExistsBijection
<1>6. IsFiniteSet(Writes(Tail(q)))
  BY <1>2, WritesFinite
<1>7. Cardinality(Later) = Cardinality(Writes(Tail(q)))
  BY <1>5, <1>6, FS_Bijection
<1>8. Cardinality(Later) = IF 1 \in Writes(q) THEN Cardinality(Writes(q)) - 1
                                              ELSE Cardinality(Writes(q))
  BY <1>1, FS_RemoveElement
<1>9. 1 \in Writes(q) <=> Head(q) # "close"
  BY <1>2 DEF Writes
<1> QED BY <1>1, <1>7, <1>8, <1>9

\* Chunks counts the queue's writes, and stands still while the queue does.
LEMMA ChunksAre ==
    /\ Chunks = Cardinality(Writes(cmds))
    /\ Chunks' = Cardinality(Writes(cmds'))
    /\ cmds' = cmds => Chunks' = Chunks
BY DEF Chunks, Writes

-----------------------------------------------------------------------------
\* A half inside SocketWriter::close, past the swap of `open`.
Shutting(h) == pc[h] \in {"bye", "pushbye", "pushclose"}

\* What a lowered flag, once seen, says of the rest of the port.
Latches ==
    /\ \A h \in Halves : Shutting(h) => ~open /\ closes = 0
    /\ \A h, k \in Halves : Shutting(h) /\ Shutting(k) => h = k
    /\ closes # 0 => ~open
    /\ closes \in {0, 1}
    /\ \A i \in 1 .. Len(cmds) : cmds[i] = "close" => ~open
    /\ giveUp => ~open
    /\ writer \in {"farewell", "exit"} => ~open
    /\ writer \in {"judge", "stuck"} => paused
    /\ writer = "gone" <=> ~channel
    /\ ~channel => cmds = <<>>
    /\ pc["tx"] = "gone" => ~channel /\ pc["rx"] = "gone"

\* CounterIsQueue, with what says which of its two cases holds: the surplus of
\* one is a farewell's, and no second farewell follows it.
Counter ==
    pc["tx"] # "gone" =>
      /\ channel => queued = Chunks + Counted
      /\ ~channel =>
           \/ queued = Counted
           \/ queued = Counted + 1 /\ ~open /\ \A h \in Halves : pc[h] \notin {"bye", "pushbye"}

\* StalledBacklogIsBounded, with what a send in progress has yet to judge.
Backlog ==
    /\ open /\ pc["tx"] \in {"push", "judge"} => queued <= waiting + 1
    /\ writer = "stuck" /\ open =>
         queued <= Limit + 1 + (IF pc["tx"] \in {"push", "judge", "close"} THEN 1 ELSE 0)

\* The inductive invariant of the port.
PortInv == TypeOK /\ Latches /\ Counter /\ Backlog

\* A command is queued, and its chunks with it, while the channel takes any.
LEMMA PushCounts ==
    ASSUME TypeOK, NEW c \in Commands, Push(c)
    PROVE  Chunks' = Chunks + (IF channel /\ c # "close" THEN 1 ELSE 0)
<1>1. Chunks \in Nat
  BY ChunksAre, WritesFinite DEF TypeOK
<1>2. CASE channel
  <2>1. cmds' = Append(cmds, c)
    BY <1>2 DEF Push
  <2>2. Chunks' = Cardinality(Writes(Append(cmds, c)))
    BY <2>1, ChunksAre
  <2>3. Cardinality(Writes(Append(cmds, c))) =
          Cardinality(Writes(cmds)) + (IF c # "close" THEN 1 ELSE 0)
    BY WritesAppend DEF TypeOK
  <2>4. Cardinality(Writes(cmds)) = Chunks
    BY ChunksAre
  <2> QED BY <1>2, <2>2, <2>3, <2>4
<1>3. CASE ~channel
  <2>1. cmds' = cmds
    BY <1>3 DEF Push
  <2> QED BY <1>1, <1>3, <2>1, ChunksAre
<1> QED BY <1>2, <1>3

\* Every step of the port keeps the invariant.
LEMMA PortStepKeeps ==
    ASSUME PortInv, Next
    PROVE  PortInv'
<1> USE LimitAssumption
    DEF PortInv, Halves, Places, Closures, Goto, chanVars, flagVars, taskVars, txVars, rxVars
<1>0. /\ Chunks \in Nat
      /\ cmds = <<>> => Chunks = 0
      /\ cmds' = cmds => Chunks' = Chunks
      /\ cmds' = <<>> => Chunks' = 0
  <2>1. <<>> \in Seq(Commands)
    OBVIOUS
  <2> QED BY <2>1, ChunksAre, WritesFinite DEF TypeOK
<1>1. CASE SendStart
  <2>1. TypeOK'
    BY <1>1 DEF SendStart, TypeOK, Commands
  <2>2. Latches'
    BY <1>1 DEF SendStart, TypeOK, Commands, Latches, Shutting
  <2>3. Counter'
    BY <1>1, <1>0 DEF SendStart, TypeOK, Latches, Shutting, Counter, Counted
  <2>4. Backlog'
    BY <1>1 DEF SendStart, TypeOK, Latches, Shutting, Backlog
  <2> QED BY <2>1, <2>2, <2>3, <2>4
<1>2. CASE SendAdd
  <2>1. TypeOK'
    BY <1>2 DEF SendAdd, Count, TypeOK, Commands
  <2>2. Latches'
    BY <1>2 DEF SendAdd, Count, TypeOK, Commands, Latches, Shutting
  <2>3. Counter'
    BY <1>2, <1>0 DEF SendAdd, Count, TypeOK, Latches, Shutting, Counter, Counted
  <2>4. Backlog'
    BY <1>2 DEF SendAdd, Count, TypeOK, Latches, Shutting, Backlog
  <2> QED BY <2>1, <2>2, <2>3, <2>4
<1>3. CASE SendPush
  <2>1. TypeOK'
    <3>1. open' \in BOOLEAN /\ UNCHANGED <<channel, paused, gaveUp, giveUp>>
      BY <1>3, Zenon DEF SendPush, Push, TypeOK
    <3>2. /\ cmds' \in Seq(Commands) /\ pc' \in [Halves -> Places] /\ queued' \in Int
          /\ writer' \in {"recv", "poll", "judge", "stuck", "farewell", "exit", "gone"}
      BY <1>3 DEF SendPush, Push, TypeOK, Commands
    <3> QED BY <1>3, <3>1, <3>2, Zenon DEF SendPush, Push, TypeOK
  <2>2. Latches'
    BY <1>3 DEF SendPush, Push, TypeOK, Commands, Latches, Shutting
  <2>3. Counter'
    <3>1. Chunks' = Chunks + (IF channel /\ "frame" # "close" THEN 1 ELSE 0)
      BY <1>3, PushCounts DEF SendPush, Commands
    <3> QED BY <1>3, <1>0, <3>1 DEF SendPush, Push, TypeOK, Latches, Shutting, Counter, Counted
  <2>4. Backlog'
    BY <1>3 DEF SendPush, Push, TypeOK, Latches, Shutting, Backlog
  <2> QED BY <2>1, <2>2, <2>3, <2>4
<1>4. CASE SendJudge
  <2>1. TypeOK'
    BY <1>4 DEF SendJudge, Stalled, TypeOK, Commands
  <2>2. Latches'
    BY <1>4 DEF SendJudge, Stalled, TypeOK, Commands, Latches, Shutting
  <2>3. Counter'
    BY <1>4, <1>0 DEF SendJudge, Stalled, TypeOK, Latches, Shutting, Counter, Counted
  <2>4. Backlog'
    BY <1>4 DEF SendJudge, Stalled, TypeOK, Latches, Shutting, Backlog
  <2> QED BY <2>1, <2>2, <2>3, <2>4
<1>5. CASE TxClose
  <2>1. TypeOK'
    BY <1>5 DEF TxClose, TypeOK, Commands
  <2>2. Latches'
    BY <1>5 DEF TxClose, TypeOK, Commands, Latches, Shutting
  <2>3. Counter'
    BY <1>5, <1>0 DEF TxClose, TypeOK, Latches, Shutting, Counter, Counted
  <2>4. Backlog'
    BY <1>5 DEF TxClose, TypeOK, Latches, Shutting, Backlog
  <2> QED BY <2>1, <2>2, <2>3, <2>4
<1>6. ASSUME NEW h \in Halves, CloseSwap(h) PROVE PortInv'
  <2>1. TypeOK'
    <3>1. open' \in BOOLEAN /\ UNCHANGED <<channel, paused, gaveUp, giveUp>>
      BY <1>6, Zenon DEF CloseSwap, SwapOpen, AfterClose, TypeOK
    <3>2. /\ cmds' \in Seq(Commands) /\ pc' \in [Halves -> Places] /\ queued' \in Int
          /\ writer' \in {"recv", "poll", "judge", "stuck", "farewell", "exit", "gone"}
      BY <1>6 DEF CloseSwap, SwapOpen, AfterClose, TypeOK, Commands
    <3> QED BY <1>6, <3>1, <3>2, Zenon DEF CloseSwap, SwapOpen, AfterClose, TypeOK
  <2>2. Latches'
    BY <1>6 DEF CloseSwap, SwapOpen, AfterClose, TypeOK, Commands, Latches, Shutting
  <2>3. Counter'
    BY <1>6, <1>0 DEF CloseSwap, SwapOpen, AfterClose, TypeOK, Latches, Shutting, Counter,
            Counted
  <2>4. Backlog'
    BY <1>6 DEF CloseSwap, SwapOpen, AfterClose, TypeOK, Latches, Shutting, Backlog
  <2> QED BY <2>1, <2>2, <2>3, <2>4
<1>7. ASSUME NEW h \in Halves, CloseBye(h) PROVE PortInv'
  <2>1. TypeOK'
    BY <1>7 DEF CloseBye, TypeOK, Commands
  <2>2. Latches'
    BY <1>7 DEF CloseBye, TypeOK, Commands, Latches, Shutting
  <2>3. Counter'
    BY <1>7, <1>0 DEF CloseBye, TypeOK, Latches, Shutting, Counter, Counted
  <2>4. Backlog'
    BY <1>7 DEF CloseBye, TypeOK, Latches, Shutting, Backlog
  <2> QED BY <2>1, <2>2, <2>3, <2>4
<1>8. ASSUME NEW h \in Halves, ClosePushBye(h) PROVE PortInv'
  <2>1. TypeOK'
    BY <1>8 DEF ClosePushBye, Push, TypeOK, Commands
  <2>2. Latches'
    BY <1>8 DEF ClosePushBye, Push, TypeOK, Commands, Latches, Shutting
  <2>3. Counter'
    <3>1. Chunks' = Chunks + (IF channel /\ "bye" # "close" THEN 1 ELSE 0)
      BY <1>8, PushCounts DEF ClosePushBye, Commands
    <3> QED BY <1>8, <1>0, <3>1 DEF ClosePushBye, TypeOK, Latches, Shutting, Counter, Counted
  <2>4. Backlog'
    BY <1>8 DEF ClosePushBye, Push, TypeOK, Latches, Shutting, Backlog
  <2> QED BY <2>1, <2>2, <2>3, <2>4
<1>9. ASSUME NEW h \in Halves, ClosePushClose(h) PROVE PortInv'
  <2>1. TypeOK'
    BY <1>9 DEF ClosePushClose, Push, AfterClose, TypeOK, Commands
  <2>2. Latches'
    BY <1>9 DEF ClosePushClose, Push, AfterClose, TypeOK, Commands, Latches, Shutting
  <2>3. Counter'
    <3>1. Chunks' = Chunks + (IF channel /\ "close" # "close" THEN 1 ELSE 0)
      BY <1>9, PushCounts DEF ClosePushClose, Commands
    <3> QED BY <1>9, <1>0, <3>1 DEF ClosePushClose, AfterClose, TypeOK, Latches, Shutting,
            Counter, Counted
  <2>4. Backlog'
    BY <1>9 DEF ClosePushClose, Push, AfterClose, TypeOK, Latches, Shutting, Backlog
  <2> QED BY <2>1, <2>2, <2>3, <2>4
<1>10. ASSUME NEW h \in Halves, CloseReturns(h) PROVE PortInv'
  <2>1. TypeOK'
    BY <1>10 DEF CloseReturns, AfterClose, TypeOK, Commands
  <2>2. Latches'
    BY <1>10 DEF CloseReturns, AfterClose, TypeOK, Commands, Latches, Shutting
  <2>3. Counter'
    BY <1>10, <1>0 DEF CloseReturns, AfterClose, TypeOK, Latches, Shutting, Counter, Counted
  <2>4. Backlog'
    BY <1>10 DEF CloseReturns, AfterClose, TypeOK, Latches, Shutting, Backlog
  <2> QED BY <2>1, <2>2, <2>3, <2>4
<1>11. CASE WriterTakes
  <2>1. TypeOK'
    BY <1>11 DEF WriterTakes, TypeOK, Commands
  <2>2. Latches'
    BY <1>11 DEF WriterTakes, TypeOK, Commands, Latches, Shutting
  <2>3. Counter'
    <3>1. Chunks' = Chunks - (IF Head(cmds) # "close" THEN 1 ELSE 0)
      BY <1>11, ChunksAre, WritesTail DEF WriterTakes, TypeOK
    <3> QED BY <1>11, <1>0, <3>1 DEF WriterTakes, TypeOK, Latches, Shutting, Counter, Counted
  <2>4. Backlog'
    BY <1>11 DEF WriterTakes, TypeOK, Latches, Shutting, Backlog
  <2> QED BY <2>1, <2>2, <2>3, <2>4
<1>12. CASE WriterDone
  <2>1. TypeOK'
    BY <1>12 DEF WriterDone, TypeOK, Commands
  <2>2. Latches'
    BY <1>12 DEF WriterDone, TypeOK, Commands, Latches, Shutting
  <2>3. Counter'
    BY <1>12, <1>0 DEF WriterDone, TypeOK, Latches, Shutting, Counter, Counted
  <2>4. Backlog'
    BY <1>12 DEF WriterDone, TypeOK, Latches, Shutting, Backlog
  <2> QED BY <2>1, <2>2, <2>3, <2>4
<1>13. CASE WriterPauses
  <2>1. TypeOK'
    BY <1>13 DEF WriterPauses, TypeOK, Commands
  <2>2. Latches'
    BY <1>13 DEF WriterPauses, TypeOK, Commands, Latches, Shutting
  <2>3. Counter'
    BY <1>13, <1>0 DEF WriterPauses, TypeOK, Latches, Shutting, Counter, Counted
  <2>4. Backlog'
    BY <1>13 DEF WriterPauses, TypeOK, Latches, Shutting, Backlog
  <2> QED BY <2>1, <2>2, <2>3, <2>4
<1>14. CASE WriterJudges
  <2>1. TypeOK'
    BY <1>14 DEF WriterJudges, BacklogOver, TypeOK, Commands
  <2>2. Latches'
    BY <1>14 DEF WriterJudges, BacklogOver, TypeOK, Commands, Latches, Shutting
  <2>3. Counter'
    BY <1>14, <1>0 DEF WriterJudges, BacklogOver, TypeOK, Latches, Shutting, Counter, Counted
  <2>4. Backlog'
    BY <1>14 DEF WriterJudges, BacklogOver, TypeOK, Latches, Shutting, Backlog
  <2> QED BY <2>1, <2>2, <2>3, <2>4
<1>15. CASE WriterFarewell
  <2>1. TypeOK'
    BY <1>15 DEF WriterFarewell, TypeOK, Commands
  <2>2. Latches'
    BY <1>15 DEF WriterFarewell, TypeOK, Commands, Latches, Shutting
  <2>3. Counter'
    BY <1>15, <1>0 DEF WriterFarewell, TypeOK, Latches, Shutting, Counter, Counted
  <2>4. Backlog'
    BY <1>15 DEF WriterFarewell, TypeOK, Latches, Shutting, Backlog
  <2> QED BY <2>1, <2>2, <2>3, <2>4
<1>16. CASE WriterExits
  <2>1. TypeOK'
    <3>1. channel' \in BOOLEAN /\ UNCHANGED <<open, paused, gaveUp, giveUp>>
      BY <1>16, Zenon DEF WriterExits, Unwritten, TypeOK
    <3>2. /\ cmds' \in Seq(Commands) /\ pc' \in [Halves -> Places] /\ queued' \in Int
          /\ writer' \in {"recv", "poll", "judge", "stuck", "farewell", "exit", "gone"}
      BY <1>16, <1>0 DEF WriterExits, Unwritten, TypeOK, Commands
    <3> QED BY <1>16, <3>1, <3>2, Zenon DEF WriterExits, Unwritten, TypeOK
  <2>2. Latches'
    BY <1>16 DEF WriterExits, Unwritten, TypeOK, Commands, Latches, Shutting
  <2>3. Counter'
    BY <1>16, <1>0 DEF WriterExits, Unwritten, TypeOK, Latches, Shutting, Counter, Counted
  <2>4. Backlog'
    BY <1>16 DEF WriterExits, Unwritten, TypeOK, Latches, Shutting, Backlog
  <2> QED BY <2>1, <2>2, <2>3, <2>4
<1>17. CASE RecvCall
  <2>1. TypeOK'
    BY <1>17 DEF RecvCall, TypeOK, Commands
  <2>2. Latches'
    BY <1>17 DEF RecvCall, TypeOK, Commands, Latches, Shutting
  <2>3. Counter'
    BY <1>17, <1>0 DEF RecvCall, TypeOK, Latches, Shutting, Counter, Counted
  <2>4. Backlog'
    BY <1>17 DEF RecvCall, TypeOK, Latches, Shutting, Backlog
  <2> QED BY <2>1, <2>2, <2>3, <2>4
<1>18. CASE RecvReturns
  <2>1. TypeOK'
    BY <1>18 DEF RecvReturns, TypeOK, Commands
  <2>2. Latches'
    BY <1>18 DEF RecvReturns, TypeOK, Commands, Latches, Shutting
  <2>3. Counter'
    BY <1>18, <1>0 DEF RecvReturns, TypeOK, Latches, Shutting, Counter, Counted
  <2>4. Backlog'
    BY <1>18 DEF RecvReturns, TypeOK, Latches, Shutting, Backlog
  <2> QED BY <2>1, <2>2, <2>3, <2>4
<1>19. CASE RecvGaveUp
  <2>1. TypeOK'
    BY <1>19 DEF RecvGaveUp, HearsGiveUp, Listening, TypeOK, Commands
  <2>2. Latches'
    BY <1>19 DEF RecvGaveUp, HearsGiveUp, Listening, TypeOK, Commands, Latches, Shutting
  <2>3. Counter'
    BY <1>19, <1>0 DEF RecvGaveUp, HearsGiveUp, Listening, TypeOK, Latches, Shutting, Counter,
            Counted
  <2>4. Backlog'
    BY <1>19 DEF RecvGaveUp, HearsGiveUp, Listening, TypeOK, Latches, Shutting, Backlog
  <2> QED BY <2>1, <2>2, <2>3, <2>4
<1>20. CASE RecvFrame
  <2>1. TypeOK'
    BY <1>20 DEF RecvFrame, Listening, TypeOK, Commands
  <2>2. Latches'
    BY <1>20 DEF RecvFrame, Listening, TypeOK, Commands, Latches, Shutting
  <2>3. Counter'
    BY <1>20, <1>0 DEF RecvFrame, Listening, TypeOK, Latches, Shutting, Counter, Counted
  <2>4. Backlog'
    BY <1>20 DEF RecvFrame, Listening, TypeOK, Latches, Shutting, Backlog
  <2> QED BY <2>1, <2>2, <2>3, <2>4
<1>21. CASE RecvEnds
  <2>1. TypeOK'
    BY <1>21 DEF RecvEnds, Listening, TypeOK, Commands
  <2>2. Latches'
    BY <1>21 DEF RecvEnds, Listening, TypeOK, Commands, Latches, Shutting
  <2>3. Counter'
    BY <1>21, <1>0 DEF RecvEnds, Listening, TypeOK, Latches, Shutting, Counter, Counted
  <2>4. Backlog'
    BY <1>21 DEF RecvEnds, Listening, TypeOK, Latches, Shutting, Backlog
  <2> QED BY <2>1, <2>2, <2>3, <2>4
<1>22. CASE RecvRefuses
  <2>1. TypeOK'
    BY <1>22 DEF RecvRefuses, Listening, TypeOK, Commands
  <2>2. Latches'
    BY <1>22 DEF RecvRefuses, Listening, TypeOK, Commands, Latches, Shutting
  <2>3. Counter'
    BY <1>22, <1>0 DEF RecvRefuses, Listening, TypeOK, Latches, Shutting, Counter, Counted
  <2>4. Backlog'
    BY <1>22 DEF RecvRefuses, Listening, TypeOK, Latches, Shutting, Backlog
  <2> QED BY <2>1, <2>2, <2>3, <2>4
<1>23. CASE RecvCancelled
  <2>1. TypeOK'
    BY <1>23 DEF RecvCancelled, TypeOK, Commands
  <2>2. Latches'
    BY <1>23 DEF RecvCancelled, TypeOK, Commands, Latches, Shutting
  <2>3. Counter'
    BY <1>23, <1>0 DEF RecvCancelled, TypeOK, Latches, Shutting, Counter, Counted
  <2>4. Backlog'
    BY <1>23 DEF RecvCancelled, TypeOK, Latches, Shutting, Backlog
  <2> QED BY <2>1, <2>2, <2>3, <2>4
<1>24. CASE Dropped
  <2>1. TypeOK'
    <3>1. channel' \in BOOLEAN /\ UNCHANGED <<open, paused, gaveUp, giveUp>>
      BY <1>24, Zenon DEF Dropped, TypeOK
    <3>2. /\ cmds' \in Seq(Commands) /\ pc' \in [Halves -> Places] /\ queued' \in Int
          /\ writer' \in {"recv", "poll", "judge", "stuck", "farewell", "exit", "gone"}
      BY <1>24 DEF Dropped, TypeOK, Commands
    <3> QED BY <1>24, <3>1, <3>2, Zenon DEF Dropped, TypeOK
  <2>2. Latches'
    BY <1>24 DEF Dropped, TypeOK, Commands, Latches, Shutting
  <2>3. Counter'
    BY <1>24, <1>0 DEF Dropped, TypeOK, Latches, Shutting, Counter, Counted
  <2>4. Backlog'
    BY <1>24 DEF Dropped, TypeOK, Latches, Shutting, Backlog
  <2> QED BY <2>1, <2>2, <2>3, <2>4
<1> QED BY <1>1, <1>2, <1>3, <1>4, <1>5, <1>6, <1>7, <1>8, <1>9, <1>10, <1>11, <1>12, <1>13,
        <1>14, <1>15, <1>16, <1>17, <1>18, <1>19, <1>20, <1>21, <1>22, <1>23, <1>24
     DEF Next, SendStep, CloseStep, RecvStep

-----------------------------------------------------------------------------
\* How far an accepted upgrade is, what has been asked and answered of it, and
\* the code the dialler was sent.
AcceptInv ==
    role = "acceptor" =>
      /\ stage \in {"start", "upgraded", "authorizing", "refused", "port"}
      /\ stage \in {"start", "upgraded", "authorizing"} => judged = -1 /\ code = 0
      /\ stage \in {"upgraded", "authorizing"} => (answer = Mango <=> Offered(request))
      /\ stage = "authorizing" => FirstRefusal(request) = 0
      /\ stage = "port" => judged = 0 /\ code = 0
      /\ code # 0 => code = IF answer # Mango THEN ProtocolError
                            ELSE IF judged # -1 THEN judged ELSE Forbidden

\* How far a dial is, and what its deadline has let go of.
DialInv ==
    role = "dialler" =>
      /\ stage \in {"start", "dialling", "selected", "refused", "cancelled", "timed out", "port"}
      /\ stage = "start" => socket = "none"
      /\ stage = "selected" => fired = {}
      /\ stage = "port" => answer = Mango /\ fired = {}
      /\ stage \in {"refused", "cancelled", "timed out"} => socket # "open"
      /\ stage = "cancelled" => "cancelled" \in fired

\* The inductive invariant of a connection: no frame before there is a port.
ConnectionInv ==
    /\ role \in {"dialler", "acceptor"}
    /\ stage # "port" => sends = 0
    /\ AcceptInv /\ DialInv
    /\ PortInv

\* The invariant holds initially.
LEMMA ConnectionStarts == UpgradeInit => ConnectionInv
<1> SUFFICES ASSUME UpgradeInit PROVE ConnectionInv
  OBVIOUS
<1>1. /\ cmds = <<>> /\ channel /\ queued = 0 /\ closes = 0
      /\ open /\ ~paused /\ ~giveUp /\ writer = "recv" /\ waiting = 0 /\ sends = 0
      /\ closure = "none" /\ told = "none"
      /\ pc = [h \in Halves |-> IF h = "tx" THEN "idle" ELSE "out"]
  BY Zenon DEF UpgradeInit, Init
<1>2. /\ role \in {"dialler", "acceptor"} /\ stage = "start"
      /\ socket = IF role = "dialler" THEN "none" ELSE "open"
      /\ judged = -1 /\ code = 0
  BY Zenon DEF UpgradeInit
<1>3. pc["tx"] = "idle" /\ pc["rx"] = "out" /\ pc \in [Halves -> Places]
  BY <1>1 DEF Halves, Places
<1>4. TypeOK
  <2>1. {channel, open, paused, gaveUp, giveUp} \subseteq BOOLEAN
    BY Zenon DEF UpgradeInit, Init
  <2> QED BY <1>1, <1>3, <2>1, LimitAssumption DEF TypeOK, Closures
<1>5. Latches
  BY <1>1, <1>3 DEF Latches, Shutting, Halves
<1>6. Counter
  <2>1. Chunks = 0
    BY <1>1, <1>4, ChunksAre, WritesFinite DEF TypeOK
  <2> QED BY <1>1, <1>3, <2>1 DEF Counter, Counted, Halves
<1>7. Backlog
  BY <1>1, <1>3 DEF Backlog
<1>8. AcceptInv /\ DialInv
  BY <1>2 DEF AcceptInv, DialInv
<1> QED BY <1>1, <1>2, <1>4, <1>5, <1>6, <1>7, <1>8 DEF ConnectionInv, PortInv

\* A step of the upgrade leaves the port alone.
LEMMA PortStandsStill ==
    ASSUME PortInv, UNCHANGED vars
    PROVE  PortInv'
<1> USE DEF vars, chanVars, flagVars, taskVars, txVars, rxVars
<1>1. Chunks' = Chunks
  BY ChunksAre
<1>2. TypeOK' /\ Latches' /\ Backlog'
  BY DEF PortInv, TypeOK, Latches, Shutting, Backlog
<1>3. Counter'
  BY <1>1 DEF PortInv, Counter, Counted
<1> QED BY <1>2, <1>3 DEF PortInv

\* Every step of a connection keeps the invariant.
LEMMA ConnectionStepKeeps ==
    ASSUME ConnectionInv, [ConnectionNext]_connVars
    PROVE  ConnectionInv'
<1> USE DEF ConnectionInv
<1>1. CASE PortStep(Next)
  <2>1. PortInv'
    BY <1>1, PortStepKeeps DEF PortStep
  <2> QED BY <1>1, <2>1 DEF PortStep, upgradeVars, dialVars, acceptVars, AcceptInv, DialInv
<1>2. CASE UNCHANGED connVars
  <2>1. PortInv'
    BY <1>2, PortStandsStill DEF connVars
  <2> QED BY <1>2, <2>1 DEF connVars, upgradeVars, dialVars, acceptVars, AcceptInv, DialInv,
             vars, txVars
<1>3. CASE Upgrading
  <2>1. UNCHANGED vars
    BY <1>3 DEF Upgrading, BuildRequest, DeadlineFires, DialAbandoned, DialOpens, PeerAnswers,
                DialAnswered, CheckSelected, Handshake, CheckUpgrade, Authorized
  <2>2. PortInv' /\ sends' = sends
    BY <2>1, PortStandsStill DEF vars, txVars
  <2> USE DEF dialVars, acceptVars
  <2>3. CASE BuildRequest
    BY <2>3, <2>2 DEF BuildRequest, AcceptInv, DialInv
  <2>4. CASE DeadlineFires
    BY <2>4, <2>2 DEF DeadlineFires, AcceptInv, DialInv
  <2>5. CASE DialAbandoned
    BY <2>5, <2>2 DEF DialAbandoned, AcceptInv, DialInv
  <2>6. CASE DialOpens
    BY <2>6, <2>2 DEF DialOpens, AcceptInv, DialInv
  <2>7. CASE PeerAnswers
    BY <2>7, <2>2 DEF PeerAnswers, AcceptInv, DialInv
  <2>8. CASE DialAnswered
    BY <2>8, <2>2 DEF DialAnswered, DeadlineWins, AcceptInv, DialInv
  <2>9. CASE CheckSelected
    BY <2>9, <2>2 DEF CheckSelected, Selected, AcceptInv, DialInv
  <2>10. CASE Handshake
    BY <2>10, <2>2 DEF Handshake, Mango, AcceptInv, DialInv
  <2>11. CASE CheckUpgrade
    <3>1. role = "acceptor" /\ judged = -1 /\ code = 0 /\ (answer = Mango <=> Offered(request))
      BY <2>11 DEF CheckUpgrade, AcceptInv, DialInv
    <3>2. CASE FirstRefusal(request) = 0
      BY <2>11, <2>2, <3>1, <3>2 DEF CheckUpgrade, AcceptInv, DialInv
    <3>3. CASE FirstRefusal(request) # 0
      <4>1. FirstRefusal(request) = IF answer # Mango THEN ProtocolError ELSE Forbidden
        BY <3>1, <3>3 DEF FirstRefusal
      <4> QED BY <2>11, <2>2, <3>1, <3>3, <4>1 DEF CheckUpgrade, CloseWith, AcceptInv, DialInv
    <3> QED BY <3>2, <3>3
  <2>12. CASE Authorized
    <3>1. role = "acceptor" /\ judged = -1 /\ code = 0 /\ answer = Mango
      BY <2>12 DEF Authorized, FirstRefusal, ProtocolError, AcceptInv, DialInv
    <3>2. PICK c \in Authorize(request) :
            /\ judged' = c
            /\ IF c = 0
                 THEN stage' = "port" /\ request' = NoRequest /\ UNCHANGED <<socket, code>>
                 ELSE CloseWith(c) /\ UNCHANGED request
      BY <2>12 DEF Authorized
    <3>3. c # -1
      BY DEF Authorize, Forbidden, RateLimited, Unauthorized
    <3>4. CASE c = 0
      BY <2>12, <2>2, <3>1, <3>2, <3>4 DEF Authorized, AcceptInv, DialInv
    <3>5. CASE c # 0
      BY <2>12, <2>2, <3>1, <3>2, <3>3, <3>5 DEF Authorized, CloseWith, AcceptInv, DialInv
    <3> QED BY <3>4, <3>5
  <2> QED BY <1>3, <2>3, <2>4, <2>5, <2>6, <2>7, <2>8, <2>9, <2>10, <2>11, <2>12 DEF Upgrading
<1> QED BY <1>1, <1>2, <1>3 DEF ConnectionNext

\* The invariant holds of every connection, dialled or accepted.
THEOREM ConnectionIsSound == ConnectionSpec => []ConnectionInv
BY ConnectionStarts, ConnectionStepKeeps, PTL DEF ConnectionSpec

\* release_unwritten (transports/websocket.rs:826) and send_frame (:582): the
\* counter backpressure reads is what is queued, for any limit and any sends.
THEOREM QueueIsCounted == ConnectionSpec => []CounterIsQueue
<1>1. ConnectionInv => CounterIsQueue
  <2> SUFFICES ASSUME ConnectionInv, pc["tx"] # "gone"
               PROVE  IF channel THEN queued = Chunks + Counted
                                 ELSE queued - Chunks - Counted \in {0, 1}
    BY DEF CounterIsQueue
  <2>1. ~channel => Chunks = 0
    BY ChunksAre, WritesFinite DEF ConnectionInv, PortInv, TypeOK, Latches
  <2>2. Counted \in Nat /\ queued \in Int
    BY DEF Counted, ConnectionInv, PortInv, TypeOK
  <2> QED BY <2>1, <2>2 DEF ConnectionInv, PortInv, Counter
<1> QED BY <1>1, ConnectionIsSound, PTL

\* send_frame (transports/websocket.rs:608) and drive (:740): behind a stuck write
\* an open port never holds more than a frame over the limit, whatever the limit.
THEOREM StalledPeerIsBounded == ConnectionSpec => []StalledBacklogIsBounded
<1>1. ConnectionInv => StalledBacklogIsBounded
  BY DEF ConnectionInv, PortInv, Backlog, StalledBacklogIsBounded
<1> QED BY <1>1, ConnectionIsSound, PTL

\* SocketWriter::close (transports/websocket.rs:629): the task is sent one Close
\* command, whichever of the halves and the stalled send closes first.
THEOREM FarewellIsOnce == ConnectionSpec => []OneFarewell
<1>1. ConnectionInv => OneFarewell
  BY DEF ConnectionInv, PortInv, Latches, OneFarewell
<1> QED BY <1>1, ConnectionIsSound, PTL

\* accept_websocket (transports/websocket/server.rs:230): no frame is sent over an
\* upgrade nobody authorized, and a refusal carries the code of its check.
THEOREM AcceptedIsJudged == ConnectionSpec => []UpgradeIsJudged
<1>1. ConnectionInv => UpgradeIsJudged
  BY DEF ConnectionInv, AcceptInv, UpgradeIsJudged, FirstRefusal, OriginAllowed, ProtocolError,
         Forbidden
<1> QED BY <1>1, ConnectionIsSound, PTL

\* connect_websocket (transports/websocket/client.rs:138): a port speaks mango.v1
\* and an abandoned or refused dial leaves no socket open.
THEOREM DialledIsSettled == ConnectionSpec => []DialIsSettled
<1>1. ConnectionInv => DialIsSettled
  BY DEF ConnectionInv, DialInv, DialIsSettled
<1> QED BY <1>1, ConnectionIsSound, PTL

=============================================================================
