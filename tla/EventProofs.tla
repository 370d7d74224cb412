----------------------------- MODULE EventProofs -----------------------------
(***************************************************************************)
(* Theorems about emission: for any number of threads, stream keys and      *)
(* events, and any ceiling on the keys.                                     *)
(***************************************************************************)
EXTENDS EventStreams, SequenceTheorems, FiniteSetTheorems, TLAPS

\* After one more event the seq due on its key follows from that event alone, and
\* the others are due what they were.
LEMMA DueAfterAppend ==
  ASSUME NEW q \in Seq(OutEvents), NEW e \in OutEvents, NEW k \in Keys
  PROVE  /\ e.key = k => Due(k, Append(q, e), IF e.end THEN 0 ELSE e.seq + 1)
         /\ \A n : e.key # k /\ Due(k, q, n) => Due(k, Append(q, e), n)
<1> DEFINE a == Append(q, e)
           Of(s) == {j \in 1..Len(s) : s[j].key = k}
<1>1. /\ a \in Seq(OutEvents) /\ Len(a) = Len(q) + 1 /\ Len(q) \in Nat
      /\ a[Len(q) + 1] = e
      /\ \A j \in 1..Len(q) : a[j] = q[j]
  OBVIOUS
<1>2. ASSUME e.key = k PROVE Due(k, a, IF e.end THEN 0 ELSE e.seq + 1)
  <2>1. Len(q) + 1 \in Of(a) /\ \A l \in Of(a) : l <= Len(q) + 1
    BY <1>1, <1>2
  <2> HIDE DEF a
  <2>2. \E last \in Of(a) :
          /\ \A l \in Of(a) : l <= last
          /\ (IF e.end THEN 0 ELSE e.seq + 1) = IF a[last].end THEN 0 ELSE a[last].seq + 1
    BY <1>1, <2>1, Zenon
  <2> QED BY <2>2 DEF Due
<1>3. ASSUME NEW n, e.key # k, Due(k, q, n) PROVE Due(k, a, n)
  <2>1. Of(a) = Of(q)
    BY <1>1, <1>3
  <2>2. \A j \in Of(q) : a[j] = q[j]
    BY <1>1
  <2> HIDE DEF a
  <2> QED BY <1>3, <2>1, <2>2, Zenon DEF Due
<1> QED BY <1>2, <1>3

\* Every event of q carries the seq that was due.
Contiguous(q) == \A j \in 1..Len(q) : Due(q[j].key, SubSeq(q, 1, j - 1), q[j].seq)

\* An event that carries the seq due extends a contiguous sequence.
LEMMA ContiguousAppend ==
  ASSUME NEW q \in Seq(OutEvents), NEW e \in OutEvents, Contiguous(q), Due(e.key, q, e.seq)
  PROVE  Contiguous(Append(q, e))
<1> DEFINE a == Append(q, e)
<1>1. /\ a \in Seq(OutEvents) /\ Len(a) = Len(q) + 1 /\ Len(q) \in Nat
      /\ a[Len(q) + 1] = e
      /\ \A j \in 1..Len(q) : a[j] = q[j]
  OBVIOUS
<1>2. ASSUME NEW j \in 1..Len(a) PROVE SubSeq(a, 1, j - 1) = SubSeq(q, 1, j - 1)
  <2>1. j \in Int /\ j - 1 <= Len(q)
    BY <1>1
  <2> QED BY <1>1, <2>1
<1>3. SubSeq(q, 1, Len(q)) = q
  OBVIOUS
<1> HIDE DEF a
<1>4. ASSUME NEW j \in 1..Len(a) PROVE Due(a[j].key, SubSeq(a, 1, j - 1), a[j].seq)
  <2>1. CASE j <= Len(q)
    <3>1. j \in 1..Len(q)
      BY <1>1, <2>1
    <3> QED BY <1>1, <1>2, <3>1 DEF Contiguous
  <2>2. CASE j = Len(q) + 1
    <3>1. SubSeq(a, 1, j - 1) = q
      BY <1>1, <1>2, <1>3, <2>2
    <3> QED BY <1>1, <2>2, <3>1
  <2> QED BY <1>1, <2>1, <2>2
<1> QED BY <1>4 DEF Contiguous, a

-----------------------------------------------------------------------------
\* The variables of emission keep their types.
EmitTyped ==
  /\ pc \in {"run", "closing", "cleared", "published", "returned"}
  /\ sequences \in [Keys -> Nat] /\ counted \in SUBSET Keys
  /\ commands \in Seq(OutEvents) /\ wire \in Seq(OutEvents)

\* The inductive invariant of emission.
EmitInv ==
  /\ EmitTyped
  /\ state = "closed" <=> pc # "run"
  /\ SequencesAreContiguous
  /\ KeysAreBounded

\* The numbering in terms of the frames on the wire and behind them.
LEMMA NumberingIs ==
  /\ SequencesAreContiguous <=>
       (pc \in {"run", "closing"} =>
          Contiguous(wire \o commands) /\ \A k \in Keys : Due(k, wire \o commands, sequences[k]))
  /\ SequencesAreContiguous' <=>
       (pc' \in {"run", "closing"} =>
          Contiguous(wire' \o commands')
          /\ \A k \in Keys : Due(k, wire' \o commands', sequences'[k]))
BY Zenon DEF SequencesAreContiguous, Contiguous

\* emit under its lock keeps the invariant, accepted, refused or too late.
LEMMA EmitKeeps ==
  ASSUME EmitInv, NEW t \in Emitters, EmitLocked(t)
  PROVE  EmitInv'
<1> USE DEF EmitInv
<1>1. UNCHANGED <<state, pc, wire>>
  BY DEF EmitLocked, driver
<1>2. PICK k \in Keys, end \in BOOLEAN, fits \in BOOLEAN :
        IF KeyRefused(k) \/ ~fits \/ pc = "returned"
        THEN UNCHANGED <<sequences, counted, commands>>
        ELSE /\ commands' = Append(commands, Event(k, sequences[k], end))
             /\ sequences' = [sequences EXCEPT ![k] = NextSeq(k, end)]
             /\ counted' = IF end THEN counted \ {k} ELSE counted \cup {k}
  BY DEF EmitLocked
<1>3. CASE UNCHANGED <<sequences, counted, commands>>
  <2>1. EmitTyped' /\ KeysAreBounded' /\ (state = "closed" <=> pc # "run")'
    BY <1>1, <1>3 DEF EmitTyped, KeysAreBounded
  <2>2. SequencesAreContiguous'
    BY <1>1, <1>3, NumberingIs
  <2> QED BY <2>1, <2>2
<1>4. CASE /\ ~KeyRefused(k)
           /\ commands' = Append(commands, Event(k, sequences[k], end))
           /\ sequences' = [sequences EXCEPT ![k] = NextSeq(k, end)]
           /\ counted' = IF end THEN counted \ {k} ELSE counted \cup {k}
  <2> DEFINE e == Event(k, sequences[k], end)
             n == IF end THEN 0 ELSE sequences[k] + 1
             all == wire \o commands
  <2>1. e \in OutEvents /\ e.key = k /\ e.seq = sequences[k] /\ e.end = end
    BY DEF Event, OutEvents, EmitTyped
  <2>2. n \in Nat /\ (n > 0 <=> ~end)
    BY DEF EmitTyped
  <2>3. /\ sequences' = [sequences EXCEPT ![k] = n]
        /\ sequences' \in [Keys -> Nat] /\ sequences'[k] = n
        /\ \A l \in Keys \ {k} : sequences'[l] = sequences[l]
    BY <1>4, <2>2 DEF NextSeq, EmitTyped
  <2>4. commands' = Append(commands, e) /\ commands' \in Seq(OutEvents)
    BY <1>4, <2>1 DEF EmitTyped
  <2>5. counted' = (IF end THEN counted \ {k} ELSE counted \cup {k}) /\ counted' \in SUBSET Keys
    BY <1>4 DEF EmitTyped
  <2>6. n = IF e.end THEN 0 ELSE e.seq + 1
    BY <2>1
  <2> HIDE DEF e, n
  <2>7. EmitTyped'
    BY <1>1, <2>3, <2>4, <2>5 DEF EmitTyped
  <2>8. SequencesAreContiguous'
    <3>1. CASE pc \in {"run", "closing"}
      <4>1. all \in Seq(OutEvents) /\ wire' \o commands' = Append(all, e)
        BY <1>1, <2>1, <2>4 DEF EmitTyped
      <4>2. Contiguous(all) /\ \A l \in Keys : Due(l, all, sequences[l])
        BY <3>1, NumberingIs
      <4> HIDE DEF all
      <4>3. Contiguous(wire' \o commands')
        BY <2>1, <4>1, <4>2, ContiguousAppend
      <4>4. ASSUME NEW l \in Keys PROVE Due(l, wire' \o commands', sequences'[l])
        <5>1. CASE l = k
          BY <2>1, <2>3, <2>6, <4>1, <5>1, DueAfterAppend
        <5>2. CASE l # k
          BY <2>1, <2>3, <4>1, <4>2, <5>2, DueAfterAppend
        <5> QED BY <5>1, <5>2
      <4> QED BY <4>3, <4>4, NumberingIs
    <3>2. CASE pc \notin {"run", "closing"}
      BY <1>1, <3>2, NumberingIs
    <3> QED BY <3>1, <3>2
  <2>9. KeysAreBounded'
    <3>1. IsFiniteSet(counted) /\ Cardinality(counted) \in Nat
      BY KeysAssumption, FS_Subset, FS_CardinalityType DEF EmitTyped
    <3>2. \A l \in Keys : l \in counted' <=> sequences'[l] > 0
      BY <2>2, <2>3, <2>5 DEF KeysAreBounded
    <3>3. Cardinality(counted') <= MaxKeys
      <4>1. CASE end
        <5>1. Cardinality(counted \ {k}) =
                IF k \in counted THEN Cardinality(counted) - 1 ELSE Cardinality(counted)
          BY <3>1, FS_RemoveElement
        <5>2. counted' = counted \ {k}
          BY <2>5, <4>1
        <5> QED BY <3>1, <5>1, <5>2, KeysAssumption DEF KeysAreBounded
      <4>2. CASE ~end /\ k \in counted
        <5>1. counted' = counted
          BY <2>5, <4>2
        <5> QED BY <5>1 DEF KeysAreBounded
      <4>3. CASE ~end /\ k \notin counted
        <5>1. Cardinality(counted \cup {k}) = Cardinality(counted) + 1
          BY <3>1, <4>3, FS_AddElement
        <5>2. ~(Cardinality(counted) >= MaxKeys)
          BY <1>4, <4>3 DEF KeyRefused
        <5>3. counted' = counted \cup {k}
          BY <2>5, <4>3
        <5> QED BY <3>1, <5>1, <5>2, <5>3, KeysAssumption
      <4> QED BY <4>1, <4>2, <4>3
    <3> QED BY <3>2, <3>3 DEF KeysAreBounded
  <2> QED BY <1>1, <2>7, <2>8, <2>9
<1> QED BY <1>2, <1>3, <1>4

\* Every step keeps the invariant of emission.
LEMMA EmissionInductive ==
  /\ EventInit => EmitInv
  /\ EmitInv /\ [EventNext]_eventVars => EmitInv'
<1> USE DEF EmitInv
<1>1. ASSUME EventInit PROVE EmitInv
  <2>1. /\ pc = "run" /\ state = "handshaking" /\ counted = {}
        /\ sequences = [k \in Keys |-> 0] /\ commands = <<>> /\ wire = <<>>
    BY <1>1 DEF EventInit
  <2>2. EmitTyped
    BY <2>1 DEF EmitTyped
  <2>3. SequencesAreContiguous
    <3>1. Contiguous(<<>>) /\ \A k \in Keys : Due(k, <<>>, 0)
      BY DEF Contiguous, Due
    <3>2. wire \o commands = <<>>
      BY <2>1
    <3> QED BY <2>1, <3>1, <3>2, NumberingIs
  <2>4. KeysAreBounded
    BY <2>1, KeysAssumption, FS_EmptySet DEF KeysAreBounded
  <2> QED BY <2>1, <2>2, <2>3, <2>4
<1>2. ASSUME EmitInv, [EventNext]_eventVars PROVE EmitInv'
  \* A step that leaves emission alone, or ends a session whose table is due no more.
  <2>1. ASSUME UNCHANGED <<sequences, counted, wire, commands>>,
               pc' \in {"run", "closing", "cleared", "published", "returned"},
               (state = "closed" <=> pc # "run")',
               pc' \in {"run", "closing"} => pc \in {"run", "closing"}
        PROVE  EmitInv'
    <3>1. EmitTyped' /\ KeysAreBounded'
      BY <1>2, <2>1 DEF EmitTyped, KeysAreBounded
    <3>2. SequencesAreContiguous'
      BY <1>2, <2>1, NumberingIs
    <3> QED BY <2>1, <3>1, <3>2
  <2>2. ASSUME NEW t \in Emitters, EmitCheck(t) PROVE EmitInv'
    BY <1>2, <2>1, <2>2 DEF EmitCheck, driver, EmitTyped
  <2>3. ASSUME NEW t \in Emitters, EmitLocked(t) PROVE EmitInv'
    BY <1>2, <2>3, EmitKeeps
  <2>4. ASSUME NEW s \in Subs, Subscribe(s) \/ Unsubscribe(s) \/ Recv(s) PROVE EmitInv'
    BY <1>2, <2>1, <2>4 DEF Subscribe, Unsubscribe, Recv, driver, sending, EmitTyped
  <2>5. CASE Forward
    <3>1. /\ commands # <<>> /\ wire' = Append(wire, Head(commands))
          /\ commands' = Tail(commands)
          /\ UNCHANGED <<state, pc, sequences, counted>>
      BY <2>5 DEF Forward, driver
    <3>2. wire' \in Seq(OutEvents) /\ commands' \in Seq(OutEvents)
      BY <1>2, <3>1 DEF EmitTyped
    <3>3. wire' \o commands' = wire \o commands
      BY <1>2, <3>1, <3>2 DEF EmitTyped
    <3>4. EmitTyped' /\ KeysAreBounded'
      BY <1>2, <3>1, <3>2 DEF EmitTyped, KeysAreBounded
    <3>5. SequencesAreContiguous'
      BY <1>2, <3>1, <3>3, NumberingIs
    <3> QED BY <1>2, <3>1, <3>4, <3>5
  <2>6. CASE OnHello \/ OnEvent
    BY <1>2, <2>1, <2>6 DEF OnHello, OnEvent, driver, sending, EmitTyped
  <2>7. CASE TeardownState \/ Publish
    BY <1>2, <2>1, <2>7 DEF TeardownState, Publish, sending, EmitTyped
  <2>8. CASE TeardownClear
    <3>1. /\ pc = "closing" /\ pc' = "cleared" /\ state' = state /\ counted' = {}
          /\ sequences' = [k \in Keys |-> 0] /\ UNCHANGED <<wire, commands>>
      BY <2>8 DEF TeardownClear
    <3>2. EmitTyped'
      BY <1>2, <3>1 DEF EmitTyped
    <3>3. KeysAreBounded'
      BY <3>1, KeysAssumption, FS_EmptySet DEF KeysAreBounded
    <3>4. SequencesAreContiguous'
      BY <3>1, NumberingIs
    <3> QED BY <1>2, <3>1, <3>2, <3>3, <3>4
  <2>9. CASE DriverReturn
    <3>1. /\ pc = "published" /\ pc' = "returned" /\ commands' = <<>>
          /\ UNCHANGED <<state, sequences, counted, wire>>
      BY <2>9 DEF DriverReturn
    <3>2. EmitTyped' /\ KeysAreBounded'
      BY <1>2, <3>1 DEF EmitTyped, KeysAreBounded
    <3>3. SequencesAreContiguous'
      BY <3>1, NumberingIs
    <3> QED BY <1>2, <3>1, <3>2, <3>3
  <2>10. CASE Done \/ UNCHANGED eventVars
    BY <1>2, <2>1, <2>10 DEF Done, eventVars, EmitTyped
  <2> QED BY <1>2, <2>2, <2>3, <2>4, <2>5, <2>6, <2>7, <2>8, <2>9, <2>10 DEF EventNext
<1> QED BY <1>1, <1>2

\* The invariant of emission holds of every session.
LEMMA EmissionIsSound == EventSpec => []EmitInv
BY EmissionInductive, PTL DEF EventSpec

\* Session::emit (session/handle.rs:484): the events of a stream key are numbered
\* without gap or repetition, however many threads emit.
THEOREM EventsAreNumbered == EventSpec => []SequencesAreContiguous
BY EmissionIsSound, PTL DEF EmitInv

\* Session::emit (session/handle.rs:495): the ceiling on stream keys holds, and an
\* entry is kept exactly for the keys that are counting, teardown included.
THEOREM StreamKeysAreBounded == EventSpec => []KeysAreBounded
BY EmissionIsSound, PTL DEF EmitInv

-----------------------------------------------------------------------------
\* Every variable keeps its type.
LEMMA TypesKeep ==
  /\ EventInit => EventTypeOK
  /\ EventTypeOK /\ [EventNext]_eventVars => EventTypeOK'
<1>1. ASSUME EventInit PROVE EventTypeOK
  BY <1>1 DEF EventInit, EventTypeOK
<1>2. ASSUME EventTypeOK, [EventNext]_eventVars PROVE EventTypeOK'
  <2> USE <1>2 DEF EventTypeOK, driver, sending, receiving, owner
  <2>1. ASSUME NEW t \in Emitters, EmitCheck(t) PROVE EventTypeOK'
    BY <2>1 DEF EmitCheck
  <2>2. ASSUME NEW t \in Emitters, EmitLocked(t) PROVE EventTypeOK'
    <3>1. PICK k \in Keys, end \in BOOLEAN, fits \in BOOLEAN :
            IF KeyRefused(k) \/ ~fits \/ pc = "returned"
            THEN UNCHANGED <<sequences, counted, commands>>
            ELSE /\ commands' = Append(commands, Event(k, sequences[k], end))
                 /\ sequences' = [sequences EXCEPT ![k] = NextSeq(k, end)]
                 /\ counted' = IF end THEN counted \ {k} ELSE counted \cup {k}
      BY <2>2 DEF EmitLocked
    <3>2. /\ Event(k, sequences[k], end) \in OutEvents
          /\ NextSeq(k, end) \in Nat
      BY DEF Event, NextSeq, OutEvents
    <3> DEFINE e == Event(k, sequences[k], end)
               n == NextSeq(k, end)
    <3>3. \/ UNCHANGED <<sequences, counted, commands>>
          \/ /\ commands' = Append(commands, e)
             /\ sequences' = [sequences EXCEPT ![k] = n]
             /\ counted' \subseteq counted \cup {k}
      BY <3>1, Zenon
    <3> HIDE DEF e, n
    <3>4. e \in OutEvents /\ n \in Nat
      BY <3>2 DEF e, n
    <3>5. commands' \in Seq(OutEvents)
      <4>1. Append(commands, e) \in Seq(OutEvents)
        BY <3>4, AppendProperties
      <4> QED BY <3>3, <4>1, Zenon
    <3>6. sequences' \in [Keys -> Nat]
      BY <3>3, <3>4
    <3>7. counted' \in SUBSET Keys
      BY <3>3, Zenon
    <3> QED BY <2>2, <3>5, <3>6, <3>7 DEF EmitLocked
  <2>3. ASSUME NEW s \in Subs, Subscribe(s) \/ Unsubscribe(s) PROVE EventTypeOK'
    <3>1. CASE Subscribe(s)
      <4>1. typed' \in SUBSET Subs /\ subscribers' \in SUBSET Subs /\ since' \in [Subs -> Int]
        BY <3>1 DEF Subscribe
      <4> QED BY <3>1, <4>1 DEF Subscribe
    <3>2. CASE Unsubscribe(s)
      BY <3>2 DEF Unsubscribe
    <3> QED BY <2>3, <3>1, <3>2
  <2>4. ASSUME NEW s \in Subs, Recv(s) PROVE EventTypeOK'
    <3>1. received[s][taken[s] + 1] \in InEvents
      BY <2>4 DEF Recv
    <3> QED BY <2>4, <3>1 DEF Recv
  <2>5. CASE Forward
    BY <2>5 DEF Forward
  <2>6. CASE OnHello
    BY <2>6 DEF OnHello
  <2>7. CASE OnEvent
    <3>1. \A kind \in Kinds : Inbound(sent, kind) \in InEvents
      BY DEF Inbound, InEvents
    <3>2. /\ subscribers' \in SUBSET Subs
          /\ received' \in [Subs -> Seq(InEvents)]
          /\ events' \in Seq(InEvents)
      <4>1. PICK kind \in Kinds :
              /\ IF Delivers
                 THEN /\ subscribers' = {s \in subscribers : since[s] >= 0}
                      /\ received' = [s \in Subs |->
                           IF s \in subscribers' THEN Append(received[s], Inbound(sent, kind))
                           ELSE received[s]]
                 ELSE UNCHANGED <<subscribers, received>>
              /\ events' = IF state = "ready" THEN Append(events, Inbound(sent, kind)) ELSE events
        BY <2>7 DEF OnEvent
      <4> DEFINE e == Inbound(sent, kind)
      <4>2. e \in InEvents
        BY <3>1
      <4> HIDE DEF e
      <4>3. events' \in Seq(InEvents)
        <5>1. events' = IF state = "ready" THEN Append(events, e) ELSE events
          BY <4>1 DEF e
        <5> QED BY <4>2, <5>1
      <4>4. CASE UNCHANGED <<subscribers, received>>
        BY <4>3, <4>4
      <4>5. CASE /\ subscribers' = {s \in subscribers : since[s] >= 0}
                 /\ received' = [s \in Subs |->
                      IF s \in subscribers' THEN Append(received[s], e) ELSE received[s]]
        <5>1. \A s \in Subs : Append(received[s], e) \in Seq(InEvents)
          BY <4>2
        <5>2. received' \in [Subs -> Seq(InEvents)]
          BY <4>5, <5>1
        <5> QED BY <4>3, <4>5, <5>2
      <4> QED BY <4>1, <4>4, <4>5 DEF e
    <3> QED BY <2>7, <3>2 DEF OnEvent
  <2>8. CASE TeardownState \/ TeardownClear \/ Publish \/ DriverReturn
    <3>1. CASE TeardownState
      BY <3>1 DEF TeardownState
    <3>2. CASE TeardownClear
      BY <3>2 DEF TeardownClear
    <3>3. CASE Publish
      BY <3>3 DEF Publish
    <3>4. CASE DriverReturn
      BY <3>4 DEF DriverReturn
    <3> QED BY <2>8, <3>1, <3>2, <3>3, <3>4
  <2>9. CASE Done \/ UNCHANGED eventVars
    BY <2>9 DEF Done, eventVars
  <2> QED BY <2>1, <2>2, <2>3, <2>4, <2>5, <2>6, <2>7, <2>8, <2>9 DEF EventNext
<1> QED BY <1>1, <1>2

\* teardown, step 2 (session/teardown.rs:93), and fan_out_event (session/shared.rs:178):
\* a session that has begun its teardown puts nothing more on the wire, and what a
\* stream was sent is never taken back.
THEOREM ClosedSessionIsQuiet == EventSpec => NothingAfterClose
<1>1. ASSUME EventTypeOK, EmitInv, [EventNext]_eventVars
      PROVE  /\ state = "closed" => wire' = wire /\ events' = events
             /\ \A s \in Subs : /\ Len(received'[s]) >= Len(received[s])
                                /\ SubSeq(received'[s], 1, Len(received[s])) = received[s]
  <2>1. state = "closed" => wire' = wire /\ events' = events
    BY <1>1 DEF EmitInv, EventNext, EmitCheck, EmitLocked, Subscribe, Unsubscribe, Recv, Forward,
                Forwarding, OnHello, OnEvent, TeardownState, TeardownClear, Publish,
                DriverReturn, Done, eventVars, sending, receiving
  <2>2. ASSUME NEW s \in Subs
        PROVE  received'[s] = received[s] \/ \E e \in InEvents :
                                               received'[s] = Append(received[s], e)
    <3>1. CASE OnEvent
      <4>1. \A kind \in Kinds : Inbound(sent, kind) \in InEvents
        BY <1>1 DEF Inbound, InEvents, EventTypeOK
      <4> QED BY <1>1, <3>1, <4>1 DEF OnEvent, EventTypeOK
    <3>2. CASE received' = received
      BY <3>2
    <3> QED BY <1>1, <3>1, <3>2
            DEF EventNext, EmitCheck, EmitLocked, Subscribe, Unsubscribe, Recv, Forward, OnHello,
                TeardownState, TeardownClear, Publish, DriverReturn, Done, eventVars, receiving
  <2>3. ASSUME NEW s \in Subs
        PROVE  /\ Len(received'[s]) >= Len(received[s])
               /\ SubSeq(received'[s], 1, Len(received[s])) = received[s]
    <3>1. received[s] \in Seq(InEvents)
      BY <1>1 DEF EventTypeOK
    <3> QED BY <2>2, <3>1
  <2> QED BY <2>1, <2>3
<1> QED BY <1>1, TypesKeep, EmissionIsSound, PTL DEF EventSpec, NothingAfterClose

=============================================================================
