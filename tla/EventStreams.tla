----------------------------- MODULE EventStreams -----------------------------
(***************************************************************************)
(* Events of a session, both ways: emit, which numbers an event under the   *)
(* sequence lock after an unlocked look at the session's state, and the     *)
(* subscribers that received events are fanned out to.  The driver is       *)
(* reduced to what events can tell of it: it forwards commands while it     *)
(* runs, and its teardown flips the state, clears both tables, publishes    *)
(* the closure and drops the command receiver, in that order.               *)
(***************************************************************************)
EXTENDS Integers, Sequences, FiniteSets

CONSTANTS
  Emitters,     \* threads that call emit
  Keys,         \* stream keys
  Subs,         \* event streams the application opens
  MaxKeys,      \* SessionOptions::max_stream_keys
  MaxEmits,     \* bound: calls of emit
  MaxEvents     \* bound: events the peer sends

ASSUME KeysAssumption == IsFiniteSet(Keys) /\ MaxKeys \in Nat \ {0}

VARIABLES
  state,        \* Shared.inner.state
  pc,           \* the driver: "run", then the steps of teardown
  sequences,    \* Shared.event_sequences: the next seq per key, 0 when absent
  counted,      \* the keys event_sequences has an entry for
  emitter,      \* each emit in progress: "idle", or past its look at the state
  commands,     \* the Send commands queued at the driver
  wire,         \* evt frames handed to the writer, in order
  subscribers,  \* Shared.event_subscribers
  since,        \* events fanned out when each stream was opened; -1 before
  received,     \* what each stream was sent
  typed,        \* the streams that belong to a TypedEventStream
  taken,        \* how many of those the stream's owner has taken from its queue
  yielded,      \* what recv has returned to it
  events,       \* events received from the peer while ready, in order
  emits, sent   \* what is used of the two bounds

driver == <<state, pc>>
sending == <<sequences, counted, emitter, commands, wire, emits>>
receiving == <<subscribers, since, received, typed, taken, yielded, events, sent>>
owner == <<typed, taken, yielded>>
eventVars == <<state, pc, sequences, counted, emitter, commands, wire, emits,
          subscribers, since, received, typed, taken, yielded, events, sent>>

Event(key, seq, end) == [key |-> key, seq |-> seq, end |-> end]

\* An inbound event as a typed subscription sees it: on its topic and decodable,
\* on its topic and not decodable, or on another topic.
Kinds == {"own", "garbled", "other"}
Inbound(n, kind) == [n |-> n, kind |-> kind]

EventInit ==
  /\ state = "handshaking" /\ pc = "run"
  /\ sequences = [k \in Keys |-> 0] /\ counted = {}
  /\ emitter = [e \in Emitters |-> "idle"] /\ commands = <<>> /\ wire = <<>>
  /\ subscribers = {} /\ since = [s \in Subs |-> -1]
  /\ received = [s \in Subs |-> <<>>] /\ events = <<>>
  /\ typed = {} /\ taken = [s \in Subs |-> 0] /\ yielded = [s \in Subs |-> <<>>]
  /\ emits = 0 /\ sent = 0

-----------------------------------------------------------------------------
\* emit looks at the state without the sequence lock; a session that is not
\* ready returns Ok(false) here, which changes nothing.
EmitCheck(e) ==
  /\ emitter[e] = "idle" /\ emits < MaxEmits
  /\ state = "ready"
  /\ emitter' = [emitter EXCEPT ![e] = "checked"]
  /\ emits' = emits + 1
  /\ UNCHANGED <<driver, sequences, counted, commands, wire, receiving>>

KeyRefused(k) == k \notin counted /\ Cardinality(counted) >= MaxKeys

\* Mutant: the end of a stream leaves its counter behind.
NextSeqKept(k, end) == sequences[k] + 1

NextSeq(k, end) == IF end THEN 0 ELSE sequences[k] + 1

\* emit under the sequence lock: the key ceiling, the size, the send, and only
\* then the new count.  A refusal and a driver that is gone leave the table alone.
EmitLocked(e) ==
  /\ emitter[e] = "checked"
  /\ emitter' = [emitter EXCEPT ![e] = "idle"]
  /\ \E k \in Keys, end \in BOOLEAN, fits \in BOOLEAN :
       IF KeyRefused(k) \/ ~fits \/ pc = "returned"
       THEN UNCHANGED <<sequences, counted, commands>>
       ELSE /\ commands' = Append(commands, Event(k, sequences[k], end))
            /\ sequences' = [sequences EXCEPT ![k] = NextSeq(k, end)]
            /\ counted' = IF end THEN counted \ {k} ELSE counted \cup {k}
  /\ UNCHANGED <<driver, wire, emits, receiving>>

\* Mutant: commands are still taken while teardown runs.
ForwardingLate == pc # "returned"

Forwarding == pc = "run"

\* The driver takes a Send command and queues its frame at the writer.
Forward ==
  /\ Forwarding /\ commands # <<>>
  /\ wire' = Append(wire, Head(commands))
  /\ commands' = Tail(commands)
  /\ UNCHANGED <<driver, sequences, counted, emitter, emits, receiving>>

-----------------------------------------------------------------------------
OnHello ==
  /\ pc = "run" /\ state = "handshaking" /\ commands = <<>>
  /\ state' = "ready"
  /\ UNCHANGED <<pc, sending, receiving>>

\* events(), by itself or for ContractEvents::subscribe: a sender is pushed,
\* whatever the state of the session.
Subscribe(s) ==
  /\ since[s] = -1
  /\ since' = [since EXCEPT ![s] = Len(events)]
  /\ subscribers' = subscribers \cup {s}
  /\ typed' \in {typed, typed \cup {s}}
  /\ UNCHANGED <<driver, sending, received, taken, yielded, events, sent>>

\* The application drops an EventStream: its sender fails at the next event.
Unsubscribe(s) ==
  /\ since[s] >= 0
  /\ since' = [since EXCEPT ![s] = -2]
  /\ UNCHANGED <<driver, sending, subscribers, received, owner, events, sent>>

Delivers == state = "ready"

\* fan_out_event: dropped unless ready; a sender without a receiver is removed.
OnEvent ==
  /\ pc = "run" /\ commands = <<>> /\ sent < MaxEvents
  /\ sent' = sent + 1
  /\ \E kind \in Kinds :
       /\ IF Delivers
          THEN /\ subscribers' = {s \in subscribers : since[s] >= 0}
               /\ received' = [s \in Subs |->
                    IF s \in subscribers' THEN Append(received[s], Inbound(sent, kind))
                    ELSE received[s]]
          ELSE UNCHANGED <<subscribers, received>>
       /\ events' = IF state = "ready" THEN Append(events, Inbound(sent, kind)) ELSE events
  /\ UNCHANGED <<driver, sending, since, owner>>

\* Mutant: an event that does not decode is skipped like one of another topic.
SkipsGarbled(s, event) == s \in typed /\ event.kind # "own"

\* An untyped stream takes everything; a typed one passes over other topics and
\* returns an error for what does not decode.
Skips(s, event) == s \in typed /\ event.kind = "other"

\* One turn of recv's loop: the next event is taken, and returned or passed over.
Recv(s) ==
  /\ since[s] >= 0 /\ taken[s] < Len(received[s])
  /\ taken' = [taken EXCEPT ![s] = @ + 1]
  /\ LET event == received[s][taken[s] + 1] IN
     yielded' = IF Skips(s, event) THEN yielded ELSE [yielded EXCEPT ![s] = Append(@, event)]
  /\ UNCHANGED <<driver, sending, subscribers, since, received, typed, events, sent>>

-----------------------------------------------------------------------------
\* The loop ends, for whatever reason, and the state is flipped.
TeardownState ==
  /\ pc = "run"
  /\ pc' = "closing" /\ state' = "closed"
  /\ UNCHANGED <<sending, receiving>>

\* Step 7: the sequence map and the subscribers are cleared.
TeardownClear ==
  /\ pc = "closing"
  /\ pc' = "cleared"
  /\ sequences' = [k \in Keys |-> 0] /\ counted' = {}
  /\ subscribers' = {}
  /\ UNCHANGED <<state, emitter, commands, wire, emits, since, received, owner, events, sent>>

Publish ==
  /\ pc = "cleared"
  /\ pc' = "published"
  /\ UNCHANGED <<state, sending, receiving>>

DriverReturn ==
  /\ pc = "published"
  /\ pc' = "returned"
  /\ commands' = <<>>
  /\ UNCHANGED <<state, sequences, counted, emitter, wire, emits, receiving>>

Done == pc = "returned" /\ (\A e \in Emitters : emitter[e] = "idle") /\ UNCHANGED eventVars

EventNext ==
  \/ \E e \in Emitters : EmitCheck(e) \/ EmitLocked(e)
  \/ \E s \in Subs : Subscribe(s) \/ Unsubscribe(s) \/ Recv(s)
  \/ Forward \/ OnHello \/ OnEvent
  \/ TeardownState \/ TeardownClear \/ Publish \/ DriverReturn
  \/ Done

EventSpec == EventInit /\ [][EventNext]_eventVars

-----------------------------------------------------------------------------
OutEvents == [key: Keys, seq: Nat, end: BOOLEAN]
InEvents == [n: Nat, kind: Kinds]

\* Every variable holds a value of its kind.
EventTypeOK ==
  /\ state \in {"handshaking", "ready", "closed"}
  /\ pc \in {"run", "closing", "cleared", "published", "returned"}
  /\ sequences \in [Keys -> Nat] /\ counted \in SUBSET Keys
  /\ emitter \in [Emitters -> {"idle", "checked"}]
  /\ commands \in Seq(OutEvents)
  /\ wire \in Seq(OutEvents)
  /\ subscribers \in SUBSET Subs /\ since \in [Subs -> Int]
  /\ received \in [Subs -> Seq(InEvents)] /\ events \in Seq(InEvents)
  /\ typed \in SUBSET Subs /\ taken \in [Subs -> Nat]
  /\ yielded \in [Subs -> Seq(InEvents)]
  /\ emits \in Nat /\ sent \in Nat

\* The seq n is due for the next event on k after the frames of q: one more than
\* that of k's last event, and zero for the first one and after an end.
Due(k, q, n) ==
  LET ofKey == {j \in 1..Len(q) : q[j].key = k} IN
  \/ ofKey = {} /\ n = 0
  \/ \E last \in ofKey :
       /\ \A l \in ofKey : l <= last
       /\ n = IF q[last].end THEN 0 ELSE q[last].seq + 1

\* Spec 8: on every stream key the events on the wire, and those queued behind
\* them, are numbered 0, 1, 2, ... and start again at 0 after an end, however
\* the emitting threads interleave; and the table holds the number that is due.
\* It speaks of the session until its table is cleared.
SequencesAreContiguous ==
  LET all == wire \o commands IN
  pc \in {"run", "closing"} =>
    /\ \A j \in 1..Len(all) : Due(all[j].key, SubSeq(all, 1, j - 1), all[j].seq)
    /\ \A k \in Keys : Due(k, all, sequences[k])

\* The emission ceiling holds at all times, teardown included, and the table
\* has an entry exactly for the keys that are counting.
KeysAreBounded ==
  /\ Cardinality(counted) <= MaxKeys
  /\ \A k \in Keys : k \in counted <=> sequences[k] > 0

\* A stream is sent exactly the events that arrive from the moment it was opened,
\* in order, none missed and none early, until it is dropped or the session ends;
\* and its owner is handed each of them in that order: a typed subscription all
\* those on its topic, decodable or not.
StreamsAreComplete ==
  \A s \in Subs :
    /\ since[s] >= 0 /\ s \in subscribers =>
         received[s] = SubSeq(events, since[s] + 1, Len(events))
    /\ LET wanted(event) == s \in typed => event.kind \in {"own", "garbled"} IN
       yielded[s] = SelectSeq(SubSeq(received[s], 1, taken[s]), wanted)

\* Nothing is put on the wire by a session that has begun its teardown, and what
\* a stream has been sent is never taken back.
NothingAfterClose ==
  [][/\ state = "closed" => wire' = wire /\ events' = events
     /\ \A s \in Subs : /\ Len(received'[s]) >= Len(received[s])
                        /\ SubSeq(received'[s], 1, Len(received[s])) = received[s]]_eventVars
=============================================================================
