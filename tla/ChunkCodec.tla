----------------------------- MODULE ChunkCodec ------------------------------
(***************************************************************************)
(* WebSocket chunk framing, codec/chunk.rs: encode_chunks cuts a frame into *)
(* messages and ChunkReassembler puts it together again.  A payload is its  *)
(* length; the four sizes the code fixes are parameters in the ratio that   *)
(* matters, capacity >= MinPayload.                                         *)
(***************************************************************************)
EXTENDS Integers, Sequences

CONSTANTS
    MaxFrame,    \* max_frame_bytes of both ends
    MinPayload,  \* MIN_NONFINAL_PAYLOAD_BYTES
    Header,      \* CHUNK_HEADER_BYTES
    Ceilings,    \* max_message_bytes a sender may have been given
    MinCeiling,  \* MIN_MAX_MESSAGE_BYTES
    MaxPushes    \* messages one connection delivers

ASSUME ChunkAssumption ==
    /\ MaxFrame \in Nat \ {0} /\ MinPayload \in Nat \ {0} /\ Header \in Nat
    /\ Ceilings \subseteq Nat /\ MinCeiling \in Nat /\ MaxPushes \in Nat
    /\ MinCeiling >= Header + MinPayload

VARIABLES
    count, next,    \* ChunkReassembler.count (0: none) and next_index
    size,           \* bytes in its buffer
    inbox,          \* chunks of an encoded frame on their way
    sent,           \* the length of the last frame encode_chunks owed a round
                    \* trip, 0 for one it may refuse or after stray chunks
    run,            \* chunks stored since the reassembler was last reset
    outcome,        \* what the last push returned
    pushes

chunkVars == <<count, next, size, inbox, sent, run, outcome, pushes>>

ChunkInit ==
    /\ count = 0 /\ next = 0 /\ size = 0
    /\ inbox = <<>> /\ sent = 0 /\ run = <<>>
    /\ outcome = [kind |-> "none", size |-> 0]
    /\ pushes = 0

DivCeil(a, b) == (a + b - 1) \div b

MutFloorChunks == MaxFrame \div MinPayload

(* max_chunks_for                                                            *)
MaxChunks == DivCeil(MaxFrame, MinPayload)

Chunk(i, n, s) == [version |-> 1, index |-> i, count |-> n, size |-> s]

Smaller(a, b) == IF a < b THEN a ELSE b

(* encode_chunks of a frame of len bytes: every message but the last full,   *)
(* and no message when the ceiling or the frame is refused.                  *)
Encode(len, ceiling) ==
    LET capacity == ceiling - Header
        n == DivCeil(len, capacity)
    IN  IF ceiling < MinCeiling \/ len > MaxFrame \/ n > MaxChunks
          THEN <<>>
          ELSE [k \in 1 .. n |->
                 Chunk(k - 1, n, Smaller(capacity, len - (k - 1) * capacity))]

(* A frame within the limit, and a ceiling no lower than the floor every     *)
(* receiver grants: what encode_chunks may not refuse.                       *)
Sendable(len, ceiling) == len <= MaxFrame /\ ceiling >= MinCeiling

(* The session sends a frame; nothing is queued for one that is refused.     *)
SendFrame(len, ceiling) ==
    /\ inbox = <<>>
    /\ sent' = IF Sendable(len, ceiling) /\ run = <<>> THEN len ELSE 0
    /\ inbox' = Encode(len, ceiling)
    /\ outcome' = [kind |-> IF Encode(len, ceiling) = <<>> THEN "unsent" ELSE "none",
                   size |-> 0]
    /\ UNCHANGED <<count, next, size, run, pushes>>

-----------------------------------------------------------------------------
(* Every chunk but the last carries a minimum.                               *)
Dribble(m) == m.size = 0 \/ (m.index + 1 # m.count /\ m.size < MinPayload)

Overflows(m) == size + m.size > MaxFrame

(* decode: the refusals of the transport specification.                      *)
Refused(m) ==
    \/ m.version # 1
    \/ m.count = 0 \/ m.count > MaxChunks
    \/ count # 0 /\ m.count # count
    \/ m.index # next
    \/ Dribble(m)
    \/ Overflows(m)

(* reset, after a refusal and after the final chunk alike.                   *)
IndexAfterReset == 0

Reset ==
    /\ count' = 0 /\ next' = IndexAfterReset /\ size' = 0
    /\ run' = <<>>

(* push.  The line a last chunk completes goes through decode_line, which    *)
(* refuses what no encoder made.                                             *)
Receive(m) ==
    /\ pushes < MaxPushes
    /\ pushes' = pushes + 1
    /\ \/ /\ Refused(m)
          /\ Reset
          /\ outcome' = [kind |-> "refused", size |-> 0]
       \/ /\ ~ Refused(m) /\ m.index + 1 # m.count
          /\ count' = m.count /\ next' = m.index + 1 /\ size' = size + m.size
          /\ run' = Append(run, m)
          /\ outcome' = [kind |-> "more", size |-> 0]
       \/ /\ ~ Refused(m) /\ m.index + 1 = m.count
          /\ Reset
          /\ \/ outcome' = [kind |-> "frame", size |-> size + m.size]
             \/ sent = 0 /\ outcome' = [kind |-> "refused", size |-> 0]

Deliver ==
    /\ inbox # <<>>
    /\ Receive(Head(inbox))
    /\ inbox' = Tail(inbox)
    /\ UNCHANGED sent

(* A message no encoder of this crate made: a short one has no payload.      *)
Strays == [version : {1, 2}, index : 0 .. MaxChunks, count : 0 .. MaxChunks + 1,
           size : 0 .. MaxFrame]

Stray(m) ==
    /\ inbox = <<>>
    /\ Receive(m)
    /\ sent' = 0
    /\ UNCHANGED inbox

ChunkNext ==
    \/ \E len \in 1 .. MaxFrame + 1, ceiling \in Ceilings : SendFrame(len, ceiling)
    \/ Deliver
    \/ \E m \in Strays : Stray(m)

-----------------------------------------------------------------------------
(* encode_chunks and push: a frame within the limit, cut for any ceiling a   *)
(* sender may choose, is refused neither by the encoder nor by the           *)
(* reassembler: each chunk but the last asks for more and the last one gives *)
(* the frame back whole, whatever the reassembler refused before.            *)
RoundTrip ==
    sent # 0 /\ outcome.kind # "none" =>
        outcome = IF inbox = <<>> THEN [kind |-> "frame", size |-> sent]
                                  ELSE [kind |-> "more", size |-> 0]

=============================================================================
