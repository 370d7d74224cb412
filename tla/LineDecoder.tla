----------------------------- MODULE LineDecoder -----------------------------
(***************************************************************************)
(* The NDJSON stream decoder of codec/ndjson.rs: bytes arrive in pieces cut *)
(* anywhere and leave as frames, one per record.  A byte is one of five     *)
(* kinds; a record decodes when it holds no byte that is not JSON.          *)
(***************************************************************************)
EXTENDS Naturals, Sequences, FiniteSets, SequencesExt

CONSTANTS
    Limit,       \* max_frame_bytes
    MaxStream    \* bytes a stream may carry

ASSUME StreamAssumption == Limit \in Nat \ {0} /\ MaxStream \in Nat

Bytes == {"json", "junk", "space", "cr", "lf"}

VARIABLES
    buffer,     \* LineDecoder.buffer
    failure,    \* LineDecoder.failure
    frames,     \* every frame the pushes handed out, in order
    stream,     \* every byte fed so far
    finished    \* finish has been called

lineVars == <<buffer, failure, frames, stream, finished>>

LineInit ==
    /\ buffer = <<>> /\ failure = FALSE /\ frames = <<>>
    /\ stream = <<>> /\ finished = FALSE

-----------------------------------------------------------------------------
(* strip_carriage_return                                                     *)
Strip(line) == IF line # <<>> /\ Last(line) = "cr" THEN Front(line) ELSE line

(* is_blank                                                                  *)
Blank(line) == ToSet(line) \subseteq {"space", "cr"}

(* decode_line, of a line that is neither too long nor blank.                *)
Decodes(line) == "junk" \notin ToSet(line)

MutBlankFirst(line) ==
    IF Blank(Strip(line)) THEN "skip"
    ELSE IF Len(Strip(line)) > Limit \/ ~ Decodes(line) THEN "refuse"
    ELSE "frame"

(* One complete record: the size check comes before the blank check.         *)
Judge(line) ==
    IF Len(Strip(line)) > Limit THEN "refuse"
    ELSE IF Blank(Strip(line)) THEN "skip"
    ELSE IF Decodes(line) THEN "frame"
    ELSE "refuse"

(* One byte of the loop over the buffer: nothing is read past a refusal.     *)
Take(acc, byte) ==
    IF acc.failure THEN acc
    ELSE IF byte # "lf" THEN [acc EXCEPT !.line = Append(@, byte)]
    ELSE LET judged == Judge(acc.line)
         IN  [line |-> <<>>,
              failure |-> judged = "refuse",
              frames |-> IF judged = "frame" THEN Append(acc.frames, Strip(acc.line))
                                             ELSE acc.frames]

MutPartialUnchecked(line) == FALSE

(* A record still partial is refused before its terminator arrives.          *)
PartialTooLarge(line) == Len(Strip(line)) > Limit

Push(bytes) ==
    LET read == FoldLeft(Take, [line |-> <<>>, failure |-> FALSE, frames |-> <<>>],
                         buffer \o bytes)
        refused == read.failure \/ PartialTooLarge(read.line)
    IN  /\ ~ finished
        /\ Len(stream) + Len(bytes) <= MaxStream
        /\ stream' = stream \o bytes
        /\ IF failure
             THEN UNCHANGED <<buffer, failure, frames>>
             ELSE /\ frames' = frames \o read.frames
                  /\ failure' = refused
                  /\ buffer' = IF refused THEN <<>> ELSE read.line
        /\ UNCHANGED finished

(* finish: the last record may lack its terminator.                          *)
Finish ==
    /\ ~ finished
    /\ finished' = TRUE
    /\ IF failure
         THEN UNCHANGED <<buffer, failure, frames>>
         ELSE /\ buffer' = <<>>
              /\ failure' = (~ Blank(Strip(buffer)) /\ Judge(buffer) = "refuse")
              /\ frames' = IF Judge(buffer) = "frame" THEN Append(frames, Strip(buffer))
                                                      ELSE frames
    /\ UNCHANGED stream

Pieces == UNION {[1 .. n -> Bytes] : n \in 1 .. MaxStream - Len(stream)}

LineNext == (\E bytes \in Pieces : Push(bytes)) \/ Finish

-----------------------------------------------------------------------------
(* The reference: the records of a stream, told from the positions of its    *)
(* terminators and not byte by byte.                                         *)
Ends == {k \in 1 .. Len(stream) : stream[k] = "lf"}
        \union (IF finished THEN {Len(stream) + 1} ELSE {})

StartOf(k) ==
    LET before == {e \in Ends : e < k}
    IN  IF before = {} THEN 1 ELSE 1 + CHOOSE e \in before : \A f \in before : f <= e

Record(k) == SubSeq(stream, StartOf(k), k - 1)

Bad(k) == LET line == Record(k)
          IN  \/ Len(Strip(line)) > Limit
              \/ ~ Blank(line) /\ "junk" \in ToSet(line)

Good(k) == ~ Blank(Record(k)) /\ \A e \in Ends : e <= k => ~ Bad(e)

(* The bytes after the last terminator.                                      *)
Rest == Record(Len(stream) + 1)

(* LineDecoder::push: "Pieces may split anywhere".  However the transport    *)
(* cuts a stream, the decoder hands out exactly the records before the first *)
(* refused one, once each and in order, and has failed exactly when some     *)
(* record, complete or still partial, is refused ("a completed blank line    *)
(* must refuse exactly when the same bytes, still partial, already would     *)
(* have").                                                                   *)
SplitIndependent ==
    LET good == {k \in Ends : Good(k)}
    IN  /\ Len(frames) = Cardinality(good)
        /\ \A k \in good :
             frames[Cardinality({e \in good : e <= k})] = Strip(Record(k))
        /\ failure = ((\E k \in Ends : Bad(k)) \/ (~ finished /\ Len(Strip(Rest)) > Limit))

(* A peer that never ends its line costs the decoder one frame limit of      *)
(* memory, and the carriage return that may still turn out to be a           *)
(* terminator's.                                                             *)
BufferIsBounded == Len(buffer) <= Limit + 1
=============================================================================
