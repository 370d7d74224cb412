-------------------------------- MODULE Peers --------------------------------
(***************************************************************************)
(* Two sessions on the two ends of one connection: each hello, what the     *)
(* other side makes of it (on_hello, negotiate), and the limits both then   *)
(* keep to (Shared::send_limit_bytes, remote_max_in_flight, assert_fits),   *)
(* over an ordered port as port/pair.rs makes it.  Session has the inside   *)
(* of one session; here a frame is its kind and its size.                   *)
(***************************************************************************)
EXTENDS Integers, Sequences

CONSTANTS
    Profiles,         \* the options either side may be opened with
    Sizes,            \* encoded sizes of the frames an application causes
    MinFrame,         \* MIN_MAX_FRAME_BYTES
    DefaultFrame,     \* DEFAULT_MAX_FRAME_BYTES
    DefaultInFlight,  \* DEFAULT_MAX_IN_FLIGHT
    MaxAnnounced,     \* MAX_ANNOUNCED_FRAME_BYTES, MAX_ANNOUNCED_IN_FLIGHT
    MaxCalls          \* requests either side makes

Sides == {"a", "b"}
Other(p) == IF p = "a" THEN "b" ELSE "a"

(* PROTOCOL_MINOR, the highest minor this crate implements.                  *)
PROTOCOL_MINOR == 1

(* close_codes                                                               *)
RELEASED == 4000
PROTOCOL_ERROR == 4400
PROTOCOL_MISMATCH == 4426

VARIABLES
    opts,      \* the options each side was opened with
    st,        \* "new", SessionState, or "gone" once the driver has returned
    remote,    \* Inner.remote: the peer's hello and the effective minor
    code,      \* the closure's code, 0 before it
    why,       \* which path led to it
    wire,      \* what is on its way to each side, oldest first
    calls,     \* requests each side has made
    mishaps    \* frames some side could not send or read, and refusals of requests

peerVars == <<opts, st, remote, code, why, wire, calls, mishaps>>

None == [effective |-> 0, frame |-> 0, inFlight |-> 0]

(* check_at_least, of a ceiling that is 0 when it is not set.                *)
AtLeast(ceiling, floor) == ceiling = 0 \/ ceiling >= floor

(* with_max_frame_bytes, with_max_in_flight and open: a ceiling below its    *)
(* floor panics before there is a session.                                   *)
Opens(o) == AtLeast(o.session, MinFrame) /\ AtLeast(o.port, MinFrame) /\ o.inFlight >= 1

PeersInit ==
    /\ opts \in [Sides -> {o \in Profiles : Opens(o)}]
    /\ st = [p \in Sides |-> "new"] /\ remote = [p \in Sides |-> None]
    /\ code = [p \in Sides |-> 0] /\ why = [p \in Sides |-> "none"]
    /\ wire = [p \in Sides |-> <<>>] /\ calls = [p \in Sides |-> 0]
    /\ mishaps = {}

-----------------------------------------------------------------------------
Least(x, y) == IF x < y THEN x ELSE y

MutSessionReplaces(o) == IF o.session # 0 THEN o.session ELSE IF o.port # 0 THEN o.port ELSE DefaultFrame

(* Session::open: the session's ceiling narrows the port's, 0 for unset.     *)
LocalMaxFrame(o) ==
    IF o.session # 0 /\ o.port # 0 THEN Least(o.session, o.port)
    ELSE IF o.session # 0 THEN o.session
    ELSE IF o.port # 0 THEN o.port
    ELSE DefaultFrame

(* build_hello: a limit is announced only when it is not the default.        *)
Hello(o) ==
    [kind |-> "hello", size |-> o.hello, major |-> o.major, minor |-> o.minor,
     frame |-> IF LocalMaxFrame(o) < DefaultFrame THEN LocalMaxFrame(o) ELSE 0,
     inFlight |-> IF o.inFlight # DefaultInFlight THEN o.inFlight ELSE 0]

(* check_range, of a limit that is 0 when it is absent.                      *)
InRange(limit, least, most) == limit = 0 \/ limit \in least .. most

(* validate, of a hello; the other frames are made of valid parts.           *)
Valid(f) ==
    f.kind = "hello" =>
        /\ f.major >= 1
        /\ InRange(f.frame, MinFrame, MaxAnnounced) /\ InRange(f.inFlight, 1, MaxAnnounced)

SendLimit(p) ==
    Least(LocalMaxFrame(opts[p]), IF remote[p].frame = 0 THEN DefaultFrame ELSE remote[p].frame)

RemoteMaxInFlight(p) == IF remote[p].inFlight = 0 THEN DefaultInFlight ELSE remote[p].inFlight

Fits(p, f) == Valid(f) /\ f.size <= SendLimit(p)

(* The codec behind a port, on either half: its own ceiling, if it has one.  *)
PortTakes(p, f) == opts[p].port = 0 \/ f.size <= opts[p].port

MutOwnMinor(local, other) == local.minor

(* negotiate, for equal majors.                                              *)
EffectiveMinor(local, other) == Least(local.minor, other.minor)

(* is_defined_reserved_method                                                *)
Defined(m, minor) == m = "rpc.discover" /\ minor >= 1
Undefined(m, minor) == m # "app.call" /\ ~Defined(m, minor)

-----------------------------------------------------------------------------
Close(c) == [kind |-> "close", size |-> 1, code |-> c]
Gone == [kind |-> "end", size |-> 0]

(* teardown, over what is left on the wire: for a local reason it flushes    *)
(* and sends the code, for the peer's or the port's it drops its send half.  *)
Leave(p, c, reason, last, left) ==
    /\ st' = [st EXCEPT ![p] = "closed"]
    /\ code' = [code EXCEPT ![p] = c]
    /\ why' = [why EXCEPT ![p] = reason]
    /\ wire' = [left EXCEPT ![Other(p)] = Append(@, last)]

(* forward: a receiver that is gone answers Closed, and the frame is lost.   *)
Reaches(p) == st[Other(p)] # "gone"

(* A frame goes out through the writer.  One the port refuses, or one for a  *)
(* peer that is gone, ends the session (on_send_failure).                    *)
Send(p, f, left, met) ==
    IF PortTakes(p, f) /\ Reaches(p)
      THEN /\ wire' = [left EXCEPT ![Other(p)] = Append(@, f)]
           /\ mishaps' = mishaps \cup met
           /\ UNCHANGED <<st, code, why>>
      ELSE /\ Leave(p, RELEASED, "send", Close(RELEASED), left)
           /\ mishaps' = mishaps \cup met \cup (IF Reaches(p) THEN {f.kind} ELSE {})

(* SessionDriver::run up to its loop.                                        *)
Start(p) ==
    LET hello == Hello(opts[p])
    IN  /\ st[p] = "new"
        /\ IF Fits(p, hello) /\ PortTakes(p, hello) /\ Reaches(p)
             THEN /\ st' = [st EXCEPT ![p] = "handshaking"]
                  /\ wire' = [wire EXCEPT ![Other(p)] = Append(@, hello)]
                  /\ UNCHANGED <<code, why>>
             ELSE Leave(p, RELEASED, "hello", Close(RELEASED), wire)
        /\ UNCHANGED <<opts, remote, calls, mishaps>>

(* Session::request_with: refused here, or sent.                             *)
Request(p, m, size) ==
    LET f == [kind |-> "req", size |-> size, method |-> m]
    IN  /\ st[p] = "ready" /\ calls[p] < MaxCalls
        /\ ~Undefined(m, PROTOCOL_MINOR) /\ ~Undefined(m, remote[p].effective)
        /\ Fits(p, f)
        /\ calls' = [calls EXCEPT ![p] = @ + 1]
        /\ Send(p, f, wire, {})
        /\ UNCHANGED <<opts, remote>>

-----------------------------------------------------------------------------
(* What the driver does with the head of its wire.                           *)
Taken(p) == [wire EXCEPT ![p] = Tail(@)]

(* The receiving codec refuses a frame past its port's ceiling and closes    *)
(* the connection (close_code_for_codec_error).                              *)
RecvUnreadable(p, f) ==
    /\ Leave(p, PROTOCOL_ERROR, "decode", Close(PROTOCOL_ERROR), Taken(p))
    /\ mishaps' = mishaps \cup {f.kind}
    /\ UNCHANGED remote

OnHello(p, f) ==
    /\ \/ /\ st[p] # "handshaking"
          /\ Leave(p, PROTOCOL_ERROR, "duplicate", Close(PROTOCOL_ERROR), Taken(p))
          /\ UNCHANGED remote
       \/ /\ st[p] = "handshaking" /\ f.major # opts[p].major
          /\ Leave(p, PROTOCOL_MISMATCH, "mismatch", Close(PROTOCOL_MISMATCH), Taken(p))
          /\ UNCHANGED remote
       \/ /\ st[p] = "handshaking" /\ f.major = opts[p].major
          /\ st' = [st EXCEPT ![p] = "ready"]
          /\ remote' = [remote EXCEPT ![p] =
                [frame |-> f.frame, inFlight |-> f.inFlight, effective |-> EffectiveMinor(opts[p], f)]]
          /\ wire' = Taken(p)
          /\ UNCHANGED <<code, why>>
    /\ UNCHANGED mishaps

(* on_request's refusals that the handshake decides.                         *)
Early(p) == st[p] # "ready"
Reserved(p, f) == ~Early(p) /\ Undefined(f.method, remote[p].effective)

(* on_request and the handler's answer: a result that does not fit is        *)
(* answered with an error instead, and errors are not measured.              *)
OnRequest(p, f) ==
    /\ \/ /\ Early(p) \/ Reserved(p, f)
          /\ Send(p, [kind |-> "err", size |-> 1], Taken(p), {IF Early(p) THEN "early" ELSE "reserved"})
       \/ /\ ~Early(p) /\ ~Reserved(p, f)
          /\ \E size \in Sizes :
               \/ Send(p, [kind |-> "err", size |-> size], Taken(p), {})
               \/ LET result == [kind |-> "res", size |-> size]
                  IN  Send(p, IF Fits(p, result) THEN result ELSE [kind |-> "err", size |-> 1], Taken(p), {})
    /\ UNCHANGED remote

(* recv and on_frame.                                                        *)
OnFrame(p, f) ==
    \/ /\ f.kind \in {"close", "end"}
       /\ Leave(p, IF f.kind = "close" THEN f.code ELSE RELEASED, "peer", Gone, Taken(p))
       /\ UNCHANGED <<remote, mishaps>>
    \/ f.kind \notin {"close", "end"} /\ ~PortTakes(p, f) /\ RecvUnreadable(p, f)
    \/ f.kind = "hello" /\ PortTakes(p, f) /\ OnHello(p, f)
    \/ f.kind = "req" /\ PortTakes(p, f) /\ OnRequest(p, f)
    \/ /\ f.kind \in {"res", "err"} /\ PortTakes(p, f)
       /\ wire' = Taken(p)
       /\ UNCHANGED <<st, code, why, remote, mishaps>>

Recv(p) ==
    /\ st[p] \in {"handshaking", "ready"} /\ wire[p] # <<>>
    /\ OnFrame(p, Head(wire[p]))
    /\ UNCHANGED <<opts, calls>>

(* close(), or the handshake's time is up.                                   *)
LeavesByItself(p) ==
    /\ \/ st[p] \in {"handshaking", "ready"} /\ Leave(p, RELEASED, "local", Close(RELEASED), wire)
       \/ st[p] = "handshaking" /\ Leave(p, PROTOCOL_ERROR, "timeout", Close(PROTOCOL_ERROR), wire)
    /\ UNCHANGED <<opts, remote, calls, mishaps>>

(* run() has returned: the receive half is dropped.                          *)
DropPort(p) ==
    /\ st[p] = "closed"
    /\ st' = [st EXCEPT ![p] = "gone"]
    /\ wire' = [wire EXCEPT ![p] = <<>>]
    /\ UNCHANGED <<opts, remote, code, why, calls, mishaps>>

PeersNext ==
    \E p \in Sides :
      \/ Start(p) \/ Recv(p) \/ LeavesByItself(p) \/ DropPort(p)
      \/ \E m \in {"app.call", "rpc.discover", "rpc.other"}, size \in Sizes : Request(p, m, size)
-----------------------------------------------------------------------------
(* on_hello on both sides: two sessions that are ready run at one effective  *)
(* minor and one frame limit, and each knows the in-flight ceiling the other *)
(* was given; two of different majors are never ready, and unless one was    *)
(* closed, timed out or unreadable first, both report 4426, whichever was    *)
(* first to see it.                                                          *)
HandshakeAgrees ==
    LET a == "a"
        b == "b"
    IN  /\ st[a] = "ready" /\ st[b] = "ready" =>
             /\ opts[a].major = opts[b].major
             /\ remote[a].effective = remote[b].effective
             /\ SendLimit(a) = SendLimit(b)
             /\ \A p \in Sides : RemoteMaxInFlight(p) = opts[Other(p)].inFlight
        /\ opts[a].major # opts[b].major =>
             /\ \A p \in Sides : st[p] # "ready"
             /\ (\A p \in Sides : code[p] # 0 /\ why[p] \notin {"local", "timeout", "hello", "decode"})
                  => \A p \in Sides : code[p] = PROTOCOL_MISMATCH

(* assert_fits on one side, the codec on the other: a request or a result    *)
(* this crate lets out is one the other side's transport reads, and a        *)
(* request is never turned away as early or as undefined: both hellos have   *)
(* crossed and both sides count in one minor.  Only a hello, sent before the *)
(* peer's limit is known, and an error, which nobody measures, may not be    *)
(* read.                                                                     *)
SentIsRead == mishaps \subseteq {"hello", "err"}
=============================================================================
