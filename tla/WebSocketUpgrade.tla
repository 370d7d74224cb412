--------------------------- MODULE WebSocketUpgrade ---------------------------
(***************************************************************************)
(* The way to a WebSocket port: connect_websocket on the dialling side      *)
(* (transports/websocket/client.rs), accept_websocket on the accepting side *)
(* (transports/websocket/server.rs), and the port of WebSocketPort once     *)
(* either has let one through.  A behaviour is one side of this crate       *)
(* against any peer.                                                        *)
(***************************************************************************)
EXTENDS WebSocketPort

Mango == "mango.v1"

(* close_codes: PROTOCOL_ERROR, UNAUTHORIZED, FORBIDDEN, RATE_LIMITED.       *)
ProtocolError == 4400
Unauthorized == 4401
Forbidden == 4403
RateLimited == 4429

VARIABLES
    role,       \* "dialler" or "acceptor"
    stage,      \* how far the upgrade is, and how it ended
    socket,     \* this side's end: "none", "open", "closed" or "dropped"
    fired,      \* what the dialler's ConnectDeadline has let go of
    offer,      \* the subprotocol the dialler's request offers
    answer,     \* what came of the handshake: a selected subprotocol, or ...
    request,    \* the upgrade request, until accept_websocket has returned the port
    judged,     \* what `authorize` answered: a close code, 0 for Ok
    code        \* the close code written before the socket was let go, 0 for none

dialVars == <<fired, offer, answer>>
acceptVars == <<request, judged, code>>
upgradeVars == <<role, stage, socket, dialVars, acceptVars>>
connVars == <<vars, upgradeVars>>

(* The headers of an upgrade request as the acceptor's library presents      *)
(* them: every Sec-WebSocket-Protocol header with its comma-separated list,  *)
(* the Authorization header, the Origin header.                              *)
Protocols == {<<>>, << <<Mango>> >>, << <<"chat">>, <<"chat", Mango>> >>, << <<"chat">> >>}
Authorizations == {"absent", "bearer token", "Bearer token", "Bearer blank", "Basic token"}
Origins == {"absent", "listed", "elsewhere", "undecodable"}
Requests == [protocols : Protocols, authorization : Authorizations, origin : Origins]

NoRequest == [protocols |-> <<>>, authorization |-> "absent", origin |-> "absent"]

UpgradeInit ==
    /\ Init
    /\ role \in {"dialler", "acceptor"}
    /\ stage = "start" /\ socket = IF role = "dialler" THEN "none" ELSE "open"
    /\ fired = {} /\ offer = Mango /\ answer = "none yet"
    /\ request = NoRequest /\ judged = -1 /\ code = 0

-----------------------------------------------------------------------------
(* connect_websocket.                                                        *)

(* build_request and tls_connector: a URL, a token, a header or a TLS        *)
(* provider that will not do ends the dial.  The caller's own headers are    *)
(* inserted last, so one of them may replace the subprotocol.                *)
BuildRequest ==
    /\ role = "dialler" /\ stage = "start"
    /\ \/ stage' = "refused" /\ UNCHANGED offer
       \/ stage' = "dialling" /\ offer' \in {Mango, "chat"}
    /\ UNCHANGED <<role, socket, fired, answer, acceptVars, vars>>

(* The caller's token is cancelled, or the budget runs out, which for a      *)
(* budget of zero is before the attempt is first polled.                     *)
DeadlineFires ==
    /\ role = "dialler" /\ stage \in {"start", "dialling"}
    /\ \E f \in {"cancelled", "timed out"} \ fired :
         /\ f = "timed out" => stage = "dialling"
         /\ fired' = fired \cup {f}
    /\ UNCHANGED <<role, stage, socket, offer, answer, acceptVars, vars>>

MutAttemptFirst == fired # {} /\ answer = "none yet"

(* The biased select: the deadline's two branches are polled before the      *)
(* attempt, cancellation first.                                              *)
DeadlineWins == fired # {}

(* The attempt is dropped with whatever it had opened.                       *)
DialAbandoned ==
    /\ role = "dialler" /\ stage = "dialling"
    /\ DeadlineWins
    /\ stage' = IF "cancelled" \in fired THEN "cancelled" ELSE "timed out"
    /\ socket' = IF socket = "open" THEN "dropped" ELSE socket
    /\ UNCHANGED <<role, dialVars, acceptVars, vars>>

(* The first poll of the attempt opens the socket.                           *)
DialOpens ==
    /\ role = "dialler" /\ stage = "dialling" /\ socket = "none"
    /\ ~DeadlineWins
    /\ socket' = "open"
    /\ UNCHANGED <<role, stage, dialVars, acceptVars, vars>>

(* The peer's response, whatever subprotocol it selects, or a failed socket. *)
PeerAnswers ==
    /\ role = "dialler" /\ stage = "dialling" /\ socket = "open" /\ answer = "none yet"
    /\ answer' \in {Mango, "chat", "nothing", "failed"}
    /\ UNCHANGED <<role, stage, socket, fired, offer, acceptVars, vars>>

(* The client library takes only a subprotocol the request offered.          *)
LibraryTakes == answer = offer

DialAnswered ==
    /\ role = "dialler" /\ stage = "dialling" /\ answer # "none yet"
    /\ ~DeadlineWins
    /\ IF LibraryTakes
         THEN stage' = "selected" /\ UNCHANGED socket
         ELSE stage' = "refused" /\ socket' = "dropped"
    /\ UNCHANGED <<role, dialVars, acceptVars, vars>>

Selected == answer = Mango

(* The last check, and refuse(stream): the upgrade completed, so the peer is *)
(* owed a close.                                                             *)
CheckSelected ==
    /\ stage = "selected"
    /\ IF Selected
         THEN stage' = "port" /\ UNCHANGED socket
         ELSE stage' = "refused" /\ socket' = "closed"
    /\ UNCHANGED <<role, dialVars, acceptVars, vars>>

-----------------------------------------------------------------------------
(* accept_websocket.                                                         *)

(* Upgrade::read: any list of any of the headers may hold it.                *)
Offered(r) == \E i \in DOMAIN r.protocols : \E j \in DOMAIN r.protocols[i] : r.protocols[i][j] = Mango

(* bearer_token: the scheme in either case, a token that is not blank.       *)
Bearer(r) == r.authorization \in {"Bearer token", "bearer token"}

(* The handshake: the subprotocol is echoed only when it was offered, so     *)
(* that the dialler's library lets the upgrade complete.                     *)
Handshake ==
    /\ role = "acceptor" /\ stage = "start"
    /\ \/ \E r \in Requests :
            /\ request' = r
            /\ answer' = IF Offered(r) THEN Mango ELSE "nothing"
            /\ stage' = "upgraded" /\ UNCHANGED socket
       \/ stage' = "refused" /\ socket' = "dropped" /\ UNCHANGED <<request, answer>>
    /\ UNCHANGED <<role, fired, offer, judged, code, vars>>

(* is_origin_allowed, and the check that the header decodes: an upgrade      *)
(* without an Origin is not a browser's, one that cannot be read is.         *)
OriginAllowed(r) == r.origin \in {"absent", "listed"}

(* close_with: a code the dialler can read, then the close handshake.        *)
CloseWith(c) == stage' = "refused" /\ socket' = "closed" /\ code' = c

MutOriginFirst(r) ==
    IF ~OriginAllowed(r) THEN Forbidden ELSE IF ~Offered(r) THEN ProtocolError ELSE 0

(* The two checks before `authorize`, in their order; 0 when both pass.      *)
FirstRefusal(r) ==
    IF ~Offered(r) THEN ProtocolError ELSE IF ~OriginAllowed(r) THEN Forbidden ELSE 0

CheckUpgrade ==
    /\ stage = "upgraded"
    /\ IF FirstRefusal(request) = 0
         THEN stage' = "authorizing" /\ UNCHANGED <<socket, code>>
         ELSE CloseWith(FirstRefusal(request))
    /\ UNCHANGED <<role, dialVars, request, judged, vars>>

(* The application's `authorize`: it knows the token, or it does not, and it *)
(* may refuse one it knows.                                                  *)
Authorize(r) == IF Bearer(r) THEN {0, Forbidden, RateLimited} ELSE {Unauthorized}

Authorized ==
    /\ stage = "authorizing"
    /\ \E c \in Authorize(request) :
         /\ judged' = c
         /\ IF c = 0
              THEN stage' = "port" /\ request' = NoRequest /\ UNCHANGED <<socket, code>>
              ELSE CloseWith(c) /\ UNCHANGED request
    /\ UNCHANGED <<role, dialVars, vars>>

-----------------------------------------------------------------------------
Upgrading ==
    \/ BuildRequest \/ DeadlineFires \/ DialAbandoned \/ DialOpens
    \/ PeerAnswers \/ DialAnswered \/ CheckSelected
    \/ Handshake \/ CheckUpgrade \/ Authorized

PortStep(A) == stage = "port" /\ A /\ UNCHANGED upgradeVars

ConnectionNext == Upgrading \/ PortStep(Next)

(* The session keeps calling recv and the runtime polls it: gave_up.changed  *)
(* is ready for good once the task has given up, while the stream may never  *)
(* produce another message.                                                  *)
ConnectionSpec ==
    /\ UpgradeInit /\ [][ConnectionNext]_connVars
    /\ WF_connVars(PortStep(RecvCall))
    /\ SF_connVars(PortStep(RecvReturns)) /\ SF_connVars(PortStep(RecvGaveUp))
    /\ WF_connVars(PortStep(CloseStep("rx")))
-----------------------------------------------------------------------------
(* "It runs before any `hello`": the application is asked about an upgrade   *)
(* only when mango.v1 was offered and the origin is allowed; a frame leaves  *)
(* the port only when it answered Ok; and a dialler that is turned away      *)
(* after the upgrade reads the code of the first check it failed.            *)
UpgradeIsJudged ==
    role = "acceptor" =>
      /\ stage = "authorizing" => answer = Mango /\ request.origin \in {"absent", "listed"}
      /\ sends > 0 => judged = 0
      /\ code # 0 => code = IF answer # Mango THEN ProtocolError
                            ELSE IF judged # -1 THEN judged ELSE Forbidden

(* "Returns the port once the acceptor has selected that subprotocol", and   *)
(* an abandoned or refused dial leaves no socket open: a deadline that fired *)
(* before the attempt was seen to finish wins, and a completed upgrade that  *)
(* selected something else is closed.                                        *)
DialIsSettled ==
    role = "dialler" =>
      /\ stage = "port" => answer = Mango /\ fired = {}
      /\ stage \in {"refused", "cancelled", "timed out"} => socket # "open"
      /\ stage = "cancelled" => "cancelled" \in fired
=============================================================================
