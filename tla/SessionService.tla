---------------------------- MODULE SessionService ----------------------------
(***************************************************************************)
(* What a session promises the code that holds its handle, with no driver,  *)
(* no writer, no queue and no wire: ready() has one outcome, closed() has   *)
(* one code, and every request has one outcome.  An answer reaches a        *)
(* request only while the session is open, and the session lets go of a     *)
(* request only once it is closed.                                          *)
(***************************************************************************)
EXTENDS Integers

CONSTANTS Calls, Codes, Mismatch

VARIABLES
  stage,     \* SessionState
  greeting,  \* what ready() resolves to: "none" until it does
  closure,   \* what closed() resolves to: 0 until it does
  outcome    \* each request: "answer" and "failure" are decided but not yet returned

service == <<stage, greeting, closure, outcome>>

ServiceInit ==
  /\ stage = "handshaking" /\ greeting = "none" /\ closure = 0
  /\ outcome = [c \in Calls |-> "idle"]

Become(c, what) == outcome' = [outcome EXCEPT ![c] = what]

Ask(c) ==
  /\ outcome[c] = "idle"
  /\ Become(c, "open") \/ Become(c, "refused")
  /\ UNCHANGED <<stage, greeting, closure>>

\* The peer's hello: the session opens and ready() resolves in one step.
Greet ==
  /\ stage = "handshaking" /\ greeting = "none"
  /\ stage' = "ready" /\ greeting' = "ok"
  /\ UNCHANGED <<closure, outcome>>

NoGreeting ==
  /\ greeting = "none"
  /\ greeting' \in {"failed", "mismatch"}
  /\ UNCHANGED <<stage, closure, outcome>>

Close ==
  /\ stage # "closed"
  /\ stage' = "closed"
  /\ UNCHANGED <<greeting, closure, outcome>>

Answer(c) ==
  /\ stage = "ready"
  /\ outcome[c] = "open"
  /\ Become(c, "answer")
  /\ UNCHANGED <<stage, greeting, closure>>

\* The closed session lets go of requests, several at once.
LetGo ==
  /\ stage = "closed"
  /\ \E S \in SUBSET {c \in Calls : outcome[c] = "open"} :
       outcome' = [c \in Calls |-> IF c \in S THEN "failure" ELSE outcome[c]]
  /\ UNCHANGED <<stage, greeting, closure>>

Unavailable == stage = "closed" \/ greeting \in {"failed", "mismatch"}

Return(c) ==
  /\ \/ outcome[c] = "answer" /\ Become(c, "answered")
     \/ outcome[c] = "failure" /\ Become(c, "unavailable")
     \/ outcome[c] = "open" /\ Unavailable /\ Become(c, "unavailable")
     \/ outcome[c] = "open" /\ Become(c, "refused")
  /\ UNCHANGED <<stage, greeting, closure>>

\* A caller stops waiting, whether or not its request is decided by then.
Leave(c) ==
  /\ outcome[c] \in {"open", "answer", "failure"}
  /\ Become(c, "timeout") \/ Become(c, "dropped")
  /\ UNCHANGED <<stage, greeting, closure>>

\* closed() resolves after ready(), and the two agree on a version mismatch.
End(code) ==
  /\ stage = "closed" /\ closure = 0
  /\ greeting # "none"
  /\ greeting = "mismatch" => code = Mismatch
  /\ code = Mismatch => greeting # "failed"
  /\ closure' = code
  /\ UNCHANGED <<stage, greeting, outcome>>

ServiceNext ==
  \/ \E c \in Calls : Ask(c) \/ Answer(c) \/ Return(c) \/ Leave(c)
  \/ Greet \/ NoGreeting \/ Close \/ LetGo
  \/ \E code \in Codes : End(code)

Spec == ServiceInit /\ [][ServiceNext]_service
=============================================================================
