-------------------------------- MODULE Spawn --------------------------------
(***************************************************************************)
(* The launcher of transports/spawn.rs: the child, the reaper task that     *)
(* owns it, the escalation that ends it, and the callers of terminate,      *)
(* exited and start_error who wait for the result.  The port's two halves   *)
(* appear as what they do to the child: they end its stdin and start the    *)
(* escalation.                                                              *)
(***************************************************************************)
EXTENDS Naturals, Sequences, SequencesExt, FiniteSets

CONSTANTS
    Callers,    \* tasks calling the LaunchedPeer
    MaxKills    \* calls of LaunchedPeer::kill

ASSUME SpawnAssumption == MaxKills \in Nat

Unknown == "unknown"                  \* exit: None
Default == "default"                  \* ExitStatus::default()
Statuses == {"own", "signalled", Default}

VARIABLES
    child,      \* "running", "zombie" (left, not yet reaped), "reaped", "never"
    stdin,      \* whether the child's stdin is open
    exit,       \* the exit watch
    requests,   \* the KillRequest channel
    delivered,  \* the signals the reaper sent, oldest first
    started,    \* Terminator::started
    ladder,     \* the escalation: "idle", the grace it waits out, "over"
    outcome,    \* the outcome watch
    port,       \* "open", then "closing" inside SpawnPortTx::close, "closed"
    notice,     \* the closure an unspawned port still owes its reader
    call,       \* what each caller is doing
    result,     \* what each caller's last call returned
    kills       \* calls of kill so far

childVars == <<child, stdin, exit, requests, delivered>>
termVars == <<started, ladder, outcome>>
portVars == <<port, notice>>
callVars == <<call, result, kills>>
vars == <<childVars, termVars, portVars, callVars>>

-----------------------------------------------------------------------------
(* start: the child runs, with its three pipes.                              *)
Launched ==
    /\ child = "running" /\ stdin = TRUE /\ exit = Unknown
    /\ started = FALSE /\ outcome = "pending"

(* The command never became a process: there is nothing to escalate against. *)
Unspawned ==
    /\ child = "never" /\ stdin = FALSE /\ exit = Default
    /\ started = TRUE /\ outcome = Default

(* SpawnPort::live and SpawnPort::unspawned: the halves are open, and those  *)
(* of a command that did not start owe their reader a closure that says so.  *)
PortOpens ==
    /\ port = "open"
    /\ notice = IF child = "never" THEN "owed" ELSE "none"

(* spawn_port                                                                *)
Init ==
    /\ Launched \/ Unspawned
    /\ ladder = "idle"
    /\ requests = <<>>
    /\ delivered = <<>>
    /\ PortOpens
    /\ call = [c \in Callers |-> "none"]
    /\ result = [c \in Callers |-> Unknown]
    /\ kills = 0

(* The child leaves on its own, at any time and for any reason, or because a *)
(* signal reached it.  It may also ignore everything, SIGKILL included.      *)
ChildLeaves ==
    /\ child = "running"
    /\ child' = "zombie"
    /\ UNCHANGED <<stdin, exit, requests, delivered, termVars, portVars, callVars>>

ReapedStatus == IF delivered = <<>> THEN {"own"} ELSE {"own", "signalled"}

MutReaperLives == child' = child

(* reap: the reaper records the status and is gone.                          *)
ReaperEnds == child' = "reaped"

Reap ==
    /\ child = "zombie"
    /\ exit = Unknown
    /\ exit' \in ReapedStatus
    /\ ReaperEnds
    /\ UNCHANGED <<stdin, requests, delivered, termVars, portVars, callVars>>

(* ... or wait() failed, whatever the child does: reap records the default   *)
(* status and is gone all the same, and nobody is left to signal the child.  *)
WaitFails ==
    /\ child \in {"running", "zombie"}
    /\ exit = Unknown
    /\ exit' = Default
    /\ ReaperEnds
    /\ UNCHANGED <<stdin, requests, delivered, termVars, portVars, callVars>>

MutDeliversOnce(r) == IF delivered = <<>> THEN <<r>> ELSE delivered

(* deliver, from the reaper's select: SIGTERM by process id, or start_kill.  *)
Signalled(r) == Append(delivered, r)

Deliver ==
    /\ child \in {"running", "zombie"}
    /\ requests # <<>>
    /\ delivered' = Signalled(Head(requests))
    /\ requests' = Tail(requests)
    /\ UNCHANGED <<child, stdin, exit, termVars, portVars, callVars>>

-----------------------------------------------------------------------------
(* A request is queued while the reaper lives and lost once it is gone.      *)
Request(r) ==
    requests' = IF child \in {"running", "zombie"} THEN Append(requests, r) ELSE requests

(* Terminator::start: the escalation runs once.                              *)
Start ==
    /\ started' = TRUE
    /\ ladder' = IF started THEN ladder ELSE "eof"
    /\ UNCHANGED outcome

Watchers == {c \in Callers : call[c] = "watching"}

MutOutcomeDropped(o) == UNCHANGED outcome

(* watch::Sender::send: the value is stored only while somebody watches.     *)
Record(o) == outcome' = IF Watchers = {} THEN outcome ELSE o

(* escalate: settled_within looks at the exit before its timer.              *)
LadderSettles ==
    /\ ladder \in {"eof", "term", "kill"}
    /\ exit # Unknown
    /\ Record(exit)
    /\ ladder' = "over"
    /\ UNCHANGED <<childVars, started, portVars, callVars>>

NextRung == [eof |-> "term", term |-> "kill", kill |-> "over"]

LadderGraceOver ==
    /\ ladder \in {"eof", "term", "kill"}
    /\ exit = Unknown
    /\ ladder' = NextRung[ladder]
    /\ IF ladder' = "over"
         THEN Record("gaveup") /\ UNCHANGED requests
         ELSE Request(ladder') /\ UNCHANGED outcome
    /\ UNCHANGED <<child, stdin, exit, delivered, started, portVars, callVars>>

-----------------------------------------------------------------------------
(* SpawnPortTx::close: the farewell and the end of stdin, then start.        *)
PortCloses ==
    /\ port = "open"
    /\ port' = "closing"
    /\ stdin' = FALSE
    /\ UNCHANGED <<child, exit, requests, delivered, termVars, notice, callVars>>

PortClosed ==
    /\ port = "closing"
    /\ port' = "closed"
    /\ Start
    /\ UNCHANGED <<childVars, notice, callVars>>

(* SpawnPortRx::recv returns a closure: the child ended its stdout or said   *)
(* something unreadable, which also ends stdin.  An unspawned port tells its *)
(* reader why once, and nothing after that.                                  *)
RecvCloses ==
    /\ port = "open"
    /\ \/ /\ child # "never"
          /\ stdin' = FALSE
          /\ Start
          /\ UNCHANGED notice
       \/ /\ notice = "owed"
          /\ notice' = "told"
          /\ UNCHANGED <<stdin, termVars>>
    /\ port' = "closed"
    /\ UNCHANGED <<child, exit, requests, delivered, callVars>>

(* Both halves are dropped without a close: stdin ends, nothing is started.  *)
PortDropped ==
    /\ port \in {"open", "closing"}
    /\ port' = "closed"
    /\ stdin' = FALSE
    /\ UNCHANGED <<child, exit, requests, delivered, termVars, notice, callVars>>

-----------------------------------------------------------------------------
Calls(c, now) == call' = [call EXCEPT ![c] = now]

Returns(c, r) ==
    /\ call' = [call EXCEPT ![c] = "none"]
    /\ result' = [result EXCEPT ![c] = r]

(* terminate: start the escalation, then subscribe to its outcome.           *)
Terminate(c) ==
    /\ call[c] = "none"
    /\ Calls(c, "terminate")
    /\ Start
    /\ UNCHANGED <<childVars, portVars, result, kills>>

Subscribe(c) ==
    /\ call[c] = "terminate"
    /\ Calls(c, "watching")
    /\ UNCHANGED <<childVars, termVars, portVars, result, kills>>

MutStaleAnswer == Unknown

(* A terminate that reads "gave up" looks at the exit once more.             *)
AfterGivingUp == exit

TerminateReturns(c) ==
    /\ call[c] = "watching"
    /\ outcome # "pending"
    /\ Returns(c, IF outcome = "gaveup" THEN AfterGivingUp ELSE outcome)
    /\ UNCHANGED <<childVars, termVars, portVars, kills>>

(* exited has no deadline; start_error gives the exit a grace.               *)
CallExited(c) ==
    /\ call[c] = "none"
    /\ \E k \in {"exited", "start_error"} : Calls(c, k)
    /\ UNCHANGED <<childVars, termVars, portVars, result, kills>>

ExitedReturns(c) ==
    /\ \/ call[c] = "exited" /\ exit # Unknown
       \/ call[c] = "start_error"
    /\ Returns(c, exit)
    /\ UNCHANGED <<childVars, termVars, portVars, kills>>

(* A caller gives up waiting (a timeout of its own) and drops its call.      *)
CallDropped(c) ==
    /\ call[c] \in {"watching", "exited", "start_error"}
    /\ Returns(c, "dropped")
    /\ UNCHANGED <<childVars, termVars, portVars, kills>>

Kill ==
    /\ kills < MaxKills
    /\ kills' = kills + 1
    /\ Request("kill")
    /\ UNCHANGED <<child, stdin, exit, delivered, termVars, portVars, call, result>>

-----------------------------------------------------------------------------
CallStep(c) == Subscribe(c) \/ TerminateReturns(c) \/ ExitedReturns(c)

Next ==
    \/ ChildLeaves \/ Reap \/ WaitFails \/ Deliver
    \/ LadderSettles \/ LadderGraceOver
    \/ PortCloses \/ PortClosed \/ RecvCloses \/ PortDropped
    \/ \E c \in Callers :
         Terminate(c) \/ CallExited(c) \/ CallStep(c) \/ CallDropped(c)
    \/ Kill

Spec == Init /\ [][Next]_vars

(* The runtime polls what is ready and its timers fire.  Nothing is assumed  *)
(* of the child, which may ignore every signal.                              *)
LiveSpec ==
    /\ Spec
    /\ WF_vars(Reap) /\ WF_vars(Deliver)
    /\ WF_vars(LadderSettles \/ LadderGraceOver)
    /\ \A c \in Callers : WF_vars(CallStep(c))

-----------------------------------------------------------------------------
(* The types of the launcher's state.                                        *)
TypeOK ==
    /\ child \in {"running", "zombie", "reaped", "never"}
    /\ stdin \in BOOLEAN /\ started \in BOOLEAN
    /\ exit \in Statuses \union {Unknown}
    /\ requests \in Seq({"term", "kill"}) /\ delivered \in Seq({"term", "kill"})
    /\ ladder \in {"idle", "eof", "term", "kill", "over"}
    /\ outcome \in Statuses \union {"pending", "gaveup"}
    /\ port \in {"open", "closing", "closed"}
    /\ notice \in {"none", "owed", "told"}
    /\ call \in [Callers -> {"none", "terminate", "watching", "exited", "start_error"}]
    /\ result \in [Callers -> Statuses \union {Unknown, "dropped"}]
    /\ kills \in 0 .. MaxKills

(* No signal is sent to a process id that is no longer the child's: a        *)
(* request that reaches the channel after the child left is delivered before *)
(* the reaper collects it or not at all ("the id cannot have been recycled   *)
(* while the signal is being sent", terminate_gently).                       *)
NoSignalAfterReap ==
    [][ delivered' # delivered => exit = Unknown ]_vars

(* terminate never invents a status and never repeats a stale "not exited":  *)
(* what it returns is the exit as the reaper has recorded it by then.        *)
AnswersAreCurrent ==
    [][ \A c \in Callers :
          call[c] = "watching" /\ call'[c] = "none"
              => result'[c] \in {exit, "dropped"} ]_vars

(* However stubborn the child, once the sequence has started its exit is     *)
(* recorded or SIGKILL has been sent to it.                                  *)
StubbornChildIsKilled ==
    started /\ exit = Unknown ~> exit # Unknown \/ "kill" \in Range(delivered)

(* A terminate that was already watching when the escalation ended returns.  *)
WatchedTerminateReturns ==
    \A c \in Callers :
        call[c] = "watching" /\ ladder \in {"eof", "term", "kill"} ~> call[c] = "none"

(* "Safe to call more than once, and safe to call after the port already     *)
(* started the sequence on its own" (LaunchedPeer::terminate,                *)
(* transports/spawn.rs:1019-1020): every call of terminate returns.          *)
TerminateReturnsAlways ==
    \A c \in Callers : call[c] = "terminate" ~> call[c] = "none"

=============================================================================
