----------------------------- MODULE SpawnProofs -----------------------------
(***************************************************************************)
(* Theorems about Spawn, for any number of callers and of kills.            *)
(***************************************************************************)
EXTENDS Spawn, TLAPS

\* The exit watch holds a status exactly when there is no process left to
\* signal, and the reaper is the only one who writes it.
ReaperIsExit == exit # Unknown <=> child \in {"reaped", "never"}

\* A status the escalation recorded is the status the reaper recorded.
OutcomeIsExit == outcome \in Statuses => outcome = exit

\* The inductive invariant.
IInv == TypeOK /\ ReaperIsExit /\ OutcomeIsExit


\* The invariant holds initially and every step keeps it.
LEMMA Inductive ==
    /\ Init => IInv
    /\ IInv /\ [Next]_vars => IInv'
<1> USE SpawnAssumption
<1>1. Init => IInv
  <2> SUFFICES ASSUME Init PROVE IInv
    OBVIOUS
  <2>1. requests \in Seq({"term", "kill"}) /\ delivered \in Seq({"term", "kill"})
    BY DEF Init
  <2>2. child \in {"running", "never"} /\ stdin \in BOOLEAN /\ started \in BOOLEAN
    BY Zenon DEF Init, Launched, Unspawned
  <2>3. /\ ReaperIsExit /\ OutcomeIsExit
        /\ exit \in Statuses \union {Unknown}
        /\ outcome \in Statuses \union {"pending", "gaveup"}
    BY DEF Init, Launched, Unspawned, ReaperIsExit, OutcomeIsExit, Statuses, Unknown, Default
  <2>4. /\ call \in [Callers -> {"none", "terminate", "watching", "exited", "start_error"}]
        /\ result \in [Callers -> Statuses \union {Unknown, "dropped"}]
    BY DEF Init
  <2> QED BY <2>1, <2>2, <2>3, <2>4 DEF Init, PortOpens, IInv, TypeOK
<1>2. IInv /\ [Next]_vars => IInv'
  <2> SUFFICES ASSUME IInv, [Next]_vars PROVE IInv'
    OBVIOUS
  <2> USE DEF IInv, TypeOK, ReaperIsExit, Statuses, Unknown, Default
  <2>1. CASE ChildLeaves
    BY <2>1 DEF ChildLeaves, OutcomeIsExit, termVars, portVars, callVars
  <2>2. CASE Reap
    BY <2>2 DEF Reap, ReapedStatus, ReaperEnds, OutcomeIsExit, termVars, portVars, callVars
  <2>3. CASE Deliver
    <3>1. requests' \in Seq({"term", "kill"}) /\ delivered' \in Seq({"term", "kill"})
      <4>1. Head(requests) \in {"term", "kill"} /\ Tail(requests) \in Seq({"term", "kill"})
        BY <2>3 DEF Deliver
      <4> QED BY <2>3, <4>1 DEF Deliver, Signalled
    <3> QED BY <2>3, <3>1 DEF Deliver, OutcomeIsExit, termVars, portVars, callVars
  <2>4. CASE LadderSettles
    BY <2>4 DEF LadderSettles, Record, OutcomeIsExit, childVars, portVars, callVars
  <2>5. CASE LadderGraceOver
    <3>1. ladder' \in {"term", "kill", "over"}
      BY <2>5 DEF LadderGraceOver, NextRung
    <3>2. requests' \in Seq({"term", "kill"})
      <4>1. CASE ladder' = "over"
        BY <2>5, <4>1 DEF LadderGraceOver
      <4>2. CASE ladder' # "over"
        <5>1. Append(requests, ladder') \in Seq({"term", "kill"})
          BY <3>1, <4>2
        <5> QED BY <2>5, <4>2, <5>1 DEF LadderGraceOver, Request
      <4> QED BY <4>1, <4>2
    <3> QED BY <2>5, <3>1, <3>2 DEF LadderGraceOver, Record, OutcomeIsExit, portVars, callVars
  <2>6. CASE PortCloses
    BY <2>6 DEF PortCloses, OutcomeIsExit, termVars, callVars
  <2>7. CASE PortClosed
    BY <2>7 DEF PortClosed, Start, OutcomeIsExit, childVars, callVars
  <2>8. CASE RecvCloses
    <3>1. started' \in BOOLEAN /\ stdin' \in BOOLEAN
      BY <2>8, Zenon DEF RecvCloses, Start, termVars
    <3>2. /\ ladder' \in {"idle", "eof", "term", "kill", "over"}
          /\ notice' \in {"none", "owed", "told"}
          /\ outcome' = outcome
      BY <2>8 DEF RecvCloses, Start, termVars
    <3> QED BY <2>8, <3>1, <3>2 DEF RecvCloses, OutcomeIsExit, callVars
  <2>9. CASE PortDropped
    BY <2>9 DEF PortDropped, OutcomeIsExit, termVars, callVars
  <2>10. CASE Kill
    <3>1. requests' \in Seq({"term", "kill"})
      BY <2>10 DEF Kill, Request
    <3> QED BY <2>10, <3>1 DEF Kill, OutcomeIsExit, termVars, portVars
  <2>11. ASSUME NEW c \in Callers, Terminate(c) PROVE IInv'
    BY <2>11 DEF Terminate, Calls, Start, OutcomeIsExit, childVars, portVars
  <2>12. ASSUME NEW c \in Callers, CallExited(c) PROVE IInv'
    BY <2>12 DEF CallExited, Calls, OutcomeIsExit, childVars, termVars, portVars
  <2>13. ASSUME NEW c \in Callers, Subscribe(c) PROVE IInv'
    BY <2>13 DEF Subscribe, Calls, OutcomeIsExit, childVars, termVars, portVars
  <2>14. ASSUME NEW c \in Callers, TerminateReturns(c) PROVE IInv'
    BY <2>14 DEF TerminateReturns, Returns, AfterGivingUp, OutcomeIsExit, childVars, termVars, portVars
  <2>15. ASSUME NEW c \in Callers, ExitedReturns(c) PROVE IInv'
    BY <2>15 DEF ExitedReturns, Returns, OutcomeIsExit, childVars, termVars, portVars
  <2>16. ASSUME NEW c \in Callers, CallDropped(c) PROVE IInv'
    BY <2>16 DEF CallDropped, Returns, OutcomeIsExit, childVars, termVars, portVars
  <2>17. CASE WaitFails
    BY <2>17 DEF WaitFails, ReaperEnds, OutcomeIsExit, termVars, portVars, callVars
  <2>18. CASE UNCHANGED vars
    BY <2>18 DEF vars, OutcomeIsExit, childVars, termVars, portVars, callVars
  <2> QED
    BY <2>1, <2>2, <2>3, <2>4, <2>5, <2>6, <2>7, <2>8, <2>9, <2>10, <2>11, <2>12, <2>13,
       <2>14, <2>15, <2>16, <2>17, <2>18 DEF Next, CallStep
<1> QED BY <1>1, <1>2

\* The launcher's state keeps its types, and what the exit watch, the outcome
\* watch and the reaper say of the child agree.
THEOREM LauncherAgrees == Spec => []IInv
<1>1. Init => IInv
  BY Inductive
<1>2. IInv /\ [Next]_vars => IInv'
  BY Inductive
<1> QED BY <1>1, <1>2, PTL DEF Spec

\* reap and terminate_gently (transports/spawn.rs:646, :696): no signal is sent
\* once the exit is known, so none reaches a process id that may be another's.
THEOREM NoSignalToAStranger == Spec => NoSignalAfterReap
<1>1. IInv /\ [Next]_vars => [delivered' # delivered => exit = Unknown]_vars
  <2> SUFFICES ASSUME IInv, Next, delivered' # delivered PROVE exit = Unknown
    BY DEF vars
  <2>1. Deliver
    BY DEF Next, CallStep, ChildLeaves, Reap, WaitFails, LadderSettles, LadderGraceOver, PortCloses,
           PortClosed, RecvCloses, PortDropped, Terminate, CallExited, Subscribe,
           TerminateReturns, ExitedReturns, CallDropped, Kill, childVars
  <2> QED BY <2>1 DEF Deliver, IInv, TypeOK, ReaperIsExit
<1> QED BY <1>1, LauncherAgrees, PTL DEF Spec, NoSignalAfterReap

\* LaunchedPeer::terminate (transports/spawn.rs:1050): what a call returns is the
\* exit as the reaper has recorded it by then, however late it is called.
THEOREM TerminateIsCurrent == Spec => AnswersAreCurrent
<1> DEFINE Current == \A c \in Callers :
                        call[c] = "watching" /\ call'[c] = "none"
                            => result'[c] \in {exit, "dropped"}
<1>1. IInv /\ [Next]_vars => [Current]_vars
  <2> SUFFICES ASSUME IInv, Next, NEW c \in Callers, call[c] = "watching", call'[c] = "none"
               PROVE  result'[c] \in {exit, "dropped"}
    BY DEF vars
  <2> USE DEF IInv, TypeOK
  <2>1. TerminateReturns(c) \/ CallDropped(c)
    BY DEF Next, CallStep, ChildLeaves, Reap, WaitFails, Deliver, LadderSettles, LadderGraceOver,
           PortCloses, PortClosed, RecvCloses, PortDropped, Terminate, CallExited, Subscribe,
           TerminateReturns, ExitedReturns, CallDropped, Kill, Calls, Returns, callVars
  <2>2. CASE TerminateReturns(c)
    BY <2>2 DEF TerminateReturns, Returns, AfterGivingUp, OutcomeIsExit
  <2>3. CASE CallDropped(c)
    BY <2>3 DEF CallDropped, Returns
  <2> QED BY <2>1, <2>2, <2>3
<1> QED BY <1>1, LauncherAgrees, PTL DEF Spec, AnswersAreCurrent

=============================================================================
