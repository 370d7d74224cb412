----------------------------- MODULE IpcListener -----------------------------
(***************************************************************************)
(* Processes that listen on and dial one local-socket address:              *)
(* transports/ipc/unix.rs, the address rules of ipc.rs and the dial of      *)
(* deadline.rs.  The file system and the kernel's connection backlog are    *)
(* shared; every await of listen_ipc and IpcListener::close is a step of    *)
(* its own, and a process may die between any two of them.                  *)
(***************************************************************************)
EXTENDS Naturals, FiniteSets

CONSTANTS
    Procs,       \* processes that may listen
    Dialers,     \* connection attempts
    MaxInode,    \* inode numbers the file system hands out: 1 .. MaxInode
    MaxCrashes,  \* processes that die
    NoProc       \* nobody

ASSUME IpcAssumption ==
    /\ MaxInode \in Nat \ {0} /\ MaxCrashes \in Nat
    /\ NoProc \notin Procs

Inodes == 1 .. MaxInode
NoFile == 0
Foreign == MaxInode + 1     \* something that is not a socket

VARIABLES
    addr,       \* what sits at the address
    listens,    \* the process listening on each socket inode
    staged,     \* the socket in each process's staging directory
    spent,      \* inode numbers handed out so far
    fs,         \* what this file system does: hard links, reused numbers
    pc,         \* where each process is
    inode,      \* the inode it probed, then the one it bound (IpcListener.inode)
    gap,        \* processes whose check is older than the last publication
    accepted,   \* IpcListener.accepted
    conn,       \* where each connection is
    dial,       \* what connect_within told its caller
    abandon,    \* which of the deadline's two ends have come
    crashes

fileVars == <<addr, listens, staged, spent, fs>>
procVars == <<pc, inode, gap, accepted>>
dialVars == <<conn, dial, abandon>>
vars == <<fileVars, procVars, dialVars, crashes>>

Conn(where, p) == [at |-> where, by |-> p]

Live(f) == f \in Inodes /\ listens[f] # NoProc

(* The address starts free, held by a foreign file, or by the socket of a    *)
(* listener that died.                                                       *)
Init ==
    /\ addr \in {NoFile, Foreign, 1}
    /\ listens = [i \in Inodes |-> NoProc]
    /\ staged = [p \in Procs |-> NoFile]
    /\ spent = {1}
    /\ fs \in [links : BOOLEAN, reuses : BOOLEAN]
    /\ pc = [p \in Procs |-> "idle"]
    /\ inode = [p \in Procs |-> NoFile]
    /\ gap = {}
    /\ accepted = [p \in Procs |-> {}]
    /\ conn = [d \in Dialers |-> Conn("none", NoProc)]
    /\ dial = [d \in Dialers |-> "none"]
    /\ abandon = [d \in Dialers |-> {}]
    /\ crashes = 0

(* The process goes on about inode i; an idle one remembers none.            *)
Goto(p, where, i) ==
    /\ pc' = [pc EXCEPT ![p] = where]
    /\ inode' = [inode EXCEPT ![p] = IF where = "idle" THEN NoFile ELSE i]

-----------------------------------------------------------------------------
(* remove_stale_socket: what is at the address?                              *)
Look(p) ==
    /\ pc[p] = "idle"
    /\ Goto(p, CASE addr = NoFile -> "stage" [] addr = Foreign -> "idle" [] OTHER -> "probe", addr)
    /\ UNCHANGED <<fileVars, gap, accepted, dialVars, crashes>>

(* The dial of `probe`: refused and not-found are stale, all else is live.   *)
Probe(p) ==
    /\ pc[p] = "probe"
    /\ Goto(p, IF Live(addr) THEN "idle" ELSE "check", inode[p])
    /\ UNCHANGED <<fileVars, gap, accepted, dialVars, crashes>>

(* ... and a dial that timed out or was not permitted is live too.           *)
ProbeUnjudged(p) ==
    /\ pc[p] = "probe"
    /\ Goto(p, "idle", NoFile)
    /\ UNCHANGED <<fileVars, gap, accepted, dialVars, crashes>>

MutTrustsVerdict(p) == addr # NoFile

(* The same inode still sits at the address.                                 *)
StillThere(p) == addr = inode[p]

(* remove_if_still and the end of close: the check ...                       *)
Check(p) ==
    /\ pc[p] \in {"check", "closecheck"}
    /\ Goto(p, IF StillThere(p)
                 THEN IF pc[p] = "check" THEN "unlink" ELSE "closeunlink"
                 ELSE IF pc[p] = "check" THEN "stage" ELSE "idle", inode[p])
    /\ gap' = gap \ {p}
    /\ UNCHANGED <<fileVars, accepted, dialVars, crashes>>

(* ... and the unlink.  remove_stale_socket reports a failed one, close does *)
(* not.                                                                      *)
Unlink(p) ==
    /\ pc[p] \in {"unlink", "closeunlink"}
    /\ addr' = NoFile
    /\ Goto(p, CASE pc[p] = "closeunlink" -> "idle"
                 [] addr = NoFile -> "idle"
                 [] OTHER -> "stage", NoFile)
    /\ gap' = gap \ {p}
    /\ UNCHANGED <<listens, staged, spent, fs, accepted, dialVars, crashes>>

(* A number a new socket may get: never handed out before, or, where the     *)
(* file system reuses them, no longer linked, staged or bound.               *)
FreeInode(i) ==
    \/ i \notin spent
    \/ /\ fs.reuses
       /\ i # addr
       /\ listens[i] = NoProc
       /\ \A p \in Procs : staged[p] # i

(* stage: clear the staging name, make the directory, bind, restrict; then   *)
(* read the inode.  Any of them may fail.                                    *)
Stage(p) ==
    /\ pc[p] = "stage"
    /\ \/ \E i \in Inodes :
            /\ FreeInode(i)
            /\ staged' = [staged EXCEPT ![p] = i]
            /\ listens' = [listens EXCEPT ![i] = p]
            /\ spent' = spent \union {i}
            /\ Goto(p, "publish", i)
       \/ /\ staged' = [staged EXCEPT ![p] = NoFile]
          /\ Goto(p, "giveup", NoFile)
          /\ UNCHANGED <<listens, spent>>
    /\ UNCHANGED <<addr, fs, gap, accepted, dialVars, crashes>>

(* A file newly at the address makes every earlier check out of date.        *)
Published == gap' = {p \in Procs : pc[p] \in {"unlink", "closeunlink"}}

(* publish: a hard link refuses an address that is taken; where the file     *)
(* system has none, a rename takes it over.                                  *)
Publish(p) ==
    /\ pc[p] = "publish"
    /\ IF fs.links /\ addr # NoFile
         THEN /\ Goto(p, "giveup", NoFile)
              /\ UNCHANGED <<addr, staged, gap>>
         ELSE /\ addr' = inode[p]
              /\ staged' = IF fs.links THEN staged ELSE [staged EXCEPT ![p] = NoFile]
              /\ Published
              /\ Goto(p, "discard", inode[p])
    /\ UNCHANGED <<listens, spent, fs, accepted, dialVars, crashes>>

-----------------------------------------------------------------------------
(* A listener that is dropped: its backlog is reset.                         *)
Unbind(p) == [i \in Inodes |-> IF listens[i] = p THEN NoProc ELSE listens[i]]

Reset(p) ==
    [d \in Dialers |-> IF conn[d] = Conn("backlog", p) THEN Conn("ended", NoProc) ELSE conn[d]]

(* discard, after success and failure alike; a failed attempt drops the      *)
(* listener it bound.                                                        *)
Discard(p) ==
    /\ pc[p] \in {"discard", "giveup"}
    /\ staged' = [staged EXCEPT ![p] = NoFile]
    /\ IF pc[p] = "giveup"
         THEN Goto(p, "idle", NoFile) /\ listens' = Unbind(p) /\ conn' = Reset(p)
         ELSE Goto(p, "serving", inode[p]) /\ UNCHANGED <<listens, conn>>
    /\ UNCHANGED <<addr, spent, fs, gap, accepted, dial, abandon, crashes>>
-----------------------------------------------------------------------------
(* connect_within around UnixStream::connect: the token, then the budget,    *)
(* then the attempt, on every poll.  The token may be cancelled already.     *)
Dial(d) ==
    /\ dial[d] = "none"
    /\ dial' = [dial EXCEPT ![d] = "dialling"]
    /\ abandon' \in {abandon, [abandon EXCEPT ![d] = {"cancel"}]}
    /\ UNCHANGED <<fileVars, procVars, conn, crashes>>

(* The caller cancels, or time passes.                                       *)
Abandon(d, how) ==
    /\ how \notin abandon[d]
    /\ dial[d] = "dialling"
    /\ abandon' = [abandon EXCEPT ![d] = @ \union {how}]
    /\ UNCHANGED <<fileVars, procVars, conn, dial, crashes>>

DialAbandoned(d) ==
    /\ dial[d] = "dialling" /\ abandon[d] # {}
    /\ dial' = [dial EXCEPT ![d] = IF "cancel" \in abandon[d] THEN "cancelled" ELSE "timedout"]
    /\ UNCHANGED <<fileVars, procVars, conn, abandon, crashes>>

AttemptPolled(d) == dial[d] = "dialling" /\ abandon[d] = {}

DialAttempt(d) ==
    /\ AttemptPolled(d)
    /\ IF Live(addr)
         THEN /\ conn' = [conn EXCEPT ![d] = Conn("backlog", listens[addr])]
              /\ dial' = [dial EXCEPT ![d] = "connected"]
         ELSE /\ dial' = [dial EXCEPT ![d] = "refused"]
              /\ UNCHANGED conn
    /\ UNCHANGED <<fileVars, procVars, abandon, crashes>>

(* PortCloser::is_open                                                       *)
OpenPorts(p) == {d \in accepted[p] : conn[d] = Conn("accepted", p)}

MutForgetsPorts(p) == {}

(* accepted.retain(PortCloser::is_open)                                      *)
Retained(p) == OpenPorts(p)

Accept(p) ==
    /\ pc[p] = "serving"
    /\ \E d \in Dialers :
         /\ conn[d] = Conn("backlog", p)
         /\ conn' = [conn EXCEPT ![d] = Conn("accepted", p)]
         /\ accepted' = [accepted EXCEPT ![p] = Retained(p) \union {d}]
    /\ UNCHANGED <<fileVars, pc, inode, gap, dial, abandon, crashes>>

(* A session on the connection ends, whoever holds the listener.             *)
ConnEnds(d) ==
    /\ conn[d].at = "accepted"
    /\ conn' = [conn EXCEPT ![d] = Conn("ended", NoProc)]
    /\ UNCHANGED <<fileVars, procVars, dial, abandon, crashes>>

-----------------------------------------------------------------------------
Close(p) ==
    /\ pc[p] = "serving"
    /\ Goto(p, "telling", inode[p])
    /\ UNCHANGED <<fileVars, gap, accepted, dialVars, crashes>>

(* tell_accepted: one farewell each, in any order, written or out of grace.  *)
Tell(p) ==
    /\ pc[p] = "telling"
    /\ \E d \in OpenPorts(p) : conn' = [conn EXCEPT ![d] = Conn("told", p)]
    /\ UNCHANGED <<fileVars, procVars, dial, abandon, crashes>>

(* All joined: the listener is dropped and the address looked at.            *)
CloseDrops(p) ==
    /\ pc[p] = "telling" /\ OpenPorts(p) = {}
    /\ accepted' = [accepted EXCEPT ![p] = {}]
    /\ listens' = Unbind(p)
    /\ conn' = Reset(p)
    /\ Goto(p, "closecheck", inode[p])
    /\ UNCHANGED <<addr, staged, spent, fs, gap, dial, abandon, crashes>>

(* The process dies: its sockets go, its files stay.                         *)
Crash(p) ==
    /\ pc[p] # "idle" /\ crashes < MaxCrashes
    /\ crashes' = crashes + 1
    /\ listens' = Unbind(p)
    /\ conn' = [d \in Dialers |-> IF conn[d].by = p THEN Conn("ended", NoProc) ELSE conn[d]]
    /\ accepted' = [accepted EXCEPT ![p] = {}]
    /\ Goto(p, "idle", NoFile)
    /\ UNCHANGED <<addr, staged, spent, fs, gap, dial, abandon>>

Next ==
    \/ \E p \in Procs :
        \/ Look(p) \/ Probe(p) \/ ProbeUnjudged(p) \/ Check(p) \/ Unlink(p)
        \/ Stage(p) \/ Publish(p) \/ Discard(p)
        \/ Accept(p) \/ Close(p) \/ Tell(p) \/ CloseDrops(p) \/ Crash(p)
    \/ \E d \in Dialers :
        \/ Dial(d) \/ DialAbandoned(d) \/ DialAttempt(d) \/ ConnEnds(d)
        \/ \E how \in {"cancel", "timeout"} : Abandon(d, how)

Spec == Init /\ [][Next]_vars

-----------------------------------------------------------------------------
(* remove_if_still and close: a live listener's address is taken from it     *)
(* only inside the window the code names, by an unlink whose check is older  *)
(* than the publication ("narrows the window from the whole probe to the gap *)
(* between this check and the unlink"), on a file system that makes hard     *)
(* links and does not reuse inode numbers.                                   *)
NarrowWindow ==
    [][ fs.links /\ ~fs.reuses /\ Live(addr) /\ addr' # addr =>
            \E p \in gap : pc[p] \in {"unlink", "closeunlink"} /\ pc'[p] # pc[p] ]_vars

(* "A listener shutting down sends `close` `4000` to every session first":   *)
(* once close has dropped the listener no connection it accepted is left     *)
(* open and untold, whatever accept forgot of the earlier ones.              *)
AcceptedAreTold ==
    \A p \in Procs, d \in Dialers :
        pc[p] \in {"closecheck", "closeunlink"} => conn[d] # Conn("accepted", p)

=============================================================================
