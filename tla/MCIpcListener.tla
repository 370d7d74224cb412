---------------------------- MODULE MCIpcListener ----------------------------
(* IpcListener for TLC: processes and dialers are interchangeable.           *)
EXTENDS IpcListener, TLC

Symmetry == Permutations(Procs) \union Permutations(Dialers)
=============================================================================
