------------------------------ MODULE MCSession ------------------------------
(***************************************************************************)
(* Session on small instances.  Inbound request ids are interchangeable, so *)
(* the safety run may permute them; the runs that check liveness may not.   *)
(***************************************************************************)
EXTENDS Session, TLC

IdSymmetry == Permutations(InIds)
=============================================================================
