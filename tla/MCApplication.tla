----------------------------- MODULE MCApplication -----------------------------
(* What an application hangs on a session, for TLC: the handlers of a        *)
(* contract and the events both ways.  The two tables share nothing but the  *)
(* session, so a behaviour is about one of them.  The contract: one serve    *)
(* call of three registrations, and a handler registered beside it.          *)
EXTENDS ContractServing, EventStreams

CONSTANTS s1, g1, g2, g3

MCGuardsOf == [s \in {s1} |-> <<g1, g2, g3>>]

VARIABLE part

(* Handlers may stay registered and unasked for ever; a session with events  *)
(* may not stop before its driver has returned.                              *)
Rests == part = "contract" /\ UNCHANGED <<allVars, eventVars>>

MCInit ==
    /\ part \in {"contract", "events"}
    /\ ContractInit /\ EventInit
    /\ part = "events" => method = [g \in Guards |-> Discover]

MCNext ==
    /\ UNCHANGED part
    /\ \/ part = "contract" /\ ContractNext /\ UNCHANGED eventVars
       \/ part = "events" /\ EventNext /\ UNCHANGED allVars
       \/ Rests
================================================================================
