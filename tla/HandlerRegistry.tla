--------------------------- MODULE HandlerRegistry ---------------------------
(***************************************************************************)
(* The handlers of a session: Session::handle takes a generation, then      *)
(* inserts under the registry's lock; the guard it returns unregisters on   *)
(* drop, unless it was persisted, and only while the entry is still its     *)
(* own.  Any thread registers and drops at any time.                        *)
(***************************************************************************)
EXTENDS Integers

CONSTANTS
  Methods,      \* method names
  Guards,       \* calls of Session::handle; each returns one HandlerGuard
  None          \* the entry of a method without a handler

ASSUME NoneAssumption == None \notin Guards

VARIABLES
  nextGeneration, \* Shared.next_generation
  generation,     \* the generation each call took, -1 before
  method,         \* the method each call registers
  handlers,       \* Shared.handlers: the call whose entry is in force
  guard           \* each call: "none", "registering", "armed", "persisted", "dropped"

vars == <<nextGeneration, generation, method, handlers, guard>>

Init ==
  /\ nextGeneration = 0
  /\ generation = [g \in Guards |-> -1]
  /\ method \in [Guards -> Methods]
  /\ handlers = [m \in Methods |-> None]
  /\ guard = [g \in Guards |-> "none"]

TakenGeneration == nextGeneration + 1

\* register_handler: the generation is taken before the lock.
TakeGeneration(g) ==
  /\ guard[g] = "none"
  /\ generation' = [generation EXCEPT ![g] = nextGeneration]
  /\ nextGeneration' = TakenGeneration
  /\ guard' = [guard EXCEPT ![g] = "registering"]
  /\ UNCHANGED <<method, handlers>>

\* register_handler: the entry is inserted, replacing whatever was there.
Insert(g) ==
  /\ guard[g] = "registering"
  /\ handlers' = [handlers EXCEPT ![method[g]] = g]
  /\ guard' = [guard EXCEPT ![g] = "armed"]
  /\ UNCHANGED <<nextGeneration, generation, method>>

Persist(g) ==
  /\ guard[g] = "armed"
  /\ guard' = [guard EXCEPT ![g] = "persisted"]
  /\ UNCHANGED <<nextGeneration, generation, method, handlers>>

\* Mutant: only the guard of the newest registration unregisters.
InForceNewest(g) == generation[g] = nextGeneration - 1

\* The entry in force has the guard's generation.
InForce(g) ==
  /\ handlers[method[g]] # None
  /\ generation[handlers[method[g]]] = generation[g]

\* HandlerGuard::drop.
Drop(g) ==
  /\ guard[g] = "armed"
  /\ guard' = [guard EXCEPT ![g] = "dropped"]
  /\ handlers' = IF InForce(g) THEN [handlers EXCEPT ![method[g]] = None] ELSE handlers
  /\ UNCHANGED <<nextGeneration, generation, method>>

Next == \E g \in Guards : TakeGeneration(g) \/ Insert(g) \/ Persist(g) \/ Drop(g)

Spec == Init /\ [][Next]_vars

-----------------------------------------------------------------------------
\* Every variable holds a value of its kind.
TypeOK ==
  /\ nextGeneration \in Nat
  /\ generation \in [Guards -> Nat \cup {-1}]
  /\ method \in [Guards -> Methods]
  /\ handlers \in [Methods -> Guards \cup {None}]
  /\ guard \in [Guards -> {"none", "registering", "armed", "persisted", "dropped"}]

\* A handler in force is one whose guard is alive or was persisted: a dropped
\* guard's handler never answers another request, in whatever order two
\* registrations of a method took their generations and the lock.
NoOrphan ==
  \A m \in Methods :
    handlers[m] # None => guard[handlers[m]] \in {"armed", "persisted"} /\ method[handlers[m]] = m

\* A method loses its handler only when that handler's own guard is dropped: the
\* late drop of a replaced guard never unregisters its successor.
OnlyItsOwnGuardUnregisters ==
  [][\A m \in Methods :
       handlers[m] # None /\ handlers'[m] = None =>
         guard[handlers[m]] = "armed" /\ guard'[handlers[m]] = "dropped"]_vars
=============================================================================
