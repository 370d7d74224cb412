------------------------ MODULE HandlerRegistryProofs ------------------------
(***************************************************************************)
(* Theorems about HandlerRegistry, for any number of methods and guards.    *)
(***************************************************************************)
EXTENDS HandlerRegistry, TLAPS

\* A call that has taken a generation took one of its own, below the counter.
GenerationsDiffer ==
  /\ \A g \in Guards : guard[g] # "none" => generation[g] \in Nat /\ generation[g] < nextGeneration
  /\ \A g, h \in Guards :
       guard[g] # "none" /\ guard[h] # "none" /\ generation[g] = generation[h] => g = h

\* The inductive invariant: without GenerationsDiffer a dropped guard could
\* compare equal to its successor.
IInv == TypeOK /\ GenerationsDiffer /\ NoOrphan

\* The invariant holds initially and every step keeps it.
LEMMA Inductive ==
  /\ Init => IInv
  /\ IInv /\ [Next]_vars => IInv'
<1>1. Init => IInv
  BY DEF Init, IInv, TypeOK, GenerationsDiffer, NoOrphan
<1>2. IInv /\ [Next]_vars => IInv'
  <2> SUFFICES ASSUME IInv, [Next]_vars PROVE IInv'
    OBVIOUS
  <2> USE NoneAssumption DEF IInv, TypeOK
  <2>1. ASSUME NEW g \in Guards, TakeGeneration(g) PROVE IInv'
    <3>1. TypeOK'
      BY <2>1 DEF TakeGeneration, TakenGeneration
    <3>2. GenerationsDiffer'
      BY <2>1 DEF TakeGeneration, TakenGeneration, GenerationsDiffer
    <3>3. NoOrphan'
      BY <2>1 DEF TakeGeneration, NoOrphan
    <3> QED BY <3>1, <3>2, <3>3
  <2>2. ASSUME NEW g \in Guards, Insert(g) PROVE IInv'
    <3>1. TypeOK'
      BY <2>2 DEF Insert
    <3>2. GenerationsDiffer'
      BY <2>2 DEF Insert, GenerationsDiffer
    <3>3. NoOrphan'
      BY <2>2 DEF Insert, NoOrphan
    <3> QED BY <3>1, <3>2, <3>3
  <2>3. ASSUME NEW g \in Guards, Persist(g) PROVE IInv'
    <3>1. TypeOK'
      BY <2>3 DEF Persist
    <3>2. GenerationsDiffer'
      BY <2>3 DEF Persist, GenerationsDiffer
    <3>3. NoOrphan'
      BY <2>3 DEF Persist, NoOrphan
    <3> QED BY <3>1, <3>2, <3>3
  <2>4. ASSUME NEW g \in Guards, Drop(g) PROVE IInv'
    <3>1. TypeOK'
      BY <2>4 DEF Drop
    <3>2. GenerationsDiffer'
      BY <2>4 DEF Drop, GenerationsDiffer
    <3>3. ASSUME NEW m \in Methods, handlers[m] = g
          PROVE  handlers'[m] = None
      <4>1. m = method[g]
        BY <3>3 DEF NoOrphan
      <4>2. InForce(g)
        BY <3>3, <4>1 DEF InForce
      <4> QED BY <2>4, <4>1, <4>2 DEF Drop
    <3>4. NoOrphan'
      BY <2>4, <3>3 DEF Drop, NoOrphan
    <3> QED BY <3>1, <3>2, <3>4
  <2>5. CASE UNCHANGED vars
    BY <2>5 DEF vars, GenerationsDiffer, NoOrphan
  <2> QED BY <2>1, <2>2, <2>3, <2>4, <2>5 DEF Next
<1> QED BY <1>1, <1>2

\* A handler whose guard was dropped is never in force.
THEOREM DroppedHandlersAreGone == Spec => []NoOrphan
BY Inductive, PTL DEF Spec, IInv

\* A guard that was replaced never unregisters its successor.
THEOREM SuccessorsSurvive == Spec => OnlyItsOwnGuardUnregisters
<1> DEFINE A == \A m \in Methods :
                  handlers[m] # None /\ handlers'[m] = None =>
                    guard[handlers[m]] = "armed" /\ guard'[handlers[m]] = "dropped"
<1>1. IInv /\ [Next]_vars => [A]_vars
  <2> SUFFICES ASSUME IInv, Next PROVE A
    OBVIOUS
  <2> USE NoneAssumption DEF IInv, TypeOK
  <2>1. ASSUME NEW g \in Guards, TakeGeneration(g) \/ Insert(g) \/ Persist(g) PROVE A
    BY <2>1 DEF TakeGeneration, Insert, Persist
  <2>2. ASSUME NEW g \in Guards, Drop(g) PROVE A
    <3> SUFFICES ASSUME NEW m \in Methods, handlers[m] # None, handlers'[m] = None
                 PROVE  guard[handlers[m]] = "armed" /\ guard'[handlers[m]] = "dropped"
      OBVIOUS
    <3>1. InForce(g) /\ m = method[g]
      BY <2>2 DEF Drop
    <3>2. handlers[m] \in Guards /\ guard[handlers[m]] \in {"armed", "persisted"}
      BY DEF NoOrphan
    <3>3. handlers[m] = g
      BY <2>2, <3>1, <3>2 DEF InForce, Drop, GenerationsDiffer
    <3> QED BY <2>2, <3>3 DEF Drop
  <2> QED BY <2>1, <2>2 DEF Next
<1> QED BY <1>1, Inductive, PTL DEF Spec, OnlyItsOwnGuardUnregisters
=============================================================================
