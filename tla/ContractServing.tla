--------------------------- MODULE ContractServing ---------------------------
(***************************************************************************)
(* An application contract on a session: Contract::build checks a catalog,  *)
(* Contract::serve registers its handlers one by one in the registry that   *)
(* HandlerRegistry models, and every request goes through the pipeline of   *)
(* serve.rs, back to the typed client of client.rs.  Other threads register *)
(* handlers of their own, and requests are dispatched, between any two      *)
(* registrations.                                                           *)
(***************************************************************************)
EXTENDS HandlerRegistry, Sequences, SequencesExt

CONSTANTS
    Serves,      \* calls of Contract::serve
    GuardsOf,    \* the registrations of each, in order: rpc.discover first
    Requests,    \* requests the peer sends
    Discover     \* RPC_DISCOVER, the one reserved method

ASSUME ServesAssumption ==
    /\ GuardsOf \in [Serves -> Seq(Guards)]
    /\ Discover \in Methods

VARIABLES
    catalog,    \* the catalog of the compiled contract
    built,      \* whether it compiled
    serve,      \* each call: "idle", "serving", "failing", "served", ...
    step,       \* the registration each call is at
    req         \* each request: where it is and which registration answers it

contractVars == <<catalog, built, serve, step, req>>
allVars == <<vars, contractVars>>

Contracted == UNION {Range(GuardsOf[s]) : s \in Serves}

Direct == Guards \ Contracted

(* A catalog, by what validate and compile look at.                          *)
CatalogDocuments ==
    [methods : SUBSET Methods, named : BOOLEAN, grammar : BOOLEAN, documents : BOOLEAN,
     capabilities : BOOLEAN, schemas : BOOLEAN]

NoCatalog == [methods |-> {}, named |-> FALSE, grammar |-> FALSE, documents |-> FALSE,
              capabilities |-> FALSE, schemas |-> FALSE]

(* serve registers rpc.discover first, unless options.discover is off; the   *)
(* rest are whatever handlers the caller named.                              *)
ContractInit ==
    /\ Init
    /\ \A s \in Serves : method[GuardsOf[s][1]] = Discover
    /\ catalog = NoCatalog /\ built = FALSE
    /\ serve = [s \in Serves |-> "idle"]
    /\ step = [s \in Serves |-> 1]
    /\ req = [r \in Requests |-> [at |-> "none", by |-> None, answer |-> "none"]]

-----------------------------------------------------------------------------
(* Catalog::validate: the contract's own name and version, the grammar of    *)
(* its names (FrameNames), documents that are objects, capability lists of   *)
(* distinct non-empty names.                                                 *)
Validates(c) == c.named /\ c.grammar /\ c.documents /\ c.capabilities

(* assert_not_reserved, of every method and topic.                           *)
NotReserved(names) == Discover \notin names

(* compile: the catalog validates, no name is reserved, and every schema is  *)
(* one the validator compiles.                                               *)
Compiles(c) == Validates(c) /\ NotReserved(c.methods) /\ c.schemas

(* ContractBuilder::build and Contract::from_catalog.                        *)
Build ==
    /\ ~ built
    /\ \E c \in CatalogDocuments :
         /\ built' = Compiles(c)
         /\ catalog' = IF Compiles(c) THEN c ELSE catalog
    /\ UNCHANGED <<vars, serve, step, req>>

Current(s) == GuardsOf[s][step[s]]

(* serve, with options.discover on or off.                                   *)
ServeStart(s) ==
    /\ built /\ serve[s] = "idle"
    /\ serve' = [serve EXCEPT ![s] = "serving"]
    /\ step' \in {step, [step EXCEPT ![s] = 2]}
    /\ UNCHANGED <<vars, catalog, built, req>>

MutUndeclaredServed(s) == FALSE

(* contract.method(..) finds none, and the handler is not rpc.discover's.    *)
Undeclared(s) == step[s] > 1 /\ method[Current(s)] \notin catalog.methods

Serving(s) == serve[s] = "serving" /\ step[s] <= Len(GuardsOf[s])

ServeTakes(s) ==
    /\ Serving(s) /\ ~ Undeclared(s)
    /\ TakeGeneration(Current(s))
    /\ UNCHANGED contractVars

ServeInserts(s) ==
    /\ Serving(s)
    /\ Insert(Current(s))
    /\ step' = [step EXCEPT ![s] = @ + 1]
    /\ UNCHANGED <<catalog, built, serve, req>>

MutLeaksGuards == "failed"

(* The error returns through `?`: the guards taken so far are dropped.       *)
AfterRefusal == "failing"

ServeRefused(s) ==
    /\ Serving(s) /\ Undeclared(s)
    /\ serve' = [serve EXCEPT ![s] = AfterRefusal]
    /\ UNCHANGED <<vars, catalog, built, step, req>>

ServeDone(s) ==
    /\ serve[s] = "serving" /\ step[s] > Len(GuardsOf[s])
    /\ serve' = [serve EXCEPT ![s] = "served"]
    /\ UNCHANGED <<vars, catalog, built, step, req>>

(* The ServeGuard is persisted or dropped.                                   *)
ServeLeft(s) ==
    /\ serve[s] = "served"
    /\ \E how \in {"persisting", "dropping"} : serve' = [serve EXCEPT ![s] = how]
    /\ UNCHANGED <<vars, catalog, built, step, req>>

Leaving(s) == serve[s] \in {"failing", "dropping", "persisting"}

Armed(s) == {k \in 1 .. Len(GuardsOf[s]) : guard[GuardsOf[s][k]] = "armed"}

(* A ServeGuard is its HandlerGuards, which go one by one in the order they  *)
(* were taken; each unregisters what is its own.                             *)
ServeReleases(s) ==
    /\ Leaving(s)
    /\ \E k \in Armed(s) :
         /\ \A j \in Armed(s) : k <= j
         /\ IF serve[s] = "persisting" THEN Persist(GuardsOf[s][k]) ELSE Drop(GuardsOf[s][k])
    /\ UNCHANGED contractVars

ServeGone(s) ==
    /\ Leaving(s) /\ Armed(s) = {}
    /\ serve' = [serve EXCEPT ![s] = CASE @ = "failing" -> "failed"
                                            [] @ = "dropping" -> "dropped"
                                            [] OTHER -> "persisted"]
    /\ UNCHANGED <<vars, catalog, built, step, req>>

(* Session::handle, straight on the session.                                 *)
HandleStep(g) ==
    /\ TakeGeneration(g) \/ Insert(g) \/ Persist(g) \/ Drop(g)
    /\ UNCHANGED contractVars
-----------------------------------------------------------------------------
Move(r, where) == req' = [req EXCEPT ![r].at = where]

Answer(r, with) == req' = [req EXCEPT ![r].at = "answered", ![r].answer = with]

Catalogs == {GuardsOf[s][1] : s \in Serves}

(* on_request: a reserved method the effective minor does not define is      *)
(* refused before the registry is asked; the handler found answers, whatever *)
(* is registered later.                                                      *)
Dispatch(r) ==
    /\ req[r].at = "none"
    /\ \/ Answer(r, "invalid_request")
       \/ \E m \in Methods :
            IF handlers[m] = None
              THEN Answer(r, "unsupported")
              ELSE req' = [req EXCEPT ![r].by = handlers[m],
                                      ![r].at = IF handlers[m] \in Contracted THEN "params" ELSE "run"]
    /\ UNCHANGED <<vars, catalog, built, serve, step>>

(* check_params; rpc.discover asks for an object and answers the catalog.    *)
CheckParams(r) ==
    /\ req[r].at = "params"
    /\ \/ Answer(r, "invalid_params")
       \/ req[r].by \in Catalogs /\ Answer(r, "ok")
       \/ req[r].by \notin Catalogs /\ Move(r, "guard")
    /\ UNCHANGED <<vars, catalog, built, serve, step>>

(* options.guard, when there is one.                                         *)
CheckGuard(r) ==
    /\ req[r].at = "guard"
    /\ Move(r, "run") \/ Answer(r, "denied")
    /\ UNCHANGED <<vars, catalog, built, serve, step>>

(* TypedHandler::call: parameters that passed their schema and do not decode *)
(* are the server's fault.                                                   *)
Run(r) ==
    /\ req[r].at = "run"
    /\ Move(r, "result") \/ Answer(r, "internal") \/ Answer(r, "handler_error")
    /\ UNCHANGED <<vars, catalog, built, serve, step>>

(* check_result, when options.validate_results asks for it.                  *)
CheckResult(r) ==
    /\ req[r].at = "result"
    /\ Answer(r, "ok") \/ Answer(r, "internal")
    /\ UNCHANGED <<vars, catalog, built, serve, step>>

(* ContractClient::request_with: a result that does not decode as the type   *)
(* asked for is INTERNAL at the caller; discover_with asks for a catalog,    *)
(* and validates it.                                                         *)
Decodes(r) == IF req[r].by \in Catalogs THEN {Validates(catalog)} ELSE BOOLEAN

ClientDecodes(r) ==
    /\ req[r].at = "answered"
    /\ \E decodes \in Decodes(r) :
         IF req[r].answer = "ok" /\ ~ decodes
           THEN req' = [req EXCEPT ![r].at = "returned", ![r].answer = "internal"]
           ELSE Move(r, "returned")
    /\ UNCHANGED <<vars, catalog, built, serve, step>>

ContractNext ==
    \/ Build
    \/ \E s \in Serves :
        \/ ServeStart(s) \/ ServeTakes(s) \/ ServeInserts(s) \/ ServeRefused(s) \/ ServeDone(s)
        \/ ServeLeft(s) \/ ServeReleases(s) \/ ServeGone(s)
    \/ \E g \in Direct : HandleStep(g)
    \/ \E r \in Requests :
        \/ Dispatch(r) \/ CheckParams(r) \/ CheckGuard(r) \/ Run(r) \/ CheckResult(r)
        \/ ClientDecodes(r)

ContractSpec == ContractInit /\ [][ContractNext]_allVars

-----------------------------------------------------------------------------
(* Whatever a contract answers, it declares: between any two registrations   *)
(* of any serve call, a method a contract serves is one the catalog names    *)
(* ("Naming a method this contract does not declare is the one thing that is *)
(* refused outright"), rpc.discover is served by the catalog and nothing     *)
(* else a contract registers, and the catalog a contract answers it with is  *)
(* one the peer's discover() accepts.                                        *)
ServedAsDeclared ==
    /\ \A r \in Requests :
        req[r].at = "returned" /\ req[r].by \in Catalogs => req[r].answer \in {"ok", "invalid_params"}
    /\ \A s \in Serves, m \in Methods : \A k \in 1 .. Len(GuardsOf[s]) :
        handlers[m] = GuardsOf[s][k] => IF k = 1 THEN m = Discover ELSE m \in catalog.methods \ {Discover}

(* Contract::serve, "Either way nothing is registered", and ServeGuard: once *)
(* a call has failed, or its guard is gone, none of its handlers is in the   *)
(* registry, however its registrations interleaved with everybody else's.    *)
GoneServeAnswersNothing ==
    \A s \in Serves, m \in Methods :
        serve[s] \in {"failed", "dropped"} => handlers[m] \notin Range(GuardsOf[s])
=============================================================================
