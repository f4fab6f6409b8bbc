-------------------------- MODULE BusinessFunctions --------------------------
(***************************************************************************)
(* The functions of the business: named groups of permissions of one        *)
(* application, as the REST API saves them (FunctionService) and as the     *)
(* default configuration of a security contract applies them                *)
(* (ApplyIndividualDefaultApplication), while contracts change which        *)
(* permissions the applications declare.                                    *)
(*                                                                          *)
(* As in Teams, a request loads, looks up and saves in steps that other     *)
(* requests may come between, at READ COMMITTED.  A contract's application  *)
(* section is one step here, as Contracts, which models its steps, shows it *)
(* to be unless it is overtaken (DesiredState).                             *)
(*                                                                          *)
(* Applications always exist, each with an application function.  A         *)
(* function is identified with its name, a permission declared again with   *)
(* the one that was swept.                                                  *)
(***************************************************************************)
EXTENDS EfCore, FiniteSets

CONSTANTS App, AppFun, Fun, Perm,
          Owner,        \* the application of each application function
          Declarable,   \* the permissions each application may declare
          Worker,       \* requests that are served at the same time
          None          \* no application

ASSUME OwnerAssumption == Owner \in [AppFun -> App]
ASSUME DeclarableAssumption == Declarable \in [App -> SUBSET Perm]
ASSUME NoneAssumption == None \notin App

VARIABLES grants,       \* rows of _a3s.application_function_permission
          funs,         \* rows of _a3s.function
          app,          \* their application_id
          perms,        \* rows of _a3s.function_permission
          req,          \* the request each worker is serving
          stale,        \* workers whose reads another save has overtaken
          intact        \* no save so far was made by a stale worker

tables == <<grants, funs, app, perms>>
vars == <<tables, req, stale, intact>>

\* stale and intact observe the run; no action's guard reads them.

Idle == [kind |-> "idle"]

\* Creates or updates one function.
FunctionRequest ==
    [kind: {"function"}, fun: Fun, fresh: BOOLEAN, app: App,
     asked: SUBSET Perm, todo: SUBSET Perm,           \* submitted, not checked yet
     saw: SUBSET Perm]                                \* the rows loaded

DeleteRequest == [kind: {"delete"}, fun: Fun, saw: SUBSET Perm]

\* The default functions of one application: their names, those the loop reached
\* and the permissions of these; the application's functions as loaded, and the
\* functions that were found by name.
DefaultRequest ==
    [kind: {"default"}, app: App, names: SUBSET Fun, reached: SUBSET Fun,
     asked: [Fun -> SUBSET Perm], sawFuns: SUBSET Fun, saw: [Fun -> SUBSET Perm],
     looked: BOOLEAN, found: SUBSET Fun]

TypeOK ==
    /\ grants \in [AppFun -> SUBSET Perm]
    /\ funs \in SUBSET Fun
    /\ app \in [Fun -> App \cup {None}]
    /\ perms \in [Fun -> SUBSET Perm]
    /\ req \in [Worker -> {Idle} \cup FunctionRequest \cup DeleteRequest \cup DefaultRequest]
    /\ stale \in SUBSET Worker
    /\ intact \in BOOLEAN

Init ==
    /\ grants = [g \in AppFun |-> {}]
    /\ funs = {}
    /\ app = [f \in Fun |-> None]
    /\ perms = [f \in Fun |-> {}]
    /\ req = [w \in Worker |-> Idle]
    /\ stale = {}
    /\ intact = TRUE

-----------------------------------------------------------------------------
\* The application functions of a that contain p, in g, a value of grants.
Holders(g, a, p) == {h \in AppFun : Owner[h] = a /\ p \in g[h]}

PermsOf(g, a) == {p \in Perm : Holders(g, a, p) # {}}
Existing(g) == UNION {g[h] : h \in AppFun}

FunsOf(a) == {f \in funs : app[f] = a}

Start(w, r) ==
    /\ req[w] = Idle
    /\ req' = [req EXCEPT ![w] = r]
    /\ UNCHANGED <<tables, stale, intact>>

\* FunctionService.CreateAsync (the name is free) or UpdateAsync up to the first
\* permission.
LoadFunction(w) ==
    \E f \in Fun, a \in App, P \in SUBSET Perm :
        Start(w, [kind |-> "function", fun |-> f, fresh |-> f \notin funs, app |-> a,
                  asked |-> P, todo |-> P, saw |-> perms[f]])

\* Mutant of CheckPermission: the permission may be another application's.
CheckExistence(w) ==
    /\ req[w].kind = "function"
    /\ \E p \in req[w].todo \cap Existing(grants) :
         req' = [req EXCEPT ![w].todo = @ \ {p}]
    /\ UNCHANGED <<tables, stale, intact>>

\* One turn of CheckThatPermissionsExistAndAssignToFunction: of the application
\* functions that contain the permission the first one read decides.
CheckPermission(w) ==
    /\ req[w].kind = "function"
    /\ \E p \in req[w].todo :
         /\ Holders(grants, req[w].app, p) # {}
         /\ req' = [req EXCEPT ![w].todo = @ \ {p}]
    /\ UNCHANGED <<tables, stale, intact>>

\* FunctionService.DeleteAsync up to the removal.
LoadForDeletion(w) ==
    \E f \in funs : Start(w, [kind |-> "delete", fun |-> f, saw |-> perms[f]])

\* ApplyIndividualDefaultApplication: the application is loaded with its functions
\* and permissions.  A default function without permissions ends the loop, so that
\* those listed after it, and itself, are not reached.  A permission must be in one
\* of the application's functions; in two, it would be added twice.
LoadDefaults(w) ==
    \E a \in App, N \in (SUBSET Fun) \ {{}} : \E R \in SUBSET N :
    \E P \in [Fun -> SUBSET PermsOf(grants, a)] :
        /\ R = {f \in Fun : P[f] # {}}
        /\ \A f \in R : \A p \in P[f] : Cardinality(Holders(grants, a, p)) = 1
        /\ Start(w, [kind |-> "default", app |-> a, names |-> N, reached |-> R, asked |-> P,
                     sawFuns |-> FunsOf(a),
                     saw |-> [f \in Fun |-> IF f \in FunsOf(a) THEN perms[f] ELSE {}],
                     looked |-> FALSE, found |-> {}])

\* Each function reached is looked up by name, of whatever application it is.
LookUpDefaults(w) ==
    LET r == req[w] IN
    /\ r.kind = "default" /\ ~r.looked
    /\ req' = [req EXCEPT ![w].looked = TRUE, ![w].found = r.reached \cap funs,
                          ![w].saw = [f \in Fun |->
                             IF f \in r.reached \cap funs THEN r.saw[f] \cup perms[f]
                                                         ELSE r.saw[f]]]
    /\ UNCHANGED <<tables, stale, intact>>

\* A failed check, an exception of the save or a lost connection.
Reject(w) ==
    /\ req[w] # Idle
    /\ req' = [req EXCEPT ![w] = Idle]
    /\ stale' = stale \ {w}
    /\ UNCHANGED <<tables, intact>>

-----------------------------------------------------------------------------
\* The functions a request has read, and the applications whose permissions.
FunsRead(r) ==
    CASE r.kind = "idle" -> {}
      [] r.kind \in {"function", "delete"} -> {r.fun}
      [] r.kind = "default" -> r.sawFuns \cup IF r.looked THEN r.reached ELSE {}

PermsRead(r) ==
    CASE r.kind = "function" -> r.asked \ r.todo
      [] r.kind = "default" -> UNION {r.asked[f] : f \in r.reached}
      [] OTHER -> {}

\* The save under way changes something request r has read.
Overtakes(r) ==
    \/ \E f \in FunsRead(r) :
          perms'[f] # perms[f] \/ app'[f] # app[f] \/ (f \in funs') # (f \in funs)
    \/ \E p \in PermsRead(r) : Holders(grants', r.app, p) # Holders(grants, r.app, p)
    \/ r.kind = "default" /\ {f \in funs' : app'[f] = r.app} # FunsOf(r.app)

Finish(w) ==
    /\ req' = [req EXCEPT ![w] = Idle]
    /\ stale' = {v \in Worker \ {w} : v \in stale \/ Overtakes(req[v])}
    /\ intact' = (intact /\ w \notin stale)

\* FunctionRepository.CreateAsync or UpdateAsync, a transaction of its own.
CommitFunction(w) ==
    LET r == req[w]  f == r.fun IN
    /\ r.kind = "function" /\ r.todo = {}
    /\ r.fresh <=> f \notin funs
    /\ Saveable(perms[f], r.saw, r.asked)
    /\ Inserts(r.saw, r.asked) \subseteq Existing(grants)
    /\ funs' = funs \cup {f}
    /\ app' = [app EXCEPT ![f] = r.app]
    /\ perms' = [perms EXCEPT ![f] = Merged(@, r.saw, r.asked)]
    /\ UNCHANGED grants
    /\ Finish(w)

\* FunctionRepository.DeleteAsync; roles lose the function with it.
CommitDeletion(w) ==
    LET f == req[w].fun IN
    /\ req[w].kind = "delete"
    /\ f \in funs /\ req[w].saw \subseteq perms[f]
    /\ funs' = funs \ {f}
    /\ app' = [app EXCEPT ![f] = None]
    /\ perms' = [perms EXCEPT ![f] = {}]
    /\ UNCHANGED grants
    /\ Finish(w)

Removed(r) == r.sawFuns \ r.names

\* Functions the application had, is to keep, and did not get back: the list of the
\* application's functions is started anew, so they are left without an application.
Severed(r) == (r.sawFuns \cap r.names) \ r.reached

\* Mutant of CommitDefaults: the removal of functions is forgotten.
CommitAdditions(w) ==
    LET r == req[w] IN
    /\ r.kind = "default" /\ r.looked
    /\ funs' = funs \cup r.reached
    /\ app' = [f \in Fun |-> CASE f \in r.reached -> r.app [] f \in Severed(r) -> None
                               [] OTHER -> app[f]]
    /\ perms' = [f \in Fun |-> IF f \in r.reached THEN Merged(perms[f], r.saw[f], r.asked[f])
                                                  ELSE perms[f]]
    /\ UNCHANGED grants
    /\ Finish(w)

\* The removals, then the application with its new functions, in one transaction.
CommitDefaults(w) ==
    LET r == req[w] IN
    /\ r.kind = "default" /\ r.looked
    /\ r.sawFuns \subseteq funs
    /\ r.reached \cap funs = r.found
    /\ \A f \in Removed(r) : r.saw[f] \subseteq perms[f]
    /\ \A f \in r.reached : Saveable(perms[f], r.saw[f], r.asked[f])
    /\ \A f \in r.reached : Inserts(r.saw[f], r.asked[f]) \subseteq Existing(grants)
    /\ funs' = (funs \ Removed(r)) \cup r.reached
    /\ app' = [f \in Fun |-> CASE f \in r.reached -> r.app
                               [] f \in Removed(r) \cup Severed(r) -> None
                               [] OTHER -> app[f]]
    /\ perms' = [f \in Fun |->
                   CASE f \in r.reached -> Merged(perms[f], r.saw[f], r.asked[f])
                     [] f \in Removed(r) -> {}
                     [] OTHER -> perms[f]]
    /\ UNCHANGED grants
    /\ Finish(w)

\* A contract declares the permissions of application a; those that no application
\* function contains any more are swept, and taken from the functions.
ApplyContract(w) ==
    \E a \in App, G \in [AppFun -> SUBSET Perm] :
        /\ req[w] = Idle
        /\ \A h \in AppFun : IF Owner[h] = a THEN G[h] \subseteq Declarable[a]
                                             ELSE G[h] = grants[h]
        /\ grants' = G
        /\ perms' = [f \in Fun |-> perms[f] \cap Existing(G)]
        /\ UNCHANGED <<funs, app>>
        /\ Finish(w)

Next ==
    \E w \in Worker :
        \/ LoadFunction(w) \/ CheckPermission(w) \/ LoadForDeletion(w)
        \/ LoadDefaults(w) \/ LookUpDefaults(w) \/ Reject(w)
        \/ CommitFunction(w) \/ CommitDeletion(w) \/ CommitDefaults(w)
        \/ ApplyContract(w)

Spec == Init /\ [][Next]_vars

=============================================================================
