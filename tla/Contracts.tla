------------------------------ MODULE Contracts ------------------------------
(***************************************************************************)
(* The "applications" section of a security contract: the functions a       *)
(* micro-service declares for itself and the permissions each contains      *)
(* (SecurityContractService, SecurityContractApplicationService), and the   *)
(* two databases the result is committed to, one after the other.           *)
(*                                                                          *)
(* A contract runs in one A3S transaction and one of the identity server's, *)
(* at READ COMMITTED.  Its writes wait for CommitA3S, where the constraints *)
(* of the tables decide: what it saved before is seen by its own queries    *)
(* only, and the row of its application, which it updates, keeps other      *)
(* contracts of that application from saving.                               *)
(*                                                                          *)
(* A row is identified with its name, one created again with the one that   *)
(* was deleted.  A contract has one application; its data policies and the  *)
(* clients section are left out.                                            *)
(***************************************************************************)
EXTENDS EfCore

CONSTANTS App, AppFun, Perm,
          Worker,       \* contracts that are applied at the same time
          Declarable,   \* the permissions each application may list
          None          \* no row, no request

ASSUME DeclarableAssumption == Declarable \in [App -> SUBSET Perm]

VARIABLES apps,         \* rows of _a3s.application
          owner,        \* rows of _a3s.application_function: name to application
          grants,       \* rows of _a3s.application_function_permission
          perms,        \* rows of _a3s.permission
          api,          \* rows of _ids4.ApiResources
          req,          \* the contract each worker is applying
          stale,        \* workers another contract of their application overtook
          inForce,      \* the last contract committed for each application
          intact,       \* no contract was committed by a stale worker
          bared,        \* a contract without a function list met another one
          torn          \* applications of which one database was committed and not the other

database == <<apps, owner, grants, perms, api>>
observed == <<stale, inForce, intact, bared, torn>>
vars == <<database, req, observed>>

\* The variables of observed record the run; no action's guard reads them.

\* What a contract lists: function names, and the permissions of each.
Declaration == [names: SUBSET AppFun, perms: [AppFun -> SUBSET Perm]]
Nothing == [names |-> {}, perms |-> [f \in AppFun |-> {}]]

Contract ==
    [app: App, fresh: BOOLEAN,
     listed: BOOLEAN,                    \* the applicationFunctions element is there
     decl: Declaration,
     seen: Declaration,                  \* the application's rows as loaded
     found: SUBSET Perm,                 \* permissions looked up and found
     sweep: SUBSET Perm,                 \* permissions read as assigned nowhere
     stage: {"loaded", "saved", "swept", "halfway"}]

ASSUME NoneAssumption == None \notin App \cup Contract

TypeOK ==
    /\ apps \in SUBSET App
    /\ owner \in [AppFun -> App \cup {None}]
    /\ grants \in [AppFun -> SUBSET Perm]
    /\ perms \in SUBSET Perm
    /\ api \in SUBSET App
    /\ req \in [Worker -> Contract \cup {None}]
    /\ stale \in SUBSET Worker
    /\ inForce \in [App -> Declaration]
    /\ {intact, bared} \subseteq BOOLEAN
    /\ torn \in SUBSET App

Init ==
    /\ apps = {} /\ perms = {} /\ api = {}
    /\ owner = [f \in AppFun |-> None]
    /\ grants = [f \in AppFun |-> {}]
    /\ req = [w \in Worker |-> None]
    /\ stale = {}
    /\ inForce = [a \in App |-> Nothing]
    /\ intact = TRUE /\ bared = FALSE /\ torn = {}

Busy(w) == req[w] # None

-----------------------------------------------------------------------------
\* What application a may list: its own permissions, under names it lists.
DeclarationsOf(a) ==
    UNION {{[names |-> N, perms |-> P] :
              P \in {Q \in [AppFun -> SUBSET Declarable[a]] :
                       \A f \in AppFun \ N : Q[f] = {}}} : N \in SUBSET AppFun}

OwnedBy(a) == {f \in AppFun : owner[f] = a}

Loaded(a) == [names |-> OwnedBy(a),
              perms |-> [f \in AppFun |-> IF owner[f] = a THEN grants[f] ELSE {}]]

\* ApplyResourceServerDefinitionAsync loads the application by its name.  For a
\* new one, CreateNewResourceServer first sees to the API resource.
LoadContract(w) ==
    \E a \in App, listed \in BOOLEAN : \E d \in DeclarationsOf(a) :
        /\ ~Busy(w)
        /\ ~listed => d = Nothing
        /\ req' = [req EXCEPT ![w] =
             [app |-> a, fresh |-> a \notin apps, listed |-> listed,
              decl |-> d, seen |-> Loaded(a),
              found |-> {}, sweep |-> {}, stage |-> "loaded"]]
        /\ UNCHANGED <<database, observed>>

\* The permissions to be assigned to f that it was not loaded with.
Missing(r, f) == Inserts(r.seen.perms[f], r.decl.perms[f])
MissingPerms(r) == UNION {Missing(r, f) : f \in r.decl.names}

\* Mutant of HoldsApplication: a loaded application's row is not updated.
HoldsFresh(r) == r.stage \in {"saved", "swept"} /\ r.fresh

\* A new application's row, or the update of a loaded one, is saved together
\* with the functions; without a function list nothing is updated yet.
HoldsApplication(r) == r.stage \in {"saved", "swept"} /\ (r.fresh \/ r.listed)

AnotherHolds(w) ==
    \E v \in Worker \ {w} :
        Busy(v) /\ req[v].app = req[w].app /\ HoldsApplication(req[v])

\* Every permission to be assigned is looked up, then all is saved.  A new
\* permission of two functions is added twice, which its unique name refuses.
SaveFunctions(w) ==
    LET r == req[w] IN
    /\ Busy(w) /\ r.stage = "loaded"
    /\ (r.fresh \/ r.listed) => ~AnotherHolds(w)
    /\ \A f, g \in r.decl.names :
         f # g => Missing(r, f) \cap Missing(r, g) \subseteq perms
    /\ req' = [req EXCEPT ![w].found = MissingPerms(r) \cap perms,
                          ![w].stage = "saved"]
    /\ UNCHANGED <<database, observed>>

\* The rows of application_function_permission as w's own transaction sees them.
GrantsSeenBy(w) ==
    LET r == req[w] IN
    [f \in AppFun |->
       CASE f \in r.decl.names -> Merged(grants[f], r.seen.perms[f], r.decl.perms[f])
         [] f \in r.seen.names \ r.decl.names -> {}
         [] OTHER -> grants[f]]

Unassigned(g, P) == {p \in P : \A f \in AppFun : p \notin g[f]}

\* Mutant of SweepPermissions: the permissions the contract dropped are not read.
SweepOthers(w) ==
    LET r == req[w] IN
    /\ Busy(w) /\ r.stage = "saved" /\ ~r.fresh
    /\ req' = [req EXCEPT ![w].sweep = Unassigned(grants, perms), ![w].stage = "swept"]
    /\ UNCHANGED <<database, observed>>

\* DeletePermissionsNotAssignedToApplicationFunctionsAsync, in the update of an
\* existing application only: every permission, of whatever application, that
\* no function contains is read and removed.
SweepPermissions(w) ==
    LET r == req[w] IN
    /\ Busy(w) /\ r.stage = "saved" /\ ~r.fresh
    /\ req' = [req EXCEPT ![w].sweep = Unassigned(GrantsSeenBy(w), perms),
                          ![w].stage = "swept"]
    /\ UNCHANGED <<database, observed>>

\* An exception, a refused constraint or a crash before the first commit.
Rollback(w) ==
    /\ Busy(w) /\ req[w].stage # "halfway"
    /\ req' = [req EXCEPT ![w] = None]
    /\ stale' = stale \ {w}
    /\ UNCHANGED <<database, inForce, intact, bared, torn>>

-----------------------------------------------------------------------------
\* The constraints of the tables and the rows the change tracker expects.  For a
\* function that is listed as it was loaded nothing is written or expected.
Accepted(r) ==
    LET names == r.decl.names  seen == r.seen.names IN
    /\ r.fresh => r.app \notin apps
    /\ \A f \in names \ seen : owner[f] = None
    /\ \A f \in seen \cap names : owner[f] = r.app \/ r.seen.perms[f] = r.decl.perms[f]
    /\ \A f \in seen \ names : owner[f] = r.app
    /\ \A f \in names : Saveable(grants[f], r.seen.perms[f], r.decl.perms[f])
    /\ \A f \in seen \ names : r.seen.perms[f] \subseteq grants[f]
    /\ r.found \subseteq perms
    /\ (MissingPerms(r) \ r.found) \cap perms = {}
    /\ r.sweep \subseteq perms

\* Mutant of OwnerAfter: removed functions stay.
OwnerKeeping(r) == [f \in AppFun |-> IF f \in r.decl.names THEN r.app ELSE owner[f]]

OwnerAfter(r) ==
    [f \in AppFun |-> CASE f \in r.decl.names \ r.seen.names -> r.app
                        [] f \in r.seen.names \ r.decl.names -> None
                        [] OTHER -> owner[f]]

\* SecurityContractService.CommitAllTransactions, its first half: the A3S
\* database.  A removed permission takes its assignments with it (ON DELETE CASCADE).
CommitA3S(w) ==
    LET r == req[w]
        sameApp == {v \in Worker \ {w} : Busy(v) /\ req[v].app = r.app}
    IN
    /\ Busy(w) /\ r.stage = IF r.fresh THEN "saved" ELSE "swept"
    /\ ~AnotherHolds(w)
    /\ Accepted(r)
    /\ apps' = apps \cup {r.app}
    /\ owner' = OwnerAfter(r)
    /\ grants' = [f \in AppFun |-> GrantsSeenBy(w)[f] \ r.sweep]
    /\ perms' = (perms \cup MissingPerms(r)) \ r.sweep
    /\ req' = [req EXCEPT ![w] = IF r.fresh THEN [r EXCEPT !.stage = "halfway"]
                                            ELSE None]
    /\ stale' = (stale \ {w}) \cup sameApp
    /\ inForce' = [inForce EXCEPT ![r.app] = r.decl]
    /\ intact' = (intact /\ w \notin stale)
    /\ bared' = (bared \/ \E v \in sameApp : ~(r.listed /\ req[v].listed))
    /\ UNCHANGED <<api, torn>>

\* Mutant of CommitIdentityServer: its context is never saved.
CommitIdentityForgotten(w) ==
    /\ Busy(w) /\ req[w].stage = "halfway"
    /\ req' = [req EXCEPT ![w] = None]
    /\ stale' = stale \ {w}
    /\ UNCHANGED <<database, inForce, intact, bared, torn>>

\* Its second half: the identity server's database.
CommitIdentityServer(w) ==
    /\ Busy(w) /\ req[w].stage = "halfway"
    /\ api' = api \cup {req[w].app}
    /\ req' = [req EXCEPT ![w] = None]
    /\ stale' = stale \ {w}
    /\ UNCHANGED <<apps, owner, grants, perms, inForce, intact, bared, torn>>

\* The second commit fails or the process stops before it: rolling back finds
\* the A3S transaction gone.
LoseIdentityServer(w) ==
    /\ Busy(w) /\ req[w].stage = "halfway"
    /\ req' = [req EXCEPT ![w] = None]
    /\ stale' = stale \ {w}
    /\ torn' = torn \cup {req[w].app}
    /\ UNCHANGED <<database, inForce, intact, bared>>

Next ==
    \E w \in Worker :
        \/ LoadContract(w) \/ SaveFunctions(w) \/ SweepPermissions(w)
        \/ Rollback(w)
        \/ CommitA3S(w) \/ CommitIdentityServer(w) \/ LoseIdentityServer(w)

Spec == Init /\ [][Next]_vars

=============================================================================
