-------------------------------- MODULE Roles --------------------------------
(***************************************************************************)
(* Roles, their child roles and functions, and the roles of users, as the   *)
(* REST API and the default configuration of a contract save them           *)
(* (RoleService; ApplyDefaultRole; the roles in UserService and in          *)
(* ApplyIndividualDefaultUser), and the functions that reach a user's       *)
(* tokens.                                                                  *)
(*                                                                          *)
(* As in Teams, other requests may save between the steps of a request, and *)
(* nothing deletes a role.  Functions come and go (BusinessFunctions), one  *)
(* created again is identified with the one deleted, and their permissions  *)
(* are left out here.                                                       *)
(***************************************************************************)
EXTENDS EfCore

CONSTANTS Role, Fun, User,
          Worker,       \* requests that are served at the same time
          Lists         \* the lists of roles a request may submit

ASSUME ListsAssumption == Lists \subseteq SUBSET Role

VARIABLES roles,        \* rows of _a3s.role
          funs,         \* rows of _a3s.function
          kids,         \* rows of _a3s.role_role, by parent role
          holds,        \* rows of _a3s.role_function, by role
          has,          \* rows of _a3s.user_role, by user
          req,          \* the request each worker is serving
          stale,        \* workers whose reads another save has overtaken
          intact        \* no save so far was made by a stale worker

tables == <<roles, funs, kids, holds, has>>
vars == <<tables, req, stale, intact>>

\* stale and intact observe the run; no action's guard reads them.

Idle == [kind |-> "idle"]

\* Replaces the functions of a role and, unless the list is null, its children.
RoleRequest ==
    [kind: {"role"}, role: Role, fresh: BOOLEAN, setsKids: BOOLEAN,
     asked: SUBSET Role, askedFuns: SUBSET Fun,
     sawKids: SUBSET Role, sawFuns: SUBSET Fun,       \* the rows loaded
     todo: SUBSET Role]                               \* not validated yet

UserRequest ==
    [kind: {"user"}, user: User, asked: SUBSET Role, sawRoles: SUBSET Role]

TypeOK ==
    /\ roles \in SUBSET Role
    /\ funs \in SUBSET Fun
    /\ kids \in [Role -> SUBSET Role]
    /\ holds \in [Role -> SUBSET Fun]
    /\ has \in [User -> SUBSET Role]
    /\ req \in [Worker -> {Idle} \cup RoleRequest \cup UserRequest]
    /\ stale \in SUBSET Worker
    /\ intact \in BOOLEAN

Init ==
    /\ roles = {} /\ funs = {}
    /\ kids = [r \in Role |-> {}]
    /\ holds = [r \in Role |-> {}]
    /\ has = [u \in User |-> {}]
    /\ req = [w \in Worker |-> Idle]
    /\ stale = {}
    /\ intact = TRUE

\* GeneratePermissionsClaimMapFromSubject: the functions of the user's roles and of
\* their child roles, whose permissions are put into a token.  The query joins the
\* functions too, which is to change nothing (DeletedFunctionsReachNoToken).
TokenFuns(u) == UNION {holds[r] \cup UNION {holds[c] : c \in kids[r]} : r \in has[u]}

Start(w, r) ==
    /\ req[w] = Idle
    /\ req' = [req EXCEPT ![w] = r]
    /\ UNCHANGED <<tables, stale, intact>>

-----------------------------------------------------------------------------
\* A request for role t, with the rows it has loaded; the functions have been looked
\* up already, and the save finds out if they are gone.
RoleLoaded(t, setsKids, K, F) ==
    [kind |-> "role", role |-> t, fresh |-> t \notin roles, setsKids |-> setsKids,
     asked |-> K, askedFuns |-> F, sawKids |-> kids[t], sawFuns |-> holds[t], todo |-> K]

\* RoleService.CreateAsync and UpdateAsync up to the first child role: null leaves
\* the children, an empty list clears them.
LoadRole(w) ==
    \E t \in Role, K \in Lists, F \in SUBSET funs, listed \in BOOLEAN :
        /\ ~listed => K = {}
        /\ Start(w, RoleLoaded(t, listed, K, F))

\* ApplyDefaultRole up to the first child role: children and functions are replaced.
ApplyDefaultRole(w) ==
    \E t \in Role, K \in Lists, F \in SUBSET funs : Start(w, RoleLoaded(t, TRUE, K, F))

\* The roles of a user of the API or of a default user, each looked up; the rows are
\* rebuilt.  A deleted user has none.
LoadUser(w) ==
    \E u \in User, R \in SUBSET roles :
        Start(w, [kind |-> "user", user |-> u, asked |-> R, sawRoles |-> has[u]])

\* Mutant of Validate: the role may have children.
ValidateCompound(w) ==
    LET r == req[w] IN
    \E c \in roles :
        /\ r.kind = "role"
        /\ c \in r.todo
        /\ req' = [req EXCEPT ![w].todo = @ \ {c}]
        /\ UNCHANGED <<tables, stale, intact>>

\* One turn of the loop over the submitted roles: the role exists and, read now, has
\* no children.  A role that is its own child is the entity being edited, whose list
\* already holds the children added before it.
Validate(w) ==
    LET r == req[w] IN
    \E c \in roles :
        /\ r.kind = "role"
        /\ c \in r.todo
        /\ kids[c] = {}
        /\ c = r.role => r.todo = r.asked
        /\ req' = [req EXCEPT ![w].todo = @ \ {c}]
        /\ UNCHANGED <<tables, stale, intact>>

\* A failed check, an exception of the save or a lost connection.
Reject(w) ==
    /\ req[w] # Idle
    /\ req' = [req EXCEPT ![w] = Idle]
    /\ stale' = stale \ {w}
    /\ UNCHANGED <<tables, intact>>

-----------------------------------------------------------------------------
\* The roles whose children a request has read.
KidsRead(r) == IF r.kind = "role" THEN {r.role} \cup (r.asked \ r.todo) ELSE {}

\* The save under way changes something request r has read.
Overtakes(r) ==
    \/ \E t \in KidsRead(r) : kids'[t] # kids[t]
    \/ r.kind = "role" /\ holds'[r.role] # holds[r.role]
    \/ r.kind = "role" /\ ~(r.askedFuns \subseteq funs')
    \/ r.kind = "user" /\ has'[r.user] # has[r.user]

Finish(w) ==
    /\ req' = [req EXCEPT ![w] = Idle]
    /\ stale' = {v \in Worker \ {w} : v \in stale \/ Overtakes(req[v])}
    /\ intact' = (intact /\ w \notin stale)

\* RoleRepository.CreateAsync or UpdateAsync, and the commit.
CommitRole(w) ==
    LET r == req[w]
        newKids == IF r.setsKids THEN r.asked ELSE r.sawKids
    IN
    /\ r.kind = "role" /\ r.todo = {}
    /\ r.fresh => r.role \notin roles
    /\ Saveable(kids[r.role], r.sawKids, newKids)
    /\ Saveable(holds[r.role], r.sawFuns, r.askedFuns)
    /\ Inserts(r.sawFuns, r.askedFuns) \subseteq funs
    /\ roles' = roles \cup {r.role}
    /\ kids' = [kids EXCEPT ![r.role] = Merged(@, r.sawKids, newKids)]
    /\ holds' = [holds EXCEPT ![r.role] = Merged(@, r.sawFuns, r.askedFuns)]
    /\ UNCHANGED <<funs, has>>
    /\ Finish(w)

\* UserRepository.CreateAsync, UpdateAsync or DeleteAsync, and the commit.
CommitUser(w) ==
    LET r == req[w] IN
    /\ r.kind = "user"
    /\ Saveable(has[r.user], r.sawRoles, r.asked)
    /\ has' = [has EXCEPT ![r.user] = Merged(@, r.sawRoles, r.asked)]
    /\ UNCHANGED <<roles, funs, kids, holds>>
    /\ Finish(w)

CreateFunction(w) ==
    \E f \in Fun \ funs :
        /\ req[w] = Idle
        /\ funs' = funs \cup {f}
        /\ UNCHANGED <<roles, kids, holds, has>>
        /\ Finish(w)

\* Mutant of DeleteFunction: the roles keep the function.
DeleteFunctionOnly(w) ==
    \E f \in funs :
        /\ req[w] = Idle
        /\ funs' = funs \ {f}
        /\ UNCHANGED <<roles, kids, holds, has>>
        /\ Finish(w)

\* FunctionRepository.DeleteAsync: the table's foreign key takes it from the roles.
DeleteFunction(w) ==
    \E f \in funs :
        /\ req[w] = Idle
        /\ funs' = funs \ {f}
        /\ holds' = [r \in Role |-> holds[r] \ {f}]
        /\ UNCHANGED <<roles, kids, has>>
        /\ Finish(w)

Next ==
    \E w \in Worker :
        \/ LoadRole(w) \/ ApplyDefaultRole(w) \/ LoadUser(w) \/ Validate(w) \/ Reject(w)
        \/ CommitRole(w) \/ CommitUser(w)
        \/ CreateFunction(w) \/ DeleteFunction(w)

Spec == Init /\ [][Next]_vars

=============================================================================
