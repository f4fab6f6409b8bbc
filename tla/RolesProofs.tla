----------------------------- MODULE RolesProofs -----------------------------
(***************************************************************************)
(* The role handlers keep their types, let no deleted function into a       *)
(* token, implement the abstract compound hierarchy and, when not           *)
(* overtaken, change tokens to what was submitted, for any roles,           *)
(* functions, users, workers and submitted lists.                           *)
(***************************************************************************)
EXTENDS RolesProperties, TLAPS

\* The roles' functions exist, which the foreign key of role_function is for.
HeldFunctionsExist == \A r \in Role : holds[r] \subseteq funs

\* What a request has read still holds, and a null list names no child.
Current(r) ==
    /\ r.kind = "role" =>
         /\ r.sawKids = kids[r.role] /\ r.sawFuns = holds[r.role]
         /\ \A c \in r.asked \ r.todo : kids[c] = {}
    /\ r.kind = "user" => r.sawRoles = has[r.user]

ReadsCurrent == \A w \in Worker \ stale : Current(req[w])

IInv == TypeOK /\ HeldFunctionsExist /\ ReadsCurrent

\* A save compared with current rows is a replacement.
LEMMA MergedCurrent ==
  ASSUME NEW db, NEW asked
  PROVE  Merged(db, db, asked) = asked
BY DEF Merged, Deletes, Inserts

\* A save adds the rows it inserts and no others, and keeps the types of the lists.
LEMMA MergedBounds ==
  ASSUME NEW db, NEW seen, NEW asked
  PROVE  /\ Merged(db, seen, asked) \subseteq db \cup Inserts(seen, asked)
         /\ Inserts(seen, asked) \subseteq asked
BY DEF Merged, Deletes, Inserts

\* A save of a list as it was loaded changes nothing.
LEMMA MergedUnchanged ==
  ASSUME NEW db, NEW seen
  PROVE  Merged(db, seen, seen) = db
BY DEF Merged, Deletes, Inserts

-----------------------------------------------------------------------------
\* The three operations start well-typed requests whose reads are current.
LEMMA StartedRequest ==
  ASSUME TypeOK, NEW w \in Worker, LoadRole(w) \/ ApplyDefaultRole(w) \/ LoadUser(w)
  PROVE  \E r \in RoleRequest \cup UserRequest : Start(w, r) /\ Current(r)
<1>1. ASSUME NEW t \in Role, NEW K \in Lists, NEW F \in SUBSET funs, NEW listed \in BOOLEAN
      PROVE  /\ RoleLoaded(t, listed, K, F) \in RoleRequest
             /\ Current(RoleLoaded(t, listed, K, F))
  BY ListsAssumption DEF RoleLoaded, RoleRequest, Current, TypeOK
<1>2. CASE LoadRole(w)
  BY <1>1, <1>2 DEF LoadRole
<1>3. CASE ApplyDefaultRole(w)
  BY <1>1, <1>3 DEF ApplyDefaultRole
<1>4. CASE LoadUser(w)
  <2>1. PICK u \in User, R \in SUBSET roles :
          Start(w, [kind |-> "user", user |-> u, asked |-> R, sawRoles |-> has[u]])
    BY <1>4 DEF LoadUser
  <2> DEFINE r == [kind |-> "user", user |-> u, asked |-> R, sawRoles |-> has[u]]
  <2>2. r \in UserRequest
    BY <2>1 DEF UserRequest, TypeOK
  <2>3. Current(r)
    BY DEF Current
  <2> QED BY <2>1, <2>2, <2>3
<1> QED BY <1>2, <1>3, <1>4

LEMMA StartKeepsInv ==
  ASSUME IInv, NEW w \in Worker, LoadRole(w) \/ ApplyDefaultRole(w) \/ LoadUser(w)
  PROVE  IInv'
<1>1. PICK r \in RoleRequest \cup UserRequest : Start(w, r) /\ Current(r)
  BY StartedRequest DEF IInv
<1>2. /\ req' = [req EXCEPT ![w] = r]
      /\ UNCHANGED <<roles, funs, kids, holds, has, stale, intact>>
  BY <1>1 DEF Start, tables
<1>3. TypeOK'
  BY <1>1, <1>2 DEF IInv, TypeOK
<1>4. HeldFunctionsExist'
  BY <1>2 DEF IInv, HeldFunctionsExist
<1>5. ReadsCurrent'
  BY <1>1, <1>2 DEF IInv, TypeOK, ReadsCurrent, Current
<1> QED BY <1>3, <1>4, <1>5 DEF IInv

\* A check reads a role and takes it off the list: the tables stay.
LEMMA ValidateKeepsInv ==
  ASSUME IInv, NEW w \in Worker, Validate(w)
  PROVE  IInv'
<1>1. PICK c \in roles :
        /\ req[w].kind = "role"
        /\ c \in req[w].todo
        /\ kids[c] = {}
        /\ req' = [req EXCEPT ![w].todo = @ \ {c}]
        /\ UNCHANGED <<roles, funs, kids, holds, has, stale, intact>>
  BY DEF Validate, tables
<1>2. req[w] \in RoleRequest
  BY <1>1 DEF IInv, TypeOK, Idle, UserRequest
<1>3. TypeOK'
  BY <1>1, <1>2 DEF IInv, TypeOK, RoleRequest
<1>4. HeldFunctionsExist'
  BY <1>1 DEF IInv, HeldFunctionsExist
<1>5. ReadsCurrent'
  <2> SUFFICES ASSUME NEW v \in Worker \ stale' PROVE Current(req[v])'
    BY DEF ReadsCurrent
  <2>1. Current(req[v])
    BY <1>1 DEF IInv, ReadsCurrent
  <2>2. CASE v = w
    BY <1>1, <1>2, <2>1, <2>2 DEF IInv, TypeOK, Current, RoleRequest
  <2>3. CASE v # w
    BY <1>1, <2>1, <2>3 DEF IInv, TypeOK, Current
  <2> QED BY <2>2, <2>3
<1> QED BY <1>3, <1>4, <1>5 DEF IInv

\* A request that gives up leaves the tables and the other requests alone.
LEMMA RejectKeepsInv ==
  ASSUME IInv, NEW w \in Worker, Reject(w)
  PROVE  IInv'
<1>1. TypeOK'
  BY DEF IInv, TypeOK, Reject, tables
<1>2. HeldFunctionsExist'
  BY DEF IInv, HeldFunctionsExist, Reject, tables
<1>3. ReadsCurrent'
  <2> SUFFICES ASSUME NEW v \in Worker \ stale' PROVE Current(req[v])'
    BY DEF ReadsCurrent
  <2>1. CASE v = w
    BY <2>1 DEF IInv, TypeOK, Current, Reject, Idle, tables
  <2>2. CASE v # w
    BY <2>2 DEF IInv, TypeOK, ReadsCurrent, Current, Reject, tables
  <2> QED BY <2>1, <2>2
<1> QED BY <1>1, <1>2, <1>3 DEF IInv

-----------------------------------------------------------------------------
\* After a save, the requests that were not overtaken still have current reads.
LEMMA FinishKeepsCurrent ==
  ASSUME TypeOK, ReadsCurrent, NEW w \in Worker, Finish(w)
  PROVE  ReadsCurrent'
<1> SUFFICES ASSUME NEW v \in Worker \ stale' PROVE Current(req[v])'
  BY DEF ReadsCurrent
<1>1. CASE v = w
  BY <1>1 DEF Finish, Current, Idle, TypeOK
<1>2. CASE v # w
  <2>1. /\ req'[v] = req[v]
        /\ v \notin stale
        /\ ~Overtakes(req[v])
    BY <1>2 DEF Finish, TypeOK
  <2>2. Current(req[v])
    BY <2>1 DEF ReadsCurrent
  <2>3. req[v].kind = "role" =>
           /\ kids'[req[v].role] = kids[req[v].role]
           /\ holds'[req[v].role] = holds[req[v].role]
           /\ \A c \in req[v].asked \ req[v].todo : kids'[c] = kids[c]
    BY <2>1 DEF Overtakes, KidsRead
  <2>4. req[v].kind = "user" => has'[req[v].user] = has[req[v].user]
    BY <2>1 DEF Overtakes
  <2> QED BY <2>1, <2>2, <2>3, <2>4 DEF Current
<1> QED BY <1>1, <1>2

\* The rows a role's save leaves: functions that exist and, if nothing overtook the
\* request, what was submitted or what was there.
LEMMA CommitRoleRows ==
  ASSUME IInv, NEW w \in Worker, CommitRole(w)
  PROVE  LET r == req[w] IN
         /\ r \in RoleRequest /\ r.todo = {}
         /\ kids' = [kids EXCEPT ![r.role] = kids'[r.role]]
         /\ holds' = [holds EXCEPT ![r.role] = holds'[r.role]]
         /\ kids'[r.role] \in SUBSET Role
         /\ holds'[r.role] \subseteq funs
         /\ ~r.setsKids => kids'[r.role] = kids[r.role]
         /\ w \notin stale => /\ r.setsKids => kids'[r.role] = r.asked
                              /\ holds'[r.role] = r.askedFuns
<1> DEFINE r == req[w]
           newKids == IF r.setsKids THEN r.asked ELSE r.sawKids
<1>1. r \in RoleRequest
  BY DEF IInv, TypeOK, CommitRole, Idle, UserRequest
<1>2. /\ r.todo = {}
      /\ Inserts(r.sawFuns, r.askedFuns) \subseteq funs
      /\ kids' = [kids EXCEPT ![r.role] = Merged(kids[r.role], r.sawKids, newKids)]
      /\ holds' = [holds EXCEPT ![r.role] = Merged(holds[r.role], r.sawFuns, r.askedFuns)]
  BY DEF CommitRole
<1>3. newKids \in SUBSET Role
  BY <1>1 DEF RoleRequest
<1>4. /\ ~r.setsKids => newKids = r.sawKids
      /\ r.setsKids => newKids = r.asked
  OBVIOUS
<1> HIDE DEF newKids
<1>5. /\ kids'[r.role] = Merged(kids[r.role], r.sawKids, newKids)
      /\ holds'[r.role] = Merged(holds[r.role], r.sawFuns, r.askedFuns)
  BY <1>1, <1>2 DEF IInv, TypeOK, RoleRequest
<1>6. /\ kids' = [kids EXCEPT ![r.role] = kids'[r.role]]
      /\ holds' = [holds EXCEPT ![r.role] = holds'[r.role]]
  BY <1>2, <1>5
<1>7. kids'[r.role] \in SUBSET Role
  BY <1>1, <1>3, <1>5, MergedBounds DEF IInv, TypeOK, RoleRequest
<1>8. holds'[r.role] \subseteq funs
  <2>1. holds[r.role] \subseteq funs
    BY <1>1 DEF IInv, HeldFunctionsExist, RoleRequest
  <2> QED BY <1>2, <1>5, <2>1, MergedBounds
<1>9. ~r.setsKids => kids'[r.role] = kids[r.role]
  BY <1>4, <1>5, MergedUnchanged
<1>10. w \notin stale => /\ r.setsKids => kids'[r.role] = r.asked
                         /\ holds'[r.role] = r.askedFuns
  <2>1. w \notin stale => r.sawKids = kids[r.role] /\ r.sawFuns = holds[r.role]
    BY <1>1 DEF IInv, ReadsCurrent, Current, RoleRequest
  <2> QED BY <1>4, <1>5, <2>1, MergedCurrent
<1> QED BY <1>1, <1>2, <1>6, <1>7, <1>8, <1>9, <1>10

LEMMA CommitRoleKeepsInv ==
  ASSUME IInv, NEW w \in Worker, CommitRole(w)
  PROVE  IInv'
<1> DEFINE t == req[w].role
<1>1. /\ t \in Role
      /\ kids' = [kids EXCEPT ![t] = kids'[t]]
      /\ holds' = [holds EXCEPT ![t] = holds'[t]]
      /\ kids'[t] \in SUBSET Role
      /\ holds'[t] \subseteq funs
  BY CommitRoleRows DEF RoleRequest
<1>2. /\ roles' = roles \cup {t} /\ UNCHANGED <<funs, has>>
      /\ Finish(w)
  BY DEF CommitRole
<1> HIDE DEF t
<1>3. TypeOK'
  BY <1>1, <1>2 DEF IInv, TypeOK, Finish
<1>4. HeldFunctionsExist'
  BY <1>1, <1>2 DEF IInv, TypeOK, HeldFunctionsExist
<1>5. ReadsCurrent'
  BY <1>2, FinishKeepsCurrent DEF IInv
<1> QED BY <1>3, <1>4, <1>5 DEF IInv

\* The roles of a user, and functions that come and go, with their rows.
LEMMA OtherSavesKeepInv ==
  ASSUME IInv, NEW w \in Worker, CommitUser(w) \/ CreateFunction(w) \/ DeleteFunction(w)
  PROVE  IInv'
<1>1. ReadsCurrent'
  BY FinishKeepsCurrent DEF IInv, CommitUser, CreateFunction, DeleteFunction
<1>2. CASE CommitUser(w)
  <2>1. req[w] \in UserRequest
    BY <1>2 DEF IInv, TypeOK, CommitUser, Idle, RoleRequest
  <2>2. TypeOK'
    BY <1>2, <2>1, MergedBounds DEF IInv, TypeOK, CommitUser, UserRequest, Finish
  <2>3. HeldFunctionsExist'
    BY <1>2 DEF IInv, HeldFunctionsExist, CommitUser
  <2> QED BY <1>1, <2>2, <2>3 DEF IInv
<1>3. CASE CreateFunction(w)
  <2>1. TypeOK'
    BY <1>3 DEF IInv, TypeOK, CreateFunction, Finish
  <2>2. HeldFunctionsExist'
    BY <1>3 DEF IInv, HeldFunctionsExist, CreateFunction
  <2> QED BY <1>1, <2>1, <2>2 DEF IInv
<1>4. CASE DeleteFunction(w)
  <2>1. PICK f \in funs : /\ funs' = funs \ {f}
                          /\ holds' = [r \in Role |-> holds[r] \ {f}]
    BY <1>4 DEF DeleteFunction
  <2>2. TypeOK'
    BY <1>4, <2>1 DEF IInv, TypeOK, DeleteFunction, Finish
  <2>3. HeldFunctionsExist'
    BY <2>1 DEF IInv, HeldFunctionsExist
  <2> QED BY <1>1, <2>2, <2>3 DEF IInv
<1> QED BY <1>2, <1>3, <1>4

LEMMA NextKeepsInv == IInv /\ [Next]_vars => IInv'
<1> SUFFICES ASSUME IInv, [Next]_vars PROVE IInv'
  OBVIOUS
<1>1. ASSUME NEW w \in Worker, LoadRole(w) \/ ApplyDefaultRole(w) \/ LoadUser(w) PROVE IInv'
  BY <1>1, StartKeepsInv
<1>2. ASSUME NEW w \in Worker, Validate(w) PROVE IInv'
  BY <1>2, ValidateKeepsInv
<1>3. ASSUME NEW w \in Worker, Reject(w) PROVE IInv'
  BY <1>3, RejectKeepsInv
<1>4. ASSUME NEW w \in Worker, CommitRole(w) PROVE IInv'
  BY <1>4, CommitRoleKeepsInv
<1>5. ASSUME NEW w \in Worker, CommitUser(w) \/ CreateFunction(w) \/ DeleteFunction(w)
      PROVE  IInv'
  BY <1>5, OtherSavesKeepInv
<1>6. CASE UNCHANGED vars
  BY <1>6 DEF vars, tables, IInv, TypeOK, HeldFunctionsExist, ReadsCurrent, Current
<1> QED BY <1>1, <1>2, <1>3, <1>4, <1>5, <1>6 DEF Next

\* The inductive invariant of the role handlers, whatever the interleaving: types, rows
\* of existing functions only, current reads of requests that were not overtaken.
THEOREM Invariant == Spec => []IInv
<1>1. Init => IInv
  BY DEF Init, IInv, TypeOK, HeldFunctionsExist, ReadsCurrent, Current, Idle
<1> QED BY <1>1, NextKeepsInv, PTL DEF Spec

\* The variables of Roles keep their types.
THEOREM TypeCorrect == Spec => []TypeOK
<1>1. IInv => TypeOK
  BY DEF IInv
<1> QED BY <1>1, Invariant, PTL

\* No token has a function that was deleted, even after saves of a role that deletions
\* have overtaken: a role's save inserts functions that exist, and a deletion takes its
\* function from every role.
THEOREM DeletedFunctionsNeverReachTokens == Spec => []DeletedFunctionsReachNoToken
<1>1. IInv => DeletedFunctionsReachNoToken
  <2> SUFFICES ASSUME IInv, NEW u \in User PROVE TokenFuns(u) \subseteq funs
    BY DEF DeletedFunctionsReachNoToken
  <2>1. \A r \in has[u] : r \in Role /\ \A c \in kids[r] : c \in Role
    BY DEF IInv, TypeOK
  <2> QED BY <2>1 DEF IInv, HeldFunctionsExist, TokenFuns
<1> QED BY <1>1, Invariant, PTL

-----------------------------------------------------------------------------
\* A role's save is a step of the abstract hierarchy: it composes the role, leaves it
\* alone, or is a race.
LEMMA CommitRoleImplements ==
  ASSUME IInv, NEW w \in Worker, CommitRole(w)
  PROVE  [Hierarchy!Next]_(Hierarchy!vars)
<1> DEFINE r == req[w]
<1>1. /\ r \in RoleRequest /\ r.todo = {}
      /\ kids' = [kids EXCEPT ![r.role] = kids'[r.role]]
      /\ ~r.setsKids => kids'[r.role] = kids[r.role]
      /\ w \notin stale /\ r.setsKids => kids'[r.role] = r.asked
  BY CommitRoleRows
<1>2. intact' = (intact /\ w \notin stale)
  BY DEF CommitRole, Finish
<1>3. TypeOK /\ TypeOK'
  BY CommitRoleKeepsInv DEF IInv
<1>4. /\ r.role \in Role /\ r.asked \in SUBSET Role /\ r.setsKids \in BOOLEAN
      /\ r.kind = "role"
  BY <1>1 DEF RoleRequest
<1>5. CASE w \in stale
  <2>1. Hierarchy!Race
    BY <1>2, <1>3, <1>5 DEF Hierarchy!Race, TypeOK
  <2> QED BY <2>1 DEF Hierarchy!Next
<1>6. CASE w \notin stale
  <2>1. \A c \in r.asked : kids[c] = {}
    BY <1>1, <1>4, <1>6 DEF IInv, ReadsCurrent, Current
  <2>2. intact' = intact
    BY <1>2, <1>3, <1>6 DEF TypeOK
  <2> HIDE DEF r
  <2>3. CASE ~r.setsKids
    <3>1. kids' = kids
      BY <1>1, <1>3, <1>4, <2>3 DEF TypeOK
    <3> QED BY <2>2, <3>1 DEF Hierarchy!vars
  <2>4. CASE r.setsKids
    <3>1. kids' = [kids EXCEPT ![r.role] = r.asked]
      BY <1>1, <1>6, <2>4
    <3>2. Hierarchy!Compose(r.role, r.asked)
      BY <1>4, <2>1, <2>2, <3>1 DEF Hierarchy!Compose, Hierarchy!Leaf
    <3> QED BY <1>4, <3>2 DEF Hierarchy!Next
  <2> QED BY <1>4, <2>3, <2>4
<1> QED BY <1>5, <1>6

\* A save that leaves the children alone is a stutter, or a race.
LEMMA OtherSavesImplement ==
  ASSUME IInv, NEW w \in Worker, CommitUser(w) \/ CreateFunction(w) \/ DeleteFunction(w)
  PROVE  [Hierarchy!Next]_(Hierarchy!vars)
<1>1. kids' = kids /\ intact' = (intact /\ w \notin stale)
  BY DEF CommitUser, CreateFunction, DeleteFunction, Finish
<1>2. TypeOK /\ TypeOK'
  BY OtherSavesKeepInv DEF IInv
<1>3. CASE w \in stale
  <2>1. Hierarchy!Race
    BY <1>1, <1>2, <1>3 DEF Hierarchy!Race, TypeOK
  <2> QED BY <2>1 DEF Hierarchy!Next
<1>4. CASE w \notin stale
  BY <1>1, <1>2, <1>4 DEF TypeOK, Hierarchy!vars
<1> QED BY <1>3, <1>4

\* The role handlers implement the abstract hierarchy, without members.
THEOREM RolesImplementHierarchy == Spec => ImplementsHierarchy
<1>1. Init => Hierarchy!Init
  BY DEF Init, Hierarchy!Init
<1>2. IInv /\ [Next]_vars => [Hierarchy!Next]_(Hierarchy!vars)
  <2> SUFFICES ASSUME IInv, [Next]_vars
               PROVE  [Hierarchy!Next]_(Hierarchy!vars)
    OBVIOUS
  <2>1. ASSUME NEW w \in Worker,
               \/ LoadRole(w) \/ ApplyDefaultRole(w) \/ LoadUser(w)
               \/ Validate(w) \/ Reject(w)
        PROVE  UNCHANGED Hierarchy!vars
    BY <2>1 DEF LoadRole, ApplyDefaultRole, LoadUser, Start, tables,
                Validate, Reject, Hierarchy!vars
  <2>2. ASSUME NEW w \in Worker, CommitRole(w)
        PROVE  [Hierarchy!Next]_(Hierarchy!vars)
    BY <2>2, CommitRoleImplements
  <2>3. ASSUME NEW w \in Worker, CommitUser(w) \/ CreateFunction(w) \/ DeleteFunction(w)
        PROVE  [Hierarchy!Next]_(Hierarchy!vars)
    BY <2>3, OtherSavesImplement
  <2>4. CASE UNCHANGED vars
    BY <2>4 DEF vars, tables, Hierarchy!vars
  <2> QED BY <2>1, <2>2, <2>3, <2>4 DEF Next
<1> QED BY <1>1, <1>2, Invariant, PTL DEF Spec, ImplementsHierarchy, Hierarchy!Spec

\* While no role was saved on outdated checks, no role is reached from itself over other
\* roles: every set of roles has one with no child but itself in the set.
THEOREM RoleCyclesAreSelfLoops == Spec => [](intact => Hierarchy!OnlySelfLoops)
<1> DEFINE HInv == Hierarchy!TypeOK /\ (intact => Hierarchy!OnlySelfLoops)
<1>1. Hierarchy!Init => HInv
  BY DEF Hierarchy!Init, Hierarchy!TypeOK, Hierarchy!OnlySelfLoops
<1>2. HInv /\ [Hierarchy!Next]_(Hierarchy!vars) => HInv'
  <2> SUFFICES ASSUME HInv, [Hierarchy!Next]_(Hierarchy!vars) PROVE HInv'
    OBVIOUS
  <2>1. ASSUME NEW p \in Role, NEW K \in SUBSET Role, Hierarchy!Compose(p, K)
        PROVE  HInv'
    <3>1. Hierarchy!TypeOK'
      BY <2>1 DEF Hierarchy!Compose, Hierarchy!TypeOK
    <3>2. ASSUME intact, NEW S \in SUBSET Role, S # {}
          PROVE  \E n \in S : kids'[n] \cap S \subseteq {n}
      <4>1. /\ kids' = [kids EXCEPT ![p] = K]
            /\ \A c \in K : kids[c] = {}
        BY <2>1 DEF Hierarchy!Compose, Hierarchy!Leaf
      <4>2. CASE p \in S /\ ~(K \cap S \subseteq {p})
        <5>1. PICK c \in K \cap S : c # p
          BY <4>2
        <5> QED BY <4>1, <5>1 DEF Hierarchy!TypeOK
      <4>3. CASE p \in S /\ K \cap S \subseteq {p}
        BY <4>1, <4>3 DEF Hierarchy!TypeOK
      <4>4. CASE p \notin S
        BY <3>2, <4>1, <4>4 DEF Hierarchy!TypeOK, Hierarchy!OnlySelfLoops
      <4> QED BY <4>2, <4>3, <4>4
    <3>3. intact' = intact
      BY <2>1 DEF Hierarchy!Compose
    <3> QED BY <3>1, <3>2, <3>3 DEF Hierarchy!OnlySelfLoops
  <2>2. ASSUME NEW p \in Role, Hierarchy!Populate(p, {})
        PROVE  HInv'
    BY <2>2 DEF Hierarchy!Populate, Hierarchy!TypeOK, Hierarchy!OnlySelfLoops
  <2>3. CASE Hierarchy!Race
    BY <2>3 DEF Hierarchy!Race, Hierarchy!TypeOK
  <2>4. CASE UNCHANGED Hierarchy!vars
    BY <2>4 DEF Hierarchy!vars, Hierarchy!TypeOK, Hierarchy!OnlySelfLoops
  <2> QED BY <2>1, <2>2, <2>3, <2>4 DEF Hierarchy!Next
<1> QED BY <1>1, <1>2, RolesImplementHierarchy, PTL DEF ImplementsHierarchy, Hierarchy!Spec

\* A role's save that nothing overtook gives the tokens exactly the functions that were
\* submitted, for a user of the role and one of its parents.
THEOREM TokensAlwaysFollowTheSave == Spec => TokensFollowTheSave
<1>1. IInv /\ [Next]_vars =>
        [\A w \in Worker \ stale : \A u \in User :
           LET r == req[w] IN
           CommitRole(w) =>
             /\ r.role \in has[u] => r.askedFuns \subseteq TokenFuns(u)'
             /\ has[u] = {r.role} /\ r.setsKids =>
                  TokenFuns(u)' = r.askedFuns \cup UNION {holds'[c] : c \in r.asked}]_vars
  <2> SUFFICES ASSUME IInv, NEW w \in Worker \ stale, NEW u \in User, CommitRole(w)
               PROVE  LET r == req[w] IN
                      /\ r.role \in has[u] => r.askedFuns \subseteq TokenFuns(u)'
                      /\ has[u] = {r.role} /\ r.setsKids =>
                           TokenFuns(u)' = r.askedFuns \cup UNION {holds'[c] : c \in r.asked}
    OBVIOUS
  <2> DEFINE r == req[w]
  <2>1. /\ holds'[r.role] = r.askedFuns
        /\ r.setsKids => kids'[r.role] = r.asked
        /\ has' = has
    BY CommitRoleRows DEF CommitRole
  <2> HIDE DEF r
  <2>2. TokenFuns(u)' = UNION {holds'[q] \cup UNION {holds'[c] : c \in kids'[q]} : q \in has[u]}
    BY <2>1 DEF TokenFuns
  <2>3. r.role \in has[u] => r.askedFuns \subseteq TokenFuns(u)'
    BY <2>1, <2>2
  <2>4. ASSUME has[u] = {r.role}, r.setsKids
        PROVE  TokenFuns(u)' = r.askedFuns \cup UNION {holds'[c] : c \in r.asked}
    BY <2>1, <2>2, <2>4
  <2> QED BY <2>3, <2>4 DEF r
<1> QED BY <1>1, Invariant, PTL DEF Spec, TokensFollowTheSave

=============================================================================
