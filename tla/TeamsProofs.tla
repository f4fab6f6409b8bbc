----------------------------- MODULE TeamsProofs -----------------------------
(***************************************************************************)
(* The team handlers keep their types, never break a foreign key, implement *)
(* the abstract compound hierarchy and, when not overtaken, save exactly    *)
(* what was submitted, for any teams, users, workers and submitted lists.   *)
(***************************************************************************)
EXTENDS TeamsProperties, TLAPS

\* A save compared with current rows is a replacement.
LEMMA MergedCurrent ==
  ASSUME NEW db, NEW asked
  PROVE  Merged(db, db, asked) = asked
BY DEF Merged, Deletes, Inserts

\* A save adds no row that was not asked for.
LEMMA MergedBounds ==
  ASSUME NEW db, NEW seen, NEW asked
  PROVE  Merged(db, seen, asked) \subseteq db \cup asked
BY DEF Merged, Deletes, Inserts

\* The invariant that is inductive: the foreign keys need the requests' checks,
\* the checks need what was loaded to be current, and all need the types.
IInv ==
    /\ TypeOK
    /\ RowsReferToTeams
    /\ RequestsWellFormed
    /\ ReadsCurrent

-----------------------------------------------------------------------------
\* A team request that passed the early rejections is well typed and well
\* formed, and its reads are current.
LEMMA LoadedRequest ==
  ASSUME TypeOK, NEW t \in Team, NEW K \in Lists, NEW P \in SUBSET User,
         NEW setsKids \in BOOLEAN, NEW setsMembers \in BOOLEAN,
         K # {} => members[t] = {} /\ P = {},
         ~setsKids => K = {} /\ ~setsMembers
  PROVE  LET r == TeamLoaded(t, setsKids, K, setsMembers, P)
         IN  r \in TeamRequest /\ WellFormed(r) /\ Current(r)
<1> DEFINE r == TeamLoaded(t, setsKids, K, setsMembers, P)
<1>1. r \in TeamRequest
  BY ListsAssumption DEF TeamLoaded, TeamRequest, TypeOK
<1>2. WellFormed(r)
  BY DEF TeamLoaded, WellFormed
<1>3. Current(r)
  BY DEF TeamLoaded, Current
<1> QED BY <1>1, <1>2, <1>3

\* The four operations only start such requests.
LEMMA StartedRequest ==
  ASSUME TypeOK, RowsReferToTeams, NEW w \in Worker,
         CreateTeam(w) \/ UpdateTeam(w) \/ ApplyDefaultTeam(w) \/ SaveUser(w)
  PROVE  \E r \in TeamRequest \cup UserRequest :
            Start(w, r) /\ WellFormed(r) /\ Current(r)
<1>1. CASE CreateTeam(w)
  <2>1. PICK t \in Team \ teams, K \in Lists :
          Start(w, TeamLoaded(t, TRUE, K, TRUE, {}))
    BY <1>1 DEF CreateTeam
  <2>2. members[t] = {}
    BY <2>1 DEF RowsReferToTeams
  <2> QED BY <2>1, <2>2, LoadedRequest
<1>2. CASE UpdateTeam(w)
  <2>1. PICK t \in teams, K \in Lists, listed \in BOOLEAN :
          /\ ~listed => K = {}
          /\ K # {} => members[t] = {}
          /\ Start(w, TeamLoaded(t, listed, K, FALSE, {}))
    BY <1>2 DEF UpdateTeam
  <2>2. t \in Team
    BY <2>1 DEF TypeOK
  <2> QED BY <2>1, <2>2, LoadedRequest
<1>3. CASE ApplyDefaultTeam(w)
  <2>1. PICK t \in Team, K \in Lists, P \in SUBSET User :
          /\ K # {} => members[t] = {} /\ P = {}
          /\ Start(w, TeamLoaded(t, TRUE, K, TRUE, P))
    BY <1>3 DEF ApplyDefaultTeam
  <2> QED BY <2>1, LoadedRequest
<1>4. CASE SaveUser(w)
  <2>1. PICK u \in User, T \in Lists :
          Start(w, [kind |-> "user", user |-> u, asked |-> T,
                    sawTeams |-> TeamsOf(members, u), todo |-> T])
    BY <1>4 DEF SaveUser
  <2> DEFINE r == [kind |-> "user", user |-> u, asked |-> T,
                   sawTeams |-> TeamsOf(members, u), todo |-> T]
  <2>2. r \in UserRequest
    BY <2>1, ListsAssumption DEF UserRequest, TeamsOf
  <2>3. WellFormed(r) /\ Current(r)
    BY DEF WellFormed, Current
  <2> QED BY <2>1, <2>2, <2>3
<1> QED BY <1>1, <1>2, <1>3, <1>4

\* After a save, the requests that were not overtaken still have current reads.
LEMMA FinishKeepsCurrent ==
  ASSUME TypeOK, RequestsWellFormed, ReadsCurrent, NEW w \in Worker, Finish(w)
  PROVE  ReadsCurrent'
<1> SUFFICES ASSUME NEW v \in Worker \ stale' PROVE Current(req[v])'
  BY DEF ReadsCurrent
<1>1. CASE v = w
  BY <1>1 DEF Finish, Current, Idle, TypeOK
<1>2. CASE v # w
  <2>1. /\ req'[v] = req[v]
        /\ v \notin stale
        /\ ~Overtakes(req[v])
    BY <1>2 DEF Finish, TypeOK
  <2>2. Current(req[v])
    BY <2>1 DEF ReadsCurrent
  <2>3. req[v].kind # "idle" =>
           \A c \in req[v].asked \ req[v].todo : kids'[c] = kids[c]
    BY <2>1 DEF Overtakes, KidsRead, TypeOK, TeamRequest, UserRequest, Idle
  <2>4. req[v].kind = "team" =>
           kids'[req[v].team] = kids[req[v].team] /\ members'[req[v].team] = members[req[v].team]
    BY <2>1 DEF Overtakes, KidsRead
  <2>5. req[v].kind = "user" =>
           TeamsOf(members', req[v].user) = TeamsOf(members, req[v].user)
    BY <2>1 DEF Overtakes
  <2>6. TeamsOf(members, req[v].user)' = TeamsOf(members', req'[v].user)
    BY DEF TeamsOf
  <2> QED BY <2>1, <2>2, <2>3, <2>4, <2>5, <2>6 DEF Current
<1> QED BY <1>1, <1>2

\* A finished request and a larger set of teams keep the others well formed.
LEMMA FinishKeepsWellFormed ==
  ASSUME TypeOK, RequestsWellFormed, NEW w \in Worker, Finish(w),
         teams \subseteq teams'
  PROVE  RequestsWellFormed'
<1> SUFFICES ASSUME NEW v \in Worker PROVE WellFormed(req[v])'
  BY DEF RequestsWellFormed
<1>1. CASE v = w
  BY <1>1 DEF Finish, WellFormed, Idle, TypeOK
<1>2. CASE v # w
  BY <1>2 DEF Finish, WellFormed, RequestsWellFormed, TypeOK
<1> QED BY <1>1, <1>2

-----------------------------------------------------------------------------
\* What the steps that save nothing leave in place.
LEMMA StartKeepsInv ==
  ASSUME IInv, NEW w \in Worker,
         CreateTeam(w) \/ UpdateTeam(w) \/ ApplyDefaultTeam(w) \/ SaveUser(w)
  PROVE  IInv'
<1>1. PICK r \in TeamRequest \cup UserRequest :
        Start(w, r) /\ WellFormed(r) /\ Current(r)
  BY StartedRequest DEF IInv
<1>2. /\ req' = [req EXCEPT ![w] = r]
      /\ UNCHANGED <<teams, kids, members, stale, intact>>
  BY <1>1 DEF Start
<1>3. TypeOK'
  BY <1>1, <1>2 DEF IInv, TypeOK
<1>4. RowsReferToTeams'
  BY <1>2 DEF IInv, RowsReferToTeams
<1>5. RequestsWellFormed'
  BY <1>1, <1>2 DEF IInv, TypeOK, RequestsWellFormed, WellFormed
<1>6. ReadsCurrent'
  BY <1>1, <1>2 DEF IInv, TypeOK, ReadsCurrent, Current, TeamsOf
<1> QED BY <1>3, <1>4, <1>5, <1>6 DEF IInv

\* A check reads a team and takes it off the list: the tables stay.
LEMMA ValidateKeepsInv ==
  ASSUME IInv, NEW w \in Worker, Validate(w)
  PROVE  IInv'
<1>1. PICK c \in teams :
        /\ req[w].kind # "idle"
        /\ c \in req[w].todo
        /\ kids[c] = {}
        /\ req' = [req EXCEPT ![w].todo = @ \ {c}]
        /\ UNCHANGED <<teams, kids, members, stale, intact>>
  BY DEF Validate
<1>2. req[w] \in TeamRequest \cup UserRequest
  BY <1>1 DEF IInv, TypeOK, Idle
<1>3. TypeOK'
  BY <1>1, <1>2 DEF IInv, TypeOK, TeamRequest, UserRequest
<1>4. RowsReferToTeams'
  BY <1>1 DEF IInv, RowsReferToTeams
<1>5. RequestsWellFormed'
  <2> SUFFICES ASSUME NEW v \in Worker PROVE WellFormed(req[v])'
    BY DEF RequestsWellFormed
  <2>1. WellFormed(req[v])
    BY DEF IInv, RequestsWellFormed
  <2>2. CASE v = w
    BY <1>1, <1>2, <2>1, <2>2 DEF IInv, TypeOK, WellFormed, TeamRequest, UserRequest
  <2>3. CASE v # w
    BY <1>1, <2>1, <2>3 DEF IInv, TypeOK, WellFormed
  <2> QED BY <2>2, <2>3
<1>6. ReadsCurrent'
  <2> SUFFICES ASSUME NEW v \in Worker \ stale' PROVE Current(req[v])'
    BY DEF ReadsCurrent
  <2>1. Current(req[v])
    BY <1>1 DEF IInv, ReadsCurrent
  <2>2. CASE v = w
    BY <1>1, <1>2, <2>1, <2>2
       DEF IInv, TypeOK, Current, TeamRequest, UserRequest, TeamsOf
  <2>3. CASE v # w
    BY <1>1, <2>1, <2>3 DEF IInv, TypeOK, Current, TeamsOf
  <2> QED BY <2>2, <2>3
<1> QED BY <1>3, <1>4, <1>5, <1>6 DEF IInv

\* A request that gives up leaves the tables and the other requests alone.
LEMMA RejectKeepsInv ==
  ASSUME IInv, NEW w \in Worker, Reject(w)
  PROVE  IInv'
<1>1. TypeOK'
  BY DEF IInv, TypeOK, Reject
<1>2. RowsReferToTeams'
  BY DEF IInv, RowsReferToTeams, Reject
<1>3. RequestsWellFormed'
  BY DEF IInv, TypeOK, RequestsWellFormed, WellFormed, Reject, Idle
<1>4. ReadsCurrent'
  <2> SUFFICES ASSUME NEW v \in Worker \ stale' PROVE Current(req[v])'
    BY DEF ReadsCurrent
  <2>1. CASE v = w
    BY <2>1 DEF IInv, TypeOK, Current, Reject, Idle
  <2>2. CASE v # w
    BY <2>2 DEF IInv, TypeOK, ReadsCurrent, Current, Reject, TeamsOf
  <2> QED BY <2>1, <2>2
<1> QED BY <1>1, <1>2, <1>3, <1>4 DEF IInv

-----------------------------------------------------------------------------
\* The rows a team's save leaves: no child that was not checked, and, if nothing
\* overtook the request, what was submitted or what was there.
LEMMA CommitTeamRows ==
  ASSUME IInv, NEW w \in Worker, CommitTeam(w)
  PROVE  LET r == req[w] IN
         /\ r \in TeamRequest
         /\ r.asked \subseteq teams
         /\ kids' = [kids EXCEPT ![r.team] = kids'[r.team]]
         /\ members' = [members EXCEPT ![r.team] = members'[r.team]]
         /\ kids'[r.team] \subseteq teams
         /\ members'[r.team] \in SUBSET User
         /\ ~r.setsKids => kids'[r.team] = kids[r.team]
         /\ ~r.setsMembers => members'[r.team] = members[r.team]
         /\ w \notin stale => /\ r.setsKids => kids'[r.team] = r.asked
                              /\ r.setsMembers => members'[r.team] = r.people
<1> DEFINE r == req[w]
           newKids == IF r.setsKids THEN r.asked ELSE r.sawKids
           newMembers == IF r.setsMembers THEN r.people ELSE r.sawMembers
<1>1. r \in TeamRequest
  BY DEF IInv, TypeOK, CommitTeam, Idle, UserRequest
<1>2. r.asked \subseteq teams
  BY <1>1 DEF IInv, RequestsWellFormed, WellFormed, CommitTeam
<1>3. /\ kids' = [kids EXCEPT ![r.team] = Merged(kids[r.team], r.sawKids, newKids)]
      /\ members' = [members EXCEPT ![r.team] =
                       Merged(members[r.team], r.sawMembers, newMembers)]
  BY DEF CommitTeam
<1> HIDE DEF newKids, newMembers
<1>4. /\ kids'[r.team] = Merged(kids[r.team], r.sawKids, newKids)
      /\ members'[r.team] = Merged(members[r.team], r.sawMembers, newMembers)
  BY <1>1, <1>3 DEF IInv, TypeOK, TeamRequest
<1>5. /\ kids' = [kids EXCEPT ![r.team] = kids'[r.team]]
      /\ members' = [members EXCEPT ![r.team] = members'[r.team]]
  BY <1>3, <1>4
<1>6. ~r.setsKids => kids'[r.team] = kids[r.team]
  BY <1>4 DEF Merged, Deletes, Inserts, newKids
<1>7. ~r.setsMembers => members'[r.team] = members[r.team]
  BY <1>4 DEF Merged, Deletes, Inserts, newMembers
<1>8. kids'[r.team] \subseteq teams
  <2>1. kids[r.team] \subseteq teams
    BY <1>1 DEF IInv, RowsReferToTeams, TeamRequest
  <2>2. CASE r.setsKids
    BY <1>2, <1>4, <2>1, <2>2, MergedBounds DEF newKids
  <2>3. CASE ~r.setsKids
    BY <1>6, <2>1, <2>3
  <2> QED BY <2>2, <2>3
<1>9. members'[r.team] \in SUBSET User
  BY <1>1, <1>4 DEF IInv, TypeOK, TeamRequest, Merged, Deletes, Inserts, newMembers
<1>10. ASSUME w \notin stale
       PROVE  /\ r.setsKids => kids'[r.team] = r.asked
              /\ r.setsMembers => members'[r.team] = r.people
  <2>1. r.sawKids = kids[r.team] /\ r.sawMembers = members[r.team]
    BY <1>1, <1>10 DEF IInv, ReadsCurrent, Current, TeamRequest
  <2> QED BY <1>4, <2>1, MergedCurrent DEF newKids, newMembers
<1> QED BY <1>1, <1>2, <1>5, <1>6, <1>7, <1>8, <1>9, <1>10

\* A team's save keeps the invariant, of the rows and of every other request.
LEMMA CommitTeamKeepsInv ==
  ASSUME IInv, NEW w \in Worker, CommitTeam(w)
  PROVE  IInv'
<1> DEFINE t == req[w].team
<1>1. /\ t \in Team
      /\ kids' = [kids EXCEPT ![t] = kids'[t]]
      /\ members' = [members EXCEPT ![t] = members'[t]]
      /\ kids'[t] \subseteq teams
      /\ members'[t] \in SUBSET User
  BY CommitTeamRows DEF TeamRequest
<1>2. teams' = teams \cup {t} /\ Finish(w)
  BY DEF CommitTeam
<1> HIDE DEF t
<1>3. TypeOK'
  BY <1>1, <1>2 DEF IInv, TypeOK, Finish
<1>4. RowsReferToTeams'
  BY <1>1, <1>2 DEF IInv, TypeOK, RowsReferToTeams
<1>5. RequestsWellFormed'
  BY <1>2, FinishKeepsWellFormed DEF IInv
<1>6. ReadsCurrent'
  BY <1>2, FinishKeepsCurrent DEF IInv
<1> QED BY <1>3, <1>4, <1>5, <1>6 DEF IInv

\* The rows a user's save leaves name existing teams only and, if nothing
\* overtook the request, exactly the teams submitted.
LEMMA CommitUserRows ==
  ASSUME IInv, NEW w \in Worker, CommitUser(w)
  PROVE  LET r == req[w] IN
         /\ r \in UserRequest
         /\ r.asked \subseteq teams
         /\ \E S \in SUBSET teams :
              /\ members' = [t \in Team |-> IF t \in S THEN members[t] \cup {r.user}
                                                       ELSE members[t] \ {r.user}]
              /\ w \notin stale => S = r.asked
<1> DEFINE r == req[w]
           S == Merged(TeamsOf(members, r.user), r.sawTeams, r.asked)
<1>1. r \in UserRequest
  BY DEF IInv, TypeOK, CommitUser, Idle, TeamRequest
<1>2. r.asked \subseteq teams
  BY <1>1 DEF IInv, RequestsWellFormed, WellFormed, CommitUser
<1>3. members' = [t \in Team |-> IF t \in S THEN members[t] \cup {r.user}
                                            ELSE members[t] \ {r.user}]
  BY DEF CommitUser
<1>4. S \in SUBSET teams
  <2>1. TeamsOf(members, r.user) \subseteq teams
    BY DEF IInv, RowsReferToTeams, TeamsOf
  <2> QED BY <1>2, <2>1, MergedBounds
<1>5. w \notin stale => S = r.asked
  <2>1. w \notin stale => r.sawTeams = TeamsOf(members, r.user)
    BY <1>1 DEF IInv, ReadsCurrent, Current, UserRequest
  <2> QED BY <2>1, MergedCurrent
<1> QED BY <1>1, <1>2, <1>3, <1>4, <1>5

\* So does a user's save.
LEMMA CommitUserKeepsInv ==
  ASSUME IInv, NEW w \in Worker, CommitUser(w)
  PROVE  IInv'
<1>1. PICK S \in SUBSET teams :
        members' = [t \in Team |-> IF t \in S THEN members[t] \cup {req[w].user}
                                              ELSE members[t] \ {req[w].user}]
  BY CommitUserRows
<1>2. /\ UNCHANGED <<teams, kids>>
      /\ Finish(w)
      /\ req[w].user \in User
  BY CommitUserRows DEF CommitUser, UserRequest
<1>3. TypeOK'
  BY <1>1, <1>2 DEF IInv, TypeOK, Finish
<1>4. RowsReferToTeams'
  BY <1>1, <1>2 DEF IInv, TypeOK, RowsReferToTeams
<1>5. RequestsWellFormed'
  BY <1>2, FinishKeepsWellFormed DEF IInv
<1>6. ReadsCurrent'
  BY <1>2, FinishKeepsCurrent DEF IInv
<1> QED BY <1>3, <1>4, <1>5, <1>6 DEF IInv

-----------------------------------------------------------------------------
\* The invariant is inductive: every step of every request keeps it.
LEMMA NextKeepsInv == IInv /\ [Next]_vars => IInv'
<1> SUFFICES ASSUME IInv, [Next]_vars PROVE IInv'
  OBVIOUS
<1>1. ASSUME NEW w \in Worker,
             CreateTeam(w) \/ UpdateTeam(w) \/ ApplyDefaultTeam(w) \/ SaveUser(w)
      PROVE  IInv'
  BY <1>1, StartKeepsInv
<1>2. ASSUME NEW w \in Worker, Validate(w) PROVE IInv'
  BY <1>2, ValidateKeepsInv
<1>3. ASSUME NEW w \in Worker, Reject(w) PROVE IInv'
  BY <1>3, RejectKeepsInv
<1>4. ASSUME NEW w \in Worker, CommitTeam(w) PROVE IInv'
  BY <1>4, CommitTeamKeepsInv
<1>5. ASSUME NEW w \in Worker, CommitUser(w) PROVE IInv'
  BY <1>5, CommitUserKeepsInv
<1>6. CASE UNCHANGED vars
  BY <1>6 DEF vars, IInv, TypeOK, RowsReferToTeams, RequestsWellFormed,
              WellFormed, ReadsCurrent, Current, TeamsOf
<1> QED BY <1>1, <1>2, <1>3, <1>4, <1>5, <1>6 DEF Next

\* The inductive invariant holds, whatever the interleaving of the requests.
THEOREM Invariant == Spec => []IInv
<1>1. Init => IInv
  BY DEF Init, IInv, TypeOK, RowsReferToTeams, RequestsWellFormed, WellFormed,
         ReadsCurrent, Current, Idle
<1> QED BY <1>1, NextKeepsInv, PTL DEF Spec

\* The variables keep their types.
THEOREM TypeCorrect == Spec => []TypeOK
<1>1. IInv => TypeOK
  BY DEF IInv
<1> QED BY <1>1, Invariant, PTL

\* No interleaving makes a save break a foreign key.
THEOREM RowsAlwaysReferToTeams == Spec => []RowsReferToTeams
<1>1. IInv => RowsReferToTeams
  BY DEF IInv
<1> QED BY <1>1, Invariant, PTL

\* A request that was not overtaken saves on checks that still hold.
THEOREM ReadsAlwaysCurrent == Spec => []ReadsCurrent
<1>1. IInv => ReadsCurrent
  BY DEF IInv
<1> QED BY <1>1, Invariant, PTL

-----------------------------------------------------------------------------
\* A team's save is a step of the abstract hierarchy: it composes the team,
\* populates it, leaves it alone, or is a race.
LEMMA CommitTeamImplements ==
  ASSUME IInv, NEW w \in Worker, CommitTeam(w)
  PROVE  [Hierarchy!Next]_(Hierarchy!vars)
<1> DEFINE r == req[w]
<1>1. /\ r \in TeamRequest
      /\ r.asked \subseteq teams
      /\ kids' = [kids EXCEPT ![r.team] = kids'[r.team]]
      /\ members' = [members EXCEPT ![r.team] = members'[r.team]]
      /\ ~r.setsKids => kids'[r.team] = kids[r.team]
      /\ ~r.setsMembers => members'[r.team] = members[r.team]
      /\ w \notin stale => /\ r.setsKids => kids'[r.team] = r.asked
                           /\ r.setsMembers => members'[r.team] = r.people
  BY CommitTeamRows
<1>2. /\ r.todo = {}
      /\ intact' = (intact /\ w \notin stale)
  BY DEF CommitTeam, Finish
<1>3. /\ r.asked # {} => r.sawMembers = {} /\ r.people = {}
      /\ ~r.setsKids => r.asked = {} /\ ~r.setsMembers
  BY <1>1 DEF IInv, RequestsWellFormed, WellFormed, TeamRequest
<1>4. TypeOK /\ TypeOK'
  BY CommitTeamKeepsInv DEF IInv
<1>5. /\ r.team \in Team /\ r.asked \in SUBSET Team /\ r.people \in SUBSET User
      /\ r.setsKids \in BOOLEAN /\ r.setsMembers \in BOOLEAN
      /\ r.kind = "team"
  BY <1>1 DEF TeamRequest
<1>6. CASE w \in stale
  <2>1. Hierarchy!Race
    BY <1>2, <1>4, <1>6 DEF Hierarchy!Race, TypeOK
  <2> QED BY <2>1 DEF Hierarchy!Next
<1>7. CASE w \notin stale
  <2>1. /\ \A c \in r.asked : kids[c] = {}
        /\ r.sawMembers = members[r.team]
    BY <1>2, <1>5, <1>7 DEF IInv, ReadsCurrent, Current
  <2>2. intact' = intact
    BY <1>2, <1>4, <1>7 DEF TypeOK
  <2> HIDE DEF r
  <2>3. CASE ~r.setsKids
    <3>1. kids' = kids /\ members' = members
      BY <1>1, <1>3, <1>4, <1>5, <2>3 DEF TypeOK
    <3> QED BY <2>2, <3>1 DEF Hierarchy!vars
  <2>4. CASE r.setsKids /\ r.asked # {}
    <3>0. members'[r.team] = members[r.team]
      BY <1>1, <1>3, <1>7, <2>1, <2>4
    <3>1. members' = members
      BY <1>1, <1>4, <1>5, <3>0 DEF TypeOK
    <3>2. Hierarchy!Compose(r.team, r.asked)
      BY <1>1, <1>3, <1>7, <2>1, <2>2, <2>4, <3>1 DEF Hierarchy!Compose, Hierarchy!Leaf
    <3> QED BY <1>5, <3>2 DEF Hierarchy!Next
  <2>5. CASE r.setsKids /\ r.asked = {}
    <3>1. kids' = [kids EXCEPT ![r.team] = {}]
      BY <1>1, <1>7, <2>5
    <3>2. Hierarchy!Populate(r.team, members'[r.team])
      BY <1>1, <2>2, <3>1 DEF Hierarchy!Populate
    <3>3. members'[r.team] \in SUBSET User
      BY <1>4, <1>5 DEF TypeOK
    <3> QED BY <1>5, <3>2, <3>3 DEF Hierarchy!Next
  <2> QED BY <1>5, <2>3, <2>4, <2>5
<1> QED BY <1>6, <1>7

\* So is a user's save: the user joins exactly the teams submitted, or races.
LEMMA CommitUserImplements ==
  ASSUME IInv, NEW w \in Worker, CommitUser(w)
  PROVE  [Hierarchy!Next]_(Hierarchy!vars)
<1> DEFINE r == req[w]
<1>1. /\ r.todo = {}
      /\ intact' = (intact /\ w \notin stale)
      /\ kids' = kids
  BY DEF CommitUser, Finish
<1>2. TypeOK /\ TypeOK'
  BY CommitUserKeepsInv DEF IInv
<1>3. r \in UserRequest
  BY CommitUserRows
<1>4. CASE w \in stale
  <2>1. Hierarchy!Race
    BY <1>1, <1>2, <1>4 DEF Hierarchy!Race, TypeOK
  <2> QED BY <2>1 DEF Hierarchy!Next
<1>5. CASE w \notin stale
  <2>1. members' = [t \in Team |-> IF t \in r.asked THEN members[t] \cup {r.user}
                                                    ELSE members[t] \ {r.user}]
    BY <1>5, CommitUserRows
  <2>2. \A c \in r.asked : kids[c] = {}
    BY <1>1, <1>3, <1>5 DEF IInv, ReadsCurrent, Current, UserRequest
  <2>3. Hierarchy!Join(r.user, r.asked)
    BY <1>1, <1>2, <1>5, <2>1, <2>2 DEF Hierarchy!Join, Hierarchy!Leaf, TypeOK
  <2>4. r.user \in User /\ r.asked \in SUBSET Team
    BY <1>3 DEF UserRequest
  <2> QED BY <2>3, <2>4 DEF Hierarchy!Next
<1> QED BY <1>4, <1>5

\* The handlers implement the abstract hierarchy, for any teams and requests.
THEOREM TeamsImplementHierarchy == Spec => ImplementsHierarchy
<1>1. Init => Hierarchy!Init
  BY DEF Init, Hierarchy!Init
<1>2. IInv /\ [Next]_vars => [Hierarchy!Next]_(Hierarchy!vars)
  <2> SUFFICES ASSUME IInv, [Next]_vars
               PROVE  [Hierarchy!Next]_(Hierarchy!vars)
    OBVIOUS
  <2>1. ASSUME NEW w \in Worker,
               \/ CreateTeam(w) \/ UpdateTeam(w) \/ ApplyDefaultTeam(w) \/ SaveUser(w)
               \/ Validate(w) \/ Reject(w)
        PROVE  UNCHANGED Hierarchy!vars
    BY <2>1 DEF CreateTeam, UpdateTeam, ApplyDefaultTeam, SaveUser, Start,
                Validate, Reject, Hierarchy!vars
  <2>2. ASSUME NEW w \in Worker, CommitTeam(w)
        PROVE  [Hierarchy!Next]_(Hierarchy!vars)
    BY <2>2, CommitTeamImplements
  <2>3. ASSUME NEW w \in Worker, CommitUser(w)
        PROVE  [Hierarchy!Next]_(Hierarchy!vars)
    BY <2>3, CommitUserImplements
  <2>4. CASE UNCHANGED vars
    BY <2>4 DEF vars, Hierarchy!vars
  <2> QED BY <2>1, <2>2, <2>3, <2>4 DEF Next
<1> QED BY <1>1, <1>2, Invariant, PTL DEF Spec, ImplementsHierarchy, Hierarchy!Spec

-----------------------------------------------------------------------------
\* Giving one team a list of childless children makes no cycle but self-loops:
\* a set holding the team and such a child has that child as its witness.
LEMMA ReplaceKeepsOnlySelfLoops ==
  ASSUME Hierarchy!TypeOK, Hierarchy!OnlySelfLoops, NEW p \in Team, NEW K \in SUBSET Team,
         \A c \in K : Hierarchy!Leaf(c), kids' = [kids EXCEPT ![p] = K]
  PROVE  Hierarchy!OnlySelfLoops'
<1> SUFFICES ASSUME NEW S \in SUBSET Team, S # {}
             PROVE  \E n \in S : kids'[n] \cap S \subseteq {n}
  BY DEF Hierarchy!OnlySelfLoops
<1>1. CASE p \notin S
  BY <1>1 DEF Hierarchy!OnlySelfLoops, Hierarchy!TypeOK
<1>2. CASE p \in S /\ K \cap S \subseteq {p}
  BY <1>2 DEF Hierarchy!TypeOK
<1>3. CASE p \in S /\ ~(K \cap S \subseteq {p})
  <2>1. PICK c \in K \cap S : c # p
    BY <1>3
  <2>2. kids'[c] = {}
    BY <2>1 DEF Hierarchy!Leaf, Hierarchy!TypeOK
  <2> QED BY <2>1, <2>2
<1> QED BY <1>1, <1>2, <1>3

\* What Compound promises, it keeps, over any set of nodes: while no save relied on
\* outdated checks, the only cycles are self-loops and no compound node has members.
THEOREM CompoundSound == Hierarchy!Spec => [](Hierarchy!TypeOK /\ Hierarchy!Sound)
<1> DEFINE HInv == Hierarchy!TypeOK /\ Hierarchy!Sound
<1>1. Hierarchy!Init => HInv
  BY DEF Hierarchy!Init, Hierarchy!TypeOK, Hierarchy!Sound, Hierarchy!OnlySelfLoops,
         Hierarchy!NoMembersInCompound, Hierarchy!Leaf
<1>2. HInv /\ [Hierarchy!Next]_(Hierarchy!vars) => HInv'
  <2> SUFFICES ASSUME HInv, [Hierarchy!Next]_(Hierarchy!vars) PROVE HInv'
    OBVIOUS
  <2>1. ASSUME NEW p \in Team, NEW S \in SUBSET Team, Hierarchy!Compose(p, S)
        PROVE  HInv'
    <3>1. Hierarchy!TypeOK'
      BY <2>1 DEF Hierarchy!Compose, Hierarchy!TypeOK
    <3>2. ASSUME intact PROVE Hierarchy!OnlySelfLoops'
      BY <2>1, <3>2, ReplaceKeepsOnlySelfLoops DEF Hierarchy!Compose, Hierarchy!Sound
    <3>3. ASSUME intact PROVE Hierarchy!NoMembersInCompound'
      BY <2>1, <3>3 DEF Hierarchy!Compose, Hierarchy!Sound, Hierarchy!Leaf,
                        Hierarchy!NoMembersInCompound, Hierarchy!TypeOK
    <3> QED BY <2>1, <3>1, <3>2, <3>3 DEF Hierarchy!Compose, Hierarchy!Sound
  <2>2. ASSUME NEW p \in Team, NEW M \in SUBSET User, Hierarchy!Populate(p, M)
        PROVE  HInv'
    <3>1. Hierarchy!TypeOK'
      BY <2>2 DEF Hierarchy!Populate, Hierarchy!TypeOK
    <3>2. ASSUME intact PROVE Hierarchy!OnlySelfLoops'
      BY <2>2, <3>2, ReplaceKeepsOnlySelfLoops DEF Hierarchy!Populate, Hierarchy!Sound
    <3>3. ASSUME intact PROVE Hierarchy!NoMembersInCompound'
      BY <2>2, <3>3 DEF Hierarchy!Populate, Hierarchy!Sound, Hierarchy!Leaf,
                        Hierarchy!NoMembersInCompound, Hierarchy!TypeOK
    <3> QED BY <2>2, <3>1, <3>2, <3>3 DEF Hierarchy!Populate, Hierarchy!Sound
  <2>3. ASSUME NEW m \in User, NEW S \in SUBSET Team, Hierarchy!Join(m, S)
        PROVE  HInv'
    BY <2>3 DEF Hierarchy!Join, Hierarchy!TypeOK, Hierarchy!Sound,
                Hierarchy!OnlySelfLoops, Hierarchy!NoMembersInCompound, Hierarchy!Leaf
  <2>4. CASE Hierarchy!Race
    BY <2>4 DEF Hierarchy!Race, Hierarchy!TypeOK, Hierarchy!Sound
  <2>5. CASE UNCHANGED Hierarchy!vars
    BY <2>5 DEF Hierarchy!vars, Hierarchy!TypeOK, Hierarchy!Sound,
                Hierarchy!OnlySelfLoops, Hierarchy!NoMembersInCompound, Hierarchy!Leaf
  <2> QED BY <2>1, <2>2, <2>3, <2>4, <2>5 DEF Hierarchy!Next
<1> QED BY <1>1, <1>2, PTL DEF Hierarchy!Spec

\* What Compound promises therefore holds of the teams: while no request was
\* overtaken, no compound team has users and a team's only cycle is itself.
THEOREM HierarchyAlwaysSound == Spec => []HierarchySound
<1>1. Hierarchy!Sound => HierarchySound
  BY DEF HierarchySound
<1> QED BY <1>1, TeamsImplementHierarchy, CompoundSound, PTL DEF ImplementsHierarchy

\* A save that was not overtaken leaves exactly the rows submitted.
THEOREM SavesAreReplacements == Spec => SavesWhatWasAsked
<1>1. IInv /\ [Next]_vars =>
        [\A w \in Worker \ stale :
           /\ CommitTeam(w) /\ req[w].setsKids =>
                  kids'[req[w].team] = req[w].asked
           /\ CommitTeam(w) /\ req[w].setsMembers =>
                  members'[req[w].team] = req[w].people
           /\ CommitUser(w) => TeamsOf(members', req[w].user) = req[w].asked]_vars
  <2> SUFFICES ASSUME IInv, NEW w \in Worker \ stale
               PROVE  /\ CommitTeam(w) /\ req[w].setsKids =>
                             kids'[req[w].team] = req[w].asked
                      /\ CommitTeam(w) /\ req[w].setsMembers =>
                             members'[req[w].team] = req[w].people
                      /\ CommitUser(w) =>
                             TeamsOf(members', req[w].user) = req[w].asked
    OBVIOUS
  <2>1. ASSUME CommitTeam(w)
        PROVE  /\ req[w].setsKids => kids'[req[w].team] = req[w].asked
               /\ req[w].setsMembers => members'[req[w].team] = req[w].people
    BY <2>1, CommitTeamRows
  <2>2. ASSUME CommitUser(w)
        PROVE  TeamsOf(members', req[w].user) = req[w].asked
    <3>1. members' = [t \in Team |->
                        IF t \in req[w].asked THEN members[t] \cup {req[w].user}
                                              ELSE members[t] \ {req[w].user}]
      BY <2>2, CommitUserRows
    <3>2. req[w].asked \subseteq Team
      BY <2>2, CommitUserRows DEF UserRequest
    <3> QED BY <3>1, <3>2 DEF TeamsOf
  <2> QED BY <2>1, <2>2
<1> QED BY <1>1, Invariant, PTL DEF Spec, SavesWhatWasAsked

=============================================================================
