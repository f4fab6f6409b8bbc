-------------------------------- MODULE Teams --------------------------------
(***************************************************************************)
(* Teams, child teams and direct team members, as the requests of the REST  *)
(* API and the default configuration of a security contract change them:    *)
(* TeamService, the team half of UserService, and ApplyDefaultTeam of       *)
(* SecurityContractDefaultConfigurationService.                             *)
(*                                                                          *)
(* A request loads an entity with its join-table rows, validates every team *)
(* it was given with a query of its own, and saves.  PostgreSQL runs at     *)
(* READ COMMITTED and no row carries a version, so other requests may save  *)
(* between any two of these steps; the save compares the new list with the  *)
(* rows that were loaded (EfCore).                                          *)
(*                                                                          *)
(* A team is identified with its name and users always exist: renaming,     *)
(* the scalar columns, data policies and terms of service are left out.     *)
(***************************************************************************)
EXTENDS EfCore

CONSTANTS Team, User,
          Worker,     \* requests that are served at the same time
          Lists       \* the lists of teams a request may submit

ASSUME ListsAssumption == Lists \subseteq SUBSET Team

VARIABLES teams,      \* rows of _a3s.team
          kids,       \* rows of _a3s.team_team, by parent team
          members,    \* rows of _a3s.user_team, by team
          req,        \* the request each worker is serving
          stale,      \* workers whose reads another save has overtaken
          intact      \* no save so far was made by a stale worker

vars == <<teams, kids, members, req, stale, intact>>

\* stale and intact observe the run; no action's guard reads them.

Idle == [kind |-> "idle"]

\* Replaces the rows of one team.  An update of the API sets the child list only
\* (setsKids is FALSE when the list in the request is null), a create or a
\* default configuration the child list and the members.
TeamRequest ==
    [kind: {"team"}, team: Team, fresh: BOOLEAN,
     setsKids: BOOLEAN, setsMembers: BOOLEAN,
     asked: SUBSET Team, people: SUBSET User,
     sawKids: SUBSET Team, sawMembers: SUBSET User,   \* the rows loaded
     todo: SUBSET Team]                               \* not validated yet

\* Replaces the user_team rows of one user.
UserRequest ==
    [kind: {"user"}, user: User, asked: SUBSET Team,
     sawTeams: SUBSET Team, todo: SUBSET Team]

TypeOK ==
    /\ teams \in SUBSET Team
    /\ kids \in [Team -> SUBSET Team]
    /\ members \in [Team -> SUBSET User]
    /\ req \in [Worker -> {Idle} \cup TeamRequest \cup UserRequest]
    /\ stale \in SUBSET Worker
    /\ intact \in BOOLEAN

Init ==
    /\ teams = {}
    /\ kids = [t \in Team |-> {}]
    /\ members = [t \in Team |-> {}]
    /\ req = [w \in Worker |-> Idle]
    /\ stale = {}
    /\ intact = TRUE

\* The teams in which m, a value of members, has u.
TeamsOf(m, u) == {t \in Team : u \in m[t]}

\* The teams in a token of u, whose data policies it carries as well: those u is in, and
\* their parents.
TokenTeams(u) ==
    LET direct == TeamsOf(members, u)
    IN direct \cup {t \in Team : \E c \in direct : c \in kids[t]}

Start(w, r) ==
    /\ req[w] = Idle
    /\ req' = [req EXCEPT ![w] = r]
    /\ UNCHANGED <<teams, kids, members, stale, intact>>

-----------------------------------------------------------------------------
\* A request for team t, with the rows it has loaded; t is new if it is not found.
TeamLoaded(t, setsKids, K, setsMembers, P) ==
    [kind |-> "team", team |-> t, fresh |-> t \notin teams,
     setsKids |-> setsKids, setsMembers |-> setsMembers,
     asked |-> K, people |-> P,
     sawKids |-> kids[t], sawMembers |-> members[t], todo |-> K]

\* TeamService.CreateAsync up to the first child: the name must be free.
CreateTeam(w) ==
    \E t \in Team \ teams, K \in Lists :
        Start(w, TeamLoaded(t, TRUE, K, TRUE, {}))

\* Mutant of UpdateTeam: users in the team do not matter.
UpdateTeamWithUsers(w) ==
    \E t \in teams, K \in Lists :
        Start(w, TeamLoaded(t, TRUE, K, FALSE, {}))

\* TeamService.UpdateAsync up to the first child: a null list leaves the
\* children, an empty one clears them, any other needs a team without users.
UpdateTeam(w) ==
    \E t \in teams, K \in Lists, listed \in BOOLEAN :
        /\ ~listed => K = {}
        /\ K # {} => members[t] = {}
        /\ Start(w, TeamLoaded(t, listed, K, FALSE, {}))

\* ApplyDefaultTeam up to the first child: children and members are both
\* replaced; children need a team without users, members one without children.
ApplyDefaultTeam(w) ==
    \E t \in Team, K \in Lists, P \in SUBSET User :
        /\ K # {} => members[t] = {} /\ P = {}
        /\ Start(w, TeamLoaded(t, TRUE, K, TRUE, P))

\* UserService.CreateAsync, UpdateAsync and DeleteAsync up to the first team:
\* the rows are always rebuilt, a deleted user's are removed.
SaveUser(w) ==
    \E u \in User, T \in Lists :
        Start(w, [kind |-> "user", user |-> u, asked |-> T,
                  sawTeams |-> TeamsOf(members, u), todo |-> T])

\* Mutants of Validate: the team need not exist; it may have children.
ValidateMissing(w) ==
    LET r == req[w] IN
    /\ r.kind # "idle"
    /\ \E c \in r.todo :
        /\ kids[c] = {}
        /\ req' = [req EXCEPT ![w].todo = @ \ {c}]
    /\ UNCHANGED <<teams, kids, members, stale, intact>>

ValidateCompound(w) ==
    LET r == req[w] IN
    /\ r.kind # "idle"
    /\ \E c \in r.todo \cap teams : req' = [req EXCEPT ![w].todo = @ \ {c}]
    /\ UNCHANGED <<teams, kids, members, stale, intact>>

\* One turn of the loop over the submitted teams: the team exists and, read
\* now, has no children.  A team that is its own child is the entity being
\* edited, whose list already holds the children added before it.
Validate(w) ==
    LET r == req[w] IN
    \E c \in teams :
        /\ r.kind # "idle"
        /\ c \in r.todo
        /\ kids[c] = {}
        /\ r.kind = "team" => (c = r.team => r.todo = r.asked)
        /\ req' = [req EXCEPT ![w].todo = @ \ {c}]
        /\ UNCHANGED <<teams, kids, members, stale, intact>>

\* A failed check, an exception of the save or a lost connection: the
\* transaction is rolled back and nothing of the request stays.
Reject(w) ==
    /\ req[w] # Idle
    /\ req' = [req EXCEPT ![w] = Idle]
    /\ stale' = stale \ {w}
    /\ UNCHANGED <<teams, kids, members, intact>>

-----------------------------------------------------------------------------
\* The teams whose children, and the teams whose members, a request has read.
KidsRead(r) ==
    CASE r.kind = "idle" -> {}
      [] r.kind = "team" -> {r.team} \cup (r.asked \ r.todo)
      [] r.kind = "user" -> r.asked \ r.todo

\* The save under way changes something request r has read.
Overtakes(r) ==
    \/ \E t \in KidsRead(r) : kids'[t] # kids[t]
    \/ r.kind = "team" /\ members'[r.team] # members[r.team]
    \/ r.kind = "user" /\ TeamsOf(members', r.user) # TeamsOf(members, r.user)

Finish(w) ==
    /\ req' = [req EXCEPT ![w] = Idle]
    /\ stale' = {v \in Worker \ {w} : v \in stale \/ Overtakes(req[v])}
    /\ intact' = (intact /\ w \notin stale)

\* TeamRepository.CreateAsync or UpdateAsync, and the commit.  A new team's
\* insert fails when the name has been taken meanwhile.
CommitTeam(w) ==
    LET r == req[w]
        newKids == IF r.setsKids THEN r.asked ELSE r.sawKids
        newMembers == IF r.setsMembers THEN r.people ELSE r.sawMembers
    IN
    /\ r.kind = "team"
    /\ r.todo = {}
    /\ r.fresh => r.team \notin teams
    /\ Saveable(kids[r.team], r.sawKids, newKids)
    /\ Saveable(members[r.team], r.sawMembers, newMembers)
    /\ teams' = teams \cup {r.team}
    /\ kids' = [kids EXCEPT ![r.team] = Merged(@, r.sawKids, newKids)]
    /\ members' = [members EXCEPT ![r.team] = Merged(@, r.sawMembers, newMembers)]
    /\ Finish(w)

\* UserRepository.UpdateAsync and the commit.
CommitUser(w) ==
    LET r == req[w] IN
    /\ r.kind = "user"
    /\ r.todo = {}
    /\ Saveable(TeamsOf(members, r.user), r.sawTeams, r.asked)
    /\ members' = [t \in Team |->
                     IF t \in Merged(TeamsOf(members, r.user), r.sawTeams, r.asked)
                     THEN members[t] \cup {r.user}
                     ELSE members[t] \ {r.user}]
    /\ UNCHANGED <<teams, kids>>
    /\ Finish(w)

Next ==
    \E w \in Worker :
        \/ CreateTeam(w) \/ UpdateTeam(w) \/ ApplyDefaultTeam(w) \/ SaveUser(w)
        \/ Validate(w) \/ Reject(w)
        \/ CommitTeam(w) \/ CommitUser(w)

Spec == Init /\ [][Next]_vars

=============================================================================
