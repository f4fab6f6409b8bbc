--------------------------- MODULE TeamsProperties ---------------------------
(***************************************************************************)
(* What the team hierarchy of Teams must satisfy.                           *)
(***************************************************************************)
EXTENDS Teams

Hierarchy == INSTANCE Compound WITH Node <- Team, Member <- User

\* A row of team_team or user_team never names a team that does not exist, so
\* no foreign key can fail: every listed team was looked up first.
RowsReferToTeams ==
    \A t \in Team :
        /\ kids[t] \subseteq teams
        /\ t \notin teams => kids[t] = {} /\ members[t] = {}

\* A request the handlers' early rejections let through: every team taken off
\* the list exists, children are given to teams loaded without users, and an
\* update with a null list changes nothing.
WellFormed(r) ==
    /\ r.kind # "idle" =>
         /\ r.todo \subseteq r.asked
         /\ r.asked \ r.todo \subseteq teams
    /\ r.kind = "team" =>
         /\ r.asked # {} => r.sawMembers = {} /\ r.people = {}
         /\ ~r.setsKids => r.asked = {} /\ ~r.setsMembers

RequestsWellFormed == \A w \in Worker : WellFormed(req[w])

\* What a request loaded and validated is what the tables hold now.
Current(r) ==
    /\ r.kind # "idle" => \A c \in r.asked \ r.todo : kids[c] = {}
    /\ r.kind = "team" => /\ r.sawKids = kids[r.team]
                          /\ r.sawMembers = members[r.team]
    /\ r.kind = "user" => r.sawTeams = TeamsOf(members, r.user)

\* Unless another save overtook it, a request's checks still hold when it saves:
\* the handlers check everything the hierarchy relies on, only not atomically.
ReadsCurrent == \A w \in Worker \ stale : Current(req[w])

\* The handlers implement the abstract compound hierarchy: every save that is
\* not stale replaces one team's children by childless teams, or one user's or
\* one team's memberships, keeping users out of compound teams
\* (TeamService.cs:155-176, UserService.cs:249-253, ApplyDefaultTeam).
ImplementsHierarchy == Hierarchy!Spec

\* While no request was overtaken between its checks and its save, no compound
\* team has direct users and the only cycles are teams that are their own child.
HierarchySound == Hierarchy!Sound

\* A save by a worker whose reads were not overtaken leaves exactly the rows
\* that were submitted: the comparison with the loaded rows is then the
\* replacement the services speak of ("its easier to rebuild it", UserService.cs:235).
SavesWhatWasAsked ==
    [][\A w \in Worker \ stale :
         /\ CommitTeam(w) /\ req[w].setsKids =>
                kids'[req[w].team] = req[w].asked
         /\ CommitTeam(w) /\ req[w].setsMembers =>
                members'[req[w].team] = req[w].people
         /\ CommitUser(w) => TeamsOf(members', req[w].user) = req[w].asked]_vars

-----------------------------------------------------------------------------
\* What the documentation promises without a condition, and does not hold.

\* "Child teams, and their users inherit the data policies of their parent team"
\* (glossary.md:30), and the users of a compound team are those of all its child teams
\* (glossary.md:101).  The queries for a token follow one level of parents, and the
\* handlers let a child team have children of its own.
UsersOf(t) == members[t] \cup UNION {members[c] : c \in kids[t]}
PoliciesReachUsersOfChildTeams ==
    \A p \in Team : \A c \in kids[p] : \A u \in UsersOf(c) : p \in TokenTeams(u)

=============================================================================
