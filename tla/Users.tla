-------------------------------- MODULE Users --------------------------------
(***************************************************************************)
(* Users: their names, the mark of deletion and the link to a directory, as *)
(* UserService, UserRepository, the default users of a contract and a login *)
(* through LDAP (CustomSignInManager, LdapConnectionService) change them,   *)
(* together with the directories' modes (LdapModes).                        *)
(*                                                                          *)
(* A request loads the user, checks, and writes the row back whole, every   *)
(* column it does not set as it was loaded.                                 *)
(*                                                                          *)
(* Whether a directory knows a user, or accepts a password, is left open.   *)
(* Roles, teams, tokens, e-mail and passwords of users are not here.        *)
(***************************************************************************)
EXTENDS LdapModes, Naturals

CONSTANTS User,          \* identifiers
          Name,          \* user names as they are typed
          Upper,         \* what upper-casing makes of them
          MaxDeletions   \* bound: how often a name is decorated

ASSUME UpperAssumption == Upper \in [Name -> Name]
ASSUME BoundAssumption == MaxDeletions \in Nat

VARIABLES users,         \* rows of _a3s.application_user
          stale,         \* workers whose user another request has written since
          renamed        \* a directory has given a user a name with another one's
                         \* normalized form

vars == <<modes, req, paired, users, stale, renamed>>

\* paired, stale and renamed observe the run; no action's guard reads them.

\* A name, and how many times " - Deleted" was appended to it.
Decorated == Name \X (0..MaxDeletions)
Normalized(n) == <<Upper[n[1]], n[2]>>
Deletion(n) == <<n[1], n[2] + 1>>

UserRow == [name: Decorated, norm: Decorated, deleted: BOOLEAN, mode: Mode \cup {None}]

UserKind == {"create", "update", "default", "delete", "sync"}

\* A request that has passed its checks: the row it will write.
UserRequest ==
    [kind: UserKind, fresh: BOOLEAN, user: User, row: UserRow]

TypeOK ==
    /\ ModesTypeOK
    /\ users \in [User -> UserRow \cup {None}]
    /\ req \in [Worker -> {Idle} \cup ModeRequest \cup UserRequest]
    /\ stale \in SUBSET Worker
    /\ renamed \in BOOLEAN

Init ==
    /\ ModesInit
    /\ users = [u \in User |-> None]
    /\ req = [w \in Worker |-> Idle]
    /\ stale = {} /\ renamed = FALSE

Existing == {u \in User : users[u] # None}
Linked == {users[u].mode : u \in Existing} \ {None}

\* GetByUsernameAsync compares the user name itself.
NameFree(n) == \A u \in Existing : users[u].name # n

\* Mutant of Submitted: the normalized name is not upper-cased.
SubmittedAsTyped(n, deleted, m) ==
    [name |-> n, norm |-> n, deleted |-> deleted, mode |-> m]

\* A user row as a submission gives it: the normalized name is always set with the name.
Submitted(n, deleted, m) ==
    [name |-> n, norm |-> Normalized(n), deleted |-> deleted, mode |-> m]

\* GetByIdAsync with the password, for a mode that is given.
LinkOK(m) == m # None => Readable(m)

Load(w, kind, fresh, u, row) ==
    /\ Begin(w, [kind |-> kind, fresh |-> fresh, user |-> u, row |-> row])
    /\ UNCHANGED <<users, stale, renamed>>

\* UserService.CreateAsync up to the repository.
CreateUser(w) ==
    \E u \in User \ Existing, n \in Name \X {0}, m \in Mode \cup {None} :
        /\ NameFree(n) /\ LinkOK(m)
        /\ Load(w, "create", TRUE, u, Submitted(n, FALSE, m))

\* UserService.UpdateAsync, of any user found by id: the mark of deletion stays as it
\* was loaded.
UpdateUser(w) ==
    \E u \in Existing, n \in Name \X {0}, m \in Mode \cup {None} :
        /\ users[u].name # n => NameFree(n)
        /\ LinkOK(m)
        /\ Load(w, "update", FALSE, u, Submitted(n, users[u].deleted, m))

\* Mutant of ApplyDefaultUser: a contract that lists no mode removes the link.
ApplyDefaultUserUnlinking(w) ==
    \E u \in User, n \in Name \X {0}, deleted \in BOOLEAN, m \in Mode \cup {None} :
        LET fresh == NameFree(n) IN
        /\ IF fresh THEN users[u] = None ELSE u \in Existing /\ users[u].name = n
        /\ m # None => modes[m] # None
        /\ Load(w, "default", fresh, u, Submitted(n, deleted, m))

\* ApplyIndividualDefaultUser, found by its name: the link stays unless one is listed,
\* the mark of deletion is the contract's.
ApplyDefaultUser(w) ==
    \E u \in User, n \in Name \X {0}, deleted \in BOOLEAN, m \in Mode \cup {None} :
        LET fresh == NameFree(n) IN
        /\ IF fresh THEN users[u] = None ELSE u \in Existing /\ users[u].name = n
        /\ m # None => modes[m] # None
        /\ Load(w, "default", fresh, u,
                Submitted(n, deleted, IF fresh \/ m # None THEN m ELSE users[u].mode))

\* Mutant of DeleteUser: the normalized name is left alone.
DeleteUserKeepingNorm(w) ==
    \E u \in Existing :
        /\ users[u].name[2] < MaxDeletions
        /\ Load(w, "delete", FALSE, u,
                [users[u] EXCEPT !.name = Deletion(@), !.deleted = TRUE])

\* Mutant of DeleteUser: the user is renamed and not marked.
DeleteUserUnmarked(w) ==
    \E u \in Existing :
        LET n == Deletion(users[u].name) IN
        /\ users[u].name[2] < MaxDeletions
        /\ Load(w, "delete", FALSE, u, Submitted(n, users[u].deleted, users[u].mode))

\* UserService.DeleteAsync and UserRepository.DeleteAsync, of a deleted user too.
DeleteUser(w) ==
    \E u \in Existing :
        LET n == Deletion(users[u].name) IN
        /\ users[u].name[2] < MaxDeletions
        /\ Load(w, "delete", FALSE, u, Submitted(n, TRUE, users[u].mode))

\* A login through LDAP: the user is found by its normalized name, is not deleted, the
\* mode can be read and the directory accepts the password.  An attribute that is mapped to
\* the user name replaces it, and nothing else; other attributes leave the row's
\* modelled part alone.
LoginThroughLdap(w) ==
    \E u \in Existing : \E n \in (Name \X {0}) \cup {users[u].name} :
        /\ ~users[u].deleted /\ users[u].mode # None /\ Readable(users[u].mode)
        /\ Load(w, "sync", FALSE, u, [users[u] EXCEPT !.name = n])

\* A failed check, an exception or a crash: the transaction is rolled back.
RejectUser(w) ==
    /\ req[w].kind \in UserKind
    /\ req' = [req EXCEPT ![w] = Idle]
    /\ stale' = stale \ {w}
    /\ UNCHANGED <<modes, paired, users, renamed>>

\* The row can be written: both names are unique, the mode is there.
Acceptable(u, row) ==
    /\ \A v \in Existing \ {u} : users[v].name # row.name /\ users[v].norm # row.norm
    /\ row.mode # None => modes[row.mode] # None

\* Workers that have loaded user u.
Holding(u) == {v \in Worker : req[v].kind \in UserKind /\ ~req[v].fresh /\ req[v].user = u}

\* UserRepository.CreateAsync or UpdateAsync and the commit.
WriteUser(w) ==
    LET r == req[w] IN
    /\ r.kind \in UserKind
    /\ r.fresh => users[r.user] = None
    /\ Acceptable(r.user, r.row)
    /\ users' = [users EXCEPT ![r.user] = r.row]
    /\ req' = [req EXCEPT ![w] = Idle]
    /\ stale' = (stale \cup Holding(r.user)) \ {w}
    /\ renamed' = (renamed \/ (r.kind = "sync" /\ r.row.norm # Normalized(r.row.name)))
    /\ UNCHANGED <<modes, paired>>

Next ==
    \E w \in Worker :
        \/ ModesNext(w, Linked) /\ UNCHANGED <<users, stale, renamed>>
        \/ CreateUser(w) \/ UpdateUser(w) \/ ApplyDefaultUser(w) \/ DeleteUser(w)
        \/ LoginThroughLdap(w)
        \/ WriteUser(w) \/ RejectUser(w)

Spec == Init /\ [][Next]_vars

=============================================================================
