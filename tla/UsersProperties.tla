--------------------------- MODULE UsersProperties ---------------------------
(***************************************************************************)
(* What users and LDAP modes must satisfy.                                  *)
(***************************************************************************)
EXTENDS Users

\* As long as saves of a mode did not overlap or stop half-way, a directory is bound to
\* with the password that was submitted with its settings, or an empty one after a contract
\* (LdapAuthenticationModeRepository.cs:103-119,130-134): its users can log in.
PasswordBelongsToSettings ==
    \A m \in Mode :
        /\ paired /\ modes[m] # None
        /\ \A w \in Worker : ~(req[w].kind = "encrypt" /\ req[w].mode = m)
        => modes[m].password \in {modes[m].settings, Empty}

\* A user's directory exists, although the deletion of a mode looks for its users in an
\* earlier step and a link is checked before it is written
\* (LdapAuthenticationModeService.cs:95-110): no user falls back on a local password.
LinkedModesExist == \A u \in Existing : users[u].mode # None => modes[users[u].mode] # None

\* As long as no directory has changed a user's name, the name with which a user signs in,
\* upper-cased, finds that user and no other one, deleted ones included
\* (UserService.cs:85,154, UserRepository.cs:118, V0__initial_migration.sql:925).
NameFindsItsBearer ==
    ~renamed => \A u, v \in Existing : users[v].norm = Normalized(users[u].name) <=> u = v

\* Deleting a user whom nobody else was writing gives the name back: no deleted user holds
\* it, in either form, so that a user of that name can be created (UserRepository.cs:113-120).
DeletionFreesTheName ==
    [][\A w \in Worker \ stale :
         req[w].kind = "delete" /\ WriteUser(w) /\ ~renamed =>
            LET old == users[req[w].user].name IN
            \A v \in Existing : users'[v].name # old /\ users'[v].norm # Normalized(old)]_vars

\* A user moves to a directory, or from one to a local password, only by a request that
\* says so, never by a deletion, a login or a contract that lists none, unless that request
\* was overtaken (UserRepository.cs:186-193 writes the whole row).
LinksChangeOnRequest ==
    [][\A u \in Existing : users'[u].mode # users[u].mode =>
         \E w \in Worker :
            /\ WriteUser(w) /\ req[w].user = u
            /\ \/ w \in stale
               \/ req[w].kind = "update"
               \/ req[w].kind = "default" /\ req[w].row.mode # None]_vars

\* A deletion that nobody overtook is refused for one reason only: a user of the same name,
\* in upper case, was deleted before, and holds the name " - Deleted" makes of it
\* (UserRepository.cs:113-121).  The user's directory is there, no live user is in the way.
OnlyNamesakesBlockDeletion ==
    \A w \in Worker \ stale :
        req[w].kind = "delete" /\ ~renamed /\ ~Acceptable(req[w].user, req[w].row) =>
            \E v \in Existing \ {req[w].user} :
                users[v].deleted /\ users[v].norm = req[w].row.norm

=============================================================================
