------------------------------ MODULE LdapModes ------------------------------
(***************************************************************************)
(* LDAP authentication modes: how to reach a directory, and the password to *)
(* bind to it with, which PostgreSQL keeps encrypted                        *)
(* (LdapAuthenticationModeService, LdapAuthenticationModeRepository, and    *)
(* ApplyIndividualDefaultLdapAuthMode of the default configuration).        *)
(*                                                                          *)
(* The API saves a mode without a transaction, in two statements: the row   *)
(* with a blank password, then the password, encrypted.  A contract does    *)
(* the same within its transaction.                                         *)
(*                                                                          *)
(* A mode is identified with its unique name; renaming is left out.         *)
(***************************************************************************)
CONSTANTS Mode,
          Settings,      \* host, account, base and attributes; each comes with
                         \* a password of its own, which bears its name
          Worker,        \* requests that are served at the same time
          None,
          Blank,         \* what the first statement stores: not to be decrypted
          Empty          \* the empty password, encrypted

ASSUME PasswordsAssumption == {None, Blank, Empty} \cap Settings = {}

VARIABLES modes,         \* rows of _a3s.ldap_authentication_mode
          req,           \* the request each worker is serving
          paired         \* no save of a mode overlapped another one's, or
                         \* stopped, between its two statements

ModeRow == [settings: Settings, password: Settings \cup {Blank, Empty}]

ASSUME NoModeAssumption == None \notin Mode \cup ModeRow

Idle == [kind |-> "idle"]

ModeRequest ==
    [kind: {"createMode", "updateMode", "encrypt", "deleteMode"},
     mode: Mode, settings: Settings]

ModesTypeOK ==
    /\ modes \in [Mode -> ModeRow \cup {None}]
    /\ paired \in BOOLEAN

ModesInit ==
    /\ modes = [m \in Mode |-> None]
    /\ paired = TRUE

\* Reading a mode with its password decrypts it, which fails on a blank one.
Readable(m) == modes[m] # None /\ modes[m].password # Blank

\* Some worker other than w has saved m and not yet its password.
BetweenStatements(w, m) ==
    \E v \in Worker \ {w} : req[v].kind = "encrypt" /\ req[v].mode = m

Begin(w, r) ==
    /\ req[w] = Idle
    /\ req' = [req EXCEPT ![w] = r]
    /\ UNCHANGED <<modes, paired>>

\* CreateAsync and UpdateAsync up to the repository: the name is free or the mode is there.
LoadMode(w) ==
    \E m \in Mode, s \in Settings :
        Begin(w, [kind |-> IF modes[m] = None THEN "createMode" ELSE "updateMode",
                  mode |-> m, settings |-> s])

\* The repository's first statement: an insert needs the name to be free still, an
\* update of all columns needs the row.
SaveMode(w) ==
    LET r == req[w] IN
    /\ \/ r.kind = "createMode" /\ modes[r.mode] = None
       \/ r.kind = "updateMode" /\ modes[r.mode] # None
    /\ modes' = [modes EXCEPT ![r.mode] = [settings |-> r.settings, password |-> Blank]]
    /\ req' = [req EXCEPT ![w].kind = "encrypt"]
    /\ paired' = (paired /\ ~BetweenStatements(w, r.mode))

\* Mutants of EncryptPassword: the password is read from the model after it was cleared;
\* the second statement is left out.
EncryptNull(w) ==
    LET r == req[w] IN
    /\ r.kind = "encrypt"
    /\ modes' = IF modes[r.mode] = None THEN modes
                ELSE [modes EXCEPT ![r.mode].password = None]
    /\ req' = [req EXCEPT ![w] = Idle]
    /\ UNCHANGED paired

EncryptNothing(w) ==
    /\ req[w].kind = "encrypt"
    /\ req' = [req EXCEPT ![w] = Idle]
    /\ UNCHANGED <<modes, paired>>

\* StoreEncryptedPassword, which changes nothing if the mode is gone.
EncryptPassword(w) ==
    LET r == req[w] IN
    /\ r.kind = "encrypt"
    /\ modes' = IF modes[r.mode] = None THEN modes
                ELSE [modes EXCEPT ![r.mode].password = r.settings]
    /\ req' = [req EXCEPT ![w] = Idle]
    /\ UNCHANGED paired

\* DeleteAsync, the query: the mode is there and no user is linked to it.
LoadModeForDeletion(w, linked) ==
    \E m \in Mode \ linked :
        /\ modes[m] # None
        /\ Begin(w, [kind |-> "deleteMode", mode |-> m, settings |-> modes[m].settings])

\* Mutant of DeleteMode: the users linked to the mode are not looked at any more.
DeleteModeInUse(w, linked) ==
    LET r == req[w] IN
    /\ r.kind = "deleteMode" /\ modes[r.mode] # None
    /\ modes' = [modes EXCEPT ![r.mode] = None]
    /\ req' = [req EXCEPT ![w] = Idle]
    /\ UNCHANGED paired

\* The removal: the foreign key of application_user is ON DELETE RESTRICT.
DeleteMode(w, linked) ==
    LET r == req[w] IN
    /\ r.kind = "deleteMode" /\ modes[r.mode] # None /\ r.mode \notin linked
    /\ modes' = [modes EXCEPT ![r.mode] = None]
    /\ req' = [req EXCEPT ![w] = Idle]
    /\ UNCHANGED paired

\* A contract creates the mode or updates it, with an empty password either way.
ApplyDefaultMode(w) ==
    \E m \in Mode, s \in Settings :
        /\ req[w] = Idle
        /\ modes' = [modes EXCEPT ![m] = [settings |-> s, password |-> Empty]]
        /\ paired' = (paired /\ ~BetweenStatements(w, m))
        /\ UNCHANGED req

\* A failed check, an exception or a crash.
RejectMode(w) ==
    /\ req[w].kind \in {"createMode", "updateMode", "encrypt", "deleteMode"}
    /\ req' = [req EXCEPT ![w] = Idle]
    /\ paired' = (paired /\ req[w].kind # "encrypt")
    /\ UNCHANGED modes

ModesNext(w, linked) ==
    \/ LoadMode(w) \/ SaveMode(w) \/ EncryptPassword(w)
    \/ LoadModeForDeletion(w, linked) \/ DeleteMode(w, linked)
    \/ ApplyDefaultMode(w) \/ RejectMode(w)

=============================================================================
