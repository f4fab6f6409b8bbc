# A3S in TLA+

A3S keeps, for a set of micro-services, who may do what: users, the teams and roles they
are in, the functions and permissions those give, and the clients that ask for tokens. It
is two ASP.NET Core programs on one PostgreSQL server, the REST API
(`src/src/za.co.grindrodbank.a3s`) and an IdentityServer4 host
(`src/src/za.co.grindrodbank.a3s-identity-server`), which share the schema `_a3s`; the host
has a second one, `_ids4`, for clients and API resources. This directory models how the
requests of the two programs change that state, and the sign-in pages with their scripts.
TLC checks the models; TLAPS proves for every value of the constants the safety properties
that the runs check on small ones.

## Inventory

| Component | State | Operations | What makes it correct |
|---|---|---|---|
| Teams and membership (`TeamService`, the teams of `UserService`, `ApplyDefaultTeam`) | rows of team, team_team, user_team | create, update, save a user, apply a default team | no user in a compound team, no cycle, no row of a missing team, a save leaves what was submitted |
| Security contract, applications (`SecurityContractService`, `SecurityContractApplicationService`) | rows of application, application_function, its permissions, permission; API resources of `_ids4` | load, synchronise functions and permissions, sweep, two commits | what is declared is in force, applying it again changes nothing, no permission without a function, the two databases agree |
| Account (`AccountController`, `CustomUserStore`, `CustomSignInManager`, `TwoFactorAuthService`, user update and deletion) | the user's row, the token row of the authenticator key, the one of the recovery codes, the cookies of the browsers | log in, verify, register, deregister, draw and redeem codes, remove the factor, update, delete | the factor is on only with a proven authenticator, a code signs in once, a deleted user stays deleted and is not signed in |
| Roles (`RoleService`, default roles) | rows of role, role_function, role_role, user_role | create, update, apply | a role nests one level, which is what a token follows |
| Functions (`FunctionService`, default applications) | rows of function, function_permission | create, update, delete, apply | permissions of its own application only |
| Users of the API (`UserService`, `UserRepository`, default users, login through LDAP) | a user's names, the normalized one, the mark of deletion, the link to a directory | create, update, apply, delete, log in | a name finds its bearer, a deletion frees the name, a link changes on request |
| LDAP authentication modes | rows of ldap_authentication_mode | create and update in two statements, apply, delete | the password is the one of the settings, a user's directory exists |
| Terms of service | rows of terms_of_service, the reference of a team | number, create, delete, save a team | versions rise, the next one is free, the terms in force exist |
| Sign-in pages (`Views/Account`, `wwwroot/js`, the redirects of `AccountController`) | the page in a window, its timer, the request under way, the return address, the session | click, time out, refresh, submit, arrive | a choice is reached, no page waits for ever, cancelling signs out |
| Claims (`IdentityWithAdditionalClaimsProfileService`) | none, reads the tables | profile data, is active | exactly the permissions, policies and teams the rows give |
| Contract: clients (`SecurityContractClientService`) | rows of `_ids4.Clients` | create or replace a client | what is declared is in force |
| Authorisation, controllers | none | test a permission claim, forward | stateless |
| Generated API layer, mapping profiles, formatters, hosting, external sign-in, third-party scripts | none of their own | conversions | out of scope |

How they interact. A request has one `A3SContext`; the services that serve it share its
transaction (`InitSharedTransaction` begins one only if there is none, commit and rollback do
nothing without one). Nothing is shared in memory between requests or between the two
programs: they meet in the tables, at PostgreSQL's default READ COMMITTED, and no row carries
a version that a save compares. A service loads an entity with its join rows, checks what
it was given with queries of its own and saves; the change tracker compares the new lists
with the rows it loaded. That is where the hard behaviours come from: checks and reads that
are overtaken before the save, rows written back whole, requests made of several
transactions that stop half-way, two databases committed one after the other, and long
sequences of legal requests. PROJECT.json lists them, each at its line, under "hazards".
On the server nothing is scheduled, queued or retried: requests come from outside, nothing
must eventually happen, and the properties of the tables are safety properties. The one
timer is in the browser: pages that return to the client by themselves, scripts
that act on a click while the page is being left. There the properties include liveness.

## Modules

| Module | What it is |
|---|---|
| `EfCore` | what saving a navigation list does to the rows of a join table; used by the services' modules (external code, Entity Framework Core 2.2) |
| `Compound` | the abstract specification of a compound hierarchy |
| `DesiredState` | the abstract specification of what applying contracts promises |
| `Teams`, `TeamsProperties`, `MCTeams` | the team handlers and the teams a token follows; what they must satisfy, with the refinement of `Compound`; the instance for TLC |
| `Contracts`, `ContractsProperties`, `MCContracts` | the applications of a security contract and the two commits; implements `DesiredState` |
| `BusinessFunctions`, `BusinessFunctionsProperties`, `MCBusinessFunctions` | functions and their permissions, from the API and the default applications of a contract |
| `Roles`, `RolesProperties`, `MCRoles` | roles, child roles, the roles of users and what of them reaches a token; implements `Compound` too |
| `Account`, `AccountProperties`, `MCAccount` | one user's account, from the identity server and the API |
| `LdapModes` | LDAP authentication modes; extended by `Users` |
| `Users`, `UsersProperties`, `MCUsers` | names, deletion and directories of users, composed with the modes |
| `Terms`, `TermsProperties`, `MCTerms` | the versions of an agreement and the teams that refer to them |
| `SignInPages`, `SignInPagesProperties`, `MCSignInPages` | one browser window from the client through the sign-in pages and back |
| `TeamsProofs`, `RolesProofs`, `ContractsProofs`, `BusinessFunctionsProofs`, `AccountProofs`, `UsersProofs`, `TermsProofs`, `SignInPagesProofs` | proofs |

### Teams

`teams`, `kids` and `members` are the tables. A worker's request holds what the entity was
loaded with (`sawKids`, `sawMembers`, `sawTeams`), what was submitted (`asked`, `people`) and
the teams of the list not yet looked up (`todo`). `CreateTeam`, `UpdateTeam`,
`ApplyDefaultTeam` and `SaveUser` load and make the checks on the loaded entity; `Validate`
is one turn of the loop over the list, one query; `CommitTeam` and `CommitUser` save, with
the guards that the keys, the unique name and the change tracker impose; `Reject` is every
refusal, exception or lost connection. The save and the commit are one step: for a team
of the API the code commits an empty transaction before it saves
(`TeamService.cs:121-123`), which makes the save a transaction of its own. The queries that
`Include` several collections are read as one snapshot although EF sends a statement for
each. Updating a contract with several default teams shares one transaction; here each team
is a commit of its own, and users always exist. Users and teams are identified with their
names; nothing deletes a team.

`stale` and `intact` observe the run: a worker is stale when a save changed what it had read,
and `intact` ends with the first save of a stale worker. The handlers check nothing of the
kind, so without that condition the promises do not hold: two overlapping requests can put a
user into a compound team.

`TokenTeams` is what the queries for a token follow: a user's teams and their direct parents.
The glossary has the users of child teams inherit the policies of the parent, and counts the
members of all child teams as users of a compound team (glossary.md:30, 101). With
teams of one level that is what the queries give; but the handlers let a child team have
children, whose users then miss the topmost team's policies
(`PoliciesReachUsersOfChildTeams`, which the run `teams_depth` refutes). The comment above the query for data policies
describes a third portion, the children of the user's teams, which was never written and which
glossary.md:31 excludes; nothing here follows that comment.

### Contracts

`LoadContract` reads the application, `SaveFunctions` looks every missing permission up and
saves the functions, `SweepPermissions` reads the permissions that no function contains and
removes them, `CommitA3S` makes all of it visible. Within a transaction the writes are kept
in the request (`GrantsSeenBy` is what its own queries see), and the constraints are tested at
the commit (`Accepted`) instead of at the statement; a transaction that must fail may thus do
so later than it would, when nobody else has seen its writes. The row of the application,
which every update writes, is the lock that keeps a second contract of that application
waiting (`HoldsApplication`, `AnotherHolds`). `CommitIdentityServer` and `LoseIdentityServer`
are the second commit and its loss; no later contract brings a lost API resource back, for one is
made with a new application only. One application a contract; data policies, clients and
default configurations are not in this module. A permission that another application
declared is assigned again (`SecurityContractApplicationService.cs:296`), although the
documentation says such a contract is rejected (security-contracts.md:27); the module does as the
code, and the properties say for which applications they hold: those that list different
permissions (`DeclaredByOne`). Without that, TLC finds every one of them violated but the types and
`ResourcesFollowApplications`, for two applications can each drop a permission they share while the
other still seems to use it. `torn` observes the applications whose second commit was lost.

`DesiredState` has one operation, `Put`: what a contract lists is in force for its application,
nothing else changes, and the permissions that exist are those contained in something in force.
What the tables hold for an application (`Loaded`) maps to `inForce`, `perms` to `existing`; nothing
is promised once `intact` ends or when a permission has two owners. `CommitA3S` maps to `Put`, a commit
of an overtaken contract to `Race`, every other step to a stutter.

### BusinessFunctions

`funs`, `app` and `perms` are the tables of functions, their application and their permissions;
`grants` is what the applications declare. `LoadFunction`, `CheckPermission` (one turn of the
loop) and `CommitFunction` are a create or update of the API; `LoadForDeletion` and `CommitDeletion` a
deletion; `LoadDefaults`, `LookUpDefaults` and `CommitDefaults` the default functions of one
application. `LoadDefaults` takes from the list what the loop reaches: a function without
permissions ends it (`SecurityContractDefaultConfigurationService.cs:99`), and a permission that two
functions of the application contain is added twice, which the change tracker refuses.
`Severed` is what is left of functions that the loop did not reach. `ApplyContract` is the whole
application section of a contract in one step, which is what `ContractsImplementDesiredState` allows
as long as contracts do not overtake one another; applications always
exist and have a function of their own. The looked-up defaults are one snapshot.

### Roles

`roles`, `kids`, `holds` and `has` are the tables of roles, their children, their functions and the
roles of users. `LoadRole` and `ApplyDefaultRole` load the role and look its functions up,
`Validate` is one turn of the loop over the child roles, `CommitRole` and `CommitUser` save. A list of
child roles that is null leaves the children, an empty one clears them (`setsKids`). A function
is looked up when the request loads and must still exist when its row is inserted, a foreign
key that the deletion also follows (`DeleteFunction`). `TokenFuns` is the query that fills tokens:
the roles of the user and one level of children. Users always exist; their teams are in `Teams`.

### Account

`user`, `token` and `codes` are the user's row and the two token rows; `sess` is each browser's
cookies. A request of the identity server is a sequence of statements, each its own
transaction, so its stages are actions; one of the API is a load and a commit. A request
carries the row as it was loaded (`row`), and every save of the user writes that row back
(`SaveUser`), as `State = Modified` does. What ASP.NET Identity does between the calls of the
controller (the security stamp, the count of failures, `ResetAuthenticatorKeyAsync` and
`GenerateNewTwoFactorRecoveryCodesAsync`, which save the user after the token) is taken from
its interface as the controller uses it: `SaveAfterKey`, `SaveAfterCodes` and
`SaveAfterRemoval` are those saves, statements of their own. A deregistration removes the key twice, each time
with a save (`RemoveAgain`), before it switches the factor off (`ClearTwoFactor`). An e-mail address is always confirmed
(`UserRepository.cs:60`), so a user whose factor is on is always asked for one. `Abort` is an
exception or a crash at any stage. `Issue` gives a client tokens for whoever is signed in: the test
that a user is active finds a deleted user by its identifier and calls it active. Only the
first time is followed (`issued`). `proven`, `admitted`, `again`, `stale` and `clean` observe the run;
`clean` ends when a request that was overtaken writes or one stops half-way. What is left
then: two browsers may sign in with one code, and a user may keep the factor without a key.
`FactorTakesAProof` has no such condition: whatever overlaps or stops, the factor is on only for a
user who once gave a one-time password.

### Users and LdapModes

A request loads the user, checks what the service checks and carries the row it will write
(`row`), every column of it: `Submitted` sets the user name and its normalized form together,
`DeleteUser` decorates both with " - Deleted" (a count, `Deletion`), `LoginThroughLdap` replaces the name by what
the directory maps to it, and only the name. `WriteUser` has the guards of the unique names
and of the foreign key to the mode. A contract takes the link from the row it found unless it
lists a mode, and sets the mark of deletion itself. Upper-casing is a constant function (`Upper`).
Names that are typed in have no decoration; that one might be typed is left out. What a directory answers is any
outcome. Users are rows: a created user is any row not in use.

A mode is saved in two statements, the row with a blank password and then the password
(`SaveMode`, `EncryptPassword`), without a transaction: another request, or a crash
(`RejectMode`), may come between. `paired` ends when one does. A contract's two statements are in one transaction
and leave an empty password, so `ApplyDefaultMode` is one step. A mode is identified with
its name: an update here may find a mode that was deleted and created again, which the code,
looking for an identifier, would not. That adds behaviours and removes none.

### Terms

`BeginCreation` is the BEGIN of a transaction, which is also where sys_period of the row it inserts
will begin; `ReadLatest` the query for the youngest row; `GiveVersion` the look at the calendar, which comes after it;
`CommitCreation` the insert and the commit. A deletion and the save of a team each look first and
write later, under the foreign key that refuses to remove terms in force. `NewYear` may come at any
time. `stale` marks creations under way when another commits.

### SignInPages

`page` is what the window shows; `going` the request under way, which a later assignment to
`window.location.href` replaces, since the page and its scripts live on until another page
arrives; `timer` the timeout of `signin-redirect.js`. The `Press` actions are the clicks, at any time and
repeatedly, `TimerFires` and `Refresh` the timer and the meta element, `Arrive` the answers of the
server, each redirect a request of its own. `ret` is the return address, which a login that
interrupts an action sets to that action. `factor` is that an authenticator is verified, `twoFactor` that the login asks for it:
the page after a registration sets the first alone (`AccountController.cs:685`). `OtpChallenged` is
the form posted after another window signed out. `config` is the configuration that decides which
buttons and which redirects there are. `Elsewhere` is another window of the same browser. Passwords are
right or the form is shown again. What the account's rows go through is in `Account`.

## What the runs check

| Run | Result | What it shows |
|---|---|---|
| `teams` | passes, 1.0 million states | the handlers implement `Compound`; rows refer to teams; a save leaves what was submitted |
| `teams_depth` | violated | a child team can be given child teams (glossary.md:102 says it cannot), whose users then lack the policies of the topmost team (glossary.md:30) |
| `contracts` | passes, 2.7 million states | contracts implement `DesiredState`: what is declared is in force; applying it again changes nothing, permissions do not outlive their functions, an application lacks its resource only when its own commit was lost |
| `functions` | passes, 0.2 million states | a function has permissions of its own application only, whatever contracts sweep; a default configuration is in force when it was applied |
| `functions_severed` | violated | a default function without permissions takes the application from the ones listed after it |
| `roles` | passes, 2.9 million states | the role handlers implement `Compound`; no deleted function reaches a token, not even through overtaken saves; a save of a role changes the tokens to what was submitted |
| `account` | passes, 4.0 million states | the factor is on only after a one-time password was given, whatever overlaps; as long as requests do not overtake one another, it is on only with a proven authenticator, codes sign in once and nothing revives a deleted user |
| `account_deleted` | violated | a user who was deleted after signing in is given tokens (V0__initial_migration.sql:197) |
| `users` | passes, 0.7 million states | names find their bearers, deletions free names and are refused to namesakes of deleted users only, links change on request, directories exist and have the password of their settings |
| `terms` | passes, 87 thousand states | the youngest row has the greatest version, the next version is free, terms in force exist |
| `pages` | passes, 15 thousand states | a chosen registration is reached whatever the timer does, waiting pages are left, clicks are answered, cancelling ends the session, offers are accepted |
| `pages_cancel` | violated | Cancel on the authenticator's page does nothing (AccountController.cs:222) |

Bounds. `teams`: three teams are the smallest set with a parent, a child and a grandchild;
two workers are the smallest number that race; the lists submitted have no, one or all
teams (`ShortLists`), and one user is enough for a membership to exist or not. The search
stops at the first stale save (`UntilFirstRace`), after which nothing is promised. `contracts`: two
applications, two functions and one permission let a permission lose one function and
keep the other, and let one application sweep what another uses; two workers race. It stops
when a contract without a function list was committed on outdated rows, after which only
the resources are claimed, and follows the loss of a second commit for one of the applications, the one
that declares no permission (`UntilLittleIsClaimed`); the proofs have neither bound. `account`: two browsers and one request of the API,
two keys and two draws of a code, so that an authenticator can be registered, removed and
registered again and codes be drawn twice; it stops at the first write that overtakes
and at the first token (`UntilOvertaken`), on which nothing depends. `functions`: two applications, the first with two functions of its own, two
functions and a permission of each application let a function be moved, lose its permission
or have it in two places; it stops when a worker was overtaken, who can then only give up or
end the promise. `roles`: two roles, one function, one user and every list of
roles, with no other bound; chains of three are in `teams`, whose checks are the same. `users`:
two users, three names of which two differ in case only, one mode with two settings and two
workers let names collide before and after upper-casing, a mode be saved twice at once
and be removed while a user is linked; a name is decorated once (`MaxDeletions`), enough for the
name of a deleted user to be in the way. It stops when saves of a mode overlapped or a directory
gave a name that no longer agrees with its normalized form (`UntilFirstMismatch`). `terms`: three rows, so
that the latest, an older one and a new one exist at once, four creations begun, two years
and three numbers; it stops at the first commit that was overtaken. `pages`: every configuration, with one bound: another
window signs out only while the return address is the client's, so that an address within an
address is not followed. Teams, roles, users, functions, workers, browsers, keys, settings, rows of
terms are symmetric; `pages`, which checks liveness, uses no symmetry. The violated runs have the
smallest instance that shows the case. Deadlock is checked in the passing runs.

`FunctionsWithinOneApplication` and the properties of contracts are also conditional on
applications that declare different permissions (`DeclaredByOne`), which the documentation asks
and no code checks.

Fairness. Only `SignInPages` states any: weak fairness of the timer, of the meta refresh and
of the arrival of an answer, which the browser runs and the server sends without the user. Users, forms
and other windows are under none: they may stop at any time. `WaitingPagesAreLeft` holds even of users who never stop
clicking, since the timer or a click leads away; `ClicksAreAnswered` is about users who do stop
(`<>[][~Click]_vars`), for whoever presses Deregister on the same page again and again keeps
replacing the request that would be answered.

Conditions. Properties that say "while nobody was overtaken" (`intact`, `clean`) are not
vacuous: other requests may run in between and change anything that the request has not
read, and the mutants in PROJECT.json break each property under the same condition.

## What is proved

Each module proves that an invariant `IInv` is inductive and draws the properties of the
runs from it. `ReadsCurrent`, in most of them, is the heart: a request that no save has overtaken
still knows the truth. It is kept because every save marks as stale exactly the requests that
have read what it writes, so the proof of a save compares what the request has read with what
the marking looks at. The assumptions are the named ASSUMEs of the modules, which say of what kind the constants
are and that the model values differ.

- `TeamsProofs`, for any teams, users, workers and lists (`ListsAssumption`: a list is a set of
  teams). `IInv` is the types, `RowsReferToTeams`, `RequestsWellFormed` and `ReadsCurrent`: that a row names an existing
  team follows from the team having been looked up, which is a fact about requests. From it follow
  `TypeCorrect`, `RowsAlwaysReferToTeams`, `ReadsAlwaysCurrent`, `SavesAreReplacements` and `TeamsImplementHierarchy`: a save that is not
  stale maps to `Compose`, `Populate`, `Join` or a stutter of `Compound`, a stale one to `Race`. `HierarchyAlwaysSound` is the
  theorem `CompoundSound` carried over by the refinement. `CompoundSound` is about `Compound` itself: members stay out of
  compound nodes and the only cycle is a node that is its own child. That part is stated without paths:
  every non-empty set of nodes has one whose children in the set are at most itself. Giving a node
  childless children keeps it (`ReplaceKeepsOnlySelfLoops`): a set that contains the node and one of
  those children has that child as its witness.
- `RolesProofs`: types, `HeldFunctionsExist` and `ReadsCurrent`. `DeletedFunctionsNeverReachTokens` needs no condition: the foreign key orders the
  insert of a row and the deletion of its function. `RolesImplementHierarchy` is the second refinement of `Compound`, and
  `RoleCyclesAreSelfLoops` what it gives: while nobody was overtaken, no role is reached from itself through others.
  `TokensAlwaysFollowTheSave` is an action property from the same invariant.
- `ContractsProofs`, for any applications, functions, permissions and contracts at once; the
  assumptions are that what an application may declare are permissions and that `None` is no application and no contract.
  `IInv` is the properties themselves and what their conditions hide. `RowsOwned`: a function that belongs
  to nobody contains nothing, one that belongs to an application contains what it may declare.
  `ReadsCurrent`: a contract nothing overtook was loaded with the rows that are there now, and its sweep took
  nothing that it lists. `SweepsCurrent` is the hard part: what a sweep left is still assigned when it
  commits, by what the contract will save or by a function of another application. A commit of the
  same application is kept out by the lock on its row, a commit of another cannot drop the last
  assignment of a permission of this one since it may not list it; a contract without a function list
  takes that row late, which is why it is excepted when overtaken (`bared`). From it follow
  `PermissionsNeverOutliveFunctions`, `DeclaredIsAlwaysInForce`, `ResourcesAlwaysFollow`,
  `ReapplyingNeverChangesAnything` and `ContractsImplementDesiredState`.
- `BusinessFunctionsProofs`: no rows of functions that do not exist, permissions that may be declared, well-formed and
  current requests, one application each. That a contract's sweep keeps `FunctionsWithinOneApplication` uses `DeclaredByOne`:
  a permission that is left is contained in a function of some application, which can only be the one that may
  declare it. `DefaultsAlwaysInForce` also needs the loop to reach only what is listed, and the three cases of the
  commit to exclude one another.
- `AccountProofs`, for any browsers, keys and codes, one API process. While `clean`: current reads, at most one
  request between redeeming a code and signing in (`OneRedeemer`), codes that were drawn and not
  used (`CodesFresh`), and `UnderWay`: the factor is proven, or a request under way is about to make it so or to switch it off, or
  a stale one is past its first write and cannot end without ending `clean`. That disjunction is what
  makes `EnabledHasProvenAuthenticator`, which speaks of quiet states only, inductive.
  `FactorAlwaysTakesAProof` has an invariant of its own, without `clean` (`NoFactorYet`): before the first proof the factor is off
  in the row and in every copy a request has loaded, so no write of a whole row can switch it on.
- `UsersProofs`: rows with unique normalized names, decorated only when deleted (`RowsWellNamed`), current
  requests, and one writer between the two statements of a mode (`OneWriter`). `LinkedModesAlwaysExist` has no condition.
- `TermsProofs`, for any bounds: transactions begin at distinct times, and a creation that was not
  overtaken is younger than every row and ahead of every version (`UnovertakenAhead`). It stays
  ahead when versions are deleted, which is why the invariant compares with all rows and
  not with the latest; the greatest element of a bounded set comes from `WFMin`.
- `SignInPagesProofs`: where a click leads while its page is shown (`ClicksLead`) and that the offers were true when the
  page was rendered. The liveness properties of the pages are not proved.

Only model-checked: the liveness of the pages (`WaitingPagesAreLeft`, `ClicksAreAnswered`), for fairness is beyond this
prover. Nothing here is recursive.

## Known limits of the code

What the models show and no run repeats, because it follows from there being no versions
or locks rather than from a wrong line:

- requests that overlap may leave a compound team with users, a function with a permission of
  another application, or a recovery code used by two browsers;
- a request that stops between its statements may leave a user with the factor on and no key to
  pass it, or a mode with a blank password, with which none of its users can log in;
- applications that share a permission may leave it behind when their contracts drop it at the same time;
- when the second commit of a contract is lost, later contracts do not restore the API resource;
- a second user of a name cannot be deleted after a first one was, since " - Deleted" is taken;
- a user who was renamed by a directory is found under the old name only.

## Not modelled

- Clients of a contract (`SecurityContractClientService`): column assignments and lists rebuilt from the contract,
  without a check that could be overtaken; their commit or loss is that of `Contracts`.
- The scripts under `wwwroot/lib` (jQuery, Bootstrap, qrcode.js, the unobtrusive validation): other
  projects' code in copies, by far the most JavaScript of the repository. Of A3S's own scripts,
  `signout-redirect.js` is loaded under an option that is off (`AccountOptions.cs:22`), `verify-2fa.js` acts on a
  button that only `Verify2FAOTP.cshtml` has, which no action shows, and
  `site.js` and `display-2fa-backup-codes.js` copy, print and save text.
- The generated API layer, AutoMapper profiles, formatters, archives: conversions. The permission
  test of the API: one comparison without state. Hosting; the quickstart's external sign-in, for which no
  provider is configured.
- Passwords, lockout, remembered machines, e-mail addresses, the one-time password check of the API;
  what a directory holds; renaming of teams, roles, functions and modes; rows that give a team its data policies; the joins
  from functions to permissions in a token, which add no choice.

## Plan

Done: teams, contracts' applications, functions, roles, account, users with their directories,
terms of service, the sign-in pages, the refinements of `Compound` (teams, roles) and of
`DesiredState` (contracts), and the proofs above.

Left, in this order: several applications
in one contract, whose order decides which permissions are swept; data policies of applications and
teams; several directories and renamed modes in `LdapModes`.
