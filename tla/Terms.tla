-------------------------------- MODULE Terms --------------------------------
(***************************************************************************)
(* Terms of service: the versions of one agreement, numbered by the service *)
(* (TermsOfServiceService, TermsOfServiceRepository), and the teams that    *)
(* refer to them (TeamService.ValidateTermsOfServiceEntry).                 *)
(*                                                                          *)
(* The latest version is the one whose row is the youngest.  A row is as    *)
(* old as the transaction that inserted it: sys_period begins at            *)
(* CURRENT_TIMESTAMP, which PostgreSQL takes at BEGIN, not at the insert    *)
(* and not at the commit.                                                   *)
(*                                                                          *)
(* Agreements have nothing in common, so there is one.  The archive and its *)
(* validation, which can only reject the request, are left out.             *)
(***************************************************************************)
EXTENDS Naturals

CONSTANTS Entry, Team,
          Worker,        \* requests that are served at the same time
          None,
          MaxYear, MaxNumber, MaxTime  \* bounds

VARIABLES terms,         \* rows of _a3s.terms_of_service
          inForce,       \* terms_of_service_id of each team
          year,          \* what the server's calendar says
          time,          \* the transactions that have begun, and when
          req,           \* the request each worker is serving
          stale,         \* workers whose transaction another creation has overtaken
          intact         \* no such transaction has committed

vars == <<terms, inForce, year, time, req, stale, intact>>

\* stale and intact observe the run; no action's guard reads them.

Version == [year: 1..MaxYear, number: 1..MaxNumber]
Row == [version: Version, since: 1..MaxTime]

ASSUME BoundsAssumption == MaxYear \in Nat \ {0} /\ MaxNumber \in Nat /\ MaxTime \in Nat
ASSUME NoneAssumption == None \notin Entry \cup Version \cup Row

Idle == [kind |-> "idle"]

\* A creation, with the latest version it has read and the one it gives; a deletion; a
\* team's save, with the terms that were found.
Request ==
    [kind: {"begun", "read", "numbered"}, since: 1..MaxTime, entry: Entry,
     version: Version \cup {None}]
    \cup [kind: {"delete"}, entry: Entry]
    \cup [kind: {"team"}, team: Team, entry: Entry \cup {None}]

TypeOK ==
    /\ terms \in [Entry -> Row \cup {None}]
    /\ inForce \in [Team -> Entry \cup {None}]
    /\ year \in 1..MaxYear
    /\ time \in 0..MaxTime
    /\ req \in [Worker -> {Idle} \cup Request]
    /\ stale \in SUBSET Worker
    /\ intact \in BOOLEAN

Init ==
    /\ terms = [e \in Entry |-> None]
    /\ inForce = [t \in Team |-> None]
    /\ year = 1 /\ time = 0
    /\ req = [w \in Worker |-> Idle]
    /\ stale = {} /\ intact = TRUE

Existing == {e \in Entry : terms[e] # None}
Creating == {w \in Worker : req[w].kind \in {"begun", "read", "numbered"}}

\* Mutant of Latest: the oldest row.
Oldest ==
    IF Existing = {} THEN None
    ELSE terms[CHOOSE e \in Existing : \A f \in Existing : terms[e].since <= terms[f].since].version

\* GetLastestVersionByAgreementName: the version of the youngest row, if there is one.
Latest ==
    IF Existing = {} THEN None
    ELSE terms[CHOOSE e \in Existing : \A f \in Existing : terms[e].since >= terms[f].since].version

\* Mutants of Successor: numbers start at zero; the new year's first version keeps the year
\* of the latest.
SuccessorFromZero(latest) ==
    IF latest = None THEN [year |-> year, number |-> 0]
    ELSE [year |-> year, number |-> IF latest.year < year THEN 0 ELSE latest.number + 1]

SuccessorKeepingYear(latest) ==
    IF latest = None THEN [year |-> year, number |-> 1]
    ELSE [latest EXCEPT !.number = IF latest.year < year THEN 1 ELSE @ + 1]

\* GetNewAgreementVersion, after the query: the first version of this year, or the next one
\* of the latest version's year.
Successor(latest) ==
    IF latest # None /\ latest.year >= year
    THEN [latest EXCEPT !.number = @ + 1]
    ELSE [year |-> year, number |-> 1]

NewYear ==
    /\ year < MaxYear
    /\ year' = year + 1
    /\ UNCHANGED <<terms, inForce, time, req, stale, intact>>

-----------------------------------------------------------------------------
\* CreateAsync: the transaction begins.
BeginCreation(w) ==
    \E e \in Entry \ Existing :
        /\ req[w] = Idle
        /\ time < MaxTime
        /\ time' = time + 1
        /\ req' = [req EXCEPT ![w] = [kind |-> "begun", since |-> time', entry |-> e,
                                      version |-> None]]
        /\ UNCHANGED <<terms, inForce, year, stale, intact>>

ReadLatest(w) ==
    /\ req[w].kind = "begun"
    /\ req' = [req EXCEPT ![w].kind = "read", ![w].version = Latest]
    /\ UNCHANGED <<terms, inForce, year, time, stale, intact>>

\* The calendar is read after the query.
GiveVersion(w) ==
    /\ req[w].kind = "read"
    /\ Successor(req[w].version).number <= MaxNumber
    /\ req' = [req EXCEPT ![w].kind = "numbered", ![w].version = Successor(@)]
    /\ UNCHANGED <<terms, inForce, year, time, stale, intact>>

\* The insert, which needs the version to be free, and the commit.
CommitCreation(w) ==
    LET r == req[w] IN
    /\ r.kind = "numbered"
    /\ terms[r.entry] = None
    /\ \A e \in Existing : terms[e].version # r.version
    /\ terms' = [terms EXCEPT ![r.entry] = [version |-> r.version, since |-> r.since]]
    /\ req' = [req EXCEPT ![w] = Idle]
    /\ stale' = (stale \cup Creating) \ {w}
    /\ intact' = (intact /\ w \notin stale)
    /\ UNCHANGED <<inForce, year, time>>

\* DeleteAsync, the query.
LoadForDeletion(w) ==
    \E e \in Existing :
        /\ req[w] = Idle
        /\ req' = [req EXCEPT ![w] = [kind |-> "delete", entry |-> e]]
        /\ UNCHANGED <<terms, inForce, year, time, stale, intact>>

\* Mutant of CommitDeletion: no foreign key restricts it.
DeletionUnrestricted(w) ==
    LET r == req[w] IN
    /\ r.kind = "delete" /\ r.entry \in Existing
    /\ terms' = [terms EXCEPT ![r.entry] = None]
    /\ req' = [req EXCEPT ![w] = Idle]
    /\ UNCHANGED <<inForce, year, time, stale, intact>>

\* The removal, which the foreign key of team restricts.
CommitDeletion(w) ==
    LET r == req[w] IN
    /\ r.kind = "delete" /\ r.entry \in Existing
    /\ \A t \in Team : inForce[t] # r.entry
    /\ terms' = [terms EXCEPT ![r.entry] = None]
    /\ req' = [req EXCEPT ![w] = Idle]
    /\ UNCHANGED <<inForce, year, time, stale, intact>>

\* TeamService.CreateAsync and UpdateAsync: the terms, if any are given, are found.
LoadTeam(w) ==
    \E t \in Team, e \in Existing \cup {None} :
        /\ req[w] = Idle
        /\ req' = [req EXCEPT ![w] = [kind |-> "team", team |-> t, entry |-> e]]
        /\ UNCHANGED <<terms, inForce, year, time, stale, intact>>

\* The team's row is written: its terms must still be there.
CommitTeam(w) ==
    LET r == req[w] IN
    /\ r.kind = "team"
    /\ r.entry # None => r.entry \in Existing
    /\ inForce' = [inForce EXCEPT ![r.team] = r.entry]
    /\ req' = [req EXCEPT ![w] = Idle]
    /\ UNCHANGED <<terms, year, time, stale, intact>>

\* A failed check, a constraint or a lost connection: the transaction is rolled back.
Reject(w) ==
    /\ req[w] # Idle
    /\ req' = [req EXCEPT ![w] = Idle]
    /\ stale' = stale \ {w}
    /\ UNCHANGED <<terms, inForce, year, time, intact>>

Next ==
    \/ NewYear
    \/ \E w \in Worker :
        \/ BeginCreation(w) \/ ReadLatest(w) \/ GiveVersion(w) \/ CommitCreation(w)
        \/ LoadForDeletion(w) \/ CommitDeletion(w)
        \/ LoadTeam(w) \/ CommitTeam(w)
        \/ Reject(w)

Spec == Init /\ [][Next]_vars

=============================================================================
