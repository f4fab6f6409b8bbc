------------------------------ MODULE TermsProofs ------------------------------
(***************************************************************************)
(* The versions of an agreement, for any numbers of entries, teams, workers *)
(* and years: teams refer to terms that exist, the youngest row bears the   *)
(* greatest version, and the next version is free.                          *)
(***************************************************************************)
EXTENDS TermsProperties, TLAPS, WellFoundedInduction

\* Rows are as old as their transactions, each of which began at a time of its own.
SinceDistinct ==
    /\ \A e \in Existing : terms[e].since <= time
    /\ \A w \in Creating : req[w].since <= time
    /\ \A e, f \in Existing : terms[e].since = terms[f].since => e = f
    /\ \A w, v \in Creating : req[w].since = req[v].since => w = v
    /\ \A w \in Creating, e \in Existing : req[w].since # terms[e].since

Numbered == \A w \in Worker : req[w].kind = "numbered" => req[w].version \in Version

\* A creation that was not overtaken is younger than every row; what it has read is not
\* exceeded, and what it gives exceeds, although versions may have been deleted since.
Ahead(w) ==
    /\ \A e \in Existing : terms[e].since < req[w].since
    /\ req[w].kind = "read" =>
         \A e \in Existing : /\ req[w].version # None
                             /\ ~Later(terms[e].version, req[w].version)
    /\ req[w].kind = "numbered" =>
         \A e \in Existing : Later(req[w].version, terms[e].version)
UnovertakenAhead == intact => \A w \in Creating \ stale : Ahead(w)

IInv ==
    /\ TypeOK /\ TermsInForceExist
    /\ SinceDistinct /\ Numbered
    /\ UnovertakenAhead /\ LatestIsGreatest

-----------------------------------------------------------------------------
\* Bounded, a non-empty set of numbers has a greatest one.
LEMMA Greatest ==
  ASSUME NEW n \in Nat, NEW S \in SUBSET (1..n), S # {}
  PROVE  \E x \in S : \A y \in S : y <= x
<1> DEFINE T == {n - x : x \in S}
<1>1. T \subseteq Nat /\ T # {}
  <2>1. \A x \in S : x \in 1..n /\ n - x \in Nat
    OBVIOUS
  <2>2. T \subseteq Nat
    BY <2>1
  <2> QED BY <2>2
<1>2. PICK t \in T : \A u \in T : ~(<<u, t>> \in OpToRel(<, Nat))
  BY <1>1, NatLessThanWellFounded, WFMin
<1>3. \A u \in T : ~(u < t)
  BY <1>1, <1>2 DEF OpToRel
<1>4. PICK x \in S : t = n - x
  BY <1>2
<1>5. ASSUME NEW y \in S PROVE y <= x
  <2>1. ~(n - y < n - x)
    BY <1>3, <1>4, <1>5
  <2> QED BY <2>1
<1> QED BY <1>5

\* The query finds a row that no other one is younger than.
LEMMA LatestRow ==
  ASSUME TypeOK, Existing # {}
  PROVE  \E e \in Existing :
            /\ Latest = terms[e].version
            /\ \A f \in Existing : terms[e].since >= terms[f].since
<1> DEFINE Youngest(e) == \A f \in Existing : terms[e].since >= terms[f].since
<1>1. \A e \in Existing : terms[e] \in Row
  BY DEF TypeOK, Existing
<1>2. \A e \in Existing : terms[e].since \in 1..MaxTime
  BY <1>1 DEF Row
<1> DEFINE S == {terms[e].since : e \in Existing}
<1>3. S \in SUBSET (1..MaxTime) /\ S # {}
  BY <1>2
<1>4. PICK x \in S : \A y \in S : y <= x
  <2> HIDE DEF S
  <2> QED BY <1>3, Greatest, BoundsAssumption
<1>5. PICK e \in Existing : x = terms[e].since
  BY <1>4
<1>6. Youngest(e)
  BY <1>2, <1>4, <1>5
<1>7. Latest = terms[CHOOSE d \in Existing : Youngest(d)].version
  BY DEF Latest
<1>8. \E d \in Existing : Youngest(d)
  BY <1>6
<1> HIDE DEF Youngest
<1>9. /\ (CHOOSE d \in Existing : Youngest(d)) \in Existing
      /\ Youngest(CHOOSE d \in Existing : Youngest(d))
  BY <1>8
<1> QED BY <1>7, <1>9 DEF Youngest

\* The row that is found bears the greatest version.
LEMMA LatestIsMaximal ==
  ASSUME IInv, intact, NEW e \in Existing
  PROVE  Latest \in Version /\ ~Later(terms[e].version, Latest)
<1>1. PICK d \in Existing : /\ Latest = terms[d].version
                            /\ \A f \in Existing : terms[d].since >= terms[f].since
  BY LatestRow DEF IInv
<1>2. \A f \in Existing : /\ terms[f] \in Row
                          /\ terms[f].version \in Version /\ terms[f].since \in 1..MaxTime
  BY DEF IInv, TypeOK, Existing, Row
<1>3. Latest \in Version
  BY <1>1, <1>2
<1>4. CASE e = d
  BY <1>1, <1>2, <1>4 DEF Later, Version
<1>5. CASE e # d
  <2>1. terms[d].since > terms[e].since
    BY <1>1, <1>2, <1>5 DEF IInv, SinceDistinct
  <2>2. Later(terms[d].version, terms[e].version)
    BY <2>1 DEF IInv, LatestIsGreatest
  <2> QED BY <1>1, <1>2, <1>3, <2>2 DEF Later, Version
<1> QED BY <1>3, <1>4, <1>5

\* The version that is given exceeds whatever does not exceed the one that was read.
LEMMA SuccessorExceeds ==
  ASSUME NEW v \in Version, NEW l \in Version, ~Later(v, l), year \in 1..MaxYear
  PROVE  Later(Successor(l), v)
<1>1. l # None
  BY NoneAssumption
<1>2. CASE l.year >= year
  <2>1. /\ Successor(l).year = l.year
        /\ Successor(l).number = l.number + 1
    BY <1>1, <1>2 DEF Successor, Version
  <2> QED BY <2>1 DEF Later, Version
<1>3. CASE ~(l.year >= year)
  <2>1. Successor(l).year = year
    BY <1>3 DEF Successor
  <2> QED BY <1>3, <2>1, BoundsAssumption DEF Later, Version
<1> QED BY <1>2, <1>3

-----------------------------------------------------------------------------
LEMMA InitInv == Init => IInv
BY BoundsAssumption DEF Init, IInv, TypeOK, Idle, TermsInForceExist, SinceDistinct, Numbered,
   UnovertakenAhead, LatestIsGreatest, Existing, Creating

\* A request that is given up, or begins or ends without writing terms, leaves the rest.
LEMMA OtherRequestsKeepInv ==
  ASSUME IInv, UNCHANGED <<terms, time, intact>>, year' \in 1..MaxYear,
         inForce' \in [Team -> Entry \cup {None}], TermsInForceExist',
         req' \in [Worker -> {Idle} \cup Request], stale' \in SUBSET Worker,
         \A w \in Worker :
            \/ req'[w] = req[w] /\ (w \in stale => w \in stale')
            \/ req'[w].kind \notin {"begun", "read", "numbered"}
  PROVE  IInv'
<1>1. Existing' = Existing
  BY DEF Existing
<1>2. \A w \in Creating' : w \in Creating /\ req'[w] = req[w] /\ (w \in stale => w \in stale')
  BY DEF Creating
<1>3. TypeOK'
  BY DEF IInv, TypeOK
<1>4. SinceDistinct'
  BY <1>1, <1>2 DEF IInv, SinceDistinct
<1>5. Numbered'
  BY DEF IInv, Numbered
<1>6. UnovertakenAhead'
  BY <1>1, <1>2 DEF IInv, UnovertakenAhead, Ahead
<1>7. LatestIsGreatest'
  BY <1>1 DEF IInv, LatestIsGreatest
<1> QED BY <1>3, <1>4, <1>5, <1>6, <1>7 DEF IInv

LEMMA OtherActionsKeepInv ==
  ASSUME IInv, NEW w \in Worker,
         LoadForDeletion(w) \/ LoadTeam(w) \/ CommitTeam(w) \/ Reject(w)
  PROVE  IInv'
<1>1. CASE LoadForDeletion(w)
  BY <1>1, OtherRequestsKeepInv
  DEF LoadForDeletion, IInv, TypeOK, Request, TermsInForceExist, Existing
<1>2. CASE LoadTeam(w)
  BY <1>2, OtherRequestsKeepInv
  DEF LoadTeam, IInv, TypeOK, Request, TermsInForceExist, Existing
<1>3. CASE CommitTeam(w)
  <2>1. req[w] \in [kind: {"team"}, team: Team, entry: Entry \cup {None}]
    BY <1>3 DEF CommitTeam, IInv, TypeOK, Request, Idle
  <2>2. inForce' \in [Team -> Entry \cup {None}] /\ TermsInForceExist'
    BY <1>3, <2>1 DEF CommitTeam, IInv, TypeOK, TermsInForceExist, Existing
  <2>3. UNCHANGED <<terms, year, time, intact>>
    BY <1>3 DEF CommitTeam
  <2>4. req' = [req EXCEPT ![w] = Idle] /\ stale' = stale
    BY <1>3 DEF CommitTeam
  <2> QED BY <2>2, <2>3, <2>4, OtherRequestsKeepInv DEF IInv, TypeOK, Idle
<1>4. CASE Reject(w)
  BY <1>4, OtherRequestsKeepInv DEF Reject, IInv, TypeOK, Idle, TermsInForceExist, Existing
<1> QED BY <1>1, <1>2, <1>3, <1>4

LEMMA NewYearKeepsInv ==
  ASSUME IInv, NewYear
  PROVE  IInv'
<1>1. year' \in 1..MaxYear
  BY BoundsAssumption DEF NewYear, IInv, TypeOK
<1>2. UNCHANGED <<terms, inForce, time, req, stale, intact>>
  BY DEF NewYear
<1>3. TermsInForceExist'
  BY <1>2 DEF IInv, TermsInForceExist, Existing
<1> QED BY <1>1, <1>2, <1>3, OtherRequestsKeepInv DEF IInv, TypeOK

LEMMA BeginCreationKeepsInv ==
  ASSUME IInv, NEW w \in Worker, BeginCreation(w)
  PROVE  IInv'
<1>1. PICK e \in Entry \ Existing :
        /\ time < MaxTime /\ time' = time + 1
        /\ req' = [req EXCEPT ![w] = [kind |-> "begun", since |-> time', entry |-> e,
                                      version |-> None]]
        /\ UNCHANGED <<terms, inForce, year, stale, intact>>
  BY DEF BeginCreation
<1>2. time \in Nat /\ time' \in 1..MaxTime /\ time' > time
  BY <1>1, BoundsAssumption DEF IInv, TypeOK
<1>3. /\ req'[w] = [kind |-> "begun", since |-> time', entry |-> e, version |-> None]
      /\ \A v \in Worker \ {w} : req'[v] = req[v]
  BY <1>1 DEF IInv, TypeOK
<1>4. Existing' = Existing
  BY <1>1 DEF Existing
<1>5. Creating' = Creating \cup {w}
  BY <1>3 DEF Creating
<1>6. \A d \in Existing : terms[d].since \in 1..MaxTime
  BY DEF IInv, TypeOK, Existing, Row
<1>7. \A v \in Creating : req[v].since \in 1..MaxTime
  BY DEF IInv, TypeOK, Creating, Request, Idle
<1>8. TypeOK'
  BY <1>1, <1>2 DEF IInv, TypeOK, Request
<1>9. TermsInForceExist'
  BY <1>1, <1>4 DEF IInv, TermsInForceExist
<1>10. SinceDistinct'
  <2>1. \A v \in Creating' : v = w \/ (v \in Creating /\ req'[v] = req[v] /\ req[v].since <= time)
    <3>1. Creating \subseteq Worker /\ \A v \in Creating : req[v].since <= time
      BY DEF IInv, SinceDistinct, Creating
    <3> QED BY <1>3, <1>5, <3>1
  <2>2. \A d \in Existing : terms'[d] = terms[d] /\ terms[d].since <= time
    BY <1>1 DEF IInv, SinceDistinct
  <2>3. req'[w].since = time'
    BY <1>3
  <2>4. /\ \A d \in Existing : terms'[d].since <= time'
        /\ \A v \in Creating' : req'[v].since <= time'
    BY <1>2, <1>6, <1>7, <2>1, <2>2, <2>3
  <2>5. \A d, f \in Existing : terms'[d].since = terms'[f].since => d = f
    BY <2>2 DEF IInv, SinceDistinct
  <2>6. \A u, v \in Creating' : req'[u].since = req'[v].since => u = v
    BY <1>2, <1>7, <2>1, <2>3 DEF IInv, SinceDistinct
  <2>7. \A v \in Creating', d \in Existing : req'[v].since # terms'[d].since
    BY <1>2, <1>6, <2>1, <2>2, <2>3 DEF IInv, SinceDistinct
  <2> QED BY <1>4, <2>4, <2>5, <2>6, <2>7 DEF SinceDistinct
<1>11. Numbered'
  BY <1>3 DEF IInv, Numbered
<1>12. UnovertakenAhead'
  <2> SUFFICES ASSUME intact', NEW v \in Creating' \ stale' PROVE Ahead(v)'
    BY DEF UnovertakenAhead
  <2>1. CASE v = w
    BY <1>1, <1>2, <1>3, <1>4, <1>6, <2>1 DEF Ahead, IInv, SinceDistinct
  <2>2. CASE v # w
    <3>1. Ahead(v) /\ req'[v] = req[v]
      BY <1>1, <1>3, <1>5, <2>2 DEF IInv, UnovertakenAhead, Creating
    <3> QED BY <1>1, <1>4, <3>1 DEF Ahead
  <2> QED BY <2>1, <2>2
<1>13. LatestIsGreatest'
  BY <1>1, <1>4 DEF IInv, LatestIsGreatest
<1> QED BY <1>8, <1>9, <1>10, <1>11, <1>12, <1>13 DEF IInv

\* Reading the latest version, or giving the next one, moves a request on.
LEMMA MovedOnKeepsInv ==
  ASSUME IInv, NEW w \in Creating,
         req' \in [Worker -> {Idle} \cup Request],
         req'[w].kind \in {"read", "numbered"}, req'[w].since = req[w].since,
         req'[w].kind = "numbered" => req'[w].version \in Version,
         \A u \in Worker \ {w} : req'[u] = req[u],
         UNCHANGED <<terms, inForce, year, time, stale, intact>>,
         intact /\ w \notin stale => Ahead(w)'
  PROVE  IInv'
<1>1. Existing' = Existing
  BY DEF Existing
<1>2. Creating' = Creating /\ Creating \subseteq Worker
  BY DEF Creating
<1>3. \A u \in Creating : req'[u].since = req[u].since
  BY <1>2
<1>4. TypeOK'
  BY DEF IInv, TypeOK
<1>5. TermsInForceExist'
  BY <1>1 DEF IInv, TermsInForceExist
<1>6. LatestIsGreatest'
  BY <1>1 DEF IInv, LatestIsGreatest
<1>7. SinceDistinct'
  <2>1. SinceDistinct
    BY DEF IInv
  <2> QED BY <1>1, <1>2, <1>3, <2>1 DEF SinceDistinct
<1>8. Numbered'
  BY DEF IInv, Numbered
<1>9. UnovertakenAhead'
  <2> SUFFICES ASSUME intact', NEW u \in Creating' \ stale' PROVE Ahead(u)'
    BY DEF UnovertakenAhead
  <2>1. CASE u # w
    <3>1. Ahead(u) /\ req'[u] = req[u]
      BY <1>2, <2>1 DEF IInv, UnovertakenAhead
    <3> QED BY <1>1, <3>1 DEF Ahead
  <2> QED BY <2>1
<1> QED BY <1>4, <1>5, <1>6, <1>7, <1>8, <1>9 DEF IInv

LEMMA ReadLatestKeepsInv ==
  ASSUME IInv, NEW w \in Worker, ReadLatest(w)
  PROVE  IInv'
<1>1. w \in Creating /\ req[w].kind = "begun"
  BY DEF ReadLatest, Creating
<1>2. Latest \in Version \cup {None}
  <2>1. CASE Existing = {}
    BY <2>1 DEF Latest
  <2>2. CASE Existing # {}
    BY <2>2, LatestRow DEF IInv, TypeOK, Existing, Row
  <2> QED BY <2>1, <2>2
<1>3. req[w] \in [kind: {"begun", "read", "numbered"}, since: 1..MaxTime,
                  entry: Entry, version: Version \cup {None}]
  BY <1>1 DEF IInv, TypeOK, Request, Idle
<1>4. /\ req' = [req EXCEPT ![w].kind = "read", ![w].version = Latest]
      /\ UNCHANGED <<terms, inForce, year, time, stale, intact>>
  BY DEF ReadLatest
<1>5. /\ req'[w] = [kind |-> "read", since |-> req[w].since, entry |-> req[w].entry,
                    version |-> Latest]
      /\ \A u \in Worker \ {w} : req'[u] = req[u]
  BY <1>3, <1>4 DEF IInv, TypeOK
<1>6. ASSUME intact, w \notin stale PROVE Ahead(w)'
  <2>1. \A e \in Existing : terms[e].since < req[w].since
    BY <1>1, <1>6 DEF IInv, UnovertakenAhead, Ahead
  <2>2. \A e \in Existing : Latest # None /\ ~Later(terms[e].version, Latest)
    BY <1>6, LatestIsMaximal, NoneAssumption
  <2>3. Existing' = Existing
    BY <1>4 DEF Existing
  <2>4. /\ req'[w].kind = "read" /\ req'[w].version = Latest
        /\ req'[w].since = req[w].since /\ terms' = terms
    BY <1>4, <1>5
  <2> QED BY <2>1, <2>2, <2>3, <2>4 DEF Ahead
<1>7. req' \in [Worker -> {Idle} \cup Request]
  <2>1. req'[w] \in Request
    BY <1>2, <1>3, <1>5 DEF Request
  <2> QED BY <1>4, <2>1 DEF IInv, TypeOK
<1> QED BY <1>1, <1>4, <1>5, <1>6, <1>7, MovedOnKeepsInv

LEMMA GiveVersionKeepsInv ==
  ASSUME IInv, NEW w \in Worker, GiveVersion(w)
  PROVE  IInv'
<1> DEFINE l == req[w].version
<1>1. w \in Creating /\ req[w].kind = "read"
  BY DEF GiveVersion, Creating
<1>2. req[w] \in [kind: {"begun", "read", "numbered"}, since: 1..MaxTime,
                  entry: Entry, version: Version \cup {None}]
  BY <1>1 DEF IInv, TypeOK, Request, Idle
<1>3. Successor(l) \in Version
  <2>1. Successor(l).number <= MaxNumber /\ year \in 1..MaxYear /\ l \in Version \cup {None}
    BY <1>2 DEF GiveVersion, IInv, TypeOK
  <2>2. CASE l # None /\ l.year >= year
    <3>1. l \in Version /\ Successor(l) = [l EXCEPT !.number = @ + 1]
      BY <2>1, <2>2 DEF Successor
    <3> HIDE DEF l
    <3> QED BY <2>1, <3>1, BoundsAssumption DEF Version
  <2>3. CASE ~(l # None /\ l.year >= year)
    <3>1. Successor(l) = [year |-> year, number |-> 1]
      BY <2>3 DEF Successor
    <3> QED BY <2>1, <3>1, BoundsAssumption DEF Version
  <2> QED BY <2>2, <2>3
<1>4. /\ req' = [req EXCEPT ![w].kind = "numbered", ![w].version = Successor(l)]
      /\ UNCHANGED <<terms, inForce, year, time, stale, intact>>
  BY <1>2 DEF GiveVersion, IInv, TypeOK
<1>5. /\ req'[w] = [kind |-> "numbered", since |-> req[w].since, entry |-> req[w].entry,
                    version |-> Successor(l)]
      /\ \A u \in Worker \ {w} : req'[u] = req[u]
  BY <1>2, <1>4 DEF IInv, TypeOK
<1>6. ASSUME intact, w \notin stale PROVE Ahead(w)'
  <2>1. Ahead(w)
    BY <1>1, <1>6 DEF IInv, UnovertakenAhead
  <2>2. ASSUME NEW e \in Existing PROVE Later(Successor(l), terms[e].version)
    <3>1. l \in Version /\ ~Later(terms[e].version, l)
      BY <1>1, <1>2, <2>1 DEF Ahead
    <3>2. terms[e].version \in Version /\ year \in 1..MaxYear
      BY DEF IInv, TypeOK, Existing, Row
    <3> HIDE DEF l
    <3> QED BY <3>1, <3>2, SuccessorExceeds
  <2>3. Existing' = Existing
    BY <1>4 DEF Existing
  <2>4. req'[w].kind = "numbered" /\ req'[w].version = Successor(l)
        /\ req'[w].since = req[w].since
    BY <1>5
  <2> QED BY <1>4, <2>1, <2>2, <2>3, <2>4 DEF Ahead
<1>7. req' \in [Worker -> {Idle} \cup Request]
  <2>1. req'[w] \in Request
    BY <1>2, <1>3, <1>5 DEF Request
  <2> QED BY <1>4, <2>1 DEF IInv, TypeOK
<1> HIDE DEF l
<1> QED BY <1>1, <1>3, <1>4, <1>5, <1>6, <1>7, MovedOnKeepsInv

LEMMA CommitCreationKeepsInv ==
  ASSUME IInv, NEW w \in Worker, CommitCreation(w)
  PROVE  IInv'
<1> DEFINE r == req[w]
<1> DEFINE row == [version |-> r.version, since |-> r.since]
<1>1. w \in Creating /\ r.kind = "numbered" /\ terms[r.entry] = None
  BY DEF CommitCreation, Creating
<1>2. r \in [kind: {"begun", "read", "numbered"}, since: 1..MaxTime,
             entry: Entry, version: Version \cup {None}]
  BY <1>1 DEF IInv, TypeOK, Request, Idle
<1>3. row \in Row
  BY <1>1, <1>2 DEF IInv, Numbered, Row
<1>4. /\ terms' = [terms EXCEPT ![r.entry] = row]
      /\ req' = [req EXCEPT ![w] = Idle]
      /\ stale' = (stale \cup Creating) \ {w}
      /\ intact' = (intact /\ w \notin stale)
      /\ UNCHANGED <<inForce, year, time>>
  BY DEF CommitCreation
<1>5. /\ Existing' = Existing \cup {r.entry} /\ r.entry \notin Existing
      /\ terms'[r.entry] = row
      /\ \A e \in Existing : terms'[e] = terms[e]
  <2> HIDE DEF row
  <2> QED BY <1>1, <1>2, <1>3, <1>4, NoneAssumption DEF Existing, IInv, TypeOK
<1>6. /\ Creating' = Creating \ {w}
      /\ \A v \in Creating' : req'[v] = req[v]
  BY <1>4 DEF Creating, Idle, IInv, TypeOK
<1>7. row.since = r.since /\ row.version = r.version
  OBVIOUS
<1>8. TypeOK'
  <2> HIDE DEF row
  <2>1. terms' \in [Entry -> Row \cup {None}]
    BY <1>2, <1>3, <1>4 DEF IInv, TypeOK
  <2>2. req' \in [Worker -> {Idle} \cup Request]
    BY <1>4 DEF IInv, TypeOK
  <2>3. stale' \in SUBSET Worker /\ intact' \in BOOLEAN
    BY <1>4 DEF IInv, TypeOK, Creating
  <2> QED BY <1>4, <2>1, <2>2, <2>3 DEF IInv, TypeOK
<1>9. TermsInForceExist'
  BY <1>4, <1>5 DEF IInv, TermsInForceExist
<1> HIDE DEF row, r
<1>10. SinceDistinct'
  <2>1. \A e \in Existing : terms[e].since # row.since
    BY <1>1, <1>7 DEF IInv, SinceDistinct, r
  <2>2. \A v \in Creating' : req[v].since # row.since
    BY <1>1, <1>6, <1>7 DEF IInv, SinceDistinct, r
  <2>3. row.since <= time
    BY <1>1, <1>7 DEF IInv, SinceDistinct, r
  <2> QED BY <1>4, <1>5, <1>6, <2>1, <2>2, <2>3 DEF IInv, SinceDistinct
<1>11. Numbered'
  BY <1>4 DEF IInv, Numbered, Idle, TypeOK
<1>12. UnovertakenAhead'
  BY <1>4, <1>6 DEF UnovertakenAhead
<1>13. LatestIsGreatest'
  <2> SUFFICES ASSUME intact', NEW e \in Existing', NEW f \in Existing',
                      terms'[e].since > terms'[f].since
               PROVE  Later(terms'[e].version, terms'[f].version)
    BY DEF LatestIsGreatest, Later
  <2>1. Ahead(w)
    BY <1>1, <1>4 DEF IInv, UnovertakenAhead
  <2>2. \A d \in Existing : terms[d].since < row.since /\ Later(row.version, terms[d].version)
    BY <1>1, <1>7, <2>1 DEF Ahead, r
  <2>3. \A d \in Existing : terms[d].since \in Int
    BY DEF IInv, TypeOK, Existing, Row
  <2>4. row.since \in Int
    BY <1>3 DEF Row
  <2>5. CASE e \in Existing /\ f \in Existing
    BY <1>4, <1>5, <2>5 DEF IInv, LatestIsGreatest
  <2>6. CASE e = r.entry /\ f \in Existing
    BY <1>5, <2>2, <2>6
  <2>7. CASE f = r.entry
    BY <1>5, <2>2, <2>3, <2>4, <2>7
  <2> QED BY <1>5, <2>5, <2>6, <2>7
<1> QED BY <1>8, <1>9, <1>10, <1>11, <1>12, <1>13 DEF IInv

LEMMA CommitDeletionKeepsInv ==
  ASSUME IInv, NEW w \in Worker, CommitDeletion(w)
  PROVE  IInv'
<1> DEFINE x == req[w].entry
<1>1. /\ req[w].kind = "delete" /\ x \in Existing
      /\ \A t \in Team : inForce[t] # x
      /\ terms' = [terms EXCEPT ![x] = None]
      /\ req' = [req EXCEPT ![w] = Idle]
      /\ UNCHANGED <<inForce, year, time, stale, intact>>
  BY DEF CommitDeletion
<1> HIDE DEF x
<1>2. /\ Existing' = Existing \ {x}
      /\ \A e \in Existing' : terms'[e] = terms[e]
  BY <1>1 DEF Existing, IInv, TypeOK
<1>3. /\ Creating' = Creating
      /\ \A v \in Creating : req'[v] = req[v]
  BY <1>1 DEF Creating, Idle, IInv, TypeOK
<1>4. TypeOK'
  BY <1>1 DEF IInv, TypeOK, Existing
<1>5. TermsInForceExist'
  BY <1>1, <1>2 DEF IInv, TermsInForceExist
<1>6. SinceDistinct'
  BY <1>1, <1>2, <1>3 DEF IInv, SinceDistinct
<1>7. Numbered'
  BY <1>1 DEF IInv, Numbered, Idle, TypeOK
<1>8. UnovertakenAhead'
  <2> SUFFICES ASSUME intact', NEW v \in Creating' \ stale' PROVE Ahead(v)'
    BY DEF UnovertakenAhead
  <2>1. Ahead(v) /\ req'[v] = req[v]
    BY <1>1, <1>3 DEF IInv, UnovertakenAhead
  <2> QED BY <1>2, <2>1 DEF Ahead
<1>9. LatestIsGreatest'
  BY <1>1, <1>2 DEF IInv, LatestIsGreatest
<1> QED BY <1>4, <1>5, <1>6, <1>7, <1>8, <1>9 DEF IInv

LEMMA NextKeepsInv == IInv /\ [Next]_vars => IInv'
<1> SUFFICES ASSUME IInv, [Next]_vars PROVE IInv'
  OBVIOUS
<1>1. CASE UNCHANGED vars
  BY <1>1 DEF vars, IInv, TypeOK, TermsInForceExist, SinceDistinct, Numbered, UnovertakenAhead,
     Ahead, LatestIsGreatest, Existing, Creating
<1> QED BY <1>1, NewYearKeepsInv, BeginCreationKeepsInv, ReadLatestKeepsInv,
    GiveVersionKeepsInv, CommitCreationKeepsInv, CommitDeletionKeepsInv, OtherActionsKeepInv
    DEF Next

\* The invariant of the versions: types, times, and creations ahead of what is there.
THEOREM Invariant == Spec => []IInv
BY InitInv, NextKeepsInv, PTL DEF Spec

\* The variables of Terms keep their types.
THEOREM TypeCorrect == Spec => []TypeOK
<1>1. IInv => TypeOK
  BY DEF IInv
<1> QED BY Invariant, <1>1, PTL

\* No deletion takes away the terms a team refers to (V1__terms_of_service.sql:73-74).
THEOREM TermsInForceAlwaysExist == Spec => []TermsInForceExist
<1>1. IInv => TermsInForceExist
  BY DEF IInv
<1> QED BY Invariant, <1>1, PTL

\* While no creation was overtaken, the youngest row bears the greatest version
\* (TermsOfServiceRepository.cs:95-102).
THEOREM LatestAlwaysGreatest == Spec => []LatestIsGreatest
<1>1. IInv => LatestIsGreatest
  BY DEF IInv
<1> QED BY Invariant, <1>1, PTL

\* Under the same condition another version can always be given
\* (TermsOfServiceService.cs:104-124).
THEOREM NextVersionAlwaysFree == Spec => []NextVersionIsFree
<1>1. IInv => NextVersionIsFree
  <2> SUFFICES ASSUME IInv, intact, NEW e \in Existing
               PROVE  terms[e].version # Successor(Latest)
    BY DEF NextVersionIsFree
  <2>1. Latest \in Version /\ ~Later(terms[e].version, Latest)
    BY LatestIsMaximal
  <2>2. terms[e].version \in Version /\ year \in 1..MaxYear
    BY DEF IInv, TypeOK, Existing, Row
  <2>3. Later(Successor(Latest), terms[e].version)
    BY <2>1, <2>2, SuccessorExceeds
  <2> QED BY <2>2, <2>3 DEF Later, Version
<1> QED BY Invariant, <1>1, PTL

=============================================================================
