---------------------------- MODULE ContractsProofs ----------------------------
(***************************************************************************)
(* Contracts leave in force what they list, leave no permission behind and  *)
(* change nothing when applied again, for any applications, functions,      *)
(* permissions and contracts applied at the same time.                      *)
(***************************************************************************)
EXTENDS ContractsProperties, TLAPS

\* Functions belong to applications that exist, contain nothing once their application is
\* gone, and otherwise only what it may declare.
RowsOwned ==
    \A f \in AppFun :
        /\ owner[f] \in apps \cup {None}
        /\ owner[f] = None => grants[f] = {}
        /\ owner[f] # None => grants[f] \subseteq Declarable[owner[f]]

\* No foreign key of an assignment fails: its permission is there.
GrantsExist == \A f \in AppFun : grants[f] \subseteq perms

\* What a contract lists is its application's to list, what it was loaded with fits
\* its kind, and only an existing application's contract sweeps.
WellFormed(r) ==
    /\ \A f \in AppFun : r.decl.perms[f] \subseteq Declarable[r.app]
    /\ \A f \in AppFun \ r.decl.names : r.decl.perms[f] = {}
    /\ \A f \in AppFun \ r.seen.names : r.seen.perms[f] = {}
    /\ ~r.listed => r.decl.names = {}
    /\ r.fresh => r.seen.names = {}
    /\ r.stage # "swept" => r.sweep = {}
    /\ r.stage = "swept" => ~r.fresh
    /\ r.stage = "halfway" => r.fresh
    /\ (~r.fresh \/ r.stage = "halfway") => r.app \in apps

RequestsWellFormed == \A w \in Worker : Busy(w) => WellFormed(req[w])

\* Only busy workers are overtaken, and while none of two contracts that met lacked its
\* function list, only contracts that have one.
StaleAreListed == \A w \in stale : Busy(w) /\ (bared \/ req[w].listed)

\* A contract nothing overtook was loaded with the rows the tables hold now; what its sweep
\* read is its application's and no part of what it lists.
Undisturbed(w) ==
    LET r == req[w] IN
    /\ r.stage # "halfway" =>
         \A f \in AppFun :
             /\ f \in r.seen.names <=> owner[f] = r.app
             /\ r.seen.perms[f] = IF owner[f] = r.app THEN grants[f] ELSE {}
    /\ r.sweep \subseteq Declarable[r.app]
    /\ \A f \in AppFun : r.sweep \cap r.decl.perms[f] = {}

ReadsCurrent ==
    intact /\ DeclaredByOne =>
        \A w \in Worker \ stale : Busy(w) => Undisturbed(w)

\* What a contract's sweep left is still assigned: by what it will save, or by a function
\* of another application.
SweepCurrent(w) ==
    LET r == req[w] IN
    \A p \in perms \ r.sweep : \E f \in AppFun :
        \/ p \in GrantsSeenBy(w)[f]
        \/ owner[f] \notin {None, r.app} /\ p \in grants[f]

SweepsCurrent ==
    DeclaredByOne /\ (intact \/ ~bared) =>
        \A w \in Worker :
            Busy(w) /\ req[w].stage = "swept" /\ (w \notin stale \/ req[w].listed)
                => SweepCurrent(w)

IInv ==
    /\ TypeOK /\ RowsOwned /\ GrantsExist
    /\ RequestsWellFormed /\ StaleAreListed
    /\ ReadsCurrent /\ SweepsCurrent
    /\ NoPermissionOutlivesItsFunctions /\ DeclaredIsInForce
    /\ ResourcesFollowApplications
-----------------------------------------------------------------------------
\* What is known of a contract by its type, field by field.
LEMMA ContractFields ==
  ASSUME NEW r \in Contract
  PROVE  /\ r.app \in App /\ r.fresh \in BOOLEAN /\ r.listed \in BOOLEAN
         /\ r.decl \in Declaration /\ r.seen \in Declaration
         /\ r.decl.names \in SUBSET AppFun /\ r.decl.perms \in [AppFun -> SUBSET Perm]
         /\ r.seen.names \in SUBSET AppFun /\ r.seen.perms \in [AppFun -> SUBSET Perm]
         /\ r.found \in SUBSET Perm /\ r.sweep \in SUBSET Perm
         /\ r.stage \in {"loaded", "saved", "swept", "halfway"}
BY DEF Contract, Declaration

\* Two declarations with the same names and the same permissions are one.
LEMMA SameDeclaration ==
  ASSUME NEW d \in Declaration, NEW e \in Declaration, d.names = e.names,
         \A f \in AppFun : d.perms[f] = e.perms[f]
  PROVE  d = e
BY DEF Declaration

\* None is no contract.
LEMMA BusyContract ==
  ASSUME TypeOK, NEW w \in Worker, Busy(w)
  PROVE  req[w] \in Contract
BY DEF TypeOK, Busy

\* The declarations of an application are declarations, within what it may declare.
LEMMA Declarations ==
  ASSUME NEW a \in App, NEW d \in DeclarationsOf(a)
  PROVE  /\ d \in Declaration
         /\ \A f \in AppFun : d.perms[f] \subseteq Declarable[a]
         /\ \A f \in AppFun \ d.names : d.perms[f] = {}
<1>1. Declarable[a] \subseteq Perm
  BY DeclarableAssumption
<1>2. PICK N \in SUBSET AppFun :
        d \in {[names |-> N, perms |-> P] :
                 P \in {Q \in [AppFun -> SUBSET Declarable[a]] :
                          \A f \in AppFun \ N : Q[f] = {}}}
  BY DEF DeclarationsOf
<1>3. PICK P \in [AppFun -> SUBSET Declarable[a]] :
        /\ \A f \in AppFun \ N : P[f] = {}
        /\ d = [names |-> N, perms |-> P]
  BY <1>2
<1>4. P \in [AppFun -> SUBSET Perm]
  BY <1>1
<1> QED BY <1>3, <1>4 DEF Declaration

\* An application's rows are a declaration.
LEMMA LoadedRows ==
  ASSUME TypeOK, NEW a
  PROVE  /\ Loaded(a) \in Declaration
         /\ Loaded(a).names = OwnedBy(a)
         /\ \A f \in AppFun :
              Loaded(a).perms[f] = IF owner[f] = a THEN grants[f] ELSE {}
BY DEF Loaded, OwnedBy, Declaration, TypeOK

-----------------------------------------------------------------------------
\* A save compared with current rows is a replacement.
LEMMA MergedCurrent ==
  ASSUME NEW db, NEW asked
  PROVE  Merged(db, db, asked) = asked
BY DEF Merged, Deletes, Inserts

\* A list saved as it was loaded changes nothing.
LEMMA MergedUnchanged ==
  ASSUME NEW db, NEW seen
  PROVE  Merged(db, seen, seen) = db
BY DEF Merged, Deletes, Inserts

\* A save adds no row that was not asked for, and every one that it inserts.
LEMMA MergedBounds ==
  ASSUME NEW db, NEW seen, NEW asked
  PROVE  /\ Merged(db, seen, asked) \subseteq db \cup asked
         /\ Inserts(seen, asked) \subseteq Merged(db, seen, asked)
BY DEF Merged, Deletes, Inserts

\* The rows a contract's own transaction sees, function by function.
LEMMA RowsSeen ==
  ASSUME TypeOK, NEW w \in Worker, Busy(w), NEW f \in AppFun
  PROVE  LET r == req[w] IN
         /\ f \in r.decl.names =>
              GrantsSeenBy(w)[f] = Merged(grants[f], r.seen.perms[f], r.decl.perms[f])
         /\ f \in r.seen.names \ r.decl.names => GrantsSeenBy(w)[f] = {}
         /\ f \notin r.seen.names \cup r.decl.names => GrantsSeenBy(w)[f] = grants[f]
         /\ GrantsSeenBy(w)[f] \in SUBSET Perm
<1>1. /\ req[w].decl.perms[f] \in SUBSET Perm
      /\ grants[f] \in SUBSET Perm
  BY BusyContract, ContractFields DEF TypeOK
<1>2. Merged(grants[f], req[w].seen.perms[f], req[w].decl.perms[f]) \in SUBSET Perm
  BY <1>1, MergedBounds
<1> QED BY <1>1, <1>2 DEF GrantsSeenBy

\* What the constraints let a contract of application r.app do to one function.
LEMMA CommitEffect ==
  ASSUME TypeOK, RowsOwned, RequestsWellFormed, NEW w \in Worker, CommitA3S(w),
         NEW f \in AppFun
  PROVE  LET r == req[w] IN
         /\ grants'[f] = GrantsSeenBy(w)[f] \ r.sweep
         /\ f \in r.decl.names \ r.seen.names =>
              /\ owner[f] = None /\ owner'[f] = r.app
              /\ GrantsSeenBy(w)[f] = r.decl.perms[f]
         /\ f \in r.seen.names \ r.decl.names =>
              owner[f] = r.app /\ owner'[f] = None /\ GrantsSeenBy(w)[f] = {}
         /\ f \in r.seen.names \cap r.decl.names =>
              /\ owner'[f] = owner[f]
              /\ owner[f] = r.app \/ GrantsSeenBy(w)[f] = grants[f]
              /\ owner[f] = r.app \/ Missing(r, f) = {}
         /\ f \notin r.seen.names \cup r.decl.names =>
              owner'[f] = owner[f] /\ GrantsSeenBy(w)[f] = grants[f]
<1> DEFINE r == req[w]
<1>0. Busy(w)
  BY DEF CommitA3S
<1>1. /\ grants'[f] = GrantsSeenBy(w)[f] \ r.sweep
      /\ owner' = OwnerAfter(r)
      /\ Accepted(r)
  BY DEF CommitA3S
<1>2. owner'[f] = CASE f \in r.decl.names \ r.seen.names -> r.app
                    [] f \in r.seen.names \ r.decl.names -> None
                    [] OTHER -> owner[f]
  BY <1>1 DEF OwnerAfter
<1>3. ASSUME f \in r.decl.names \ r.seen.names
      PROVE  /\ owner[f] = None /\ owner'[f] = r.app
             /\ GrantsSeenBy(w)[f] = r.decl.perms[f]
  <2>1. owner[f] = None /\ owner'[f] = r.app
    BY <1>1, <1>2, <1>3 DEF Accepted
  <2>2. grants[f] = {} /\ r.seen.perms[f] = {}
    BY <1>0, <1>3, <2>1 DEF RowsOwned, RequestsWellFormed, WellFormed
  <2>3. GrantsSeenBy(w)[f] = Merged({}, {}, r.decl.perms[f])
    BY <1>0, <1>3, <2>2, RowsSeen
  <2> QED BY <2>1, <2>3, MergedCurrent
<1>4. ASSUME f \in r.seen.names \ r.decl.names
      PROVE  owner[f] = r.app /\ owner'[f] = None /\ GrantsSeenBy(w)[f] = {}
  BY <1>0, <1>1, <1>2, <1>4, RowsSeen DEF Accepted
<1>5. ASSUME f \in r.seen.names \cap r.decl.names
      PROVE  /\ owner'[f] = owner[f]
             /\ owner[f] = r.app \/ GrantsSeenBy(w)[f] = grants[f]
             /\ owner[f] = r.app \/ Missing(r, f) = {}
  <2>1. owner'[f] = owner[f]
    BY <1>2, <1>5
  <2>2. owner[f] = r.app \/ r.seen.perms[f] = r.decl.perms[f]
    BY <1>1, <1>5 DEF Accepted
  <2>3. GrantsSeenBy(w)[f] = Merged(grants[f], r.seen.perms[f], r.decl.perms[f])
    BY <1>0, <1>5, RowsSeen
  <2> QED BY <2>1, <2>2, <2>3, MergedUnchanged DEF Missing, Inserts
<1>6. ASSUME f \notin r.seen.names \cup r.decl.names
      PROVE  owner'[f] = owner[f] /\ GrantsSeenBy(w)[f] = grants[f]
  BY <1>0, <1>2, <1>6, RowsSeen
<1> QED BY <1>1, <1>3, <1>4, <1>5, <1>6

\* A commit touches what is its application's or nobody's, and only that: another
\* application's function loses nothing but what was swept, what any function loses it
\* lost to the sweep or to its own application's contract, and what it gains is declared.
LEMMA CommitBounds ==
  ASSUME TypeOK, RowsOwned, RequestsWellFormed, NEW w \in Worker, CommitA3S(w),
         NEW f \in AppFun
  PROVE  LET r == req[w] IN
         /\ owner[f] \notin {None, r.app} =>
              owner'[f] = owner[f] /\ grants'[f] = grants[f] \ r.sweep
         /\ owner'[f] \notin {None, r.app} => owner'[f] = owner[f]
         /\ owner'[f] \in {None, r.app, owner[f]}
         /\ \A p \in grants[f] \ GrantsSeenBy(w)[f] : owner[f] = r.app
         /\ \A p \in GrantsSeenBy(w)[f] \ grants[f] :
              f \in r.decl.names /\ owner'[f] = r.app /\ p \in r.decl.perms[f]
         /\ f \in r.decl.names =>
              /\ Missing(r, f) \subseteq GrantsSeenBy(w)[f]
              /\ Missing(r, f) # {} => owner'[f] = r.app
<1> DEFINE r == req[w]
<1>0. Busy(w)
  BY DEF CommitA3S
<1>1. CASE f \in r.decl.names \ r.seen.names
  <2>1. /\ owner[f] = None /\ owner'[f] = r.app
        /\ GrantsSeenBy(w)[f] = r.decl.perms[f]
    BY <1>1, CommitEffect
  <2>2. grants[f] = {} /\ r.seen.perms[f] = {}
    BY <1>0, <1>1, <2>1 DEF RowsOwned, RequestsWellFormed, WellFormed
  <2> QED BY <1>1, <2>1, <2>2 DEF Missing, Inserts
<1>2. CASE f \in r.seen.names \ r.decl.names
  BY <1>2, CommitEffect
<1>3. CASE f \in r.seen.names \cap r.decl.names
  <2>1. /\ owner'[f] = owner[f]
        /\ owner[f] = r.app \/ GrantsSeenBy(w)[f] = grants[f]
        /\ owner[f] = r.app \/ Missing(r, f) = {}
        /\ grants'[f] = GrantsSeenBy(w)[f] \ r.sweep
    BY <1>3, CommitEffect
  <2>2. GrantsSeenBy(w)[f] = Merged(grants[f], r.seen.perms[f], r.decl.perms[f])
    BY <1>0, <1>3, RowsSeen
  <2> QED BY <1>3, <2>1, <2>2, MergedBounds DEF Missing
<1>4. CASE f \notin r.seen.names \cup r.decl.names
  BY <1>4, CommitEffect
<1> QED BY <1>1, <1>2, <1>3, <1>4

-----------------------------------------------------------------------------
\* A step of one worker that leaves the rows alone keeps the invariant, as far as it does
\* for that worker.
LEMMA WorkerStepKeepsInv ==
  ASSUME IInv, NEW w \in Worker,
         UNCHANGED <<apps, owner, grants, perms, inForce, intact, bared>>,
         TypeOK',
         \A v \in Worker \ {w} : req'[v] = req[v],
         Busy(w)' => /\ stale' = stale
                     /\ w \in stale => req'[w].listed = req[w].listed
                     /\ WellFormed(req[w])'
                     /\ intact /\ DeclaredByOne /\ w \notin stale => Undisturbed(w)'
                     /\ DeclaredByOne /\ (intact \/ ~bared) /\ req'[w].stage = "swept"
                          => SweepCurrent(w)',
         ~Busy(w)' => stale' = stale \ {w},
         ResourcesFollowApplications'
  PROVE  IInv'
<1>1. RowsOwned' /\ GrantsExist' /\ NoPermissionOutlivesItsFunctions' /\ DeclaredIsInForce'
  BY DEF IInv, RowsOwned, GrantsExist, NoPermissionOutlivesItsFunctions, Unassigned,
         DeclaredIsInForce, Loaded, OwnedBy
<1>2. RequestsWellFormed'
  <2> SUFFICES ASSUME NEW v \in Worker, Busy(v)' PROVE WellFormed(req[v])'
    BY DEF RequestsWellFormed
  <2>1. CASE v # w
    BY <2>1 DEF IInv, RequestsWellFormed, WellFormed, Busy
  <2> QED BY <2>1
<1>3. StaleAreListed'
  <2> SUFFICES ASSUME NEW v \in stale' PROVE Busy(v)' /\ (bared' \/ req'[v].listed)
    BY DEF StaleAreListed
  <2>0. stale' \subseteq stale /\ v \in Worker
    BY DEF TypeOK
  <2>1. Busy(v) /\ (bared \/ req[v].listed)
    BY <2>0 DEF IInv, StaleAreListed
  <2>2. CASE v # w
    BY <2>0, <2>1, <2>2 DEF Busy
  <2>3. CASE v = w
    BY <2>0, <2>1, <2>3
  <2> QED BY <2>2, <2>3
<1>4. \A v \in Worker \ {w} : Busy(v)' = Busy(v) /\ (v \in stale' <=> v \in stale)
  BY DEF Busy
<1>5. ReadsCurrent'
  <2> SUFFICES ASSUME intact, DeclaredByOne, NEW v \in Worker \ stale', Busy(v)'
               PROVE  Undisturbed(v)'
    BY DEF ReadsCurrent
  <2>1. CASE v # w
    BY <1>4, <2>1 DEF IInv, ReadsCurrent, Undisturbed
  <2> QED BY <2>1
<1>6. SweepsCurrent'
  <2> SUFFICES ASSUME DeclaredByOne, intact \/ ~bared, NEW v \in Worker, Busy(v)',
                      req'[v].stage = "swept", v \notin stale' \/ req'[v].listed
               PROVE  SweepCurrent(v)'
    BY DEF SweepsCurrent
  <2>1. CASE v # w
    <3>1. SweepCurrent(v)
      BY <1>4, <2>1 DEF IInv, SweepsCurrent
    <3>2. GrantsSeenBy(v)' = GrantsSeenBy(v)
      BY <2>1 DEF GrantsSeenBy
    <3> QED BY <2>1, <3>1, <3>2 DEF SweepCurrent
  <2> QED BY <2>1
<1> QED BY <1>1, <1>2, <1>3, <1>5, <1>6 DEF IInv

\* A contract starts with the rows of its application as they are.
LEMMA LoadContractKeepsInv ==
  ASSUME IInv, NEW w \in Worker, LoadContract(w)
  PROVE  IInv'
<1>1. PICK a \in App, listed \in BOOLEAN : \E d \in DeclarationsOf(a) :
        /\ ~listed => d = Nothing
        /\ req' = [req EXCEPT ![w] =
             [app |-> a, fresh |-> a \notin apps, listed |-> listed,
              decl |-> d, seen |-> Loaded(a),
              found |-> {}, sweep |-> {}, stage |-> "loaded"]]
  BY DEF LoadContract
<1>2. PICK d \in DeclarationsOf(a) :
        /\ ~listed => d = Nothing
        /\ req' = [req EXCEPT ![w] =
             [app |-> a, fresh |-> a \notin apps, listed |-> listed,
              decl |-> d, seen |-> Loaded(a),
              found |-> {}, sweep |-> {}, stage |-> "loaded"]]
  BY <1>1
<1> DEFINE r == [app |-> a, fresh |-> a \notin apps, listed |-> listed,
                 decl |-> d, seen |-> Loaded(a),
                 found |-> {}, sweep |-> {}, stage |-> "loaded"]
<1>3. ~Busy(w) /\ UNCHANGED <<database, observed>>
  BY DEF LoadContract
<1>4. r \in Contract
  BY Declarations, LoadedRows DEF Contract, IInv
<1>5. req'[w] = r /\ \A v \in Worker \ {w} : req'[v] = req[v]
  BY <1>2 DEF IInv, TypeOK
<1>6. TypeOK'
  BY <1>2, <1>3, <1>4 DEF IInv, TypeOK, database, observed
<1>7. WellFormed(r)
  <2>1. a \notin apps => Loaded(a).names = {}
    BY LoadedRows, NoneAssumption DEF IInv, RowsOwned, OwnedBy
  <2>2. \A f \in AppFun \ Loaded(a).names : Loaded(a).perms[f] = {}
    BY LoadedRows DEF IInv, OwnedBy
  <2>3. ~listed => d.names = {}
    BY <1>2 DEF Nothing
  <2> QED BY <1>2, <2>1, <2>2, <2>3, Declarations DEF WellFormed
<1>8. w \notin stale
  BY <1>3 DEF IInv, StaleAreListed
<1>9. Undisturbed(w)'
  BY <1>3, <1>5, LoadedRows DEF IInv, Undisturbed, OwnedBy, database
<1>10. ResourcesFollowApplications'
  BY <1>3, <1>5 DEF IInv, ResourcesFollowApplications, Busy, database, observed
<1>11. WellFormed(req[w])'
  BY <1>3, <1>5, <1>7 DEF WellFormed, database
<1>12. req'[w].stage # "swept" /\ stale' = stale /\ Busy(w)'
  BY <1>3, <1>4, <1>5, NoneAssumption DEF observed, Busy
<1> HIDE DEF r
<1> QED BY <1>3, <1>5, <1>6, <1>8, <1>9, <1>10, <1>11, <1>12, WorkerStepKeepsInv
           DEF database, observed

\* Its lookups change neither what it was loaded with nor what it lists.
LEMMA SaveFunctionsKeepsInv ==
  ASSUME IInv, NEW w \in Worker, SaveFunctions(w)
  PROVE  IInv'
<1> DEFINE r == req[w]
           s == [r EXCEPT !.found = MissingPerms(r) \cap perms, !.stage = "saved"]
<1>1. /\ Busy(w) /\ r.stage = "loaded"
      /\ req' = [req EXCEPT ![w] = s]
      /\ UNCHANGED <<database, observed>>
  BY DEF SaveFunctions
<1>2. r \in Contract
  BY <1>1, BusyContract DEF IInv
<1>3. /\ s \in Contract
      /\ s.app = r.app /\ s.fresh = r.fresh /\ s.listed = r.listed
      /\ s.decl = r.decl /\ s.seen = r.seen /\ s.sweep = r.sweep /\ s.stage = "saved"
  BY <1>2 DEF Contract, IInv, TypeOK
<1>4. req'[w] = s /\ \A v \in Worker \ {w} : req'[v] = req[v]
  BY <1>1 DEF IInv, TypeOK
<1> HIDE DEF s
<1>5. TypeOK'
  BY <1>1, <1>3 DEF IInv, TypeOK, database, observed
<1>6. WellFormed(r)
  BY <1>1 DEF IInv, RequestsWellFormed
<1>7. WellFormed(req[w])'
  BY <1>1, <1>3, <1>4, <1>6 DEF WellFormed, database
<1>8. intact /\ DeclaredByOne /\ w \notin stale => Undisturbed(w)'
  <2>1. intact /\ DeclaredByOne /\ w \notin stale => Undisturbed(w)
    BY <1>1 DEF IInv, ReadsCurrent
  <2> QED BY <1>1, <1>3, <1>4, <2>1 DEF Undisturbed, database
<1>9. ResourcesFollowApplications'
  BY <1>1, <1>3, <1>4 DEF IInv, ResourcesFollowApplications, Busy, database, observed
<1>10. stale' = stale /\ req'[w].stage # "swept" /\ Busy(w)'
  BY <1>1, <1>3, <1>4, NoneAssumption DEF observed, Busy
<1> QED BY <1>1, <1>3, <1>4, <1>5, <1>7, <1>8, <1>9, <1>10, WorkerStepKeepsInv
           DEF database, observed

\* What the sweep reads of a contract nothing overtook belongs to its own application, as
\* every permission was assigned and only its own functions lost any; and it is no
\* part of what the contract lists.
LEMMA SweepIsOwn ==
  ASSUME IInv, NEW w \in Worker, Busy(w), req[w].stage # "halfway",
         intact, DeclaredByOne, w \notin stale
  PROVE  LET sweep == Unassigned(GrantsSeenBy(w), perms) IN
         /\ sweep \subseteq Declarable[req[w].app]
         /\ \A f \in AppFun : sweep \cap req[w].decl.perms[f] = {}
<1> DEFINE r == req[w]
<1>1. r \in Contract /\ WellFormed(r)
  BY BusyContract DEF IInv, RequestsWellFormed
<1>2. \A f \in AppFun :
        /\ f \in r.seen.names <=> owner[f] = r.app
        /\ r.seen.perms[f] = IF owner[f] = r.app THEN grants[f] ELSE {}
  BY DEF IInv, ReadsCurrent, Undisturbed
<1>3. ASSUME NEW p \in Unassigned(GrantsSeenBy(w), perms)
      PROVE  p \in Declarable[r.app]
  <2>1. PICK f \in AppFun : p \in grants[f]
    BY <1>3 DEF IInv, NoPermissionOutlivesItsFunctions, Unassigned
  <2>2. p \notin GrantsSeenBy(w)[f]
    BY <1>3 DEF Unassigned
  <2>3. owner[f] = r.app
    <3>1. f \in r.seen.names \cup r.decl.names
      BY <2>1, <2>2, RowsSeen DEF IInv
    <3>2. CASE f \notin r.seen.names
      <4>1. f \in r.decl.names /\ r.seen.perms[f] = {}
        BY <1>1, <3>1, <3>2 DEF WellFormed
      <4>2. GrantsSeenBy(w)[f] = Merged(grants[f], {}, r.decl.perms[f])
        BY <4>1, RowsSeen DEF IInv
      <4> QED BY <2>1, <2>2, <4>2 DEF Merged, Deletes
    <3> QED BY <1>2, <3>2
  <2> QED BY <1>1, <2>1, <2>3, NoneAssumption, ContractFields DEF IInv, RowsOwned
<1>4. ASSUME NEW f \in AppFun, NEW p \in r.decl.perms[f]
      PROVE  p \in GrantsSeenBy(w)[f]
  <2>1. f \in r.decl.names
    BY <1>1, <1>4 DEF WellFormed
  <2>2. GrantsSeenBy(w)[f] = Merged(grants[f], r.seen.perms[f], r.decl.perms[f])
    BY <2>1, RowsSeen DEF IInv
  <2>3. p \in r.seen.perms[f] => p \in grants[f]
    BY <1>2
  <2> QED BY <1>4, <2>2, <2>3 DEF Merged, Deletes, Inserts
<1> QED BY <1>3, <1>4 DEF Unassigned

\* The sweep leaves what it found assigned.
LEMMA SweepPermissionsKeepsInv ==
  ASSUME IInv, NEW w \in Worker, SweepPermissions(w)
  PROVE  IInv'
<1> DEFINE r == req[w]
           s == [r EXCEPT !.sweep = Unassigned(GrantsSeenBy(w), perms), !.stage = "swept"]
<1>1. /\ Busy(w) /\ r.stage = "saved" /\ ~r.fresh
      /\ req' = [req EXCEPT ![w] = s]
      /\ UNCHANGED <<database, observed>>
  BY DEF SweepPermissions
<1>2. r \in Contract
  BY <1>1, BusyContract DEF IInv
<1>3. Unassigned(GrantsSeenBy(w), perms) \in SUBSET Perm
  BY DEF Unassigned, IInv, TypeOK
<1>4. /\ s \in Contract
      /\ s.app = r.app /\ s.fresh = r.fresh /\ s.listed = r.listed
      /\ s.decl = r.decl /\ s.seen = r.seen
      /\ s.sweep = Unassigned(GrantsSeenBy(w), perms) /\ s.stage = "swept"
  BY <1>2, <1>3 DEF Contract
<1>5. req'[w] = s /\ \A v \in Worker \ {w} : req'[v] = req[v]
  BY <1>1 DEF IInv, TypeOK
<1> HIDE DEF s
<1>6. TypeOK'
  BY <1>1, <1>4 DEF IInv, TypeOK, database, observed
<1>7. WellFormed(r)
  BY <1>1 DEF IInv, RequestsWellFormed
<1>8. WellFormed(req[w])'
  BY <1>1, <1>4, <1>5, <1>7 DEF WellFormed, database
<1>9. intact /\ DeclaredByOne /\ w \notin stale => Undisturbed(w)'
  <2> SUFFICES ASSUME intact, DeclaredByOne, w \notin stale PROVE Undisturbed(w)'
    OBVIOUS
  <2>1. Undisturbed(w)
    BY <1>1 DEF IInv, ReadsCurrent
  <2>2. /\ req'[w].seen = r.seen /\ req'[w].app = r.app /\ req'[w].decl = r.decl
        /\ req'[w].sweep = Unassigned(GrantsSeenBy(w), perms)
    BY <1>4, <1>5
  <2>3. /\ req'[w].sweep \subseteq Declarable[req'[w].app]
        /\ \A f \in AppFun : req'[w].sweep \cap req'[w].decl.perms[f] = {}
    BY <1>1, <2>2, SweepIsOwn
  <2> QED BY <1>1, <2>1, <2>2, <2>3 DEF Undisturbed, database
<1>10. SweepCurrent(w)'
  <2>1. GrantsSeenBy(w)' = GrantsSeenBy(w)
    BY <1>1, <1>4, <1>5 DEF GrantsSeenBy, database
  <2> QED BY <1>1, <1>4, <1>5, <2>1 DEF SweepCurrent, Unassigned, database
<1>11. ResourcesFollowApplications'
  BY <1>1, <1>4, <1>5 DEF IInv, ResourcesFollowApplications, Busy, database, observed
<1>12. stale' = stale /\ Busy(w)'
  BY <1>1, <1>4, <1>5, NoneAssumption DEF observed, Busy
<1> QED BY <1>1, <1>4, <1>5, <1>6, <1>8, <1>9, <1>10, <1>11, <1>12, WorkerStepKeepsInv
           DEF database, observed

\* The end of a contract, but for the commit of its rows, takes its request away.
LEMMA EndKeepsInv ==
  ASSUME IInv, NEW w \in Worker,
         Rollback(w) \/ CommitIdentityServer(w) \/ LoseIdentityServer(w)
  PROVE  IInv'
<1>1. /\ Busy(w) /\ req' = [req EXCEPT ![w] = None] /\ stale' = stale \ {w}
      /\ UNCHANGED <<apps, owner, grants, perms, inForce, intact, bared>>
  BY DEF Rollback, CommitIdentityServer, LoseIdentityServer, database
<1>2. req'[w] = None /\ \A v \in Worker \ {w} : req'[v] = req[v]
  BY <1>1 DEF IInv, TypeOK
<1>3. req[w].app \in App
  BY <1>1, BusyContract, ContractFields DEF IInv
<1>4. TypeOK'
  <2>1. CASE Rollback(w)
    BY <1>1, <2>1 DEF Rollback, IInv, TypeOK, database
  <2>2. CASE CommitIdentityServer(w)
    BY <1>1, <1>3, <2>2 DEF CommitIdentityServer, IInv, TypeOK
  <2>3. CASE LoseIdentityServer(w)
    BY <1>1, <1>3, <2>3 DEF LoseIdentityServer, IInv, TypeOK, database
  <2> QED BY <2>1, <2>2, <2>3
<1>5. ResourcesFollowApplications'
  <2> DEFINE Halfway == {v \in Worker : Busy(v) /\ req[v].stage = "halfway"}
  <2>1. \A a \in apps \ (api \cup torn) : \E v \in Halfway : req[v].app = a
    BY DEF IInv, ResourcesFollowApplications
  <2>2. ASSUME NEW v \in Halfway, v # w PROVE v \in Halfway' /\ req'[v] = req[v]
    BY <1>2, <2>2 DEF Busy
  <2>3. CASE Rollback(w)
    <3>1. w \notin Halfway /\ UNCHANGED <<apps, api, torn>>
      BY <2>3 DEF Rollback, database
    <3> QED BY <2>1, <2>2, <3>1 DEF ResourcesFollowApplications
  <2>4. CASE CommitIdentityServer(w)
    <3>1. api' = api \cup {req[w].app} /\ UNCHANGED <<apps, torn>>
      BY <2>4 DEF CommitIdentityServer
    <3> QED BY <2>1, <2>2, <3>1 DEF ResourcesFollowApplications
  <2>5. CASE LoseIdentityServer(w)
    <3>1. torn' = torn \cup {req[w].app} /\ UNCHANGED <<apps, api>>
      BY <2>5 DEF LoseIdentityServer, database
    <3> QED BY <2>1, <2>2, <3>1 DEF ResourcesFollowApplications
  <2> QED BY <2>3, <2>4, <2>5
<1> QED BY <1>1, <1>2, <1>4, <1>5, WorkerStepKeepsInv DEF Busy

-----------------------------------------------------------------------------
\* The request of the worker that commits, after the commit: gone, or halfway.
LEMMA CommitRequest ==
  ASSUME IInv, NEW w \in Worker, CommitA3S(w)
  PROVE  LET r == req[w]  s == [r EXCEPT !.stage = "halfway"] IN
         /\ Busy(w) /\ r \in Contract /\ WellFormed(r)
         /\ r.fresh => /\ req'[w] = s /\ s \in Contract /\ s.app = r.app /\ s.fresh
                       /\ s.listed = r.listed /\ s.decl = r.decl /\ s.seen = r.seen
                       /\ s.sweep = {} /\ s.stage = "halfway"
                       /\ r.sweep = {} /\ r.app \notin apps
         /\ ~r.fresh => req'[w] = None /\ r.stage = "swept"
         /\ r.stage # "halfway"
         /\ \A v \in Worker \ {w} : req'[v] = req[v] /\ Busy(v)' = Busy(v)
         /\ req' \in [Worker -> Contract \cup {None}]
<1> DEFINE r == req[w]
           s == [r EXCEPT !.stage = "halfway"]
<1>1. /\ Busy(w) /\ r.stage = IF r.fresh THEN "saved" ELSE "swept"
      /\ req' = [req EXCEPT ![w] = IF r.fresh THEN s ELSE None]
      /\ r.fresh => r.app \notin apps
  BY DEF CommitA3S, Accepted
<1>2. r \in Contract /\ WellFormed(r)
  BY <1>1, BusyContract DEF IInv, RequestsWellFormed
<1>3. /\ s \in Contract /\ s.app = r.app /\ s.fresh = r.fresh
      /\ s.listed = r.listed /\ s.decl = r.decl /\ s.seen = r.seen
      /\ s.sweep = r.sweep /\ s.stage = "halfway"
  BY <1>2 DEF Contract
<1>4. r.fresh \in BOOLEAN
  BY <1>2, ContractFields
<1> HIDE DEF s
<1>5. /\ req'[w] = IF r.fresh THEN s ELSE None
      /\ \A v \in Worker \ {w} : req'[v] = req[v] /\ Busy(v)' = Busy(v)
      /\ req' \in [Worker -> Contract \cup {None}]
  BY <1>1, <1>3 DEF IInv, TypeOK, Busy
<1>6. r.fresh => r.sweep = {}
  BY <1>1, <1>2 DEF WellFormed
<1> QED BY <1>1, <1>2, <1>3, <1>4, <1>5, <1>6 DEF s

\* A commit keeps the types.
LEMMA CommitKeepsTypes ==
  ASSUME IInv, NEW w \in Worker, CommitA3S(w)
  PROVE  TypeOK'
<1> DEFINE r == req[w]
<1>1. /\ r \in Contract /\ Busy(w)
      /\ req' \in [Worker -> Contract \cup {None}]
  BY CommitRequest
<1>2. /\ r.app \in App /\ r.decl \in Declaration /\ r.sweep \in SUBSET Perm
      /\ r.decl.perms \in [AppFun -> SUBSET Perm]
  BY <1>1, ContractFields
<1>3. apps' \in SUBSET App /\ api' \in SUBSET App /\ inForce' \in [App -> Declaration]
  BY <1>2 DEF CommitA3S, IInv, TypeOK
<1>4. owner' \in [AppFun -> App \cup {None}]
  <2>1. owner' = OwnerAfter(r)
    BY DEF CommitA3S
  <2> QED BY <1>2, <2>1 DEF OwnerAfter, IInv, TypeOK
<1>5. grants' \in [AppFun -> SUBSET Perm]
  <2>1. grants' = [f \in AppFun |-> GrantsSeenBy(w)[f] \ r.sweep]
    BY DEF CommitA3S
  <2>2. \A f \in AppFun : GrantsSeenBy(w)[f] \ r.sweep \in SUBSET Perm
    BY <1>1, RowsSeen DEF IInv
  <2> QED BY <2>1, <2>2
<1>6. perms' \in SUBSET Perm
  <2>1. perms' = (perms \cup MissingPerms(r)) \ r.sweep
    BY DEF CommitA3S
  <2>2. r.decl.names \in SUBSET AppFun
    BY <1>1, ContractFields
  <2>3. \A f \in r.decl.names : Missing(r, f) \subseteq Perm
    BY <1>2, <2>2 DEF Missing, Inserts
  <2> QED BY <2>1, <2>3 DEF MissingPerms, IInv, TypeOK
<1>7. stale' \in SUBSET Worker /\ {intact', bared'} \subseteq BOOLEAN /\ torn' \in SUBSET App
  BY DEF CommitA3S, IInv, TypeOK
<1> QED BY <1>1, <1>3, <1>4, <1>5, <1>6, <1>7 DEF TypeOK

\* A commit gives functions to its own application only, which exists by then.
LEMMA CommitKeepsRowsOwned ==
  ASSUME IInv, NEW w \in Worker, CommitA3S(w)
  PROVE  RowsOwned'
<1> DEFINE r == req[w]
<1>1. Busy(w) /\ r \in Contract /\ WellFormed(r)
  BY CommitRequest
<1>2. r.app \in App /\ r.app # None
  BY <1>1, ContractFields, NoneAssumption
<1>3. apps' = apps \cup {r.app}
  BY DEF CommitA3S
<1> SUFFICES ASSUME NEW f \in AppFun
             PROVE  /\ owner'[f] \in apps' \cup {None}
                    /\ owner'[f] = None => grants'[f] = {}
                    /\ owner'[f] # None => grants'[f] \subseteq Declarable[owner'[f]]
  BY DEF RowsOwned
<1>4. /\ owner[f] \in apps \cup {None}
      /\ owner[f] = None => grants[f] = {}
      /\ owner[f] # None => grants[f] \subseteq Declarable[owner[f]]
  BY DEF IInv, RowsOwned
<1>5. grants'[f] \subseteq GrantsSeenBy(w)[f]
  BY CommitEffect DEF IInv
<1>6. owner'[f] \in {None, r.app, owner[f]}
  BY CommitBounds DEF IInv
<1>7. ASSUME owner'[f] = None PROVE grants'[f] = {}
  <2>1. f \notin r.decl.names \ r.seen.names
    BY <1>2, <1>7, CommitEffect DEF IInv
  <2>2. CASE f \in r.seen.names \ r.decl.names
    BY <1>5, <2>2, CommitEffect DEF IInv
  <2>3. CASE f \notin r.seen.names \ r.decl.names
    BY <1>2, <1>4, <1>5, <1>7, <2>1, <2>3, CommitEffect DEF IInv
  <2> QED BY <2>2, <2>3
<1>8. ASSUME owner'[f] # None, NEW p \in grants'[f] PROVE p \in Declarable[owner'[f]]
  <2>1. CASE p \in grants[f]
    <3>1. owner'[f] = owner[f]
      BY <1>4, <1>8, <2>1, CommitEffect DEF IInv
    <3> QED BY <1>4, <1>8, <2>1, <3>1
  <2>2. CASE p \notin grants[f]
    BY <1>1, <1>5, <1>8, <2>2, CommitBounds DEF IInv, WellFormed
  <2> QED BY <2>1, <2>2
<1> QED BY <1>3, <1>4, <1>6, <1>7, <1>8

\* A commit assigns permissions that are there: found, added with it, or assigned before.
LEMMA CommitKeepsGrantsExist ==
  ASSUME IInv, NEW w \in Worker, CommitA3S(w)
  PROVE  GrantsExist'
<1> DEFINE r == req[w]
<1>1. perms' = (perms \cup MissingPerms(r)) \ r.sweep
  BY DEF CommitA3S
<1> SUFFICES ASSUME NEW f \in AppFun, NEW p \in grants'[f], p \notin grants[f]
             PROVE  p \in MissingPerms(r)
  BY <1>1, CommitEffect, CommitBounds DEF IInv, GrantsExist
<1>2. p \in GrantsSeenBy(w)[f] /\ f \in r.decl.names
  BY CommitEffect, CommitBounds DEF IInv
<1>3. GrantsSeenBy(w)[f] = Merged(grants[f], r.seen.perms[f], r.decl.perms[f])
  BY <1>2, CommitRequest, RowsSeen DEF IInv
<1>4. p \in Missing(r, f)
  BY <1>2, <1>3 DEF Merged, Missing
<1> QED BY <1>2, <1>4 DEF MissingPerms

\* After a commit every permission is still assigned: a new one by the contract, and any
\* other because the sweep spared it.
LEMMA CommitKeepsAssigned ==
  ASSUME IInv, NEW w \in Worker, CommitA3S(w)
  PROVE  NoPermissionOutlivesItsFunctions'
<1> DEFINE r == req[w]
<1>1. SUFFICES ASSUME DeclaredByOne, intact' \/ ~bared', NEW p \in perms'
               PROVE  \E f \in AppFun : p \in grants'[f]
  BY DEF NoPermissionOutlivesItsFunctions, Unassigned
<1>2. /\ Busy(w) /\ r \in Contract
      /\ r.fresh => r.sweep = {}
      /\ ~r.fresh => r.stage = "swept"
      /\ WellFormed(r)
  BY CommitRequest
<1>3. /\ intact' = (intact /\ w \notin stale)
      /\ bared => bared'
      /\ perms' = (perms \cup MissingPerms(r)) \ r.sweep
  BY DEF CommitA3S, IInv, TypeOK
<1>4. \A f \in AppFun : grants'[f] = GrantsSeenBy(w)[f] \ r.sweep
  BY CommitEffect DEF IInv
<1>5. CASE p \in MissingPerms(r)
  <2>1. PICK f \in r.decl.names : p \in Missing(r, f)
    BY <1>5 DEF MissingPerms
  <2>2. f \in AppFun
    BY <1>2, ContractFields
  <2>3. p \in GrantsSeenBy(w)[f]
    BY <2>1, <2>2, CommitBounds DEF IInv
  <2> QED BY <1>1, <1>3, <1>4, <2>2, <2>3
<1>6. CASE p \in perms /\ r.fresh
  <2>1. PICK f \in AppFun : p \in grants[f]
    BY <1>1, <1>3, <1>6 DEF IInv, NoPermissionOutlivesItsFunctions, Unassigned, TypeOK
  <2>2. p \in GrantsSeenBy(w)[f]
    <3>1. owner[f] # None
      BY <2>1 DEF IInv, RowsOwned
    <3> QED BY <1>2, <1>6, <2>1, <3>1, CommitEffect DEF IInv, WellFormed
  <2> QED BY <1>1, <1>3, <1>4, <2>2
<1>7. CASE p \in perms /\ ~r.fresh
  <2>1. w \notin stale \/ r.listed
    BY <1>1, <1>3 DEF IInv, StaleAreListed, TypeOK
  <2>2. SweepCurrent(w)
    BY <1>1, <1>2, <1>3, <1>7, <2>1 DEF IInv, SweepsCurrent, TypeOK
  <2>3. PICK f \in AppFun : \/ p \in GrantsSeenBy(w)[f]
                            \/ owner[f] \notin {None, r.app} /\ p \in grants[f]
    BY <1>1, <1>3, <1>7, <2>2 DEF SweepCurrent
  <2>4. CASE p \in GrantsSeenBy(w)[f]
    BY <1>1, <1>3, <1>4, <2>4
  <2>5. CASE owner[f] \notin {None, r.app} /\ p \in grants[f]
    BY <1>1, <1>3, <2>5, CommitBounds DEF IInv
  <2> QED BY <2>3, <2>4, <2>5
<1> QED BY <1>1, <1>3, <1>5, <1>6, <1>7

\* A commit that overtook nobody leaves another application's functions as they were: its
\* sweep is its own application's.
LEMMA CommitSparesOthers ==
  ASSUME IInv, NEW w \in Worker, CommitA3S(w), intact', DeclaredByOne,
         NEW a \in App, a # req[w].app, NEW f \in AppFun
  PROVE  /\ owner'[f] = a <=> owner[f] = a
         /\ owner[f] = a => grants'[f] = grants[f]
<1> DEFINE r == req[w]
<1>1. intact /\ w \notin stale
  BY DEF CommitA3S
<1>2. Busy(w) /\ r.app \in App /\ a # None
  BY CommitRequest, ContractFields, NoneAssumption
<1>3. r.sweep \subseteq Declarable[r.app]
  BY <1>1, <1>2 DEF IInv, ReadsCurrent, Undisturbed
<1>4. owner[f] = a => r.sweep \cap grants[f] = {}
  <2>1. owner[f] = a => grants[f] \subseteq Declarable[a]
    BY <1>2 DEF IInv, RowsOwned
  <2>2. Declarable[a] \cap Declarable[r.app] = {}
    BY <1>2 DEF DeclaredByOne
  <2> QED BY <1>3, <2>1, <2>2
<1>5. owner[f] = a => owner'[f] = a /\ grants'[f] = grants[f] \ r.sweep
  BY <1>2, CommitBounds DEF IInv
<1>6. owner'[f] = a => owner[f] = a
  BY <1>2, CommitBounds DEF IInv
<1> QED BY <1>4, <1>5, <1>6

\* A commit that overtook nobody leaves its application exactly what the contract listed.
LEMMA CommitPutsInForce ==
  ASSUME IInv, NEW w \in Worker, CommitA3S(w), intact', DeclaredByOne, NEW f \in AppFun
  PROVE  LET r == req[w] IN
         /\ owner'[f] = r.app <=> f \in r.decl.names
         /\ owner'[f] = r.app => grants'[f] = r.decl.perms[f]
<1> DEFINE r == req[w]
<1>1. intact /\ w \notin stale
  BY DEF CommitA3S
<1>2. Busy(w) /\ r \in Contract /\ WellFormed(r) /\ r.stage # "halfway"
  BY CommitRequest
<1>3. r.app \in App /\ r.app # None
  BY <1>2, ContractFields, NoneAssumption
<1>4. /\ f \in r.seen.names <=> owner[f] = r.app
      /\ r.seen.perms[f] = IF owner[f] = r.app THEN grants[f] ELSE {}
      /\ r.sweep \cap r.decl.perms[f] = {}
  BY <1>1, <1>2 DEF IInv, ReadsCurrent, Undisturbed
<1>5. grants'[f] = GrantsSeenBy(w)[f] \ r.sweep
  BY CommitEffect DEF IInv
<1>6. CASE f \in r.decl.names
  <2>1. owner'[f] = r.app
    BY <1>4, <1>6, CommitEffect DEF IInv
  <2>2. GrantsSeenBy(w)[f] = r.decl.perms[f]
    <3>1. CASE f \in r.seen.names
      <4>1. GrantsSeenBy(w)[f] = Merged(grants[f], grants[f], r.decl.perms[f])
        BY <1>2, <1>4, <1>6, <3>1, RowsSeen DEF IInv
      <4> QED BY <4>1, MergedCurrent
    <3>2. CASE f \notin r.seen.names
      BY <1>6, <3>2, CommitEffect DEF IInv
    <3> QED BY <3>1, <3>2
  <2> QED BY <1>4, <1>5, <1>6, <2>1, <2>2
<1>7. CASE f \notin r.decl.names
  BY <1>3, <1>4, <1>7, CommitEffect DEF IInv
<1> QED BY <1>6, <1>7

\* A commit that overtook nobody changes what is loaded of its own application, to what
\* the contract listed, and of no other.
LEMMA CommitLoaded ==
  ASSUME IInv, NEW w \in Worker, CommitA3S(w), intact', DeclaredByOne, NEW a \in App
  PROVE  Loaded(a)' = IF a = req[w].app THEN req[w].decl ELSE Loaded(a)
<1> DEFINE r == req[w]
<1>1. r \in Contract /\ WellFormed(r)
  BY CommitRequest
<1>2. r.app \in App /\ r.decl \in Declaration /\ r.decl.names \subseteq AppFun
  BY <1>1, ContractFields
<1>3. /\ Loaded(a)' \in Declaration
      /\ \A f \in AppFun :
           /\ f \in Loaded(a)'.names <=> owner'[f] = a
           /\ Loaded(a)'.perms[f] = IF owner'[f] = a THEN grants'[f] ELSE {}
      /\ Loaded(a)'.names \subseteq AppFun
  BY CommitKeepsTypes DEF Loaded, OwnedBy, Declaration, TypeOK
<1>4. CASE a = r.app
  <2>1. ASSUME NEW f \in AppFun
        PROVE  /\ f \in Loaded(a)'.names <=> f \in r.decl.names
               /\ Loaded(a)'.perms[f] = r.decl.perms[f]
    <3>1. /\ owner'[f] = a <=> f \in r.decl.names
          /\ owner'[f] = a => grants'[f] = r.decl.perms[f]
      BY <1>4, CommitPutsInForce
    <3>2. f \notin r.decl.names => r.decl.perms[f] = {}
      BY <1>1 DEF WellFormed
    <3> QED BY <1>3, <3>1, <3>2
  <2>2. Loaded(a)'.names = r.decl.names
    BY <1>2, <1>3, <2>1
  <2> QED BY <1>2, <1>3, <1>4, <2>1, <2>2, SameDeclaration
<1>5. CASE a # r.app
  <2>1. \A f \in AppFun : /\ f \in Loaded(a)'.names <=> f \in Loaded(a).names
                          /\ Loaded(a)'.perms[f] = Loaded(a).perms[f]
    BY <1>3, <1>5, CommitSparesOthers, LoadedRows DEF IInv, OwnedBy
  <2>2. Loaded(a) \in Declaration /\ Loaded(a).names \subseteq AppFun
    BY LoadedRows DEF IInv, OwnedBy
  <2>3. Loaded(a)'.names = Loaded(a).names
    BY <1>3, <2>1, <2>2
  <2> QED BY <1>3, <1>5, <2>1, <2>2, <2>3, SameDeclaration
<1> QED BY <1>4, <1>5

\* What is loaded stays what was last committed, for every application.
LEMMA CommitKeepsInForce ==
  ASSUME IInv, NEW w \in Worker, CommitA3S(w)
  PROVE  DeclaredIsInForce'
<1> DEFINE r == req[w]
<1>1. SUFFICES ASSUME intact', DeclaredByOne, NEW a \in apps'
               PROVE  Loaded(a)' = inForce'[a]
  BY DEF DeclaredIsInForce
<1>2. /\ intact /\ apps' = apps \cup {r.app}
      /\ inForce' = [inForce EXCEPT ![r.app] = r.decl]
  BY <1>1 DEF CommitA3S
<1>3. r.app \in App /\ a \in App
  <2>1. r.app \in App
    BY CommitRequest, ContractFields
  <2> QED BY <1>2, <2>1 DEF IInv, TypeOK
<1>4. inForce'[a] = IF a = r.app THEN r.decl ELSE inForce[a]
  BY <1>2, <1>3 DEF IInv, TypeOK
<1>5. a # r.app => Loaded(a) = inForce[a]
  BY <1>1, <1>2 DEF IInv, DeclaredIsInForce
<1> QED BY <1>1, <1>3, <1>4, <1>5, CommitLoaded

\* Requests stay well formed; those of the same application are overtaken.
LEMMA CommitKeepsRequests ==
  ASSUME IInv, NEW w \in Worker, CommitA3S(w)
  PROVE  RequestsWellFormed' /\ StaleAreListed'
<1> DEFINE r == req[w]
           sameApp == {v \in Worker \ {w} : Busy(v) /\ req[v].app = r.app}
<1>1. /\ apps' = apps \cup {r.app}
      /\ stale' = (stale \ {w}) \cup sameApp
      /\ bared' = (bared \/ \E v \in sameApp : ~(r.listed /\ req[v].listed))
  BY DEF CommitA3S
<1>2. /\ WellFormed(r)
      /\ \A v \in Worker \ {w} : req'[v] = req[v] /\ Busy(v)' = Busy(v)
      /\ ~r.fresh => req'[w] = None
  BY CommitRequest
<1>3. RequestsWellFormed'
  <2> SUFFICES ASSUME NEW v \in Worker, Busy(v)' PROVE WellFormed(req[v])'
    BY DEF RequestsWellFormed
  <2>1. CASE v # w
    BY <1>1, <1>2, <2>1 DEF IInv, RequestsWellFormed, WellFormed
  <2>2. CASE v = w
    <3>1. r.fresh
      BY <1>2, <2>2 DEF Busy
    <3>2. /\ req'[w].app = r.app /\ req'[w].fresh /\ req'[w].stage = "halfway"
          /\ req'[w].listed = r.listed /\ req'[w].decl = r.decl
          /\ req'[w].seen = r.seen /\ req'[w].sweep = {}
      BY <3>1, CommitRequest
    <3> QED BY <1>1, <1>2, <2>2, <3>1, <3>2 DEF WellFormed
  <2> QED BY <2>1, <2>2
<1>4. StaleAreListed'
  <2> SUFFICES ASSUME NEW v \in stale' PROVE Busy(v)' /\ (bared' \/ req'[v].listed)
    BY DEF StaleAreListed
  <2>1. v \in Worker \ {w}
    BY <1>1 DEF IInv, TypeOK
  <2>2. CASE v \in sameApp
    BY <1>1, <1>2, <2>1, <2>2
  <2>3. CASE v \in stale
    BY <1>1, <1>2, <2>1, <2>3 DEF IInv, StaleAreListed
  <2> QED BY <1>1, <2>2, <2>3
<1> QED BY <1>3, <1>4

\* What was loaded of other applications is still what the tables hold.
LEMMA CommitKeepsReadsCurrent ==
  ASSUME IInv, NEW w \in Worker, CommitA3S(w)
  PROVE  ReadsCurrent'
<1> DEFINE r == req[w]
<1>1. SUFFICES ASSUME intact', DeclaredByOne, NEW v \in Worker \ stale', Busy(v)'
               PROVE  Undisturbed(v)'
  BY DEF ReadsCurrent
<1>2. /\ intact
      /\ stale' = (stale \ {w}) \cup {u \in Worker \ {w} : Busy(u) /\ req[u].app = r.app}
  BY <1>1 DEF CommitA3S
<1>3. CASE v = w
  <2>1. r.fresh
    BY <1>1, <1>3, CommitRequest DEF Busy
  <2>2. req'[w].stage = "halfway" /\ req'[w].sweep = {}
    BY <2>1, CommitRequest
  <2> QED BY <1>3, <2>2 DEF Undisturbed
<1>4. CASE v # w
  <2>1. req'[v] = req[v] /\ Busy(v)
    BY <1>1, <1>4, CommitRequest
  <2>2. v \notin stale /\ req[v].app # r.app
    BY <1>2, <1>4, <2>1
  <2>3. Undisturbed(v)
    BY <1>1, <1>2, <2>1, <2>2 DEF IInv, ReadsCurrent
  <2>4. req[v].app \in App
    BY <2>1, BusyContract, ContractFields DEF IInv
  <2>5. \A f \in AppFun : /\ owner'[f] = req[v].app <=> owner[f] = req[v].app
                          /\ owner[f] = req[v].app => grants'[f] = grants[f]
    BY <1>1, <2>2, <2>4, CommitSparesOthers
  <2> QED BY <2>1, <2>3, <2>5 DEF Undisturbed
<1> QED BY <1>3, <1>4

\* What another contract's sweep spared is still assigned after a commit: everything is, and
\* only to a function of the sweeping application if its own application's contract
\* dropped it.
LEMMA CommitKeepsSweepsCurrent ==
  ASSUME IInv, NEW w \in Worker, CommitA3S(w)
  PROVE  SweepsCurrent'
<1> DEFINE r == req[w]
<1>1. SUFFICES ASSUME DeclaredByOne, intact' \/ ~bared', NEW v \in Worker, Busy(v)',
                      req'[v].stage = "swept", v \notin stale' \/ req'[v].listed,
                      NEW p \in perms' \ req'[v].sweep
               PROVE  \E f \in AppFun :
                        \/ p \in GrantsSeenBy(v)'[f]
                        \/ owner'[f] \notin {None, req'[v].app} /\ p \in grants'[f]
  BY DEF SweepsCurrent, SweepCurrent
<1>2. /\ stale' = (stale \ {w}) \cup {u \in Worker \ {w} : Busy(u) /\ req[u].app = r.app}
      /\ (intact' => intact) /\ (bared => bared')
      /\ perms' = (perms \cup MissingPerms(r)) \ r.sweep
      /\ ~AnotherHolds(w)
  BY DEF CommitA3S
<1>3. v # w
  BY <1>1, CommitRequest DEF Busy
<1>4. req'[v] = req[v] /\ Busy(v)
  BY <1>1, <1>3, CommitRequest
<1>5. req[v].app # r.app
  <2>1. CASE v \in stale'
    BY <1>1, <1>2, <1>3, <1>4, <2>1 DEF AnotherHolds, HoldsApplication
  <2>2. CASE v \notin stale'
    BY <1>2, <1>3, <1>4, <2>2
  <2> QED BY <2>1, <2>2
<1>6. req[v].app \in App /\ r.app \in App
  BY <1>4, CommitRequest, BusyContract, ContractFields DEF IInv
<1>7. SweepCurrent(v)
  BY <1>1, <1>2, <1>3, <1>4 DEF IInv, SweepsCurrent
<1>8. PICK g \in AppFun : p \in grants'[g]
  BY <1>1, CommitKeepsAssigned DEF NoPermissionOutlivesItsFunctions, Unassigned
<1>9. owner'[g] \in App /\ p \in Declarable[owner'[g]]
  BY <1>8, CommitKeepsRowsOwned, CommitKeepsTypes, NoneAssumption DEF RowsOwned, TypeOK
<1>10. CASE owner'[g] # req[v].app
  BY <1>4, <1>8, <1>9, <1>10, NoneAssumption
<1>11. CASE owner'[g] = req[v].app
  <2>1. owner[g] = req[v].app
    BY <1>5, <1>6, <1>11, NoneAssumption, CommitBounds DEF IInv
  <2>2. p \in grants[g]
    BY <1>5, <1>6, <1>8, <1>11, NoneAssumption, CommitEffect, CommitBounds DEF IInv
  <2>3. p \in perms
    <3>1. CASE p \in MissingPerms(r)
      <4>1. PICK f \in r.decl.names : p \in Missing(r, f)
        BY <3>1 DEF MissingPerms
      <4>2. p \in Declarable[r.app]
        BY <4>1, CommitRequest, ContractFields DEF Missing, Inserts, WellFormed
      <4> QED BY <1>5, <1>6, <1>9, <1>11, <1>1, <4>2 DEF DeclaredByOne
    <3> QED BY <1>1, <1>2, <3>1
  <2>4. PICK f \in AppFun : \/ p \in GrantsSeenBy(v)[f]
                            \/ owner[f] \notin {None, req[v].app} /\ p \in grants[f]
    BY <1>1, <1>4, <1>7, <2>3 DEF SweepCurrent
  <2>5. p \in GrantsSeenBy(v)[f]
    <3>1. CASE owner[f] \notin {None, req[v].app} /\ p \in grants[f]
      <4>1. owner[f] \in App /\ p \in Declarable[owner[f]]
        BY <3>1 DEF IInv, RowsOwned, TypeOK
      <4> QED BY <1>1, <1>6, <1>9, <1>11, <3>1, <4>1 DEF DeclaredByOne
    <3> QED BY <2>4, <3>1
  <2>6. p \in grants[f] => p \in grants'[f]
    <3> SUFFICES ASSUME p \in grants[f], p \notin grants'[f] PROVE FALSE
      OBVIOUS
    <3>1. p \notin GrantsSeenBy(w)[f]
      BY <1>1, <1>2, CommitEffect DEF IInv
    <3>2. owner[f] = r.app
      BY <3>1, CommitBounds DEF IInv
    <3>3. p \in Declarable[r.app]
      BY <1>6, <3>2, NoneAssumption DEF IInv, RowsOwned
    <3> QED BY <1>1, <1>5, <1>6, <1>9, <1>11, <3>3 DEF DeclaredByOne
  <2>7. p \in GrantsSeenBy(v)'[f]
    BY <1>4, <2>5, <2>6 DEF GrantsSeenBy, Merged, Deletes, Inserts
  <2> QED BY <2>7
<1> QED BY <1>10, <1>11

\* A new application is halfway until its resource is there; an existing one was new once.
LEMMA CommitKeepsResources ==
  ASSUME IInv, NEW w \in Worker, CommitA3S(w)
  PROVE  ResourcesFollowApplications'
<1> DEFINE r == req[w]
<1>1. SUFFICES ASSUME NEW a \in apps', a \notin api \cup torn
               PROVE  \E v \in Worker : /\ Busy(v)' /\ req'[v].stage = "halfway"
                                        /\ req'[v].app = a
  BY DEF ResourcesFollowApplications, CommitA3S
<1>2. apps' = apps \cup {r.app}
  BY DEF CommitA3S
<1>3. CASE a \in apps
  <2>1. PICK v \in Worker : Busy(v) /\ req[v].stage = "halfway" /\ req[v].app = a
    BY <1>1, <1>3 DEF IInv, ResourcesFollowApplications
  <2>2. v # w
    BY <2>1, CommitRequest
  <2> QED BY <2>1, <2>2, CommitRequest
<1>4. CASE a \notin apps
  <2>1. a = r.app /\ r.fresh
    BY <1>2, <1>4, CommitRequest DEF WellFormed
  <2>2. req'[w].stage = "halfway" /\ req'[w].app = r.app /\ req'[w] \in Contract
    BY <2>1, CommitRequest
  <2> QED BY <2>1, <2>2, NoneAssumption DEF Busy
<1> QED BY <1>3, <1>4

\* Every step keeps the invariant.
LEMMA NextKeepsInv == IInv /\ [Next]_vars => IInv'
<1> SUFFICES ASSUME IInv, [Next]_vars PROVE IInv'
  OBVIOUS
<1>1. ASSUME NEW w \in Worker, LoadContract(w) PROVE IInv'
  BY <1>1, LoadContractKeepsInv
<1>2. ASSUME NEW w \in Worker, SaveFunctions(w) PROVE IInv'
  BY <1>2, SaveFunctionsKeepsInv
<1>3. ASSUME NEW w \in Worker, SweepPermissions(w) PROVE IInv'
  BY <1>3, SweepPermissionsKeepsInv
<1>4. ASSUME NEW w \in Worker,
             Rollback(w) \/ CommitIdentityServer(w) \/ LoseIdentityServer(w)
      PROVE  IInv'
  BY <1>4, EndKeepsInv
<1>5. ASSUME NEW w \in Worker, CommitA3S(w) PROVE IInv'
  BY <1>5, CommitKeepsTypes, CommitKeepsRowsOwned, CommitKeepsGrantsExist, CommitKeepsAssigned,
     CommitKeepsInForce, CommitKeepsRequests, CommitKeepsReadsCurrent,
     CommitKeepsSweepsCurrent, CommitKeepsResources DEF IInv
<1>6. CASE UNCHANGED vars
  BY <1>6 DEF vars, database, observed, IInv, TypeOK, RowsOwned, GrantsExist, RequestsWellFormed,
     WellFormed, StaleAreListed, ReadsCurrent, Undisturbed, SweepsCurrent, SweepCurrent,
     GrantsSeenBy, NoPermissionOutlivesItsFunctions, Unassigned, DeclaredIsInForce,
     Loaded, OwnedBy, ResourcesFollowApplications, Busy
<1> QED BY <1>1, <1>2, <1>3, <1>4, <1>5, <1>6 DEF Next

\* The invariant, for any applications, functions, permissions and contracts.
THEOREM Invariant == Spec => []IInv
<1>1. Init => IInv
  <2> SUFFICES ASSUME Init PROVE IInv
    OBVIOUS
  <2>1. TypeOK
    BY DEF Init, TypeOK, Declaration, Nothing
  <2>2. \A w \in Worker : ~Busy(w)
    BY DEF Init, Busy
  <2>3. /\ RowsOwned /\ GrantsExist
        /\ NoPermissionOutlivesItsFunctions /\ DeclaredIsInForce
        /\ ResourcesFollowApplications
    BY DEF Init, RowsOwned, GrantsExist, NoPermissionOutlivesItsFunctions, Unassigned,
           DeclaredIsInForce, ResourcesFollowApplications
  <2>4. RequestsWellFormed /\ StaleAreListed /\ ReadsCurrent /\ SweepsCurrent
    BY <2>2 DEF Init, RequestsWellFormed, StaleAreListed, ReadsCurrent, SweepsCurrent
  <2> QED BY <2>1, <2>3, <2>4 DEF IInv
<1> QED BY <1>1, NextKeepsInv, PTL DEF Spec

\* The variables keep their types.
THEOREM TypeCorrect == Spec => []TypeOK
<1>1. IInv => TypeOK
  BY DEF IInv
<1> QED BY <1>1, Invariant, PTL

\* No permission is left behind that no function contains, as long as no contract without
\* a function list was committed on rows that another contract had changed.
THEOREM PermissionsNeverOutliveFunctions == Spec => []NoPermissionOutlivesItsFunctions
<1>1. IInv => NoPermissionOutlivesItsFunctions
  BY DEF IInv
<1> QED BY <1>1, Invariant, PTL

\* Each application's functions and assignments are what its last contract listed, as long
\* as no contract was committed on rows that another one had changed.
THEOREM DeclaredIsAlwaysInForce == Spec => []DeclaredIsInForce
<1>1. IInv => DeclaredIsInForce
  BY DEF IInv
<1> QED BY <1>1, Invariant, PTL

\* An application is without its resource only between the two commits of its first
\* contract, or after a process stopped there.
THEOREM ResourcesAlwaysFollow == Spec => []ResourcesFollowApplications
<1>1. IInv => ResourcesFollowApplications
  BY DEF IInv
<1> QED BY <1>1, Invariant, PTL

\* A contract that lists what is in force changes no row when it is committed: nothing is
\* to be saved, and its sweep, which is its own application's, would have to hold a
\* permission that it lists.
THEOREM ReapplyingNeverChangesAnything == Spec => ReapplyingChangesNothing
<1>1. ASSUME IInv, NEW w \in Worker, CommitA3S(w), intact', DeclaredByOne,
             req[w].app \in apps, req[w].decl = inForce[req[w].app]
      PROVE  UNCHANGED <<apps, owner, grants, perms>>
  <2> DEFINE r == req[w]
  <2>1. /\ intact /\ w \notin stale
        /\ apps' = apps \cup {r.app}
        /\ owner' = OwnerAfter(r)
        /\ grants' = [f \in AppFun |-> GrantsSeenBy(w)[f] \ r.sweep]
        /\ perms' = (perms \cup MissingPerms(r)) \ r.sweep
        /\ r.sweep \subseteq perms
    BY <1>1 DEF CommitA3S, Accepted
  <2>2. Busy(w) /\ r \in Contract /\ WellFormed(r) /\ r.stage # "halfway"
    BY <1>1, CommitRequest
  <2>3. /\ r.sweep \subseteq Declarable[r.app]
        /\ \A f \in AppFun :
             /\ f \in r.seen.names <=> owner[f] = r.app
             /\ r.seen.perms[f] = IF owner[f] = r.app THEN grants[f] ELSE {}
             /\ r.sweep \cap r.decl.perms[f] = {}
    BY <1>1, <2>1, <2>2 DEF IInv, ReadsCurrent, Undisturbed
  <2>4. \A f \in AppFun : /\ f \in r.decl.names <=> f \in r.seen.names
                          /\ r.decl.perms[f] = r.seen.perms[f]
    <3>1. r.decl = Loaded(r.app)
      BY <1>1, <2>1 DEF IInv, DeclaredIsInForce
    <3> QED BY <1>1, <2>3, <3>1, LoadedRows DEF IInv, OwnedBy
  <2>5. r.decl.names \subseteq AppFun /\ r.app \in App
    BY <2>2, ContractFields
  <2>6. MissingPerms(r) = {}
    BY <2>4, <2>5 DEF MissingPerms, Missing, Inserts
  <2>7. \A f \in AppFun : GrantsSeenBy(w)[f] = grants[f]
    BY <1>1, <2>2, <2>4, RowsSeen, MergedUnchanged DEF IInv
  <2>8. r.sweep = {}
    <3> SUFFICES ASSUME NEW p \in r.sweep PROVE FALSE
      OBVIOUS
    <3>1. PICK f \in AppFun : p \in grants[f]
      BY <1>1, <2>1 DEF IInv, NoPermissionOutlivesItsFunctions, Unassigned
    <3>2. owner[f] \in App /\ p \in Declarable[owner[f]]
      BY <1>1, <3>1 DEF IInv, RowsOwned, TypeOK
    <3>3. owner[f] = r.app
      BY <1>1, <2>3, <2>5, <3>2 DEF DeclaredByOne
    <3> QED BY <2>3, <2>4, <3>1, <3>3
  <2>9. owner' = owner
    BY <1>1, <2>1, <2>4 DEF OwnerAfter, IInv, TypeOK
  <2>10. grants' = grants
    BY <1>1, <2>1, <2>7, <2>8 DEF IInv, TypeOK
  <2> QED BY <1>1, <2>1, <2>6, <2>8, <2>9, <2>10
<1>2. IInv /\ [Next]_vars =>
        [\A w \in Worker :
           CommitA3S(w) /\ intact' /\ DeclaredByOne
             /\ req[w].app \in apps /\ req[w].decl = inForce[req[w].app]
             => UNCHANGED <<apps, owner, grants, perms>>]_vars
  BY <1>1
<1> QED BY <1>2, Invariant, PTL DEF Spec, ReapplyingChangesNothing

-----------------------------------------------------------------------------
\* A commit that overtook nobody is one step of the abstract specification.
LEMMA CommitPuts ==
  ASSUME IInv, NEW w \in Worker, CommitA3S(w), intact', DeclaredByOne
  PROVE  Desired!Put(req[w].app, req[w].decl)
<1> DEFINE r == req[w]
<1>1. Busy(w) /\ r \in Contract
  BY CommitRequest
<1>2. r.app \in App /\ r.decl \in Declaration
  BY <1>1, ContractFields
<1>3. ASSUME NEW b \in App \ {r.app} PROVE Loaded(b).names \cap r.decl.names = {}
  <2> SUFFICES ASSUME NEW f \in AppFun, owner[f] = b, f \in r.decl.names PROVE FALSE
    BY <1>1, LoadedRows, ContractFields DEF IInv, OwnedBy
  <2>1. owner'[f] = b
    BY <1>3, CommitSparesOthers
  <2>2. owner'[f] = r.app
    BY CommitPutsInForce
  <2> QED BY <1>3, <2>1, <2>2
<1>4. [a \in App |-> Loaded(a)]' = [[a \in App |-> Loaded(a)] EXCEPT ![r.app] = r.decl]
  <2>1. \A a \in App : Loaded(a)' = IF a = r.app THEN r.decl ELSE Loaded(a)
    BY CommitLoaded
  <2> QED BY <1>2, <2>1
<1>5. perms' = UNION {Loaded(a)'.perms[f] : a \in App, f \in AppFun}
  <2>1. \A a \in App, f \in AppFun :
          Loaded(a)'.perms[f] = IF owner'[f] = a THEN grants'[f] ELSE {}
    BY DEF Loaded
  <2>2. \A f \in AppFun : grants'[f] \subseteq perms'
    BY CommitKeepsGrantsExist DEF GrantsExist
  <2>3. ASSUME NEW p \in perms'
        PROVE  \E a \in App, f \in AppFun : p \in Loaded(a)'.perms[f]
    <3>1. PICK f \in AppFun : p \in grants'[f]
      BY CommitKeepsAssigned DEF NoPermissionOutlivesItsFunctions, Unassigned
    <3>2. owner'[f] \in App
      BY <3>1, CommitKeepsTypes, CommitKeepsRowsOwned DEF TypeOK, RowsOwned
    <3> QED BY <2>1, <3>1, <3>2
  <2> QED BY <2>1, <2>2, <2>3
<1>6. apps' = apps \cup {r.app} /\ intact' = intact
  BY DEF CommitA3S, IInv, TypeOK
<1>7. \A f \in AppFun : r.decl.perms[f] \subseteq Declarable[r.app]
  BY CommitRequest DEF WellFormed
<1> QED BY <1>3, <1>4, <1>5, <1>6, <1>7 DEF Desired!Put, Desired!Contained

\* Contracts implement the abstract specification, for any applications, functions and
\* permissions: a contract's many statements are one step, and all others are none.
THEOREM ContractsImplementDesiredState == Spec => ImplementsDesiredState
<1>1. Init => Desired!Init
  <2> SUFFICES ASSUME Init PROVE Desired!Init
    OBVIOUS
  <2>1. \A a \in App : Loaded(a) = Nothing
    BY NoneAssumption DEF Init, Loaded, OwnedBy, Nothing
  <2>2. [a \in App |-> Loaded(a)] = [a \in App |-> [names |-> {}, perms |-> [f \in AppFun |-> {}]]]
    BY <2>1 DEF Nothing
  <2> QED BY <2>2 DEF Init, Desired!Init
<1>2. IInv /\ [Next]_vars => [Desired!Next]_(Desired!vars)
  <2> SUFFICES ASSUME IInv, [Next]_vars
               PROVE  [Desired!Next]_(Desired!vars)
    OBVIOUS
  <2>1. ASSUME UNCHANGED <<apps, owner, grants, perms, intact>>
        PROVE  UNCHANGED Desired!vars
    BY <2>1 DEF Desired!vars, Loaded, OwnedBy
  <2>2. ASSUME NEW w \in Worker, CommitA3S(w), intact', DeclaredByOne
        PROVE  Desired!Next
    <3>1. req[w].app \in App /\ req[w].decl \in Desired!Declaration
      BY <2>2, CommitRequest, ContractFields DEF Desired!Declaration, Declaration
    <3> QED BY <2>2, <3>1, CommitPuts DEF Desired!Next
  <2>3. ASSUME NEW w \in Worker, CommitA3S(w), ~(intact' /\ DeclaredByOne)
        PROVE  Desired!Next
    <3>1. TypeOK'
      BY <2>3, CommitKeepsTypes
    <3>2. [a \in App |-> Loaded(a)]' \in [App -> Desired!Declaration]
      BY <3>1 DEF TypeOK, Loaded, OwnedBy, Desired!Declaration
    <3>3. apps' \in SUBSET App /\ perms' \in SUBSET Perm
      BY <3>1 DEF TypeOK
    <3> QED BY <2>3, <3>2, <3>3 DEF Desired!Next, Desired!Race
  <2>4. ASSUME NEW w \in Worker,
               \/ LoadContract(w) \/ SaveFunctions(w) \/ SweepPermissions(w) \/ Rollback(w)
               \/ CommitIdentityServer(w) \/ LoseIdentityServer(w)
        PROVE  UNCHANGED Desired!vars
    BY <2>1, <2>4 DEF LoadContract, SaveFunctions, SweepPermissions, Rollback,
                      CommitIdentityServer, LoseIdentityServer, database, observed
  <2>5. CASE UNCHANGED vars
    BY <2>1, <2>5 DEF vars, database, observed
  <2> QED BY <2>2, <2>3, <2>4, <2>5 DEF Next
<1> QED BY <1>1, <1>2, Invariant, PTL DEF Spec, ImplementsDesiredState, Desired!Spec

=============================================================================
