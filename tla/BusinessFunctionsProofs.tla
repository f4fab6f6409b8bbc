----------------------- MODULE BusinessFunctionsProofs -----------------------
(***************************************************************************)
(* The functions of the business keep to permissions of one application,    *)
(* and a default configuration that nobody overtook is in force, for any    *)
(* applications, functions, permissions and workers.                        *)
(***************************************************************************)
EXTENDS BusinessFunctionsProperties, TLAPS

\* A function that does not exist has no rows.
RowsOfFunctions == \A f \in Fun \ funs : perms[f] = {} /\ app[f] = None

\* An application contains what it may declare.
GrantsDeclared == \A h \in AppFun : grants[h] \subseteq Declarable[Owner[h]]

\* The loop over the default functions reaches functions that were listed.
RequestsWellFormed ==
    \A w \in Worker : req[w].kind = "default" => req[w].reached \subseteq req[w].names

\* What a request has read still holds; what it has not looked up it takes for empty.
Current(r) ==
    /\ r.kind = "function" =>
         /\ r.saw = perms[r.fun]
         /\ \A p \in r.asked \ r.todo : Holders(grants, r.app, p) # {}
    /\ r.kind = "default" =>
         /\ r.sawFuns = FunsOf(r.app)
         /\ \A f \in r.sawFuns : r.saw[f] = perms[f]
         /\ r.looked => \A f \in r.reached : r.saw[f] = perms[f]
         /\ ~r.looked => \A f \in Fun \ r.sawFuns : r.saw[f] = {}
         /\ \A f \in r.reached : \A p \in r.asked[f] : Holders(grants, r.app, p) # {}

ReadsCurrent == \A w \in Worker \ stale : Current(req[w])

IInv ==
    /\ TypeOK /\ RowsOfFunctions /\ GrantsDeclared /\ RequestsWellFormed /\ ReadsCurrent
    /\ FunctionsWithinOneApplication

Requests == FunctionRequest \cup DeleteRequest \cup DefaultRequest

\* A save compared with current rows is a replacement.
LEMMA MergedCurrent ==
  ASSUME NEW db, NEW asked
  PROVE  Merged(db, db, asked) = asked
BY DEF Merged, Deletes, Inserts

\* A save adds only what was asked for.
LEMMA MergedBounds ==
  ASSUME NEW db, NEW seen, NEW asked
  PROVE  Merged(db, seen, asked) \subseteq db \cup asked
BY DEF Merged, Deletes, Inserts

\* An invariant of the tables is kept by a step that leaves them alone.
LEMMA TablesStay ==
  ASSUME IInv, UNCHANGED <<tables, intact>>
  PROVE  RowsOfFunctions' /\ GrantsDeclared' /\ FunctionsWithinOneApplication'
BY DEF IInv, tables, RowsOfFunctions, GrantsDeclared, FunctionsWithinOneApplication, PermsOf,
       Holders

-----------------------------------------------------------------------------
\* The three loads begin well-formed requests whose reads are current.
LEMMA LoadedRequest ==
  ASSUME IInv, NEW w \in Worker, LoadFunction(w) \/ LoadForDeletion(w) \/ LoadDefaults(w)
  PROVE  \E r \in Requests :
            /\ Start(w, r) /\ Current(r)
            /\ r.kind = "default" => r.reached \subseteq r.names
<1>1. CASE LoadFunction(w)
  <2>1. PICK f \in Fun, a \in App, P \in SUBSET Perm :
          Start(w, [kind |-> "function", fun |-> f, fresh |-> f \notin funs, app |-> a,
                    asked |-> P, todo |-> P, saw |-> perms[f]])
    BY <1>1 DEF LoadFunction
  <2> DEFINE r == [kind |-> "function", fun |-> f, fresh |-> f \notin funs, app |-> a,
                   asked |-> P, todo |-> P, saw |-> perms[f]]
  <2>2. r \in FunctionRequest
    BY DEF FunctionRequest, IInv, TypeOK
  <2>3. Current(r) /\ r.kind # "default"
    BY DEF Current
  <2> QED BY <2>1, <2>2, <2>3 DEF Requests
<1>2. CASE LoadForDeletion(w)
  <2>1. PICK f \in funs : Start(w, [kind |-> "delete", fun |-> f, saw |-> perms[f]])
    BY <1>2 DEF LoadForDeletion
  <2> DEFINE r == [kind |-> "delete", fun |-> f, saw |-> perms[f]]
  <2>2. r \in DeleteRequest
    BY DEF DeleteRequest, IInv, TypeOK
  <2>3. Current(r) /\ r.kind # "default"
    BY DEF Current
  <2> QED BY <2>1, <2>2, <2>3 DEF Requests
<1>3. CASE LoadDefaults(w)
  <2>0. \A a \in App : PermsOf(grants, a) \in SUBSET Perm
    BY DEF PermsOf
  <2>1. PICK a \in App, N \in SUBSET Fun, R \in SUBSET Fun,
             P \in [Fun -> SUBSET Perm] :
          /\ R \subseteq N /\ \A f \in Fun : P[f] \subseteq PermsOf(grants, a)
          /\ Start(w, [kind |-> "default", app |-> a, names |-> N, reached |-> R, asked |-> P,
                    sawFuns |-> FunsOf(a),
                    saw |-> [f \in Fun |-> IF f \in FunsOf(a) THEN perms[f] ELSE {}],
                    looked |-> FALSE, found |-> {}])
    BY <1>3, <2>0 DEF LoadDefaults
  <2> DEFINE r == [kind |-> "default", app |-> a, names |-> N, reached |-> R, asked |-> P,
                   sawFuns |-> FunsOf(a),
                   saw |-> [f \in Fun |-> IF f \in FunsOf(a) THEN perms[f] ELSE {}],
                   looked |-> FALSE, found |-> {}]
  <2>2. FunsOf(a) \in SUBSET Fun
    BY DEF FunsOf, IInv, TypeOK
  <2>3. [f \in Fun |-> IF f \in FunsOf(a) THEN perms[f] ELSE {}] \in [Fun -> SUBSET Perm]
    BY DEF IInv, TypeOK
  <2>5. r \in DefaultRequest
    BY <2>2, <2>3 DEF DefaultRequest
  <2>6. Current(r)
    BY <2>1, <2>2 DEF Current, PermsOf
  <2> QED BY <2>1, <2>5, <2>6 DEF Requests
<1> QED BY <1>1, <1>2, <1>3

\* Beginning a request reads the tables and writes nothing.
LEMMA LoadKeepsInv ==
  ASSUME IInv, NEW w \in Worker, LoadFunction(w) \/ LoadForDeletion(w) \/ LoadDefaults(w)
  PROVE  IInv'
<1>1. PICK r \in Requests :
        /\ Start(w, r) /\ Current(r)
        /\ r.kind = "default" => r.reached \subseteq r.names
  BY LoadedRequest
<1>2. /\ req' = [req EXCEPT ![w] = r]
      /\ UNCHANGED <<grants, funs, app, perms, stale, intact>>
  BY <1>1 DEF Start, tables
<1>3. TypeOK'
  BY <1>1, <1>2 DEF IInv, TypeOK, Requests
<1>4. RequestsWellFormed'
  BY <1>1, <1>2 DEF IInv, TypeOK, RequestsWellFormed
<1>5. ReadsCurrent'
  BY <1>1, <1>2 DEF IInv, TypeOK, ReadsCurrent, Current, FunsOf
<1> QED BY <1>2, <1>3, <1>4, <1>5, TablesStay DEF IInv, tables

\* A check reads a permission and takes it off the list.
LEMMA CheckKeepsInv ==
  ASSUME IInv, NEW w \in Worker, CheckPermission(w)
  PROVE  IInv'
<1>1. PICK p \in req[w].todo :
        /\ req[w].kind = "function"
        /\ Holders(grants, req[w].app, p) # {}
        /\ req' = [req EXCEPT ![w].todo = @ \ {p}]
        /\ UNCHANGED <<grants, funs, app, perms, stale, intact>>
  BY DEF CheckPermission, tables
<1>2. req[w] \in FunctionRequest
  BY <1>1 DEF IInv, TypeOK, Idle, DeleteRequest, DefaultRequest
<1>3. TypeOK'
  BY <1>1, <1>2 DEF IInv, TypeOK, FunctionRequest
<1>4. RequestsWellFormed'
  BY <1>1, <1>2 DEF IInv, TypeOK, RequestsWellFormed, FunctionRequest
<1>5. ReadsCurrent'
  <2> SUFFICES ASSUME NEW v \in Worker \ stale' PROVE Current(req[v])'
    BY DEF ReadsCurrent
  <2>1. Current(req[v])
    BY <1>1 DEF IInv, ReadsCurrent
  <2>2. CASE v = w
    BY <1>1, <1>2, <2>1, <2>2 DEF IInv, TypeOK, Current, FunctionRequest
  <2>3. CASE v # w
    BY <1>1, <2>1, <2>3 DEF IInv, TypeOK, Current, FunsOf
  <2> QED BY <2>2, <2>3
<1> QED BY <1>1, <1>3, <1>4, <1>5, TablesStay DEF IInv, tables

\* What the look-up leaves of a request.
LEMMA LookedUp ==
  ASSUME NEW r \in DefaultRequest, NEW found, NEW saw
  PROVE  LET q == [r EXCEPT !.looked = TRUE, !.found = found, !.saw = saw] IN
         /\ q.kind = "default" /\ q.looked /\ q.saw = saw /\ q.app = r.app
         /\ q.names = r.names /\ q.reached = r.reached /\ q.asked = r.asked
         /\ q.sawFuns = r.sawFuns
BY DEF DefaultRequest

\* The functions are looked up by name: the rows of one that is not the application's are
\* added to none that had been loaded.
LEMMA LookUpKeepsInv ==
  ASSUME IInv, NEW w \in Worker, LookUpDefaults(w)
  PROVE  IInv'
<1> DEFINE r == req[w]
           saw == [f \in Fun |-> IF f \in r.reached \cap funs THEN r.saw[f] \cup perms[f]
                                                             ELSE r.saw[f]]
<1>1. /\ r.kind = "default" /\ ~r.looked
      /\ req' = [req EXCEPT ![w].looked = TRUE, ![w].found = r.reached \cap funs, ![w].saw = saw]
      /\ UNCHANGED <<grants, funs, app, perms, stale, intact>>
  BY DEF LookUpDefaults, tables
<1>2. r \in DefaultRequest
  BY <1>1 DEF IInv, TypeOK, Idle, DeleteRequest, FunctionRequest
<1>3. saw \in [Fun -> SUBSET Perm]
  BY <1>2 DEF DefaultRequest, IInv, TypeOK
<1>4. \A f \in Fun : saw[f] = IF f \in r.reached \cap funs THEN r.saw[f] \cup perms[f]
                                                          ELSE r.saw[f]
  OBVIOUS
<1>5. req'[w] = [r EXCEPT !.looked = TRUE, !.found = r.reached \cap funs, !.saw = saw]
  BY <1>1 DEF IInv, TypeOK
<1>6. \A v \in Worker \ {w} : req'[v] = req[v]
  BY <1>1 DEF IInv, TypeOK
<1> HIDE DEF saw
<1>7. req'[w] \in DefaultRequest
  BY <1>2, <1>3, <1>5 DEF DefaultRequest
<1>8. /\ req'[w].kind = "default" /\ req'[w].looked /\ req'[w].saw = saw
      /\ req'[w].app = r.app /\ req'[w].sawFuns = r.sawFuns /\ req'[w].names = r.names
      /\ req'[w].reached = r.reached /\ req'[w].asked = r.asked
  BY <1>2, <1>5, LookedUp
<1>9. TypeOK'
  <2>1. req' \in [Worker -> {Idle} \cup FunctionRequest \cup DeleteRequest \cup DefaultRequest]
    BY <1>1, <1>6, <1>7 DEF IInv, TypeOK
  <2> QED BY <1>1, <2>1 DEF IInv, TypeOK
<1>10. RequestsWellFormed'
  <2> SUFFICES ASSUME NEW v \in Worker, req'[v].kind = "default"
               PROVE  req'[v].reached \subseteq req'[v].names
    BY DEF RequestsWellFormed
  <2>1. req[v].kind = "default" => req[v].reached \subseteq req[v].names
    BY DEF IInv, RequestsWellFormed
  <2> QED BY <1>1, <1>6, <1>8, <2>1
<1>11. ReadsCurrent'
  <2> SUFFICES ASSUME NEW v \in Worker \ stale' PROVE Current(req[v])'
    BY DEF ReadsCurrent
  <2>1. Current(req[v])
    BY <1>1 DEF IInv, ReadsCurrent
  <2>2. CASE v = w
    <3>1. /\ r.sawFuns = FunsOf(r.app)
          /\ \A f \in r.sawFuns : r.saw[f] = perms[f]
          /\ \A f \in Fun \ r.sawFuns : r.saw[f] = {}
          /\ \A f \in r.reached : \A p \in r.asked[f] : Holders(grants, r.app, p) # {}
      BY <1>1, <2>1, <2>2 DEF Current
    <3>2. r.sawFuns \subseteq funs /\ funs \subseteq Fun /\ r.reached \subseteq Fun
      BY <1>2, <3>1 DEF FunsOf, IInv, TypeOK, DefaultRequest
    <3>3. \A f \in Fun \ funs : perms[f] = {}
      BY DEF IInv, RowsOfFunctions
    <3>4. \A f \in r.sawFuns \cup r.reached : saw[f] = perms[f]
      BY <1>4, <3>1, <3>2, <3>3
    <3>5. req'[w].sawFuns = FunsOf(r.app)'
      BY <1>1, <1>8, <3>1 DEF FunsOf
    <3>6. /\ \A f \in req'[w].sawFuns : req'[w].saw[f] = perms'[f]
          /\ \A f \in req'[w].reached : req'[w].saw[f] = perms'[f]
      BY <1>1, <1>8, <3>4
    <3>7. \A f \in req'[w].reached : \A p \in req'[w].asked[f] : Holders(grants', r.app, p) # {}
      BY <1>1, <1>8, <3>1
    <3> QED BY <1>8, <2>2, <3>5, <3>6, <3>7 DEF Current
  <2>3. CASE v # w
    <3>1. req'[v] = req[v]
      BY <1>6, <2>3
    <3> QED BY <1>1, <2>1, <3>1 DEF Current, FunsOf
  <2> QED BY <2>2, <2>3
<1> QED BY <1>1, <1>9, <1>10, <1>11, TablesStay DEF IInv, tables

\* A request that gives up leaves the tables and the other requests alone.
LEMMA RejectKeepsInv ==
  ASSUME IInv, NEW w \in Worker, Reject(w)
  PROVE  IInv'
<1>1. /\ req' = [req EXCEPT ![w] = Idle] /\ stale' = stale \ {w}
      /\ UNCHANGED <<grants, funs, app, perms, intact>>
  BY DEF Reject, tables
<1>2. TypeOK'
  BY <1>1 DEF IInv, TypeOK
<1>3. RequestsWellFormed'
  BY <1>1 DEF IInv, TypeOK, RequestsWellFormed, Idle
<1>4. ReadsCurrent'
  <2> SUFFICES ASSUME NEW v \in Worker \ stale' PROVE Current(req[v])'
    BY DEF ReadsCurrent
  <2>1. CASE v = w
    BY <1>1, <2>1 DEF IInv, TypeOK, Current, Idle
  <2>2. CASE v # w
    BY <1>1, <2>2 DEF IInv, TypeOK, ReadsCurrent, Current, FunsOf
  <2> QED BY <2>1, <2>2
<1> QED BY <1>1, <1>2, <1>3, <1>4, TablesStay DEF IInv, tables

-----------------------------------------------------------------------------
\* After a save, the requests that were not overtaken still have current reads.
LEMMA FinishKeepsRequests ==
  ASSUME IInv, NEW w \in Worker, Finish(w)
  PROVE  ReadsCurrent' /\ RequestsWellFormed'
<1>1. req' = [req EXCEPT ![w] = Idle]
  BY DEF Finish
<1>2. RequestsWellFormed'
  BY <1>1 DEF IInv, TypeOK, RequestsWellFormed, Idle
<1>3. ReadsCurrent'
  <2> SUFFICES ASSUME NEW v \in Worker \ stale' PROVE Current(req[v])'
    BY DEF ReadsCurrent
  <2>1. CASE v = w
    BY <1>1, <2>1 DEF Current, Idle, IInv, TypeOK
  <2>2. CASE v # w
    <3>1. /\ req'[v] = req[v]
          /\ v \notin stale
          /\ ~Overtakes(req[v])
      BY <2>2 DEF Finish, IInv, TypeOK
    <3>2. Current(req[v])
      BY <3>1 DEF IInv, ReadsCurrent
    <3>3. /\ \A f \in FunsRead(req[v]) : perms'[f] = perms[f]
          /\ \A p \in PermsRead(req[v]) :
               Holders(grants', req[v].app, p) = Holders(grants, req[v].app, p)
          /\ req[v].kind = "default" =>
               {f \in funs' : app'[f] = req[v].app} = FunsOf(req[v].app)
      BY <3>1 DEF Overtakes
    <3>4. CASE req[v].kind = "function"
      <4>1. /\ FunsRead(req[v]) = {req[v].fun}
            /\ PermsRead(req[v]) = req[v].asked \ req[v].todo
        BY <3>4 DEF FunsRead, PermsRead
      <4> QED BY <3>1, <3>2, <3>3, <3>4, <4>1 DEF Current
    <3>5. CASE req[v].kind = "default"
      <4>1. /\ req[v].sawFuns \subseteq FunsRead(req[v])
            /\ req[v].looked => req[v].reached \subseteq FunsRead(req[v])
            /\ \A f \in req[v].reached : req[v].asked[f] \subseteq PermsRead(req[v])
        BY <3>5 DEF FunsRead, PermsRead
      <4>2. FunsOf(req[v].app)' = FunsOf(req[v].app)
        BY <3>1, <3>3, <3>5 DEF FunsOf
      <4> QED BY <3>1, <3>2, <3>3, <3>5, <4>1, <4>2 DEF Current
    <3> QED BY <3>1, <3>4, <3>5 DEF Current
  <2> QED BY <2>1, <2>2
<1> QED BY <1>2, <1>3

\* What a save that nobody overtook gives a function is its application's.
LEMMA CommitFunctionKeepsInv ==
  ASSUME IInv, NEW w \in Worker, CommitFunction(w)
  PROVE  IInv'
<1> DEFINE r == req[w]
           f == r.fun
<1>1. /\ r.kind = "function" /\ r.todo = {}
      /\ funs' = funs \cup {f}
      /\ app' = [app EXCEPT ![f] = r.app]
      /\ perms' = [perms EXCEPT ![f] = Merged(perms[f], r.saw, r.asked)]
      /\ UNCHANGED grants
      /\ Finish(w)
  BY DEF CommitFunction
<1>2. r \in FunctionRequest
  BY <1>1 DEF IInv, TypeOK, Idle, DeleteRequest, DefaultRequest
<1>3. f \in Fun /\ r.app \in App /\ r.asked \in SUBSET Perm
  BY <1>2 DEF FunctionRequest
<1>4. Merged(perms[f], r.saw, r.asked) \in SUBSET Perm
  BY <1>3, MergedBounds DEF IInv, TypeOK
<1>5. w \notin stale => /\ Merged(perms[f], r.saw, r.asked) = r.asked
                        /\ r.asked \subseteq PermsOf(grants, r.app)
  <2>1. ASSUME w \notin stale
        PROVE  /\ r.saw = perms[f]
               /\ \A p \in r.asked : Holders(grants, r.app, p) # {}
    BY <1>1, <2>1 DEF IInv, ReadsCurrent, Current
  <2> QED BY <1>3, <2>1, MergedCurrent DEF PermsOf
<1>6. /\ intact' = (intact /\ w \notin stale)
      /\ req' = [req EXCEPT ![w] = Idle]
      /\ stale' \in SUBSET Worker
  BY <1>1 DEF Finish
<1> HIDE DEF r, f
<1>7. TypeOK'
  BY <1>1, <1>3, <1>4, <1>6 DEF IInv, TypeOK
<1>8. RowsOfFunctions' /\ GrantsDeclared'
  BY <1>1, <1>3 DEF IInv, TypeOK, RowsOfFunctions, GrantsDeclared
<1>9. FunctionsWithinOneApplication'
  <2> SUFFICES ASSUME intact', DeclaredByOne, NEW g \in funs', app'[g] # None
               PROVE  perms'[g] \subseteq PermsOf(grants', app'[g])
    BY DEF FunctionsWithinOneApplication
  <2>1. CASE g = f
    BY <1>1, <1>3, <1>5, <1>6, <2>1 DEF IInv, TypeOK
  <2>2. CASE g # f
    <3>1. g \in funs /\ app'[g] = app[g] /\ perms'[g] = perms[g]
      BY <1>1, <1>3, <2>2 DEF IInv, TypeOK
    <3> QED BY <1>1, <1>6, <3>1 DEF IInv, FunctionsWithinOneApplication
  <2> QED BY <2>1, <2>2
<1> QED BY <1>1, <1>7, <1>8, <1>9, FinishKeepsRequests DEF IInv

\* A deletion takes the function's rows with it.
LEMMA CommitDeletionKeepsInv ==
  ASSUME IInv, NEW w \in Worker, CommitDeletion(w)
  PROVE  IInv'
<1> DEFINE f == req[w].fun
<1>1. /\ f \in funs
      /\ funs' = funs \ {f}
      /\ app' = [app EXCEPT ![f] = None]
      /\ perms' = [perms EXCEPT ![f] = {}]
      /\ UNCHANGED grants
      /\ Finish(w)
  BY DEF CommitDeletion
<1>2. intact' \in BOOLEAN /\ (intact' => intact) /\ stale' \in SUBSET Worker
      /\ req' = [req EXCEPT ![w] = Idle]
  BY <1>1 DEF Finish, IInv, TypeOK
<1> HIDE DEF f
<1>3. TypeOK'
  BY <1>1, <1>2 DEF IInv, TypeOK
<1>4. RowsOfFunctions' /\ GrantsDeclared'
  BY <1>1 DEF IInv, TypeOK, RowsOfFunctions, GrantsDeclared
<1>5. FunctionsWithinOneApplication'
  <2>1. \A g \in funs' : g \in funs /\ app'[g] = app[g] /\ perms'[g] = perms[g]
    BY <1>1 DEF IInv, TypeOK
  <2> QED BY <1>1, <1>2, <2>1 DEF IInv, FunctionsWithinOneApplication, PermsOf, Holders
<1> QED BY <1>1, <1>3, <1>4, <1>5, FinishKeepsRequests DEF IInv

\* The rows a default configuration leaves, if nothing overtook it exactly the permissions
\* that are listed, which are the application's.
LEMMA CommitDefaultsRows ==
  ASSUME IInv, NEW w \in Worker, CommitDefaults(w)
  PROVE  LET r == req[w] IN
         /\ r \in DefaultRequest /\ r.reached \subseteq r.names
         /\ r.sawFuns \subseteq funs
         /\ perms' \in [Fun -> SUBSET Perm] /\ app' \in [Fun -> App \cup {None}]
         /\ \A f \in Fun \ r.reached :
               /\ f \in Removed(r) => perms'[f] = {} /\ app'[f] = None
               /\ f \in Severed(r) => app'[f] = None
               /\ f \notin Removed(r) => perms'[f] = perms[f]
               /\ f \notin Removed(r) \cup Severed(r) => app'[f] = app[f]
         /\ \A f \in r.reached : app'[f] = r.app
         /\ w \notin stale =>
               /\ r.sawFuns = FunsOf(r.app)
               /\ \A f \in r.reached : /\ perms'[f] = r.asked[f]
                                       /\ r.asked[f] \subseteq PermsOf(grants, r.app)
<1> DEFINE r == req[w]
<1>1. /\ r.kind = "default" /\ r.looked
      /\ r.sawFuns \subseteq funs
      /\ app' = [f \in Fun |-> CASE f \in r.reached -> r.app
                                 [] f \in Removed(r) \cup Severed(r) -> None
                                 [] OTHER -> app[f]]
      /\ perms' = [f \in Fun |->
                     CASE f \in r.reached -> Merged(perms[f], r.saw[f], r.asked[f])
                       [] f \in Removed(r) -> {}
                       [] OTHER -> perms[f]]
  BY DEF CommitDefaults
<1>2. r \in DefaultRequest
  BY <1>1 DEF IInv, TypeOK, Idle, DeleteRequest, FunctionRequest
<1>3. r.reached \subseteq r.names
  BY <1>1 DEF IInv, RequestsWellFormed
<1>4. /\ r.reached \subseteq Fun /\ r.app \in App
      /\ r.asked \in [Fun -> SUBSET Perm]
  BY <1>2 DEF DefaultRequest
<1> HIDE DEF r
<1>5. \A f \in Fun \ r.reached :
        /\ f \in Removed(r) => perms'[f] = {} /\ app'[f] = None
        /\ f \in Severed(r) => app'[f] = None
        /\ f \notin Removed(r) => perms'[f] = perms[f]
        /\ f \notin Removed(r) \cup Severed(r) => app'[f] = app[f]
  BY <1>1
<1>6. \A f \in r.reached : /\ perms'[f] = Merged(perms[f], r.saw[f], r.asked[f])
                           /\ app'[f] = r.app
  <2> SUFFICES ASSUME NEW f \in r.reached
               PROVE  /\ perms'[f] = Merged(perms[f], r.saw[f], r.asked[f])
                      /\ app'[f] = r.app
    OBVIOUS
  <2>1. f \in Fun /\ f \notin Removed(r) \cup Severed(r)
    BY <1>3, <1>4 DEF Removed, Severed
  <2>2. app'[f] = r.app
    BY <1>1, <2>1
  <2>3. perms'[f] = Merged(perms[f], r.saw[f], r.asked[f])
    BY <1>1, <2>1
  <2> QED BY <2>2, <2>3
<1>7. app' \in [Fun -> App \cup {None}]
  BY <1>1, <1>4 DEF IInv, TypeOK
<1>8. perms' \in [Fun -> SUBSET Perm]
  <2>1. \A f \in Fun : perms'[f] \in SUBSET Perm
    <3> SUFFICES ASSUME NEW f \in Fun PROVE perms'[f] \in SUBSET Perm
      OBVIOUS
    <3>1. perms[f] \in SUBSET Perm /\ r.asked[f] \in SUBSET Perm
      BY <1>4 DEF IInv, TypeOK
    <3>2. CASE f \in r.reached
      BY <1>6, <3>1, <3>2, MergedBounds
    <3>3. CASE f \notin r.reached
      BY <1>5, <3>1, <3>3
    <3> QED BY <3>2, <3>3
  <2>2. perms' = [f \in Fun |-> perms'[f]]
    BY <1>1
  <2> QED BY <2>1, <2>2
<1>9. ASSUME w \notin stale
      PROVE  /\ r.sawFuns = FunsOf(r.app)
             /\ \A f \in r.reached : /\ perms'[f] = r.asked[f]
                                     /\ r.asked[f] \subseteq PermsOf(grants, r.app)
  <2>1. Current(r)
    BY <1>9 DEF IInv, ReadsCurrent, r
  <2>2. /\ r.sawFuns = FunsOf(r.app)
        /\ \A f \in r.reached : r.saw[f] = perms[f]
        /\ \A f \in r.reached : \A p \in r.asked[f] : Holders(grants, r.app, p) # {}
    BY <1>1, <2>1 DEF Current
  <2>3. \A f \in r.reached : perms'[f] = r.asked[f]
    BY <1>6, <2>2, MergedCurrent
  <2>4. \A f \in r.reached : r.asked[f] \subseteq PermsOf(grants, r.app)
    BY <1>4, <2>2 DEF PermsOf
  <2> QED BY <2>2, <2>3, <2>4
<1> QED BY <1>1, <1>2, <1>3, <1>5, <1>6, <1>7, <1>8, <1>9 DEF r

\* What the configuration does not list loses its application, and with it the promise.
LEMMA CommitDefaultsKeepsInv ==
  ASSUME IInv, NEW w \in Worker, CommitDefaults(w)
  PROVE  IInv'
<1> DEFINE r == req[w]
<1>1. /\ r \in DefaultRequest /\ r.reached \subseteq r.names
      /\ r.sawFuns \subseteq funs
      /\ perms' \in [Fun -> SUBSET Perm] /\ app' \in [Fun -> App \cup {None}]
      /\ \A f \in Fun \ r.reached :
            /\ f \in Removed(r) => perms'[f] = {} /\ app'[f] = None
            /\ f \in Severed(r) => app'[f] = None
            /\ f \notin Removed(r) => perms'[f] = perms[f]
            /\ f \notin Removed(r) \cup Severed(r) => app'[f] = app[f]
      /\ \A f \in r.reached : app'[f] = r.app
      /\ w \notin stale => \A f \in r.reached : /\ perms'[f] = r.asked[f]
                                                /\ r.asked[f] \subseteq PermsOf(grants, r.app)
  BY CommitDefaultsRows
<1>2. /\ funs' = (funs \ Removed(r)) \cup r.reached
      /\ UNCHANGED grants
      /\ Finish(w)
  BY DEF CommitDefaults
<1>3. r.reached \subseteq Fun
  BY <1>1 DEF DefaultRequest
<1>4. /\ intact' = (intact /\ w \notin stale) /\ intact' \in BOOLEAN
      /\ stale' \in SUBSET Worker /\ req' = [req EXCEPT ![w] = Idle]
  BY <1>2 DEF Finish, IInv, TypeOK
<1> HIDE DEF r
<1>5. TypeOK'
  BY <1>1, <1>2, <1>3, <1>4 DEF IInv, TypeOK
<1>6. RowsOfFunctions'
  <2> SUFFICES ASSUME NEW f \in Fun \ funs' PROVE perms'[f] = {} /\ app'[f] = None
    BY DEF RowsOfFunctions
  <2>1. f \notin r.reached /\ (f \in Removed(r) \/ f \notin funs)
    BY <1>2
  <2>2. CASE f \in Removed(r)
    BY <1>1, <2>1, <2>2
  <2>3. CASE f \notin Removed(r)
    <3>1. f \notin Severed(r) /\ perms[f] = {} /\ app[f] = None
      BY <1>1, <2>1, <2>3 DEF Severed, IInv, RowsOfFunctions
    <3> QED BY <1>1, <2>1, <2>3, <3>1
  <2> QED BY <2>2, <2>3
<1>7. GrantsDeclared'
  BY <1>2 DEF IInv, GrantsDeclared
<1>8. FunctionsWithinOneApplication'
  <2> SUFFICES ASSUME intact', DeclaredByOne, NEW f \in funs', app'[f] # None
               PROVE  perms'[f] \subseteq PermsOf(grants', app'[f])
    BY DEF FunctionsWithinOneApplication
  <2>1. CASE f \in r.reached
    BY <1>1, <1>2, <1>4, <2>1
  <2>2. CASE f \notin r.reached
    <3>1. f \in funs /\ f \in Fun
      BY <1>2, <2>2 DEF IInv, TypeOK
    <3>2. app'[f] = app[f] /\ perms'[f] = perms[f]
      BY <1>1, <2>2, <3>1
    <3> QED BY <1>2, <1>4, <3>1, <3>2 DEF IInv, FunctionsWithinOneApplication
  <2> QED BY <2>1, <2>2
<1> QED BY <1>2, <1>5, <1>6, <1>7, <1>8, FinishKeepsRequests DEF IInv

\* A contract sweeps what no application contains: what is left of a function is still
\* its own application's, for no other one may declare it.
LEMMA ContractKeepsInv ==
  ASSUME IInv, NEW w \in Worker, ApplyContract(w)
  PROVE  IInv'
<1>1. PICK a \in App, G \in [AppFun -> SUBSET Perm] :
        /\ \A h \in AppFun : IF Owner[h] = a THEN G[h] \subseteq Declarable[a]
                                             ELSE G[h] = grants[h]
        /\ grants' = G
        /\ perms' = [f \in Fun |-> perms[f] \cap Existing(G)]
        /\ UNCHANGED <<funs, app>>
        /\ Finish(w)
  BY DEF ApplyContract
<1>2. /\ intact' \in BOOLEAN /\ (intact' => intact) /\ stale' \in SUBSET Worker
      /\ req' = [req EXCEPT ![w] = Idle]
  BY <1>1 DEF Finish, IInv, TypeOK
<1>3. TypeOK'
  BY <1>1, <1>2 DEF IInv, TypeOK
<1>4. RowsOfFunctions'
  BY <1>1 DEF IInv, RowsOfFunctions
<1>5. GrantsDeclared'
  BY <1>1 DEF IInv, GrantsDeclared
<1>6. FunctionsWithinOneApplication'
  <2> SUFFICES ASSUME intact', DeclaredByOne, NEW f \in funs, app[f] # None, NEW p \in perms'[f]
               PROVE  p \in PermsOf(G, app[f])
    BY <1>1 DEF FunctionsWithinOneApplication
  <2>1. f \in Fun /\ app[f] \in App
    BY DEF IInv, TypeOK
  <2>2. p \in perms[f] /\ p \in Perm
    BY <1>1, <2>1 DEF IInv, TypeOK
  <2>3. PICK h \in AppFun : p \in G[h]
    BY <1>1, <2>1 DEF Existing
  <2>4. PICK g \in AppFun : Owner[g] = app[f] /\ p \in grants[g]
    BY <1>2, <2>2 DEF IInv, FunctionsWithinOneApplication, PermsOf, Holders
  <2>5. p \in Declarable[app[f]]
    BY <2>4 DEF IInv, GrantsDeclared
  <2>6. p \in Declarable[Owner[h]] /\ Owner[h] \in App
    BY <1>1, <1>5, <2>3, OwnerAssumption DEF GrantsDeclared
  <2>7. Owner[h] = app[f]
    BY <2>1, <2>5, <2>6 DEF DeclaredByOne
  <2> QED BY <2>2, <2>3, <2>7 DEF PermsOf, Holders
<1> QED BY <1>1, <1>3, <1>4, <1>5, <1>6, FinishKeepsRequests DEF IInv

-----------------------------------------------------------------------------
\* The invariant is inductive: one lemma for each operation.
LEMMA NextKeepsInv == IInv /\ [Next]_vars => IInv'
<1> SUFFICES ASSUME IInv, [Next]_vars PROVE IInv'
  OBVIOUS
<1>1. ASSUME NEW w \in Worker, LoadFunction(w) \/ LoadForDeletion(w) \/ LoadDefaults(w)
      PROVE  IInv'
  BY <1>1, LoadKeepsInv
<1>2. ASSUME NEW w \in Worker, CheckPermission(w) PROVE IInv'
  BY <1>2, CheckKeepsInv
<1>3. ASSUME NEW w \in Worker, LookUpDefaults(w) PROVE IInv'
  BY <1>3, LookUpKeepsInv
<1>4. ASSUME NEW w \in Worker, Reject(w) PROVE IInv'
  BY <1>4, RejectKeepsInv
<1>5. ASSUME NEW w \in Worker, CommitFunction(w) PROVE IInv'
  BY <1>5, CommitFunctionKeepsInv
<1>6. ASSUME NEW w \in Worker, CommitDeletion(w) PROVE IInv'
  BY <1>6, CommitDeletionKeepsInv
<1>7. ASSUME NEW w \in Worker, CommitDefaults(w) PROVE IInv'
  BY <1>7, CommitDefaultsKeepsInv
<1>8. ASSUME NEW w \in Worker, ApplyContract(w) PROVE IInv'
  BY <1>8, ContractKeepsInv
<1>9. CASE UNCHANGED vars
  <2>1. TypeOK' /\ RequestsWellFormed'
    BY <1>9 DEF vars, tables, IInv, TypeOK, RequestsWellFormed
  <2>2. ReadsCurrent'
    BY <1>9 DEF vars, tables, IInv, ReadsCurrent, Current, FunsOf
  <2> QED BY <1>9, <2>1, <2>2, TablesStay DEF vars, tables, IInv
<1> QED BY <1>1, <1>2, <1>3, <1>4, <1>5, <1>6, <1>7, <1>8, <1>9 DEF Next

\* The inductive invariant: types, no rows of functions that do not exist, permissions that
\* may be declared, current reads of requests that were not overtaken, one application each.
THEOREM Invariant == Spec => []IInv
<1>1. Init => IInv
  <2> SUFFICES ASSUME Init PROVE IInv
    OBVIOUS
  <2>1. TypeOK
    BY DEF Init, TypeOK
  <2>2. RowsOfFunctions /\ GrantsDeclared /\ FunctionsWithinOneApplication
    BY DEF Init, RowsOfFunctions, GrantsDeclared, FunctionsWithinOneApplication
  <2>3. RequestsWellFormed /\ ReadsCurrent
    BY DEF Init, RequestsWellFormed, ReadsCurrent, Current, Idle
  <2> QED BY <2>1, <2>2, <2>3 DEF IInv
<1> QED BY <1>1, NextKeepsInv, PTL DEF Spec

\* The variables of BusinessFunctions keep their types.
THEOREM TypeCorrect == Spec => []TypeOK
<1>1. IInv => TypeOK
  BY DEF IInv
<1> QED BY <1>1, Invariant, PTL

\* A function's permissions are its application's, whatever is moved, deleted, configured and
\* swept at the same time, while no request saved on outdated checks.
THEOREM FunctionsStayWithinOneApplication == Spec => []FunctionsWithinOneApplication
<1>1. IInv => FunctionsWithinOneApplication
  BY DEF IInv
<1> QED BY <1>1, Invariant, PTL

\* A default configuration that nobody overtook, and whose every function has a permission,
\* leaves its application exactly the functions and permissions it lists.
THEOREM DefaultsAlwaysInForce == Spec => DefaultsAreInForce
<1>1. IInv /\ [Next]_vars =>
        [\A w \in Worker \ stale :
           LET r == req[w] IN
           CommitDefaults(w) /\ r.reached = r.names =>
               /\ {f \in funs' : app'[f] = r.app} = r.names
               /\ \A f \in r.names : perms'[f] = r.asked[f]]_vars
  <2> SUFFICES ASSUME IInv, NEW w \in Worker \ stale, CommitDefaults(w),
                      req[w].reached = req[w].names
               PROVE  /\ {f \in funs' : app'[f] = req[w].app} = req[w].names
                      /\ \A f \in req[w].names : perms'[f] = req[w].asked[f]
    OBVIOUS
  <2> DEFINE r == req[w]
  <2>1. /\ r \in DefaultRequest
        /\ \A f \in Fun \ r.reached :
             /\ f \in Removed(r) => app'[f] = None
             /\ f \notin Removed(r) \cup Severed(r) => app'[f] = app[f]
        /\ \A f \in r.reached : app'[f] = r.app
        /\ r.sawFuns = FunsOf(r.app)
        /\ \A f \in r.reached : perms'[f] = r.asked[f]
    BY CommitDefaultsRows
  <2>2. funs' = (funs \ Removed(r)) \cup r.reached
    BY DEF CommitDefaults
  <2>3. r.app \in App /\ r.reached = r.names
    BY <2>1 DEF DefaultRequest
  <2> HIDE DEF r
  <2>4. ASSUME NEW f \in funs', app'[f] = r.app PROVE f \in r.names
    <3> SUFFICES ASSUME f \notin r.reached PROVE FALSE
      BY <2>3
    <3>1. f \in funs /\ f \in Fun /\ f \notin Removed(r)
      BY <2>2 DEF IInv, TypeOK
    <3>2. f \notin Severed(r)
      BY <2>3 DEF Severed
    <3>3. f \in r.sawFuns
      BY <2>1, <2>4, <3>1, <3>2 DEF FunsOf
    <3> QED BY <2>3, <3>1, <3>3 DEF Removed
  <2>5. r.names \subseteq {f \in funs' : app'[f] = r.app}
    BY <2>1, <2>2, <2>3
  <2> QED BY <2>1, <2>3, <2>4, <2>5 DEF r
<1> QED BY <1>1, Invariant, PTL DEF Spec, DefaultsAreInForce

=============================================================================
