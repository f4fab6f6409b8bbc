----------------------------- MODULE UsersProofs -----------------------------
(***************************************************************************)
(* A user's name finds the user, a deletion gives the name back and is      *)
(* refused to namesakes only, and a user's directory is there, with its     *)
(* password, for any users, names, modes and requests.                      *)
(***************************************************************************)
EXTENDS UsersProperties, TLAPS

\* Rows of one name, decorated for deleted users only.
RowsWellNamed ==
    /\ \A u, v \in Existing : users[u].norm = users[v].norm => u = v
    /\ \A u \in Existing : users[u].name[2] > 0 => users[u].deleted
    /\ ~renamed => \A u \in Existing : users[u].norm = Normalized(users[u].name)

\* What a request submits: both names together, but for a login, which changes one.
WellFormed(r) ==
    r.kind \in UserKind =>
        /\ r.row.name[2] > 0 => r.row.deleted
        /\ r.kind # "sync" => r.row.norm = Normalized(r.row.name)
        /\ r.kind \in {"delete", "sync", "update"} => ~r.fresh
        /\ r.kind = "create" => r.fresh

RequestsWellFormed == \A w \in Worker : WellFormed(req[w])

\* What a request has taken from the row it found.
Current(r) ==
    r.kind \in UserKind /\ ~r.fresh =>
        /\ r.user \in Existing
        /\ r.kind \in {"delete", "sync"} => r.row.mode = users[r.user].mode
        /\ r.kind = "delete" => r.row.name = Deletion(users[r.user].name)
        /\ r.kind = "default" /\ r.row.mode = None => users[r.user].mode = None

ReadsCurrent == \A w \in Worker \ stale : Current(req[w])

\* Between its two statements a mode has one writer, whose settings it has.
Writing(w) == req[w].kind = "encrypt"
OneWriter ==
    paired =>
        /\ \A w, v \in Worker : Writing(w) /\ Writing(v) /\ req[w].mode = req[v].mode => w = v
        /\ \A w \in Worker : Writing(w) /\ modes[req[w].mode] # None =>
               modes[req[w].mode].settings = req[w].settings

IInv ==
    /\ TypeOK
    /\ LinkedModesExist /\ PasswordBelongsToSettings
    /\ RowsWellNamed /\ RequestsWellFormed /\ ReadsCurrent /\ OneWriter

-----------------------------------------------------------------------------
LEMMA NamesAreDecorated ==
  /\ \A n \in Name \X {0} : n \in Decorated /\ n[2] = 0
  /\ \A n \in Decorated : Normalized(n) \in Decorated /\ Normalized(n)[2] = n[2]
  /\ \A n \in Decorated : n[2] \in Nat
BY UpperAssumption, BoundAssumption DEF Decorated, Normalized

LEMMA DeletionDecorates ==
  ASSUME NEW n \in Decorated
  PROVE  /\ n[2] < MaxDeletions => Deletion(n) \in Decorated
         /\ Deletion(n)[2] = n[2] + 1 /\ Deletion(n)[2] > 0
         /\ Deletion(n) # n
         /\ Normalized(Deletion(n)) # Normalized(n)
BY UpperAssumption, BoundAssumption DEF Decorated, Normalized, Deletion

LEMMA SubmittedRow ==
  ASSUME NEW n \in Decorated, NEW d \in BOOLEAN, NEW m \in Mode \cup {None}
  PROVE  /\ Submitted(n, d, m) \in UserRow
         /\ Submitted(n, d, m).name = n
         /\ Submitted(n, d, m).norm = Normalized(n)
         /\ Submitted(n, d, m).deleted = d
         /\ Submitted(n, d, m).mode = m
BY NamesAreDecorated DEF Submitted, UserRow

\* A name that is typed in is not decorated.
LEMMA SubmittedPlainRow ==
  ASSUME NEW n \in Name \X {0}, NEW d \in BOOLEAN, NEW m \in Mode \cup {None}
  PROVE  /\ Submitted(n, d, m) \in UserRow
         /\ Submitted(n, d, m).name[2] = 0
         /\ Submitted(n, d, m).norm = Normalized(Submitted(n, d, m).name)
         /\ Submitted(n, d, m).mode = m
<1>1. n \in Decorated /\ n[2] = 0
  BY NamesAreDecorated
<1>2. /\ Submitted(n, d, m) \in UserRow
      /\ Submitted(n, d, m).name = n
      /\ Submitted(n, d, m).norm = Normalized(n)
      /\ Submitted(n, d, m).mode = m
  BY <1>1, SubmittedRow
<1> QED BY <1>1, <1>2

\* Each of the operations on users starts such a request.
LEMMA StartedRequest ==
  ASSUME IInv, NEW w \in Worker,
         \/ CreateUser(w) \/ UpdateUser(w) \/ ApplyDefaultUser(w)
         \/ DeleteUser(w) \/ LoginThroughLdap(w)
  PROVE  \E r \in UserRequest :
            /\ WellFormed(r) /\ Current(r)
            /\ Begin(w, r) /\ UNCHANGED <<users, stale, renamed>>
<1>1. \A u \in Existing : users[u] \in UserRow
  BY DEF IInv, TypeOK, Existing
<1>2. \A u \in Existing : /\ u \in User
                          /\ users[u].deleted \in BOOLEAN
                          /\ users[u].mode \in Mode \cup {None}
                          /\ users[u].name \in Decorated /\ users[u].norm \in Decorated
  BY <1>1 DEF UserRow, Existing
<1>3. ASSUME NEW kind \in UserKind, NEW fresh \in BOOLEAN, NEW u \in User, NEW row \in UserRow
      PROVE  LET r == [kind |-> kind, fresh |-> fresh, user |-> u, row |-> row] IN
             /\ r \in UserRequest
             /\ r.kind = kind /\ r.fresh = fresh /\ r.user = u /\ r.row = row
             /\ Load(w, kind, fresh, u, row) =>
                    Begin(w, r) /\ UNCHANGED <<users, stale, renamed>>
  BY DEF UserRequest, Load
<1>4. CASE CreateUser(w)
  <2>1. PICK u \in User \ Existing, n \in Name \X {0}, m \in Mode \cup {None} :
          Load(w, "create", TRUE, u, Submitted(n, FALSE, m))
    BY <1>4 DEF CreateUser
  <2> DEFINE row == Submitted(n, FALSE, m)
             r == [kind |-> "create", fresh |-> TRUE, user |-> u, row |-> row]
  <2>2. /\ row \in UserRow /\ row.name[2] = 0 /\ row.norm = Normalized(row.name)
    BY <2>1, SubmittedPlainRow
  <2> HIDE DEF row
  <2>3. WellFormed(r) /\ Current(r)
    BY <2>2 DEF WellFormed, Current
  <2>4. r \in UserRequest /\ Begin(w, r) /\ UNCHANGED <<users, stale, renamed>>
    <3>1. Load(w, "create", TRUE, u, row)
      BY <2>1 DEF row
    <3> QED BY <1>3, <2>2, <3>1 DEF UserKind
  <2> QED BY <2>3, <2>4
<1>5. CASE UpdateUser(w)
  <2>1. PICK u \in Existing, n \in Name \X {0}, m \in Mode \cup {None} :
          Load(w, "update", FALSE, u, Submitted(n, users[u].deleted, m))
    BY <1>5 DEF UpdateUser
  <2> DEFINE row == Submitted(n, users[u].deleted, m)
             r == [kind |-> "update", fresh |-> FALSE, user |-> u, row |-> row]
  <2>2. /\ row \in UserRow /\ row.name[2] = 0 /\ row.norm = Normalized(row.name)
    BY <1>2, <2>1, SubmittedPlainRow
  <2> HIDE DEF row
  <2>3. WellFormed(r) /\ Current(r)
    BY <2>2 DEF WellFormed, Current
  <2>4. r \in UserRequest /\ Begin(w, r) /\ UNCHANGED <<users, stale, renamed>>
    <3>1. Load(w, "update", FALSE, u, row)
      BY <2>1 DEF row
    <3> QED BY <1>2, <1>3, <2>2, <3>1 DEF UserKind
  <2> QED BY <2>3, <2>4
<1>6. CASE ApplyDefaultUser(w)
  <2>1. PICK u \in User, n \in Name \X {0}, d \in BOOLEAN, m \in Mode \cup {None} :
          /\ IF NameFree(n) THEN users[u] = None ELSE u \in Existing /\ users[u].name = n
          /\ Load(w, "default", NameFree(n), u,
                  Submitted(n, d, IF NameFree(n) \/ m # None THEN m ELSE users[u].mode))
    BY <1>6 DEF ApplyDefaultUser
  <2> DEFINE link == IF NameFree(n) \/ m # None THEN m ELSE users[u].mode
             row == Submitted(n, d, link)
             r == [kind |-> "default", fresh |-> NameFree(n), user |-> u, row |-> row]
  <2>2. /\ NameFree(n) \in BOOLEAN
        /\ ~NameFree(n) => u \in Existing
    BY <2>1 DEF NameFree
  <2>3. link \in Mode \cup {None}
    BY <1>2, <2>2
  <2>4. ~NameFree(n) /\ link = None => users[u].mode = None
    OBVIOUS
  <2> HIDE DEF link
  <2>5. /\ row \in UserRow /\ row.name[2] = 0 /\ row.norm = Normalized(row.name)
        /\ row.mode = link
    BY <2>1, <2>3, SubmittedPlainRow
  <2> HIDE DEF row
  <2>6. WellFormed(r) /\ Current(r)
    BY <2>2, <2>4, <2>5 DEF WellFormed, Current
  <2>7. r \in UserRequest /\ Begin(w, r) /\ UNCHANGED <<users, stale, renamed>>
    <3>1. Load(w, "default", NameFree(n), u, row)
      BY <2>1 DEF row, link
    <3> QED BY <1>3, <2>2, <2>5, <3>1 DEF UserKind
  <2> QED BY <2>6, <2>7
<1>7. CASE DeleteUser(w)
  <2>1. PICK u \in Existing :
          /\ users[u].name[2] < MaxDeletions
          /\ Load(w, "delete", FALSE, u, Submitted(Deletion(users[u].name), TRUE, users[u].mode))
    BY <1>7 DEF DeleteUser
  <2> DEFINE row == Submitted(Deletion(users[u].name), TRUE, users[u].mode)
             r == [kind |-> "delete", fresh |-> FALSE, user |-> u, row |-> row]
  <2>2. Deletion(users[u].name) \in Decorated
    BY <1>2, <2>1, DeletionDecorates
  <2>3. /\ row \in UserRow /\ row.deleted
        /\ row.name = Deletion(users[u].name) /\ row.norm = Normalized(row.name)
        /\ row.mode = users[u].mode
    <3> DEFINE n == Deletion(users[u].name)  m == users[u].mode
    <3>1. n \in Decorated /\ m \in Mode \cup {None}
      BY <1>2, <2>1, <2>2
    <3> HIDE DEF n, m
    <3>2. /\ Submitted(n, TRUE, m) \in UserRow
          /\ Submitted(n, TRUE, m).name = n
          /\ Submitted(n, TRUE, m).norm = Normalized(n)
          /\ Submitted(n, TRUE, m).deleted = TRUE
          /\ Submitted(n, TRUE, m).mode = m
      BY <3>1, SubmittedRow
    <3> QED BY <3>2 DEF n, m
  <2> HIDE DEF row
  <2>4. WellFormed(r) /\ Current(r)
    BY <2>3 DEF WellFormed, Current
  <2>5. r \in UserRequest /\ Begin(w, r) /\ UNCHANGED <<users, stale, renamed>>
    <3>1. Load(w, "delete", FALSE, u, row)
      BY <2>1 DEF row
    <3> QED BY <1>2, <1>3, <2>3, <3>1 DEF UserKind
  <2> QED BY <2>4, <2>5
<1>8. CASE LoginThroughLdap(w)
  <2>1. PICK u \in Existing : \E n \in (Name \X {0}) \cup {users[u].name} :
          /\ ~users[u].deleted
          /\ Load(w, "sync", FALSE, u, [users[u] EXCEPT !.name = n])
    BY <1>8 DEF LoginThroughLdap
  <2>2. PICK n \in (Name \X {0}) \cup {users[u].name} :
          /\ ~users[u].deleted
          /\ Load(w, "sync", FALSE, u, [users[u] EXCEPT !.name = n])
    BY <2>1
  <2> DEFINE row == [users[u] EXCEPT !.name = n]
             r == [kind |-> "sync", fresh |-> FALSE, user |-> u, row |-> row]
  <2>3. ~(users[u].name[2] > 0)
    BY <2>2 DEF IInv, RowsWellNamed
  <2>4. n \in Decorated /\ ~(n[2] > 0)
    BY <1>2, <2>3, NamesAreDecorated
  <2>5. row \in UserRow /\ row.name = n /\ row.mode = users[u].mode
    BY <1>1, <2>4 DEF UserRow
  <2> HIDE DEF row
  <2>6. WellFormed(r) /\ Current(r)
    BY <2>4, <2>5 DEF WellFormed, Current
  <2>7. r \in UserRequest /\ Begin(w, r) /\ UNCHANGED <<users, stale, renamed>>
    <3>1. Load(w, "sync", FALSE, u, row)
      BY <2>2 DEF row
    <3> QED BY <1>2, <1>3, <2>5, <3>1 DEF UserKind
  <2> QED BY <2>6, <2>7
<1> QED BY <1>4, <1>5, <1>6, <1>7, <1>8

\* A user request is never between the statements of a mode, nor the other way round.
LEMMA KindsDiffer ==
  ASSUME TypeOK, NEW w \in Worker
  PROVE  /\ req[w].kind \in UserKind => req[w] \in UserRequest
         /\ req[w].kind \in {"createMode", "updateMode", "encrypt", "deleteMode"} =>
                req[w] \in ModeRequest
         /\ req[w] = Idle \/ req[w] \in ModeRequest \/ req[w] \in UserRequest
BY DEF TypeOK, UserKind, Idle, ModeRequest, UserRequest

LEMMA StartKeepsInv ==
  ASSUME IInv, NEW w \in Worker,
         \/ CreateUser(w) \/ UpdateUser(w) \/ ApplyDefaultUser(w)
         \/ DeleteUser(w) \/ LoginThroughLdap(w)
  PROVE  IInv'
<1>1. PICK r \in UserRequest :
         /\ WellFormed(r) /\ Current(r)
         /\ Begin(w, r) /\ UNCHANGED <<users, stale, renamed>>
  BY StartedRequest
<1>2. /\ req[w] = Idle /\ req' = [req EXCEPT ![w] = r]
      /\ UNCHANGED <<modes, paired, users, stale, renamed>>
      /\ r.kind \in UserKind
  BY <1>1 DEF Begin, UserRequest
<1>3. TypeOK'
  BY <1>1, <1>2 DEF IInv, TypeOK, ModesTypeOK
<1>4. \A v \in Worker : Writing(v)' = Writing(v) /\ (Writing(v) => req'[v] = req[v])
  BY <1>2 DEF IInv, TypeOK, Writing, Idle, UserKind
<1>5. LinkedModesExist'
  BY <1>2 DEF IInv, LinkedModesExist, Existing
<1>6. PasswordBelongsToSettings'
  BY <1>2, <1>4 DEF IInv, PasswordBelongsToSettings, Writing
<1>7. RowsWellNamed'
  BY <1>2 DEF IInv, RowsWellNamed, Existing
<1>8. RequestsWellFormed'
  BY <1>1, <1>2 DEF IInv, TypeOK, RequestsWellFormed, WellFormed
<1>9. ReadsCurrent'
  BY <1>1, <1>2 DEF IInv, TypeOK, ReadsCurrent, Current, Existing
<1>10. OneWriter'
  BY <1>2, <1>4 DEF IInv, OneWriter
<1> QED BY <1>3, <1>5, <1>6, <1>7, <1>8, <1>9, <1>10 DEF IInv

\* A request on a user that is given up.
LEMMA RejectKeepsInv ==
  ASSUME IInv, NEW w \in Worker, RejectUser(w)
  PROVE  IInv'
<1>1. /\ req' = [req EXCEPT ![w] = Idle] /\ stale' = stale \ {w}
      /\ UNCHANGED <<modes, paired, users, renamed>>
      /\ req[w].kind \in UserKind
  BY DEF RejectUser
<1>2. TypeOK'
  BY <1>1 DEF IInv, TypeOK, ModesTypeOK
<1>3. \A v \in Worker : Writing(v)' = Writing(v) /\ (Writing(v) => req'[v] = req[v])
  BY <1>1 DEF IInv, TypeOK, Writing, Idle, UserKind
<1>4. LinkedModesExist'
  BY <1>1 DEF IInv, LinkedModesExist, Existing
<1>5. PasswordBelongsToSettings'
  BY <1>1, <1>3 DEF IInv, PasswordBelongsToSettings, Writing
<1>6. RowsWellNamed'
  BY <1>1 DEF IInv, RowsWellNamed, Existing
<1>7. \A v \in Worker : req'[v] = req[v] \/ (v = w /\ req'[v] = Idle)
  BY <1>1 DEF IInv, TypeOK
<1>8. RequestsWellFormed'
  BY <1>7 DEF IInv, RequestsWellFormed, WellFormed, Idle, UserKind
<1>9. ReadsCurrent'
  <2> SUFFICES ASSUME NEW v \in Worker \ stale' PROVE Current(req[v])'
    BY DEF ReadsCurrent
  <2>1. CASE v = w
    BY <1>1, <2>1 DEF Current, Idle, UserKind, IInv, TypeOK
  <2>2. CASE v # w
    <3>1. v \notin stale /\ req'[v] = req[v]
      BY <1>1, <1>7, <2>2
    <3> QED BY <1>1, <3>1 DEF IInv, ReadsCurrent, Current, Existing
  <2> QED BY <2>1, <2>2
<1>10. OneWriter'
  BY <1>1, <1>3 DEF IInv, OneWriter
<1> QED BY <1>2, <1>4, <1>5, <1>6, <1>8, <1>9, <1>10 DEF IInv

-----------------------------------------------------------------------------
\* Writing a user: the table's constraints keep the names apart and the directory there,
\* and whoever had loaded the user is stale.
LEMMA WriteKeepsInv ==
  ASSUME IInv, NEW w \in Worker, WriteUser(w)
  PROVE  IInv'
<1> DEFINE r == req[w]
<1>1. /\ r.kind \in UserKind
      /\ r.fresh => users[r.user] = None
      /\ Acceptable(r.user, r.row)
      /\ users' = [users EXCEPT ![r.user] = r.row]
      /\ req' = [req EXCEPT ![w] = Idle]
      /\ stale' = (stale \cup Holding(r.user)) \ {w}
      /\ renamed' = (renamed \/ (r.kind = "sync" /\ r.row.norm # Normalized(r.row.name)))
      /\ UNCHANGED <<modes, paired>>
  BY DEF WriteUser
<1>2. /\ r \in UserRequest
      /\ r.user \in User /\ r.row \in UserRow
  BY <1>1, KindsDiffer DEF IInv, UserRequest
<1>3. WellFormed(r)
  BY DEF IInv, RequestsWellFormed
<1> DEFINE u == r.user
           row == r.row
<1>4. /\ u \in User /\ row \in UserRow
      /\ users' = [users EXCEPT ![u] = row]
      /\ \A v \in Existing \ {u} : users[v].name # row.name /\ users[v].norm # row.norm
      /\ row.mode # None => modes[row.mode] # None
      /\ row.name[2] > 0 => row.deleted
      /\ ~renamed' => ~renamed /\ row.norm = Normalized(row.name)
  BY <1>1, <1>2, <1>3 DEF Acceptable, WellFormed
<1> HIDE DEF u, row
<1>5. \A v \in User : users'[v] = IF v = u THEN row ELSE users[v]
  BY <1>4 DEF IInv, TypeOK
<1>6. \A v \in Existing' : v = u \/ (v \in Existing /\ v # u)
  BY <1>5 DEF Existing
<1>7. TypeOK'
  BY <1>1, <1>4 DEF IInv, TypeOK, ModesTypeOK, Holding
<1>8. \A v \in Worker : req'[v] = req[v] \/ (v = w /\ req'[v] = Idle)
  BY <1>1 DEF IInv, TypeOK
<1>9. \A v \in Worker : Writing(v)' = Writing(v) /\ (Writing(v) => req'[v] = req[v])
  BY <1>1, <1>8 DEF Writing, Idle, UserKind
<1>10. LinkedModesExist'
  BY <1>1, <1>4, <1>5, <1>6 DEF IInv, LinkedModesExist, Existing
<1>11. PasswordBelongsToSettings'
  BY <1>1, <1>9 DEF IInv, PasswordBelongsToSettings, Writing
<1>12. RowsWellNamed'
  <2>1. ASSUME NEW v \in Existing', NEW x \in Existing', users'[v].norm = users'[x].norm
        PROVE  v = x
    <3>1. v \in User /\ x \in User
      BY DEF Existing
    <3> QED BY <1>4, <1>5, <1>6, <2>1, <3>1 DEF IInv, RowsWellNamed
  <2>2. ASSUME NEW v \in Existing', users'[v].name[2] > 0 PROVE users'[v].deleted
    <3>1. v \in User
      BY DEF Existing
    <3> QED BY <1>4, <1>5, <1>6, <2>2, <3>1 DEF IInv, RowsWellNamed
  <2>3. ASSUME ~renamed', NEW v \in Existing' PROVE users'[v].norm = Normalized(users'[v].name)
    <3>1. v \in User
      BY DEF Existing
    <3> QED BY <1>4, <1>5, <1>6, <2>3, <3>1 DEF IInv, RowsWellNamed
  <2>4. \A n : Normalized(n)' = Normalized(n)
    BY DEF Normalized
  <2> QED BY <2>1, <2>2, <2>3, <2>4 DEF RowsWellNamed
<1>13. RequestsWellFormed'
  BY <1>8 DEF IInv, RequestsWellFormed, WellFormed, Idle, UserKind
<1>14. ReadsCurrent'
  <2> SUFFICES ASSUME NEW v \in Worker \ stale', req'[v].kind \in UserKind, ~req'[v].fresh
               PROVE  Current(req[v])'
    BY DEF ReadsCurrent, Current
  <2>1. v # w /\ req'[v] = req[v] /\ v \notin stale
    BY <1>1, <1>8 DEF Idle, UserKind, IInv, TypeOK
  <2>2. req[v].user # u
    BY <1>1, <2>1 DEF Holding, u
  <2>3. Current(req[v]) /\ req[v].user \in Existing
    BY <2>1 DEF IInv, ReadsCurrent, Current
  <2>4. users'[req[v].user] = users[req[v].user] /\ req[v].user \in Existing'
    BY <1>5, <2>2, <2>3 DEF Existing
  <2> QED BY <2>1, <2>3, <2>4 DEF Current
<1>15. OneWriter'
  BY <1>1, <1>9 DEF IInv, OneWriter
<1> QED BY <1>7, <1>10, <1>11, <1>12, <1>13, <1>14, <1>15 DEF IInv

-----------------------------------------------------------------------------
\* What a step on the modes leaves alone, if no linked mode goes and the password stays
\* with its settings.
LEMMA ModesStepKeepsInv ==
  ASSUME IInv, UNCHANGED <<users, stale, renamed>>, NEW w \in Worker,
         ModesTypeOK', req' \in [Worker -> {Idle} \cup ModeRequest \cup UserRequest],
         req[w].kind \notin UserKind, req'[w].kind \notin UserKind,
         \A v \in Worker \ {w} : req'[v] = req[v],
         \A m \in Linked : modes[m] # None => modes'[m] # None,
         PasswordBelongsToSettings', OneWriter'
  PROVE  IInv'
<1>1. TypeOK'
  BY DEF IInv, TypeOK
<1>2. LinkedModesExist'
  BY DEF IInv, LinkedModesExist, Existing, Linked
<1>3. RowsWellNamed'
  BY DEF IInv, RowsWellNamed, Existing
<1>4. RequestsWellFormed'
  <2> SUFFICES ASSUME NEW v \in Worker PROVE WellFormed(req'[v])
    BY DEF RequestsWellFormed, WellFormed
  <2>1. CASE v = w
    BY <2>1 DEF WellFormed
  <2>2. CASE v # w
    BY <2>2 DEF IInv, RequestsWellFormed
  <2> QED BY <2>1, <2>2
<1>5. ReadsCurrent'
  <2> SUFFICES ASSUME NEW v \in Worker \ stale' PROVE Current(req[v])'
    BY DEF ReadsCurrent
  <2>1. CASE v = w
    BY <2>1 DEF Current
  <2>2. CASE v # w
    BY <2>2 DEF IInv, ReadsCurrent, Current, Existing
  <2> QED BY <2>1, <2>2
<1> QED BY <1>1, <1>2, <1>3, <1>4, <1>5 DEF IInv

\* Loading a mode changes no row and is not between two statements.
LEMMA LoadModeKeepsInv ==
  ASSUME IInv, UNCHANGED <<users, stale, renamed>>, NEW w \in Worker,
         LoadMode(w) \/ LoadModeForDeletion(w, Linked)
  PROVE  IInv'
<1>1. PICK r \in ModeRequest : Begin(w, r) /\ r.kind # "encrypt"
  <2>1. CASE LoadMode(w)
    BY <2>1 DEF LoadMode, ModeRequest
  <2>2. CASE LoadModeForDeletion(w, Linked)
    <3>1. PICK m \in Mode \ Linked :
            /\ modes[m] # None
            /\ Begin(w, [kind |-> "deleteMode", mode |-> m, settings |-> modes[m].settings])
      BY <2>2 DEF LoadModeForDeletion
    <3>2. modes[m].settings \in Settings
      BY <3>1 DEF IInv, TypeOK, ModesTypeOK, ModeRow
    <3> QED BY <3>1, <3>2 DEF ModeRequest
  <2> QED BY <2>1, <2>2
<1>2. /\ req[w] = Idle /\ req' = [req EXCEPT ![w] = r] /\ UNCHANGED <<modes, paired>>
  BY <1>1 DEF Begin
<1>3. /\ req[w].kind \notin UserKind /\ req'[w].kind \notin UserKind
      /\ \A v \in Worker \ {w} : req'[v] = req[v]
      /\ req' \in [Worker -> {Idle} \cup ModeRequest \cup UserRequest]
  BY <1>1, <1>2 DEF IInv, TypeOK, Idle, UserKind, ModeRequest
<1>4. \A v \in Worker : Writing(v)' = Writing(v) /\ (Writing(v) => req'[v] = req[v])
  BY <1>1, <1>2 DEF IInv, TypeOK, Writing, Idle
<1>5. PasswordBelongsToSettings'
  BY <1>2, <1>4 DEF IInv, PasswordBelongsToSettings, Writing
<1>6. OneWriter'
  BY <1>2, <1>4 DEF IInv, OneWriter
<1>7. ModesTypeOK'
  BY <1>2 DEF IInv, TypeOK, ModesTypeOK
<1> QED BY <1>2, <1>3, <1>5, <1>6, <1>7, ModesStepKeepsInv

\* The first statement: the writer of the mode is the only one, or pairing has ended.
LEMMA SaveModeKeepsInv ==
  ASSUME IInv, UNCHANGED <<users, stale, renamed>>, NEW w \in Worker, SaveMode(w)
  PROVE  IInv'
<1> DEFINE m == req[w].mode  s == req[w].settings
<1>1. /\ req[w].kind \in {"createMode", "updateMode"}
      /\ modes' = [modes EXCEPT ![m] = [settings |-> s, password |-> Blank]]
      /\ req' = [req EXCEPT ![w].kind = "encrypt"]
      /\ paired' = (paired /\ ~BetweenStatements(w, m))
  BY DEF SaveMode
<1>2. req[w] \in ModeRequest /\ m \in Mode /\ s \in Settings
  BY <1>1, KindsDiffer DEF IInv, ModeRequest
<1>3. /\ req'[w].kind = "encrypt" /\ req'[w].mode = m /\ req'[w].settings = s
      /\ req'[w] \in ModeRequest
      /\ \A v \in Worker \ {w} : req'[v] = req[v]
  BY <1>1, <1>2 DEF IInv, TypeOK, ModeRequest
<1> HIDE DEF m, s
<1>4. [settings |-> s, password |-> Blank] \in ModeRow
  BY <1>2 DEF ModeRow
<1>5. ModesTypeOK'
  BY <1>1, <1>2, <1>4 DEF IInv, TypeOK, ModesTypeOK
<1>6. req' \in [Worker -> {Idle} \cup ModeRequest \cup UserRequest]
  BY <1>1, <1>3 DEF IInv, TypeOK
<1>7. \A n \in Mode : modes'[n] = IF n = m THEN [settings |-> s, password |-> Blank]
                                           ELSE modes[n]
  BY <1>1 DEF IInv, TypeOK, ModesTypeOK
<1>8. modes'[m] # None
  BY <1>2, <1>4, <1>7, NoModeAssumption
<1>9. \A n \in Linked : modes[n] # None => modes'[n] # None
  <2>1. Linked \subseteq Mode
    BY DEF Linked, Existing, IInv, TypeOK, UserRow
  <2> QED BY <1>7, <1>8, <2>1
<1>10. PasswordBelongsToSettings'
  <2> SUFFICES ASSUME NEW n \in Mode, paired', modes'[n] # None,
                      \A v \in Worker : ~(req'[v].kind = "encrypt" /\ req'[v].mode = n)
               PROVE  modes'[n].password \in {modes'[n].settings, Empty}
    BY DEF PasswordBelongsToSettings
  <2>1. n # m /\ modes'[n] = modes[n] /\ paired
    BY <1>1, <1>3, <1>7
  <2>2. \A v \in Worker : ~(req[v].kind = "encrypt" /\ req[v].mode = n)
    BY <1>1, <1>3
  <2> QED BY <2>1, <2>2 DEF IInv, PasswordBelongsToSettings
<1>11. OneWriter'
  <2> SUFFICES ASSUME paired' PROVE OneWriter'
    BY DEF OneWriter
  <2>1. paired /\ \A v \in Worker \ {w} : Writing(v) => req[v].mode # m
    BY <1>1 DEF BetweenStatements, Writing
  <2>2. \A v, x \in Worker : Writing(v)' /\ Writing(x)' /\ req'[v].mode = req'[x].mode => v = x
    BY <1>1, <1>3, <2>1 DEF IInv, OneWriter, Writing
  <2>3. ASSUME NEW v \in Worker, Writing(v)', modes'[req'[v].mode] # None
        PROVE  modes'[req'[v].mode].settings = req'[v].settings
    <3>1. CASE v = w
      BY <1>2, <1>3, <1>7, <3>1
    <3>2. CASE v # w
      <4>1. Writing(v) /\ req'[v] = req[v] /\ req[v].mode # m
        BY <1>3, <2>1, <2>3, <3>2 DEF Writing
      <4>2. req[v].mode \in Mode
        BY <4>1, KindsDiffer DEF Writing, ModeRequest, IInv
      <4> QED BY <1>7, <2>1, <2>3, <4>1, <4>2 DEF IInv, OneWriter
    <3> QED BY <3>1, <3>2
  <2> QED BY <2>2, <2>3 DEF OneWriter, Writing
<1> QED BY <1>1, <1>3, <1>5, <1>6, <1>9, <1>10, <1>11, ModesStepKeepsInv DEF UserKind

\* The second statement: the mode's only writer gives it the password of its settings.
LEMMA EncryptKeepsInv ==
  ASSUME IInv, UNCHANGED <<users, stale, renamed>>, NEW w \in Worker, EncryptPassword(w)
  PROVE  IInv'
<1> DEFINE m == req[w].mode  s == req[w].settings
<1>1. /\ Writing(w)
      /\ modes' = IF modes[m] = None THEN modes ELSE [modes EXCEPT ![m].password = s]
      /\ req' = [req EXCEPT ![w] = Idle]
      /\ UNCHANGED paired
  BY DEF EncryptPassword, Writing
<1>2. req[w] \in ModeRequest /\ m \in Mode /\ s \in Settings
  BY <1>1, KindsDiffer DEF IInv, ModeRequest, Writing
<1>3. /\ req'[w] = Idle /\ \A v \in Worker \ {w} : req'[v] = req[v]
      /\ req' \in [Worker -> {Idle} \cup ModeRequest \cup UserRequest]
  BY <1>1 DEF IInv, TypeOK
<1> HIDE DEF m, s
<1>4. \A n \in Mode \ {m} : modes'[n] = modes[n]
  BY <1>1 DEF IInv, TypeOK, ModesTypeOK
<1>5. modes[m] = None => modes'[m] = None
  BY <1>1
<1>6. modes[m] # None => /\ modes'[m] \in ModeRow
                         /\ modes'[m].settings = modes[m].settings
                         /\ modes'[m].password = s
  BY <1>1, <1>2 DEF IInv, TypeOK, ModesTypeOK, ModeRow
<1>7. ModesTypeOK'
  <2>1. modes' \in [Mode -> ModeRow \cup {None}]
    <3>1. CASE modes[m] = None
      BY <1>1, <3>1 DEF IInv, TypeOK, ModesTypeOK
    <3>2. CASE modes[m] # None
      <4>1. modes' = [modes EXCEPT ![m] = modes'[m]]
        BY <1>1, <1>2, <3>2 DEF IInv, TypeOK, ModesTypeOK
      <4> QED BY <1>2, <1>6, <3>2, <4>1 DEF IInv, TypeOK, ModesTypeOK
    <3> QED BY <3>1, <3>2
  <2> QED BY <1>1, <2>1 DEF IInv, TypeOK, ModesTypeOK
<1>8. \A n \in Mode : modes[n] # None => modes'[n] # None
  BY <1>4, <1>6, NoModeAssumption
<1>9. Linked \subseteq Mode
  BY DEF Linked, Existing, IInv, TypeOK, UserRow
<1>10. PasswordBelongsToSettings'
  <2> SUFFICES ASSUME NEW n \in Mode, paired', modes'[n] # None,
                      \A v \in Worker : ~(req'[v].kind = "encrypt" /\ req'[v].mode = n)
               PROVE  modes'[n].password \in {modes'[n].settings, Empty}
    BY DEF PasswordBelongsToSettings
  <2>1. CASE n = m
    <3>1. modes[m] # None
      BY <1>5, <2>1
    <3>2. modes[m].settings = s
      BY <1>1, <3>1 DEF IInv, OneWriter, m, s
    <3> QED BY <1>6, <2>1, <3>1, <3>2
  <2>2. CASE n # m
    <3>1. \A v \in Worker : ~(req[v].kind = "encrypt" /\ req[v].mode = n)
      BY <1>3, <2>2 DEF m
    <3> QED BY <1>1, <1>4, <2>2, <3>1 DEF IInv, PasswordBelongsToSettings
  <2> QED BY <2>1, <2>2
<1>11. OneWriter'
  <2> SUFFICES ASSUME paired' PROVE OneWriter'
    BY DEF OneWriter
  <2>1. \A v \in Worker : Writing(v)' => v # w /\ Writing(v) /\ req'[v] = req[v]
    BY <1>3 DEF Writing, Idle
  <2>2. \A v, x \in Worker : Writing(v)' /\ Writing(x)' /\ req'[v].mode = req'[x].mode => v = x
    BY <1>1, <2>1 DEF IInv, OneWriter
  <2>3. ASSUME NEW v \in Worker, Writing(v)', modes'[req'[v].mode] # None
        PROVE  modes'[req'[v].mode].settings = req'[v].settings
    <3>1. /\ Writing(v) /\ req'[v] = req[v] /\ v # w
          /\ req[v].mode \in Mode
      BY <2>1, <2>3, KindsDiffer DEF Writing, ModeRequest, IInv
    <3>2. req[v].mode # m
      BY <1>1, <3>1 DEF IInv, OneWriter, m
    <3> QED BY <1>1, <1>4, <2>3, <3>1, <3>2 DEF IInv, OneWriter
  <2> QED BY <2>2, <2>3 DEF OneWriter, Writing
<1>12. req[w].kind \notin UserKind /\ req'[w].kind \notin UserKind
  BY <1>1, <1>3 DEF Writing, UserKind, Idle
<1> QED BY <1>3, <1>7, <1>8, <1>9, <1>10, <1>11, <1>12, ModesStepKeepsInv

\* A mode that no user is linked to goes.
LEMMA DeleteModeKeepsInv ==
  ASSUME IInv, UNCHANGED <<users, stale, renamed>>, NEW w \in Worker, DeleteMode(w, Linked)
  PROVE  IInv'
<1>1. /\ req[w].kind = "deleteMode" /\ req[w].mode \notin Linked
      /\ modes' = [modes EXCEPT ![req[w].mode] = None]
      /\ req' = [req EXCEPT ![w] = Idle]
      /\ UNCHANGED paired
  BY DEF DeleteMode
<1>2. req[w].mode \in Mode
  BY <1>1, KindsDiffer DEF IInv, ModeRequest
<1>3. /\ req'[w] = Idle /\ \A v \in Worker \ {w} : req'[v] = req[v]
      /\ req' \in [Worker -> {Idle} \cup ModeRequest \cup UserRequest]
  BY <1>1 DEF IInv, TypeOK
<1>4. \A v \in Worker : Writing(v)' = Writing(v) /\ (Writing(v) => req'[v] = req[v])
  BY <1>1, <1>3 DEF Writing, Idle
<1>5. ModesTypeOK'
  BY <1>1, <1>2 DEF IInv, TypeOK, ModesTypeOK
<1>6. \A n \in Mode : modes'[n] = IF n = req[w].mode THEN None ELSE modes[n]
  BY <1>1 DEF IInv, TypeOK, ModesTypeOK
<1>7. \A n \in Linked : modes[n] # None => modes'[n] # None
  <2>1. Linked \subseteq Mode
    BY DEF Linked, Existing, IInv, TypeOK, UserRow
  <2> QED BY <1>1, <1>6, <2>1
<1>8. PasswordBelongsToSettings'
  BY <1>1, <1>4, <1>6 DEF IInv, PasswordBelongsToSettings, Writing
<1>9. OneWriter'
  <2>1. \A v \in Worker : Writing(v) => req[v].mode \in Mode
    BY KindsDiffer DEF IInv, ModeRequest, Writing
  <2> QED BY <1>1, <1>4, <1>6, <2>1 DEF IInv, OneWriter
<1>10. req[w].kind \notin UserKind /\ req'[w].kind \notin UserKind
  BY <1>1, <1>3 DEF UserKind, Idle
<1> QED BY <1>3, <1>5, <1>7, <1>8, <1>9, <1>10, ModesStepKeepsInv

\* A contract's mode, written by one step, ends a pair that was under way.
LEMMA ApplyDefaultModeKeepsInv ==
  ASSUME IInv, UNCHANGED <<users, stale, renamed>>, NEW w \in Worker, ApplyDefaultMode(w)
  PROVE  IInv'
<1>1. PICK m \in Mode, s \in Settings :
        /\ req[w] = Idle
        /\ modes' = [modes EXCEPT ![m] = [settings |-> s, password |-> Empty]]
        /\ paired' = (paired /\ ~BetweenStatements(w, m))
        /\ req' = req
  BY DEF ApplyDefaultMode
<1>2. [settings |-> s, password |-> Empty] \in ModeRow
  BY DEF ModeRow
<1>3. ModesTypeOK'
  BY <1>1, <1>2 DEF IInv, TypeOK, ModesTypeOK
<1>4. \A n \in Mode : modes'[n] = IF n = m THEN [settings |-> s, password |-> Empty]
                                           ELSE modes[n]
  BY <1>1 DEF IInv, TypeOK, ModesTypeOK
<1>5. \A n \in Mode : modes[n] # None => modes'[n] # None
  BY <1>2, <1>4, NoModeAssumption
<1>6. Linked \subseteq Mode
  BY DEF Linked, Existing, IInv, TypeOK, UserRow
<1>7. PasswordBelongsToSettings'
  <2> SUFFICES ASSUME NEW n \in Mode, paired', modes'[n] # None,
                      \A v \in Worker : ~(req'[v].kind = "encrypt" /\ req'[v].mode = n)
               PROVE  modes'[n].password \in {modes'[n].settings, Empty}
    BY DEF PasswordBelongsToSettings
  <2>1. CASE n = m
    BY <1>4, <2>1
  <2>2. CASE n # m
    <3>1. paired /\ modes'[n] = modes[n]
      BY <1>1, <1>4, <2>2
    <3> QED BY <1>1, <3>1 DEF IInv, PasswordBelongsToSettings
  <2> QED BY <2>1, <2>2
<1>8. OneWriter'
  <2> SUFFICES ASSUME paired' PROVE OneWriter'
    BY DEF OneWriter
  <2>1. paired /\ \A v \in Worker : Writing(v) => req[v].mode # m
    <3>1. paired /\ ~BetweenStatements(w, m)
      BY <1>1
    <3>2. req[w].kind = "idle"
      BY <1>1 DEF Idle
    <3> QED BY <3>1, <3>2 DEF BetweenStatements, Writing
  <2>2. \A v \in Worker : Writing(v) => req[v].mode \in Mode
    BY KindsDiffer DEF IInv, ModeRequest, Writing
  <2> QED BY <1>1, <1>4, <2>1, <2>2 DEF IInv, OneWriter, Writing
<1>9. req[w].kind \notin UserKind /\ req'[w].kind \notin UserKind
  BY <1>1 DEF UserKind, Idle
<1> QED BY <1>1, <1>3, <1>5, <1>6, <1>7, <1>8, <1>9, ModesStepKeepsInv DEF IInv, TypeOK

\* Given up between its statements, a save of a mode ends pairing.
LEMMA RejectModeKeepsInv ==
  ASSUME IInv, UNCHANGED <<users, stale, renamed>>, NEW w \in Worker, RejectMode(w)
  PROVE  IInv'
<1>1. /\ req[w].kind \in {"createMode", "updateMode", "encrypt", "deleteMode"}
      /\ req' = [req EXCEPT ![w] = Idle]
      /\ paired' = (paired /\ ~Writing(w))
      /\ UNCHANGED modes
  BY DEF RejectMode, Writing
<1>2. /\ req'[w] = Idle /\ \A v \in Worker \ {w} : req'[v] = req[v]
      /\ req' \in [Worker -> {Idle} \cup ModeRequest \cup UserRequest]
  BY <1>1 DEF IInv, TypeOK
<1>3. ModesTypeOK'
  BY <1>1 DEF IInv, TypeOK, ModesTypeOK
<1>4. paired' => paired /\ \A v \in Worker : Writing(v)' = Writing(v)
                                             /\ (Writing(v) => req'[v] = req[v])
  BY <1>1, <1>2 DEF Writing, Idle
<1>5. PasswordBelongsToSettings'
  BY <1>1, <1>4 DEF IInv, PasswordBelongsToSettings, Writing
<1>6. OneWriter'
  BY <1>1, <1>4 DEF IInv, OneWriter
<1>7. req[w].kind \notin UserKind /\ req'[w].kind \notin UserKind
  BY <1>1, <1>2 DEF UserKind, Idle
<1> QED BY <1>1, <1>2, <1>3, <1>5, <1>6, <1>7, ModesStepKeepsInv

-----------------------------------------------------------------------------
LEMMA InitInv == Init => IInv
<1> SUFFICES ASSUME Init PROVE IInv
  OBVIOUS
<1>1. Existing = {}
  BY DEF Init, Existing
<1>2. TypeOK
  BY DEF Init, ModesInit, TypeOK, ModesTypeOK
<1> QED BY <1>1, <1>2 DEF Init, ModesInit, IInv, LinkedModesExist, PasswordBelongsToSettings,
           RowsWellNamed, RequestsWellFormed, WellFormed, ReadsCurrent, Current, OneWriter,
           Writing, Idle, UserKind

\* A step is one worker's: on a user, or on a mode.
LEMMA NextKeepsInv == IInv /\ [Next]_vars => IInv'
<1> SUFFICES ASSUME IInv, [Next]_vars PROVE IInv'
  OBVIOUS
<1>1. ASSUME NEW w \in Worker,
             \/ CreateUser(w) \/ UpdateUser(w) \/ ApplyDefaultUser(w)
             \/ DeleteUser(w) \/ LoginThroughLdap(w)
      PROVE  IInv'
  BY <1>1, StartKeepsInv
<1>2. ASSUME NEW w \in Worker, RejectUser(w) PROVE IInv'
  BY <1>2, RejectKeepsInv
<1>3. ASSUME NEW w \in Worker, WriteUser(w) PROVE IInv'
  BY <1>3, WriteKeepsInv
<1>4. ASSUME NEW w \in Worker, ModesNext(w, Linked), UNCHANGED <<users, stale, renamed>>
      PROVE  IInv'
  BY <1>4, LoadModeKeepsInv, SaveModeKeepsInv, EncryptKeepsInv, DeleteModeKeepsInv,
     ApplyDefaultModeKeepsInv, RejectModeKeepsInv DEF ModesNext
<1>5. CASE UNCHANGED vars
  BY <1>5 DEF vars, IInv, TypeOK, ModesTypeOK, LinkedModesExist, PasswordBelongsToSettings,
              RowsWellNamed, RequestsWellFormed, WellFormed, ReadsCurrent, Current, OneWriter,
              Writing, Existing
<1> QED BY <1>1, <1>2, <1>3, <1>4, <1>5 DEF Next

\* The inductive invariant of users and modes, whatever the interleaving.
THEOREM Invariant == Spec => []IInv
BY InitInv, NextKeepsInv, PTL DEF Spec

\* The variables of Users and LdapModes keep their types.
THEOREM TypeCorrect == Spec => []TypeOK
<1>1. IInv => TypeOK
  BY DEF IInv
<1> QED BY <1>1, Invariant, PTL

\* No user's directory is ever missing: a link is written and a mode is removed under
\* the foreign key, whatever was looked up before.
THEOREM LinkedModesAlwaysExist == Spec => []LinkedModesExist
<1>1. IInv => LinkedModesExist
  BY DEF IInv
<1> QED BY <1>1, Invariant, PTL

\* A mode that nobody is writing has its own password, while no two saves of one mode
\* overlapped and none stopped between its statements.
THEOREM PasswordsAlwaysBelong == Spec => []PasswordBelongsToSettings
<1>1. IInv => PasswordBelongsToSettings
  BY DEF IInv
<1> QED BY <1>1, Invariant, PTL

\* Signing in with a user's name finds that user and no other one.
THEOREM NamesFindTheirBearers == Spec => []NameFindsItsBearer
<1>1. IInv => NameFindsItsBearer
  BY DEF IInv, RowsWellNamed, NameFindsItsBearer
<1> QED BY <1>1, Invariant, PTL

\* What a deletion that nobody overtook writes.
LEMMA DeletionRow ==
  ASSUME IInv, NEW w \in Worker \ stale, req[w].kind = "delete"
  PROVE  /\ req[w].user \in Existing
         /\ users[req[w].user].name \in Decorated
         /\ req[w].row.name = Deletion(users[req[w].user].name)
         /\ req[w].row.norm = Normalized(req[w].row.name)
         /\ req[w].row.mode = users[req[w].user].mode
<1>1. /\ WellFormed(req[w]) /\ Current(req[w])
      /\ req[w].kind \in UserKind
  BY DEF IInv, RequestsWellFormed, ReadsCurrent, UserKind
<1>2. req[w].user \in Existing
  BY <1>1 DEF WellFormed, Current
<1>3. users[req[w].user] \in UserRow
  BY <1>2 DEF IInv, TypeOK, Existing
<1> QED BY <1>1, <1>2, <1>3 DEF WellFormed, Current, UserRow

\* Only a namesake deleted before is in the way of a deletion: a live user's name is not
\* decorated, and the user's directory is there.
THEOREM OnlyNamesakesEverBlock == Spec => []OnlyNamesakesBlockDeletion
<1>1. IInv => OnlyNamesakesBlockDeletion
  <2> SUFFICES ASSUME IInv, NEW w \in Worker \ stale, req[w].kind = "delete", ~renamed,
                      ~Acceptable(req[w].user, req[w].row)
               PROVE  \E v \in Existing \ {req[w].user} :
                         users[v].deleted /\ users[v].norm = req[w].row.norm
    BY DEF OnlyNamesakesBlockDeletion
  <2> DEFINE u == req[w].user  row == req[w].row
  <2>1. /\ u \in Existing /\ users[u].name \in Decorated
        /\ row.name = Deletion(users[u].name) /\ row.norm = Normalized(row.name)
        /\ row.mode = users[u].mode
    BY DeletionRow
  <2>2. row.mode # None => modes[row.mode] # None
    BY <2>1 DEF IInv, LinkedModesExist
  <2>3. PICK v \in Existing \ {u} : users[v].name = row.name \/ users[v].norm = row.norm
    BY <2>2 DEF Acceptable
  <2>4. users[v].norm = Normalized(users[v].name) /\ users[v] \in UserRow
    BY DEF IInv, RowsWellNamed, TypeOK, Existing
  <2> HIDE DEF u, row
  <2>5. users[v].norm = row.norm
    BY <2>1, <2>3, <2>4
  <2>6. row.name[2] > 0 /\ row.norm[2] = row.name[2]
    <3>1. row.name[2] > 0
      BY <2>1, DeletionDecorates
    <3> QED BY <2>1, <3>1 DEF Normalized
  <2>7. users[v].norm[2] = users[v].name[2]
    BY <2>4 DEF Normalized
  <2>8. users[v].deleted
    BY <2>5, <2>6, <2>7 DEF IInv, RowsWellNamed
  <2> QED BY <2>5, <2>8 DEF u, row
<1> QED BY <1>1, Invariant, PTL

\* A deletion that nobody overtook gives the name back, in both of its forms.
THEOREM DeletionsAlwaysFreeTheName == Spec => DeletionFreesTheName
<1>1. IInv /\ [Next]_vars =>
        [\A w \in Worker \ stale :
           req[w].kind = "delete" /\ WriteUser(w) /\ ~renamed =>
              LET old == users[req[w].user].name IN
              \A v \in Existing : users'[v].name # old /\ users'[v].norm # Normalized(old)]_vars
  <2> SUFFICES ASSUME IInv, NEW w \in Worker \ stale, req[w].kind = "delete", WriteUser(w),
                      ~renamed, NEW v \in Existing
               PROVE  /\ users'[v].name # users[req[w].user].name
                      /\ users'[v].norm # Normalized(users[req[w].user].name)
    OBVIOUS
  <2> DEFINE u == req[w].user  row == req[w].row
  <2>1. /\ u \in Existing /\ users[u].name \in Decorated
        /\ row.name = Deletion(users[u].name) /\ row.norm = Normalized(row.name)
    BY DeletionRow
  <2>2. users' = [users EXCEPT ![u] = row]
    BY DEF WriteUser
  <2> HIDE DEF u, row
  <2>3. CASE v = u
    <3>1. users'[v] = row
      BY <2>1, <2>2, <2>3 DEF IInv, TypeOK, Existing
    <3> QED BY <2>1, <3>1, DeletionDecorates DEF u
  <2>4. CASE v # u
    <3>1. users'[v] = users[v]
      BY <2>2, <2>4 DEF IInv, TypeOK, Existing
    <3>2. /\ users[v].norm # users[u].norm
          /\ users[v].norm = Normalized(users[v].name)
          /\ users[u].norm = Normalized(users[u].name)
      BY <2>1, <2>4 DEF IInv, RowsWellNamed
    <3> QED BY <3>1, <3>2 DEF u
  <2> QED BY <2>3, <2>4
<1> QED BY <1>1, Invariant, PTL DEF Spec, DeletionFreesTheName

\* A link changes by a request that says so, or by one that was overtaken.
THEOREM LinksAlwaysChangeOnRequest == Spec => LinksChangeOnRequest
<1>1. IInv /\ [Next]_vars =>
        [\A u \in Existing : users'[u].mode # users[u].mode =>
           \E w \in Worker :
              /\ WriteUser(w) /\ req[w].user = u
              /\ \/ w \in stale
                 \/ req[w].kind = "update"
                 \/ req[w].kind = "default" /\ req[w].row.mode # None]_vars
  <2> SUFFICES ASSUME IInv, Next, NEW u \in Existing, users'[u].mode # users[u].mode
               PROVE  \E w \in Worker :
                         /\ WriteUser(w) /\ req[w].user = u
                         /\ \/ w \in stale
                            \/ req[w].kind = "update"
                            \/ req[w].kind = "default" /\ req[w].row.mode # None
    OBVIOUS
  <2>1. PICK w \in Worker : WriteUser(w)
    BY DEF Next, CreateUser, UpdateUser, ApplyDefaultUser, DeleteUser, LoginThroughLdap,
           Load, RejectUser
  <2>2. /\ users' = [users EXCEPT ![req[w].user] = req[w].row]
        /\ req[w].kind \in UserKind
        /\ req[w].fresh => users[req[w].user] = None
    BY <2>1 DEF WriteUser
  <2>3. req[w].user = u /\ users'[u] = req[w].row /\ u \in User
    BY <2>2 DEF IInv, TypeOK, Existing
  <2>4. ~req[w].fresh
    BY <2>2, <2>3 DEF Existing
  <2>5. CASE w \in stale
    BY <2>1, <2>3, <2>5
  <2>6. CASE w \notin stale
    <3>1. Current(req[w]) /\ WellFormed(req[w])
      BY <2>6 DEF IInv, ReadsCurrent, RequestsWellFormed
    <3>2. req[w].kind \in {"update", "default"}
      BY <2>2, <2>3, <2>4, <3>1 DEF Current, WellFormed, UserKind
    <3>3. req[w].kind = "default" => req[w].row.mode # None
      BY <2>2, <2>3, <2>4, <3>1 DEF Current
    <3> QED BY <2>1, <2>3, <3>2, <3>3
  <2> QED BY <2>5, <2>6
<1> QED BY <1>1, Invariant, PTL DEF Spec, LinksChangeOnRequest

=============================================================================
