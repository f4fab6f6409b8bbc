---------------------------- MODULE AccountProofs ----------------------------
(***************************************************************************)
(* While requests neither overtake one another nor stop half-way, a deleted *)
(* user stays deleted, a recovery code admits once and the second factor is *)
(* on only with a proven authenticator, for any number of browsers, keys    *)
(* and codes.                                                               *)
(***************************************************************************)
EXTENDS AccountProperties, TLAPS

\* A request is past its first write: it can no longer end quietly once it is stale.
RemovalStages == {"removed", "touched", "gone", "clear"}
Mid == {"redeemed", "blank", "stored", "verify", "replaced"} \cup RemovalStages

\* What a request that was not overtaken knows of the account.
Current(r) ==
    /\ r.row.deleted = user.deleted
    /\ r.at # "verify" => r.row = user
    /\ r.at = "redeem" => r.codes = codes
    /\ r.at = "redeemed" => r.code \in drawn \ (codes \cup admitted)
    /\ r.at = "reset" => ~token.verified /\ r.hadToken = token.there
    /\ r.at = "blank" => ~token.verified /\ token.there /\ token.key = None
    /\ r.at = "enable" => token.key \in proven
    /\ r.at \in RemovalStages => token = NoRow

ReadsCurrent == \A p \in Process \ stale : req[p] # Idle => Current(req[p])

OneRedeemer ==
    \A p, q \in Process \ stale :
        req[p].at = "redeemed" /\ req[q].at = "redeemed" => p = q

CodesFresh == codes \cup admitted \subseteq drawn /\ codes \cap admitted = {}

\* The factor is on with a proven authenticator, or somebody is about to see to it,
\* or cannot end without being noticed.
Settled == user.enabled => token.verified /\ token.key \in proven
Enabling == token.key \in proven /\ \E p \in Process \ stale : req[p].at = "verify"
Removing == \E p \in Process \ stale : req[p].at \in RemovalStages
Doomed == \E p \in stale : req[p].at \in Mid
UnderWay == Settled \/ Enabling \/ Removing \/ Doomed

\* Requests have codes where they use them; a key has its row; who is idle is not stale.
RedeemedCodes == \A p \in Process : req[p].at = "redeemed" => req[p].code \in Code
KeyHasRow == token.key # None => token.there
StaleBusy == \A p \in stale : req[p] # Idle

IInv ==
    /\ TypeOK /\ RedeemedCodes /\ KeyHasRow /\ StaleBusy
    /\ clean => ReadsCurrent /\ OneRedeemer /\ CodesFresh /\ ~again /\ UnderWay

-----------------------------------------------------------------------------
\* What every step of process p leaves of the others: their requests, and the account,
\* or else they are stale.
Spares(p) ==
    /\ \A q \in Process \ {p} : req'[q] = req[q]
    /\ \A q \in Process \ {p} : q \in stale => q \in stale'
    /\ \A q \in Process \ {p} :
          q \notin stale' /\ req[q] # Idle => UNCHANGED <<user, token, codes>>
    /\ \A q \in stale' : req'[q] # Idle
    /\ clean' => clean
    /\ drawn \subseteq drawn' /\ proven \subseteq proven'

\* A request is idle or has its fields.
LEMMA Requests ==
  ASSUME TypeOK, NEW p \in Process
  PROVE  /\ req[p] = Idle \/ req[p] \in Request
         /\ req[p].at = "idle" <=> req[p] = Idle
         /\ req[p].at # "idle" => req[p] \in Request
BY DEF TypeOK, Idle, Request, Stage

\* A write makes every other request stale.
LEMMA WrittenSpares ==
  ASSUME TypeOK, StaleBusy, NEW p \in Process, Written(p),
         \A q \in Process \ {p} : req'[q] = req[q],
         drawn \subseteq drawn', proven \subseteq proven'
  PROVE  /\ Spares(p)
         /\ stale' \in SUBSET Process /\ clean' \in BOOLEAN
         /\ clean' => clean /\ p \notin stale /\ p \notin stale'
<1>1. clean \in BOOLEAN /\ stale \in SUBSET Process
  BY DEF TypeOK
<1>2. clean' = (clean /\ p \notin stale)
  BY DEF Written
<1> DEFINE others == {q \in Process \ {p} : req[q] # Idle}
<1>3. CASE UNCHANGED account
  <2>1. stale' = stale \ (IF req'[p] = Idle THEN {p} ELSE {})
    BY <1>3 DEF Written
  <2>2. UNCHANGED <<user, token, codes>>
    BY <1>3 DEF account
  <2> QED BY <1>1, <1>2, <2>1, <2>2 DEF Spares, StaleBusy
<1>4. CASE ~(UNCHANGED account)
  <2>1. stale' = (stale \cup others) \ (IF req'[p] = Idle THEN {p} ELSE {})
    BY <1>4 DEF Written
  <2> QED BY <1>1, <1>2, <2>1 DEF Spares, StaleBusy
<1> QED BY <1>3, <1>4

\* What remains to be shown of a step of p that spares the others.
LEMMA StepKeepsInv ==
  ASSUME IInv, NEW p \in Process, TypeOK', Spares(p), KeyHasRow',
         req'[p].at = "redeemed" => req'[p].code \in Code,
         ASSUME clean'
         PROVE  /\ req'[p] # Idle /\ p \notin stale' => Current(req[p])'
                /\ CodesFresh' /\ ~again' /\ UnderWay'
                /\ \A q \in Process \ {p} : q \notin stale' /\ req[q].at = "redeemed" =>
                      req[q].code \notin admitted' /\ req'[p].at # "redeemed"
  PROVE  IInv'
<1>1. RedeemedCodes'
  BY DEF IInv, RedeemedCodes, Spares
<1>2. StaleBusy'
  BY DEF Spares, StaleBusy
<1>3. ASSUME clean' PROVE ReadsCurrent' /\ OneRedeemer'
  <2>1. clean /\ ReadsCurrent /\ OneRedeemer
    BY <1>3 DEF Spares, IInv
  <2>2. ASSUME NEW q \in Process \ stale', req'[q] # Idle PROVE Current(req[q])'
    <3>1. CASE q = p
      BY <1>3, <2>2, <3>1
    <3>2. CASE q # p
      <4>1. /\ req'[q] = req[q] /\ q \notin stale
            /\ user' = user /\ token' = token /\ codes' = codes
            /\ drawn \subseteq drawn' /\ proven \subseteq proven'
            /\ req[q].at = "redeemed" => req[q].code \notin admitted'
        BY <1>3, <2>2, <3>2 DEF Spares
      <4>2. Current(req[q])
        BY <2>1, <2>2, <4>1 DEF ReadsCurrent
      <4> QED BY <4>1, <4>2 DEF Current
    <3> QED BY <3>1, <3>2
  <2>3. ASSUME NEW q \in Process \ stale', NEW x \in Process \ stale',
               req'[q].at = "redeemed", req'[x].at = "redeemed"
        PROVE  q = x
    <3>1. CASE q # p /\ x # p
      BY <2>1, <2>3, <3>1 DEF Spares, OneRedeemer
    <3>2. CASE q = p /\ x # p
      BY <1>3, <2>3, <3>2 DEF Spares
    <3>3. CASE q # p /\ x = p
      BY <1>3, <2>3, <3>3 DEF Spares
    <3> QED BY <3>1, <3>2, <3>3
  <2> QED BY <2>2, <2>3 DEF ReadsCurrent, OneRedeemer
<1> QED BY <1>1, <1>2, <1>3 DEF IInv

\* A step that leaves factor and key alone, and is not one of those that see to it.
LEMMA StaysUnderWay ==
  ASSUME IInv, NEW p \in Process, Spares(p), clean',
         user'.enabled = user.enabled, token' = token,
         req[p].at \notin {"verify"} \cup RemovalStages,
         p \notin stale \/ req[p].at \notin Mid
  PROVE  UnderWay'
<1>1. UnderWay
  BY DEF IInv, Spares
<1>2. proven \subseteq proven'
  BY DEF Spares
<1>3. CASE Settled
  BY <1>2, <1>3 DEF Settled, UnderWay
<1>4. ASSUME NEW q \in Process, q # p, q \in stale, req[q].at \in Mid PROVE Doomed'
  BY <1>4 DEF Spares, Doomed
<1>5. CASE Doomed
  <2>1. PICK q \in stale : req[q].at \in Mid
    BY <1>5 DEF Doomed
  <2>2. q \in Process
    BY DEF IInv, TypeOK
  <2> QED BY <1>4, <2>1, <2>2 DEF UnderWay
<1>6. CASE Enabling
  <2>1. PICK q \in Process \ stale : req[q].at = "verify" /\ token.key \in proven
    BY <1>6 DEF Enabling
  <2>2. q # p /\ req'[q] = req[q] /\ token'.key \in proven'
    BY <1>2, <2>1 DEF Spares
  <2>3. CASE q \in stale'
    BY <2>1, <2>2, <2>3 DEF Doomed, UnderWay, Mid
  <2>4. CASE q \notin stale'
    BY <2>1, <2>2, <2>4 DEF Enabling, UnderWay
  <2> QED BY <2>3, <2>4
<1>7. CASE Removing
  <2>1. PICK q \in Process \ stale : req[q].at \in RemovalStages
    BY <1>7 DEF Removing
  <2>2. q # p /\ req'[q] = req[q]
    BY <2>1 DEF Spares
  <2>3. CASE q \in stale'
    BY <2>1, <2>2, <2>3 DEF Doomed, UnderWay, Mid, RemovalStages
  <2>4. CASE q \notin stale'
    BY <2>1, <2>2, <2>4 DEF Removing, UnderWay
  <2> QED BY <2>3, <2>4
<1> QED BY <1>1, <1>3, <1>5, <1>6, <1>7 DEF UnderWay

\* Nobody is admitted: no other request holds a code that was.
LEMMA NobodyAdmitted ==
  ASSUME IInv, NEW p \in Process, Spares(p), clean', req'[p].at # "redeemed",
         UNCHANGED admitted
  PROVE  \A q \in Process \ {p} : q \notin stale' /\ req[q].at = "redeemed" =>
             req[q].code \notin admitted' /\ req'[p].at # "redeemed"
<1>1. clean /\ ReadsCurrent
  BY DEF IInv, Spares
<1>2. ASSUME NEW q \in Process \ {p}, q \notin stale', req[q].at = "redeemed"
      PROVE  req[q].code \notin admitted'
  <2>1. q \notin stale
    BY <1>2 DEF Spares
  <2>2. req[q] # Idle
    BY <1>2 DEF Idle
  <2>3. Current(req[q])
    BY <1>1, <2>1, <2>2 DEF ReadsCurrent
  <2> QED BY <1>2, <2>3 DEF Current
<1> QED BY <1>2

\* The codes are untouched: what StepKeepsInv asks of codes holds.
LEMMA CodesStay ==
  ASSUME IInv, NEW p \in Process, Spares(p), clean', req'[p].at # "redeemed",
         UNCHANGED <<codes, admitted, again>>
  PROVE  /\ CodesFresh' /\ ~again'
         /\ \A q \in Process \ {p} : q \notin stale' /\ req[q].at = "redeemed" =>
                req[q].code \notin admitted' /\ req'[p].at # "redeemed"
<1>1. clean /\ CodesFresh /\ ~again
  BY DEF IInv, Spares
<1>2. CodesFresh'
  BY <1>1 DEF CodesFresh, Spares
<1> QED BY <1>1, <1>2, NobodyAdmitted

-----------------------------------------------------------------------------
\* A request as it is loaded.
LEMMA LoadedRequest ==
  ASSUME TypeOK, NEW stage \in Stage
  PROVE  /\ Loaded(stage) \in Request
         /\ Loaded(stage).at = stage /\ Loaded(stage).row = user
         /\ stage = "redeem" => Loaded(stage).codes = codes
         /\ stage = "reset" => Loaded(stage).hadToken = token.there
BY DEF TypeOK, Loaded, Request, Token

\* Such a request knows the account.
LEMMA LoadedCurrent ==
  ASSUME TypeOK, NEW stage \in Stage, NEW r \in Request,
         r.at = stage, r.row = user,
         stage = "redeem" => r.codes = codes,
         stage = "reset" => ~token.verified /\ r.hadToken = token.there,
         stage \notin {"redeemed", "blank", "enable"} \cup RemovalStages
  PROVE  Current(r)
BY DEF Current

\* Beginning a request changes nothing else.
LEMMA BeginKeepsInv ==
  ASSUME IInv, NEW p \in Process, NEW r \in Request, req[p].at = "idle",
         req' = [req EXCEPT ![p] = r],
         UNCHANGED <<user, token, codes, sess, drawn, shown, admitted, again,
                     stale, clean, issued>>,
         proven \subseteq proven', proven' \in SUBSET Key, r.at # "redeemed",
         \/ Current(r)
         \/ r.at = "enable" /\ r.row = user /\ token.key \in proven'
  PROVE  IInv'
<1>1. req[p] = Idle /\ p \notin stale
  BY Requests DEF IInv, StaleBusy
<1>2. TypeOK'
  BY DEF IInv, TypeOK
<1>3. /\ req'[p] = r /\ r # Idle
      /\ \A q \in Process \ {p} : req'[q] = req[q]
  BY DEF IInv, TypeOK, Idle, Request, Stage
<1>4. Spares(p)
  BY <1>1, <1>3 DEF Spares, IInv, StaleBusy, TypeOK
<1>5. Current(req[p])'
  <2>1. CASE Current(r)
    BY <1>3, <2>1 DEF Current
  <2>2. CASE r.at = "enable" /\ r.row = user /\ token.key \in proven'
    BY <1>3, <2>2 DEF Current, RemovalStages
  <2> QED BY <2>1, <2>2
<1>6. clean' => UnderWay'
  BY <1>1, <1>4, StaysUnderWay DEF Idle, RemovalStages
<1>7. clean' => /\ CodesFresh' /\ ~again'
                /\ \A q \in Process \ {p} : q \notin stale' /\ req[q].at = "redeemed" =>
                      req[q].code \notin admitted' /\ req'[p].at # "redeemed"
  BY <1>3, <1>4, CodesStay
<1>8. KeyHasRow'
  BY DEF IInv, KeyHasRow
<1> QED BY <1>2, <1>3, <1>4, <1>5, <1>6, <1>7, <1>8, StepKeepsInv

LEMMA BrowserBegins ==
  ASSUME IInv, NEW b \in Browser, UNCHANGED issued,
         StartLogin(b) \/ StartVerify(b) \/ StartRegistration(b) \/ StartCompletion(b)
           \/ StartCodeReset(b)
  PROVE  IInv'
<1>0. b \in Process /\ TypeOK
  BY DEF Process, IInv
<1>1. ASSUME NEW stage \in {"login", "otp", "redeem", "reset", "replace", "verify"},
             NEW r \in Request, Begin(b, r), r.at = stage, r.row = user,
             stage = "redeem" => r.codes = codes,
             stage = "reset" => ~token.verified /\ r.hadToken = token.there
      PROVE  IInv'
  <2>1. stage \in Stage /\ Current(r)
    BY <1>0, <1>1, LoadedCurrent DEF Stage, RemovalStages
  <2> QED BY <1>0, <1>1, <2>1, BeginKeepsInv DEF Begin, At, account, observed, TypeOK
<1>2. CASE StartLogin(b)
  BY <1>0, <1>1, <1>2, LoadedRequest DEF StartLogin, Stage
<1>3. CASE StartVerify(b)
  BY <1>0, <1>1, <1>3, LoadedRequest DEF StartVerify, Stage
<1>4. CASE StartRegistration(b)
  BY <1>0, <1>1, <1>4, LoadedRequest DEF StartRegistration, Stage
<1>5. CASE StartCompletion(b)
  <2> DEFINE stage == IF codes = {} THEN "replace" ELSE "verify"
             r == [Loaded(stage) EXCEPT !.completes = TRUE]
  <2>1. Begin(b, r)
    BY <1>5 DEF StartCompletion
  <2>2. stage \in {"replace", "verify"}
    OBVIOUS
  <2> HIDE DEF stage
  <2>3. r \in Request /\ r.at = stage /\ r.row = user
    <3>1. stage \in Stage
      BY <2>2 DEF Stage
    <3>2. Loaded(stage) \in Request /\ Loaded(stage).at = stage /\ Loaded(stage).row = user
      BY <1>0, <3>1, LoadedRequest
    <3> QED BY <3>2 DEF Request
  <2> HIDE DEF r
  <2> QED BY <1>1, <2>1, <2>2, <2>3
<1>6. CASE StartCodeReset(b)
  BY <1>0, <1>1, <1>6, LoadedRequest DEF StartCodeReset, Stage
<1> QED BY <1>2, <1>3, <1>4, <1>5, <1>6

LEMMA ApiBegins ==
  ASSUME IInv, StartApi, UNCHANGED issued
  PROVE  IInv'
<1>0. Api \in Process /\ TypeOK
  BY DEF Process, IInv
<1>1. PICK stage \in {"remove2FA", "update", "delete"} : Begin(Api, Loaded(stage))
  BY DEF StartApi
<1>2. stage \in Stage
  BY DEF Stage
<1>3. Current(Loaded(stage))
  BY <1>0, <1>1, <1>2, LoadedRequest, LoadedCurrent DEF RemovalStages
<1> QED BY <1>0, <1>1, <1>2, <1>3, LoadedRequest, BeginKeepsInv DEF Begin, At, account, observed, TypeOK

\* Pages and cookies of who does not write are no part of the argument.
LEMMA ObserversKeepInv ==
  ASSUME IInv, TypeOK',
         UNCHANGED <<user, token, codes, req, drawn, proven, admitted, again, stale, clean>>
  PROVE  IInv'
BY DEF IInv, RedeemedCodes, KeyHasRow, StaleBusy, ReadsCurrent, Current, OneRedeemer,
       CodesFresh, UnderWay, Settled, Enabling, Removing, Doomed, NoRow

-----------------------------------------------------------------------------
\* Who writes and ends the condition not, knows the account.
LEMMA WriterKnows ==
  ASSUME IInv, NEW p \in Process, Written(p), req[p].at # "idle", clean'
  PROVE  /\ clean /\ p \notin stale /\ Current(req[p])
         /\ ReadsCurrent /\ OneRedeemer /\ CodesFresh /\ ~again /\ UnderWay
<1>1. clean /\ p \notin stale
  BY DEF Written, IInv, TypeOK
<1>2. req[p] # Idle
  BY DEF Idle
<1> QED BY <1>1, <1>2 DEF IInv, ReadsCurrent

\* A request that ends with a write of the user's row only, if any.
LEMMA FinishKeepsInv ==
  ASSUME IInv, NEW p \in Process, TypeOK', Written(p),
         req' = [req EXCEPT ![p] = Idle],
         req[p].at \notin {"idle", "verify"} \cup RemovalStages,
         UNCHANGED <<token, codes, drawn, proven, admitted, again>>,
         Current(req[p]) => user'.enabled = user.enabled
  PROVE  IInv'
<1>1. \A q \in Process \ {p} : req'[q] = req[q]
  OBVIOUS
<1>2. req'[p] = Idle /\ req'[p].at # "redeemed"
  BY DEF IInv, TypeOK, Idle
<1>3. Spares(p) /\ (clean' => p \notin stale)
  BY <1>1, WrittenSpares DEF IInv
<1>4. KeyHasRow'
  BY DEF IInv, KeyHasRow
<1>5. clean' => UnderWay'
  BY <1>3, WriterKnows, StaysUnderWay
<1>6. clean' => /\ CodesFresh' /\ ~again'
                /\ \A q \in Process \ {p} : q \notin stale' /\ req[q].at = "redeemed" =>
                      req[q].code \notin admitted' /\ req'[p].at # "redeemed"
  BY <1>2, <1>3, CodesStay
<1> QED BY <1>2, <1>3, <1>4, <1>5, <1>6, StepKeepsInv

\* The row of a request, and what a request writes of it, are rows.
LEMMA RowsAreRows ==
  ASSUME TypeOK, NEW p \in Process, req[p].at # "idle"
  PROVE  req[p] \in Request /\ req[p].row \in Row
BY Requests DEF Request

\* Signing in and failing to, the last step of a registration page, and an update or
\* deletion by the API.
LEMMA LastWritesKeepInv ==
  ASSUME IInv, NEW p \in Process, UNCHANGED issued,
         \/ p \in Browser /\ (FailLogin(p) \/ PasswordSignIn(p) \/ RequireTwoFactor(p)
                                \/ OtpSignIn(p) \/ SaveAfterKey(p))
         \/ p = Api /\ (UpdateUser \/ DeleteUser)
  PROVE  IInv'
<1>0. TypeOK
  BY DEF IInv
<1>1. /\ req[p].at \in {"login", "otp", "stored", "update", "delete"}
      /\ req' = [req EXCEPT ![p] = Idle] /\ Written(p)
      /\ UNCHANGED <<token, codes, drawn, proven, admitted, again>>
  BY DEF FailLogin, PasswordSignIn, RequireTwoFactor, OtpSignIn, SaveAfterKey, UpdateUser,
         DeleteUser, At, Finish, account, observed
<1>2. \/ user' = user
      \/ user' = req[p].row
      \/ user' = [req[p].row EXCEPT !.deleted = TRUE]
  BY DEF FailLogin, PasswordSignIn, RequireTwoFactor, OtpSignIn, SaveAfterKey, UpdateUser,
         DeleteUser, SaveUser, account
<1>3. req[p] \in Request /\ req[p].row \in Row
  BY <1>0, <1>1, RowsAreRows
<1>4. user' \in Row
  BY <1>0, <1>2, <1>3 DEF Row, TypeOK
<1>5. sess' \in [Browser -> {"out", "half", "in"}] /\ shown' \in SUBSET Key
  BY <1>0 DEF TypeOK, FailLogin, PasswordSignIn, RequireTwoFactor, OtpSignIn, SaveAfterKey,
              UpdateUser, DeleteUser, Token, Usable
<1>6. \A q \in Process \ {p} : req'[q] = req[q]
  BY <1>1
<1>7. stale' \in SUBSET Process /\ clean' \in BOOLEAN
  BY <1>1, <1>6, WrittenSpares DEF IInv
<1>8. TypeOK'
  BY <1>0, <1>1, <1>4, <1>5, <1>7 DEF TypeOK
<1>9. Current(req[p]) => user'.enabled = user.enabled
  <2> SUFFICES ASSUME Current(req[p]) PROVE user'.enabled = user.enabled
    OBVIOUS
  <2>1. req[p].row = user
    BY <1>1 DEF Current
  <2> QED BY <1>0, <1>2, <2>1 DEF TypeOK, Row
<1>10. req[p].at \notin {"idle", "verify"} \cup RemovalStages
  BY <1>1 DEF RemovalStages
<1> QED BY <1>1, <1>8, <1>9, <1>10, FinishKeepsInv

\* Giving up: noticed if the request has written.
LEMMA AbortKeepsInv ==
  ASSUME IInv, NEW p \in Process, Abort(p), UNCHANGED issued
  PROVE  IInv'
<1>1. /\ req[p] # Idle
      /\ req' = [req EXCEPT ![p] = Idle]
      /\ stale' = stale \ {p}
      /\ clean' = (clean /\ req[p].at \in {"login", "otp", "redeem", "reset", "enable",
                                           "replace", "remove2FA", "update", "delete"})
      /\ UNCHANGED <<user, token, codes, sess, drawn, shown, proven, admitted, again>>
  BY DEF Abort, account, observed
<1>2. TypeOK'
  BY <1>1 DEF IInv, TypeOK
<1>3. \A q \in Process \ {p} : req'[q] = req[q]
  BY <1>1
<1>4. req'[p] = Idle /\ req'[p].at # "redeemed"
  BY <1>1 DEF IInv, TypeOK, Idle
<1>5. Spares(p)
  BY <1>1, <1>3 DEF Spares, IInv, StaleBusy, TypeOK
<1>6. KeyHasRow'
  BY <1>1 DEF IInv, KeyHasRow
<1>7. clean' => UnderWay'
  <2>1. clean' => req[p].at \notin Mid /\ req[p].at \notin {"verify"} \cup RemovalStages
    BY <1>1 DEF Mid, RemovalStages
  <2> QED BY <1>1, <1>5, <2>1, StaysUnderWay
<1>8. clean' => /\ CodesFresh' /\ ~again'
                /\ \A q \in Process \ {p} : q \notin stale' /\ req[q].at = "redeemed" =>
                      req[q].code \notin admitted' /\ req'[p].at # "redeemed"
  BY <1>1, <1>4, <1>5, CodesStay
<1> QED BY <1>2, <1>4, <1>5, <1>6, <1>7, <1>8, StepKeepsInv

-----------------------------------------------------------------------------
\* A one-time password is accepted: the key is proven before anything is written.
LEMMA AcceptOtpKeepsInv ==
  ASSUME IInv, NEW b \in Browser, AcceptOtp(b), UNCHANGED issued
  PROVE  IInv'
<1>1. b \in Process /\ TypeOK
  BY DEF Process, IInv
<1>2. /\ req[b].at = "idle" /\ token.key \in shown
      /\ req' = [req EXCEPT ![b] = Loaded("enable")]
      /\ proven' = proven \cup {token.key}
      /\ UNCHANGED <<user, token, codes, sess, drawn, shown, admitted, again, stale, clean>>
  BY DEF AcceptOtp, At, account
<1>3. /\ Loaded("enable") \in Request
      /\ Loaded("enable").at = "enable" /\ Loaded("enable").row = user
  BY <1>1, LoadedRequest DEF Stage
<1>4. proven' \in SUBSET Key
  BY <1>1, <1>2 DEF TypeOK
<1> HIDE DEF Loaded
<1> QED BY <1>1, <1>2, <1>3, <1>4, BeginKeepsInv

\* A code is redeemed: whoever held the same codes is stale.
LEMMA RedeemKeepsInv ==
  ASSUME IInv, NEW b \in Browser, RedeemCode(b), UNCHANGED issued
  PROVE  IInv'
<1>0. b \in Process /\ TypeOK
  BY DEF Process, IInv
<1>1. PICK c \in Code :
        /\ req[b].at = "redeem" /\ c \in req[b].codes
        /\ codes' = req[b].codes \ {c}
        /\ req' = [req EXCEPT ![b].at = "redeemed", ![b].code = c, ![b].codes = {}]
        /\ UNCHANGED <<user, token, sess, drawn, shown, proven, admitted, again>>
        /\ Written(b)
  BY DEF RedeemCode, At, observed
<1>2. req[b] \in Request
  BY <1>0, <1>1, Requests
<1>3. /\ req'[b].at = "redeemed" /\ req'[b].code = c /\ req'[b].row = req[b].row
      /\ req'[b] \in Request
      /\ \A q \in Process \ {b} : req'[q] = req[q]
  BY <1>0, <1>1, <1>2 DEF TypeOK, Request, Stage
<1>4. /\ Spares(b) /\ stale' \in SUBSET Process /\ clean' \in BOOLEAN
      /\ clean' => b \notin stale
  BY <1>0, <1>1, <1>3, WrittenSpares DEF IInv
<1>5. TypeOK'
  <2>1. codes' \in SUBSET Code
    BY <1>1, <1>2 DEF Request
  <2>2. req' \in [Process -> {Idle} \cup Request]
    BY <1>0, <1>1, <1>3 DEF TypeOK
  <2> QED BY <1>0, <1>1, <1>4, <2>1, <2>2 DEF TypeOK
<1>6. KeyHasRow'
  BY <1>1 DEF IInv, KeyHasRow
<1>7. ASSUME clean'
      PROVE  /\ Current(req[b])'
             /\ CodesFresh' /\ ~again' /\ UnderWay'
             /\ \A q \in Process \ {b} : q \notin stale' => req[q].at # "redeemed"
  <2>1. Current(req[b]) /\ CodesFresh /\ ~again
    BY <1>0, <1>1, <1>7, WriterKnows
  <2>2. req[b].codes = codes /\ req[b].row = user
    BY <1>1, <2>1 DEF Current
  <2>3. c \in drawn /\ c \notin codes' /\ c \notin admitted /\ c \in codes
    BY <1>1, <2>1, <2>2 DEF CodesFresh
  <2>4. Current(req[b])'
    BY <1>1, <1>3, <2>1, <2>2, <2>3 DEF Current, RemovalStages
  <2>5. CodesFresh' /\ ~again'
    BY <1>1, <2>1, <2>2 DEF CodesFresh
  <2>6. UnderWay'
    BY <1>0, <1>1, <1>4, <1>7, StaysUnderWay DEF RemovalStages
  <2>7. \A q \in Process \ {b} : q \notin stale' => req[q].at # "redeemed"
    BY <1>4, <2>3 DEF Spares, Idle
  <2> QED BY <2>4, <2>5, <2>6, <2>7
<1> QED BY <1>0, <1>3, <1>4, <1>5, <1>6, <1>7, StepKeepsInv

\* The redeemed code signs its browser in: it was nobody else's.
LEMMA CodeSignInKeepsInv ==
  ASSUME IInv, NEW b \in Browser, CodeSignIn(b), UNCHANGED issued
  PROVE  IInv'
<1>0. b \in Process /\ TypeOK
  BY DEF Process, IInv
<1>1. /\ req[b].at = "redeemed" /\ user' = req[b].row
      /\ admitted' = admitted \cup {req[b].code}
      /\ again' = (again \/ req[b].code \in admitted)
      /\ req' = [req EXCEPT ![b] = Idle]
      /\ sess' = [sess EXCEPT ![b] = "in"]
      /\ UNCHANGED <<token, codes, drawn, shown, proven>>
      /\ Written(b)
  BY DEF CodeSignIn, At, SaveUser, Finish
<1>2. req[b] \in Request /\ req[b].row \in Row /\ req[b].code \in Code
  BY <1>0, <1>1, RowsAreRows DEF IInv, RedeemedCodes
<1>3. /\ req'[b] = Idle /\ req'[b].at # "redeemed"
      /\ \A q \in Process \ {b} : req'[q] = req[q]
  BY <1>0, <1>1 DEF TypeOK, Idle
<1>4. /\ Spares(b) /\ stale' \in SUBSET Process /\ clean' \in BOOLEAN
      /\ clean' => b \notin stale
  BY <1>0, <1>1, <1>3, WrittenSpares DEF IInv
<1>5. TypeOK'
  BY <1>0, <1>1, <1>2, <1>4 DEF TypeOK
<1>6. KeyHasRow'
  BY <1>1 DEF IInv, KeyHasRow
<1>7. ASSUME clean'
      PROVE  /\ CodesFresh' /\ ~again' /\ UnderWay'
             /\ \A q \in Process \ {b} : q \notin stale' => req[q].at # "redeemed"
  <2>1. Current(req[b]) /\ CodesFresh /\ ~again /\ OneRedeemer
    BY <1>0, <1>1, <1>7, WriterKnows
  <2>2. req[b].code \in drawn \ (codes \cup admitted) /\ req[b].row = user
    BY <1>1, <2>1 DEF Current
  <2>3. CodesFresh' /\ ~again'
    BY <1>1, <2>1, <2>2 DEF CodesFresh
  <2>4. UnderWay'
    BY <1>0, <1>1, <1>4, <1>7, <2>2, StaysUnderWay DEF RemovalStages
  <2>5. \A q \in Process \ {b} : q \notin stale' => req[q].at # "redeemed"
    BY <1>0, <1>1, <1>4, <1>7, <2>1 DEF Spares, OneRedeemer
  <2> QED BY <2>3, <2>4, <2>5
<1> QED BY <1>0, <1>3, <1>4, <1>5, <1>6, <1>7, StepKeepsInv

-----------------------------------------------------------------------------
\* A step that others see in the token or that finds none: who was seeing to the factor
\* is stale now.
LEMMA TokenWriteStaysUnderWay ==
  ASSUME IInv, NEW p \in Process, Spares(p), clean', p \notin stale,
         Settled => Settled', req[p].at \notin {"verify"} \cup RemovalStages,
         Enabling \/ Removing => token' # token \/ Settled'
  PROVE  UnderWay'
<1>1. UnderWay
  BY DEF IInv, Spares
<1>2. ASSUME NEW q \in Process, q # p, q \in stale', req[q].at \in Mid PROVE Doomed'
  BY <1>2 DEF Spares, Doomed
<1>3. CASE Doomed
  <2>1. PICK q \in stale : req[q].at \in Mid
    BY <1>3 DEF Doomed
  <2>2. q \in Process /\ q # p /\ q \in stale'
    BY <2>1 DEF IInv, TypeOK, Spares
  <2> QED BY <1>2, <2>1, <2>2 DEF UnderWay
<1>4. ASSUME NEW q \in Process \ stale, q # p, req[q].at \in {"verify"} \cup RemovalStages,
             token' # token
      PROVE  Doomed'
  <2>1. req[q] # Idle /\ req[q].at \in Mid
    BY <1>4 DEF Idle, Mid, RemovalStages
  <2>2. q \in stale'
    BY <1>4, <2>1 DEF Spares
  <2> QED BY <1>2, <1>4, <2>1, <2>2
<1>5. CASE Settled \/ Settled'
  BY <1>5 DEF UnderWay
<1>6. CASE Enabling /\ token' # token
  BY <1>4, <1>6 DEF Enabling, UnderWay
<1>7. CASE Removing /\ token' # token
  BY <1>4, <1>7 DEF Removing, UnderWay
<1> QED BY <1>1, <1>3, <1>5, <1>6, <1>7 DEF UnderWay

LEMMA NoRowIsToken == NoRow \in Token
BY DEF NoRow, Token

\* While a deregistration that was not overtaken is under way there is no key.
LEMMA RemovalKnown ==
  ASSUME TypeOK, ReadsCurrent, Removing
  PROVE  token = NoRow
BY DEF Removing, ReadsCurrent, Current, RemovalStages, Idle

\* A new key, drawn, blank at first: the factor is off, or will not go unnoticed.
LEMMA BlankKeyKeepsInv ==
  ASSUME IInv, NEW b \in Browser, BlankKey(b), UNCHANGED issued
  PROVE  IInv'
<1>0. b \in Process /\ TypeOK
  BY DEF Process, IInv
<1>1. PICK k \in Key \ drawn :
        /\ req[b].at = "reset"
        /\ token' = [key |-> None, there |-> TRUE,
                     verified |-> ~req[b].hadToken /\ token.verified]
        /\ drawn' = drawn \cup {k}
        /\ req' = [req EXCEPT ![b].at = "blank", ![b].key = k]
        /\ UNCHANGED <<user, codes, sess, shown, proven, admitted, again>>
        /\ Written(b)
  BY DEF BlankKey, At, observed
<1>2. req[b] \in Request
  BY <1>0, <1>1, Requests
<1>3. /\ req'[b].at = "blank" /\ req'[b].row = req[b].row /\ req'[b] \in Request
      /\ \A q \in Process \ {b} : req'[q] = req[q]
  BY <1>0, <1>1, <1>2 DEF TypeOK, Request, Stage
<1>4. /\ Spares(b) /\ stale' \in SUBSET Process /\ clean' \in BOOLEAN
      /\ clean' => b \notin stale
  BY <1>0, <1>1, <1>3, WrittenSpares DEF IInv
<1>5. TypeOK'
  <2>1. token' \in Token /\ drawn' \in SUBSET (Key \cup Code)
    BY <1>0, <1>1 DEF Token, TypeOK
  <2>2. req' \in [Process -> {Idle} \cup Request]
    BY <1>0, <1>1, <1>3 DEF TypeOK
  <2> QED BY <1>0, <1>1, <1>4, <2>1, <2>2 DEF TypeOK
<1>6. KeyHasRow'
  BY <1>1 DEF KeyHasRow
<1>7. ASSUME clean' PROVE Current(req[b])' /\ UnderWay'
  <2>1. Current(req[b]) /\ ReadsCurrent
    BY <1>0, <1>1, <1>7, WriterKnows
  <2>2. req[b].row = user /\ ~token.verified /\ ~token'.verified
    BY <1>1, <2>1 DEF Current
  <2>3. Current(req[b])'
    BY <1>1, <1>3, <2>2 DEF Current, RemovalStages
  <2>4. Settled => Settled'
    BY <1>1, <2>2 DEF Settled
  <2>5. Enabling => token' # token
    BY <1>0, <1>1, NamesAssumption DEF Enabling, TypeOK
  <2>6. Removing => token' # token
    BY <1>0, <1>1, <2>1, RemovalKnown DEF NoRow
  <2>7. UnderWay'
    BY <1>0, <1>1, <1>4, <1>7, <2>4, <2>5, <2>6, TokenWriteStaysUnderWay DEF RemovalStages
  <2> QED BY <2>3, <2>7
<1>8. clean' => /\ CodesFresh' /\ ~again'
                /\ \A q \in Process \ {b} : q \notin stale' /\ req[q].at = "redeemed" =>
                      req[q].code \notin admitted' /\ req'[b].at # "redeemed"
  BY <1>0, <1>1, <1>3, <1>4, CodesStay
<1> QED BY <1>0, <1>3, <1>4, <1>5, <1>6, <1>7, <1>8, StepKeepsInv

\* Then encrypted.
LEMMA EncryptKeyKeepsInv ==
  ASSUME IInv, NEW b \in Browser, EncryptKey(b), UNCHANGED issued
  PROVE  IInv'
<1>0. b \in Process /\ TypeOK
  BY DEF Process, IInv
<1>1. /\ req[b].at = "blank"
      /\ token' = IF token.there THEN [token EXCEPT !.key = req[b].key] ELSE token
      /\ UNCHANGED <<user, codes, sess, drawn, shown, proven, admitted, again>>
      /\ req' = [req EXCEPT ![b].at = "stored", ![b].key = None]
      /\ Written(b)
  BY DEF EncryptKey, At, observed
<1>2. req[b] \in Request
  BY <1>0, <1>1, Requests
<1>3. /\ req'[b].at = "stored" /\ req'[b].row = req[b].row /\ req'[b] \in Request
      /\ \A q \in Process \ {b} : req'[q] = req[q]
  BY <1>0, <1>1, <1>2 DEF TypeOK, Request, Stage
<1>4. /\ Spares(b) /\ stale' \in SUBSET Process /\ clean' \in BOOLEAN
      /\ clean' => b \notin stale
  BY <1>0, <1>1, <1>3, WrittenSpares DEF IInv
<1>5. TypeOK'
  <2>1. token' \in Token
    BY <1>0, <1>1, <1>2 DEF Token, TypeOK, Request
  <2>2. req' \in [Process -> {Idle} \cup Request]
    BY <1>0, <1>1, <1>3 DEF TypeOK
  <2> QED BY <1>0, <1>1, <1>4, <2>1, <2>2 DEF TypeOK
<1>6. KeyHasRow'
  BY <1>0, <1>1 DEF IInv, KeyHasRow, TypeOK, Token
<1>7. ASSUME clean' PROVE Current(req[b])' /\ UnderWay'
  <2>1. Current(req[b]) /\ ReadsCurrent
    BY <1>0, <1>1, <1>7, WriterKnows
  <2>2. req[b].row = user /\ ~token.verified /\ token.there /\ token.key = None
    BY <1>1, <2>1 DEF Current
  <2>3. Current(req[b])'
    BY <1>1, <1>3, <2>2 DEF Current, RemovalStages
  <2>4. Settled => Settled'
    BY <1>1, <2>2 DEF Settled
  <2>5. ~Enabling
    BY <1>0, <2>2, NamesAssumption DEF Enabling, TypeOK
  <2>6. ~Removing
    BY <1>0, <2>1, <2>2, RemovalKnown DEF NoRow
  <2>7. UnderWay'
    BY <1>0, <1>1, <1>4, <1>7, <2>4, <2>5, <2>6, TokenWriteStaysUnderWay DEF RemovalStages
  <2> QED BY <2>3, <2>7
<1>8. clean' => /\ CodesFresh' /\ ~again'
                /\ \A q \in Process \ {b} : q \notin stale' /\ req[q].at = "redeemed" =>
                      req[q].code \notin admitted' /\ req'[b].at # "redeemed"
  BY <1>0, <1>1, <1>3, <1>4, CodesStay
<1> QED BY <1>0, <1>3, <1>4, <1>5, <1>6, <1>7, <1>8, StepKeepsInv

\* The factor is switched on: by a request that is about to verify the key it saw proven.
LEMMA EnableKeepsInv ==
  ASSUME IInv, NEW b \in Browser, EnableTwoFactor(b), UNCHANGED issued
  PROVE  IInv'
<1>0. b \in Process /\ TypeOK
  BY DEF Process, IInv
<1>1. /\ req[b].at = "enable"
      /\ user' = [req[b].row EXCEPT !.enabled = TRUE]
      /\ req' = [req EXCEPT ![b].at = "verify"]
      /\ UNCHANGED <<token, codes, sess, drawn, shown, proven, admitted, again>>
      /\ Written(b)
  BY DEF EnableTwoFactor, At, GoOn, observed
<1>2. req[b] \in Request /\ req[b].row \in Row
  BY <1>0, <1>1, RowsAreRows
<1>3. /\ req'[b].at = "verify" /\ req'[b].row = req[b].row /\ req'[b] \in Request
      /\ \A q \in Process \ {b} : req'[q] = req[q]
  BY <1>0, <1>1, <1>2 DEF TypeOK, Request, Stage
<1>4. /\ Spares(b) /\ stale' \in SUBSET Process /\ clean' \in BOOLEAN
      /\ clean' => b \notin stale'
  BY <1>0, <1>1, <1>3, WrittenSpares DEF IInv
<1>5. TypeOK'
  <2>1. user' \in Row
    BY <1>1, <1>2 DEF Row
  <2>2. req' \in [Process -> {Idle} \cup Request]
    BY <1>0, <1>1, <1>3 DEF TypeOK
  <2> QED BY <1>0, <1>1, <1>4, <2>1, <2>2 DEF TypeOK
<1>6. KeyHasRow'
  BY <1>1 DEF IInv, KeyHasRow
<1>7. ASSUME clean' PROVE Current(req[b])' /\ UnderWay'
  <2>1. Current(req[b])
    BY <1>0, <1>1, <1>7, WriterKnows
  <2>2. /\ req[b].row.deleted = user.deleted /\ token.key \in proven
        /\ user'.deleted = req[b].row.deleted
    BY <1>1, <1>2, <2>1 DEF Current, Row
  <2>3. Current(req[b])'
    BY <1>3, <2>2 DEF Current, RemovalStages
  <2>4. Enabling'
    BY <1>0, <1>1, <1>3, <1>4, <1>7, <2>2 DEF Enabling
  <2> QED BY <2>3, <2>4 DEF UnderWay
<1>8. clean' => /\ CodesFresh' /\ ~again'
                /\ \A q \in Process \ {b} : q \notin stale' /\ req[q].at = "redeemed" =>
                      req[q].code \notin admitted' /\ req'[b].at # "redeemed"
  BY <1>0, <1>1, <1>3, <1>4, CodesStay
<1> QED BY <1>0, <1>3, <1>4, <1>5, <1>6, <1>7, <1>8, StepKeepsInv

\* The key is marked as verified.
LEMMA MarkVerifiedKeepsInv ==
  ASSUME IInv, NEW b \in Browser, MarkVerified(b), UNCHANGED issued
  PROVE  IInv'
<1>0. b \in Process /\ TypeOK
  BY DEF Process, IInv
<1>1. /\ req[b].at = "verify"
      /\ token' = [token EXCEPT !.verified = token.there]
      /\ req' = [req EXCEPT ![b] = Idle]
      /\ UNCHANGED <<user, codes, sess, drawn, shown, proven, admitted, again>>
      /\ Written(b)
  BY DEF MarkVerified, At, Finish, observed
<1>2. /\ req'[b] = Idle /\ req'[b].at # "redeemed"
      /\ \A q \in Process \ {b} : req'[q] = req[q]
  BY <1>0, <1>1 DEF TypeOK, Idle
<1>3. /\ Spares(b) /\ stale' \in SUBSET Process /\ clean' \in BOOLEAN
      /\ clean' => b \notin stale
  BY <1>0, <1>1, <1>2, WrittenSpares DEF IInv
<1>4. /\ token' \in Token /\ token'.key = token.key /\ token'.there = token.there
      /\ token'.verified = token.there
  BY <1>0, <1>1 DEF TypeOK, Token
<1>5. TypeOK' /\ KeyHasRow'
  BY <1>0, <1>1, <1>3, <1>4 DEF TypeOK, IInv, KeyHasRow
<1>6. ASSUME clean' PROVE UnderWay'
  <2>1. UnderWay
    BY <1>0, <1>1, <1>6, WriterKnows
  <2>2. CASE Settled \/ Enabling
    <3>1. user.enabled => token.key \in proven
      BY <2>2 DEF Settled, Enabling
    <3>2. token.key \in proven => token.there
      BY <1>0, NamesAssumption DEF IInv, KeyHasRow, TypeOK
    <3> QED BY <1>1, <1>4, <3>1, <3>2 DEF Settled, UnderWay
  <2>3. CASE Removing
    <3>1. PICK q \in Process \ stale : req[q].at \in RemovalStages
      BY <2>3 DEF Removing
    <3>2. q # b /\ req'[q] = req[q]
      BY <1>1, <1>2, <3>1 DEF RemovalStages
    <3> QED BY <3>1, <3>2 DEF Removing, Doomed, UnderWay, RemovalStages, Mid
  <2>4. CASE Doomed
    <3>1. PICK q \in stale : req[q].at \in Mid
      BY <2>4 DEF Doomed
    <3>2. q \in Process /\ q # b /\ q \in stale' /\ req'[q] = req[q]
      BY <1>0, <1>2, <1>3, <1>6, <3>1 DEF Spares, TypeOK
    <3> QED BY <3>1, <3>2 DEF Doomed, UnderWay
  <2> QED BY <2>1, <2>2, <2>3, <2>4 DEF UnderWay
<1>7. clean' => /\ CodesFresh' /\ ~again'
                /\ \A q \in Process \ {b} : q \notin stale' /\ req[q].at = "redeemed" =>
                      req[q].code \notin admitted' /\ req'[b].at # "redeemed"
  BY <1>0, <1>1, <1>2, <1>3, CodesStay
<1> QED BY <1>0, <1>2, <1>3, <1>5, <1>6, <1>7, StepKeepsInv

-----------------------------------------------------------------------------
\* Codes that were never drawn before replace the others.
LEMMA ReplaceKeepsInv ==
  ASSUME IInv, NEW b \in Browser, ReplaceCodes(b), UNCHANGED issued
  PROVE  IInv'
<1>0. b \in Process /\ TypeOK
  BY DEF Process, IInv
<1>1. PICK new \in Batch :
        /\ req[b].at = "replace" /\ new \cap drawn = {}
        /\ codes' = new
        /\ drawn' = drawn \cup new
        /\ UNCHANGED <<user, token, sess, shown, proven, admitted, again>>
        /\ req' = [req EXCEPT ![b].at = "replaced"]
        /\ Written(b)
  BY DEF ReplaceCodes, At, GoOn, observed
<1>2. req[b] \in Request /\ new \in SUBSET Code
  BY <1>0, <1>1, Requests, BatchAssumption
<1>3. /\ req'[b].at = "replaced" /\ req'[b].row = req[b].row /\ req'[b] \in Request
      /\ \A q \in Process \ {b} : req'[q] = req[q]
  BY <1>0, <1>1, <1>2 DEF TypeOK, Request, Stage
<1>4. /\ Spares(b) /\ stale' \in SUBSET Process /\ clean' \in BOOLEAN
      /\ clean' => b \notin stale
  BY <1>0, <1>1, <1>3, WrittenSpares DEF IInv
<1>5. TypeOK'
  <2>1. codes' \in SUBSET Code /\ drawn' \in SUBSET (Key \cup Code)
    BY <1>0, <1>1, <1>2 DEF TypeOK
  <2>2. req' \in [Process -> {Idle} \cup Request]
    BY <1>0, <1>1, <1>3 DEF TypeOK
  <2> QED BY <1>0, <1>1, <1>4, <2>1, <2>2 DEF TypeOK
<1>6. KeyHasRow'
  BY <1>1 DEF IInv, KeyHasRow
<1>7. ASSUME clean' PROVE Current(req[b])' /\ CodesFresh' /\ ~again' /\ UnderWay'
  <2>1. Current(req[b]) /\ CodesFresh /\ ~again
    BY <1>0, <1>1, <1>7, WriterKnows
  <2>2. Current(req[b])'
    BY <1>1, <1>3, <2>1 DEF Current, RemovalStages
  <2>3. CodesFresh' /\ ~again'
    BY <1>1, <2>1 DEF CodesFresh
  <2>4. UnderWay'
    BY <1>0, <1>1, <1>4, <1>7, StaysUnderWay DEF RemovalStages
  <2> QED BY <2>2, <2>3, <2>4
<1>8. clean' => \A q \in Process \ {b} : q \notin stale' /\ req[q].at = "redeemed" =>
                      req[q].code \notin admitted' /\ req'[b].at # "redeemed"
  BY <1>0, <1>1, <1>3, <1>4, NobodyAdmitted
<1> QED BY <1>0, <1>3, <1>4, <1>5, <1>6, <1>7, <1>8, StepKeepsInv

LEMMA SaveAfterCodesKeepsInv ==
  ASSUME IInv, NEW b \in Browser, SaveAfterCodes(b), UNCHANGED issued
  PROVE  IInv'
<1>0. b \in Process /\ TypeOK
  BY DEF Process, IInv
<1>1. /\ req[b].at = "replaced" /\ user' = req[b].row
      /\ \/ req' = [req EXCEPT ![b] = Idle]
         \/ req' = [req EXCEPT ![b].at = "verify"]
      /\ UNCHANGED <<token, codes, sess, drawn, shown, proven, admitted, again>>
      /\ Written(b)
  BY DEF SaveAfterCodes, At, SaveUser, GoOn, Finish, observed
<1>2. req[b] \in Request /\ req[b].row \in Row
  BY <1>0, <1>1, RowsAreRows
<1>3. \A q \in Process \ {b} : req'[q] = req[q]
  <2>1. CASE req' = [req EXCEPT ![b] = Idle]
    BY <2>1
  <2>2. CASE req' = [req EXCEPT ![b].at = "verify"]
    BY <2>2
  <2> QED BY <1>1, <2>1, <2>2
<1>4. /\ Spares(b) /\ stale' \in SUBSET Process /\ clean' \in BOOLEAN
      /\ clean' => b \notin stale
  BY <1>0, <1>1, <1>3, WrittenSpares DEF IInv
<1>5. req' \in [Process -> {Idle} \cup Request]
  <2>1. [req[b] EXCEPT !.at = "verify"] \in Request
    BY <1>2 DEF Request, Stage
  <2> QED BY <1>0, <1>1, <2>1 DEF TypeOK
<1>6. TypeOK' /\ KeyHasRow'
  BY <1>0, <1>1, <1>2, <1>4, <1>5 DEF TypeOK, IInv, KeyHasRow
<1>7. CASE req' = [req EXCEPT ![b] = Idle]
  <2>1. Current(req[b]) => user'.enabled = user.enabled
    BY <1>1 DEF Current
  <2> QED BY <1>0, <1>1, <1>6, <1>7, <2>1, FinishKeepsInv DEF RemovalStages
<1>8. CASE req' = [req EXCEPT ![b].at = "verify"]
  <2>1. req'[b].at = "verify" /\ req'[b].row = req[b].row
    BY <1>0, <1>2, <1>8 DEF TypeOK, Request
  <2>2. ASSUME clean' PROVE Current(req[b])' /\ UnderWay'
    <3>1. req[b].row = user
      BY <1>0, <1>1, <2>2, WriterKnows DEF Current
    <3>2. Current(req[b])'
      BY <1>1, <2>1, <3>1 DEF Current, RemovalStages
    <3>3. UnderWay'
      BY <1>0, <1>1, <1>4, <2>2, <3>1, StaysUnderWay DEF RemovalStages
    <3> QED BY <3>2, <3>3
  <2>3. clean' => /\ CodesFresh' /\ ~again'
                  /\ \A q \in Process \ {b} : q \notin stale' /\ req[q].at = "redeemed" =>
                        req[q].code \notin admitted' /\ req'[b].at # "redeemed"
    BY <1>0, <1>1, <1>4, <2>1, CodesStay
  <2> QED BY <1>0, <1>4, <1>6, <2>1, <2>2, <2>3, StepKeepsInv
<1> QED BY <1>1, <1>7, <1>8

\* The key is gone, and the browser that removed it will see to the factor.
LEMMA RemovalKeepsInv ==
  ASSUME IInv, NEW b \in Browser, UNCHANGED issued,
         StartDeregistration(b) \/ RemoveAgain(b) \/ SaveAfterRemoval(b)
  PROVE  IInv'
<1>0. b \in Process /\ TypeOK
  BY DEF Process, IInv
<1>1. PICK r \in Request :
        /\ req' = [req EXCEPT ![b] = r] /\ r.at \in RemovalStages /\ Written(b)
        /\ UNCHANGED <<codes, sess, drawn, shown, proven, admitted, again>>
        /\ \/ user' = user /\ token' = NoRow /\ (req[b].at = "idle" => r.row = user)
           \/ user' = r.row /\ token' = token /\ req[b].at \in RemovalStages
        /\ req[b].at \in {"idle"} \cup RemovalStages
        /\ req[b].at # "idle" => r.row = req[b].row
  <2>1. CASE StartDeregistration(b)
    <3>1. Loaded("removed") \in Request /\ Loaded("removed").at = "removed"
          /\ Loaded("removed").row = user
      BY <1>0, LoadedRequest DEF Stage
    <3>2. /\ req' = [req EXCEPT ![b] = Loaded("removed")] /\ Written(b)
          /\ UNCHANGED <<codes, sess, drawn, shown, proven, admitted, again>>
          /\ user' = user /\ token' = NoRow /\ req[b].at = "idle"
      BY <2>1 DEF StartDeregistration, At, observed
    <3> HIDE DEF Loaded
    <3> QED BY <3>1, <3>2 DEF RemovalStages
  <2>2. CASE RemoveAgain(b) \/ SaveAfterRemoval(b)
    <3>1. PICK stage \in RemovalStages :
            /\ req' = [req EXCEPT ![b].at = stage] /\ Written(b)
            /\ UNCHANGED <<codes, sess, drawn, shown, proven, admitted, again>>
            /\ \/ user' = user /\ token' = NoRow
               \/ user' = req[b].row /\ token' = token
            /\ req[b].at \in RemovalStages
      BY <2>2 DEF RemoveAgain, SaveAfterRemoval, At, SaveUser, GoOn, observed, RemovalStages
    <3>2. req[b] \in Request
      BY <1>0, <3>1, Requests DEF RemovalStages
    <3> DEFINE r == [req[b] EXCEPT !.at = stage]
    <3>3. r \in Request /\ r.at \in RemovalStages /\ r.row = req[b].row
      BY <3>1, <3>2 DEF Request, Stage, RemovalStages
    <3>4. req' = [req EXCEPT ![b] = r]
      BY <3>1
    <3>5. req[b].at # "idle"
      BY <3>1 DEF RemovalStages
    <3> HIDE DEF r
    <3> QED BY <3>1, <3>3, <3>4, <3>5
  <2> QED BY <2>1, <2>2
<1>2. /\ req'[b] = r /\ r.at \notin {"redeemed", "verify"}
      /\ \A q \in Process \ {b} : req'[q] = req[q]
  BY <1>0, <1>1 DEF TypeOK, RemovalStages
<1>3. /\ Spares(b) /\ stale' \in SUBSET Process /\ clean' \in BOOLEAN
      /\ clean' => b \notin stale'
  BY <1>0, <1>1, <1>2, WrittenSpares DEF IInv
<1>4. TypeOK'
  <2>1. user' \in Row /\ token' \in Token
    BY <1>0, <1>1, NoRowIsToken DEF TypeOK, Request
  <2>2. req' \in [Process -> {Idle} \cup Request]
    BY <1>0, <1>1 DEF TypeOK
  <2> QED BY <1>0, <1>1, <1>3, <2>1, <2>2 DEF TypeOK
<1>5. KeyHasRow'
  BY <1>1 DEF IInv, KeyHasRow, NoRow
<1>6. ASSUME clean' PROVE Current(req[b])' /\ UnderWay'
  <2>1. r.row = user /\ user' = user /\ token' = NoRow
    <3>1. CASE req[b].at = "idle"
      BY <1>1, <3>1 DEF RemovalStages
    <3>2. CASE req[b].at \in RemovalStages
      <4>1. req[b].at \notin {"idle", "verify"}
        BY <3>2 DEF RemovalStages
      <4>2. req[b].row = user /\ token = NoRow
        BY <1>0, <1>1, <1>6, <3>2, <4>1, WriterKnows DEF Current
      <4> QED BY <1>1, <4>1, <4>2
    <3> QED BY <1>1, <3>1, <3>2
  <2>2. Current(req[b])'
    BY <1>1, <1>2, <2>1 DEF Current, RemovalStages, NoRow
  <2>3. Removing'
    BY <1>0, <1>1, <1>2, <1>3, <1>6 DEF Removing
  <2> QED BY <2>2, <2>3 DEF UnderWay
<1>7. clean' => /\ CodesFresh' /\ ~again'
                /\ \A q \in Process \ {b} : q \notin stale' /\ req[q].at = "redeemed" =>
                      req[q].code \notin admitted' /\ req'[b].at # "redeemed"
  BY <1>0, <1>1, <1>2, <1>3, CodesStay
<1> QED BY <1>0, <1>2, <1>3, <1>4, <1>5, <1>6, <1>7, StepKeepsInv

\* The factor is switched off, by the browser that removed the key or by the API.
LEMMA SwitchOffKeepsInv ==
  ASSUME IInv, NEW p \in Process, UNCHANGED issued,
         (p \in Browser /\ ClearTwoFactor(p)) \/ (p = Api /\ RemoveTwoFactor)
  PROVE  IInv'
<1>0. TypeOK
  BY DEF IInv
<1>1. /\ req[p].at \in {"clear", "remove2FA"}
      /\ req' = [req EXCEPT ![p] = Idle] /\ Written(p)
      /\ \/ user' = [req[p].row EXCEPT !.enabled = FALSE]
         \/ req[p].at = "clear" /\ token.verified /\ user' = user
      /\ token' \in {token, NoRow} /\ (req[p].at = "clear" => token' = token)
      /\ codes' \in {codes, {}}
      /\ UNCHANGED <<sess, drawn, shown, proven, admitted, again>>
  BY DEF ClearTwoFactor, RemoveTwoFactor, At, Finish, observed
<1>2. req[p] \in Request /\ req[p].row \in Row
  BY <1>0, <1>1, RowsAreRows
<1>3. /\ req'[p] = Idle /\ req'[p].at # "redeemed"
      /\ \A q \in Process \ {p} : req'[q] = req[q]
  BY <1>0, <1>1 DEF TypeOK, Idle
<1>4. /\ Spares(p) /\ stale' \in SUBSET Process /\ clean' \in BOOLEAN
  BY <1>0, <1>1, <1>3, WrittenSpares DEF IInv
<1>5. TypeOK'
  <2>1. user' \in Row /\ token' \in Token /\ codes' \in SUBSET Code
    <3>1. user' \in Row
      BY <1>0, <1>1, <1>2 DEF Row, TypeOK
    <3> QED BY <1>0, <1>1, <3>1, NoRowIsToken DEF TypeOK
  <2> QED BY <1>0, <1>1, <1>4, <2>1 DEF TypeOK
<1>6. KeyHasRow'
  BY <1>1 DEF IInv, KeyHasRow, NoRow
<1>7. ASSUME clean' PROVE CodesFresh' /\ ~again' /\ UnderWay'
  <2>1. Current(req[p]) /\ CodesFresh /\ ~again
    BY <1>1, <1>7, WriterKnows
  <2>2. CodesFresh' /\ ~again'
    BY <1>1, <2>1 DEF CodesFresh
  <2>3. req[p].at = "clear" => ~token.verified
    BY <2>1 DEF Current, RemovalStages, NoRow
  <2>4. ~user'.enabled
    BY <1>1, <1>2, <2>3 DEF Row
  <2> QED BY <2>2, <2>4 DEF Settled, UnderWay
<1>8. clean' => \A q \in Process \ {p} : q \notin stale' /\ req[q].at = "redeemed" =>
                      req[q].code \notin admitted' /\ req'[p].at # "redeemed"
  BY <1>1, <1>3, <1>4, NobodyAdmitted
<1> QED BY <1>3, <1>4, <1>5, <1>6, <1>7, <1>8, StepKeepsInv

-----------------------------------------------------------------------------
LEMMA InitInv == Init => IInv
<1> SUFFICES ASSUME Init PROVE IInv
  OBVIOUS
<1>1. TypeOK
  <2>1. token \in Token
    BY NoRowIsToken DEF Init
  <2> QED BY <2>1 DEF Init, TypeOK, Row
<1>2. RedeemedCodes /\ KeyHasRow /\ StaleBusy
  BY DEF Init, RedeemedCodes, KeyHasRow, StaleBusy, NoRow, Idle
<1>3. ReadsCurrent /\ OneRedeemer /\ CodesFresh /\ ~again /\ UnderWay
  BY DEF Init, ReadsCurrent, OneRedeemer, CodesFresh, UnderWay, Settled, Idle
<1> QED BY <1>1, <1>2, <1>3 DEF IInv

\* Showing a key, signing out and giving tokens.
LEMMA OthersKeepInv ==
  ASSUME IInv,
         \/ (\E b \in Browser : ShowKey(b) \/ Logout(b)) /\ UNCHANGED issued
         \/ Issue
  PROVE  IInv'
<1>1. UNCHANGED <<user, token, codes, req, drawn, proven, admitted, again, stale, clean>>
  BY DEF ShowKey, Logout, Issue, account, observed
<1>2. TypeOK'
  <2>1. sess' \in [Browser -> {"out", "half", "in"}] /\ shown' \in SUBSET Key
        /\ issued' \in BOOLEAN
    BY DEF IInv, TypeOK, ShowKey, Logout, Issue, Token, Usable
  <2> QED BY <1>1, <2>1 DEF IInv, TypeOK
<1> QED BY <1>1, <1>2, ObserversKeepInv

\* The invariant is inductive: one lemma for each kind of step.
LEMMA NextKeepsInv == IInv /\ [Next]_vars => IInv'
<1> SUFFICES ASSUME IInv, [Next]_vars PROVE IInv'
  OBVIOUS
<1>1. ASSUME NEW b \in Browser, UNCHANGED issued,
             \/ StartLogin(b) \/ StartVerify(b) \/ StartRegistration(b) \/ StartCompletion(b)
             \/ StartCodeReset(b)
      PROVE  IInv'
  BY <1>1, BrowserBegins
<1>2. ASSUME NEW b \in Browser, UNCHANGED issued,
             FailLogin(b) \/ PasswordSignIn(b) \/ RequireTwoFactor(b) \/ OtpSignIn(b)
               \/ SaveAfterKey(b)
      PROVE  IInv'
  BY <1>2, LastWritesKeepInv DEF Process
<1>3. ASSUME UNCHANGED issued, UpdateUser \/ DeleteUser PROVE IInv'
  BY <1>3, LastWritesKeepInv DEF Process
<1>4. ASSUME NEW b \in Browser, UNCHANGED issued,
             RedeemCode(b) \/ CodeSignIn(b) \/ ReplaceCodes(b) \/ SaveAfterCodes(b)
      PROVE  IInv'
  BY <1>4, RedeemKeepsInv, CodeSignInKeepsInv, ReplaceKeepsInv, SaveAfterCodesKeepsInv
<1>5. ASSUME NEW b \in Browser, UNCHANGED issued,
             \/ BlankKey(b) \/ EncryptKey(b) \/ AcceptOtp(b) \/ EnableTwoFactor(b)
             \/ MarkVerified(b)
      PROVE  IInv'
  BY <1>5, BlankKeyKeepsInv, EncryptKeyKeepsInv, AcceptOtpKeepsInv, EnableKeepsInv,
     MarkVerifiedKeepsInv
<1>6. ASSUME NEW b \in Browser, UNCHANGED issued,
             StartDeregistration(b) \/ RemoveAgain(b) \/ SaveAfterRemoval(b)
      PROVE  IInv'
  BY <1>6, RemovalKeepsInv
<1>7. ASSUME NEW b \in Browser, UNCHANGED issued, ClearTwoFactor(b) PROVE IInv'
  <2>1. b \in Process
    BY DEF Process
  <2>2. (b \in Browser /\ ClearTwoFactor(b)) \/ (b = Api /\ RemoveTwoFactor)
    BY <1>7
  <2> QED BY ONLY IInv, <1>7, <2>1, <2>2, SwitchOffKeepsInv
<1>8. ASSUME UNCHANGED issued, RemoveTwoFactor PROVE IInv'
  BY <1>8, SwitchOffKeepsInv DEF Process
<1>9. ASSUME NEW p \in Process, UNCHANGED issued, Abort(p) PROVE IInv'
  BY <1>9, AbortKeepsInv
<1>10. CASE \/ (\E b \in Browser : ShowKey(b) \/ Logout(b)) /\ UNCHANGED issued
            \/ Issue
  BY <1>10, OthersKeepInv
<1>11. ASSUME UNCHANGED issued, StartApi PROVE IInv'
  BY <1>11, ApiBegins
<1>12. CASE UNCHANGED vars
  <2>1. TypeOK'
    BY <1>12 DEF vars, account, observed, IInv, TypeOK
  <2> QED BY <1>12, <2>1, ObserversKeepInv DEF vars, account, observed
<1>13. CASE Change /\ UNCHANGED issued
  BY <1>1, <1>2, <1>3, <1>4, <1>5, <1>6, <1>7, <1>8, <1>9, <1>10, <1>11, <1>13 DEF Change
<1> QED BY <1>10, <1>12, <1>13 DEF Next

\* The inductive invariant of an account, whatever its browsers and the API do.
THEOREM Invariant == Spec => []IInv
BY InitInv, NextKeepsInv, PTL DEF Spec

\* The variables of Account keep their types.
THEOREM TypeCorrect == Spec => []TypeOK
<1>1. IInv => TypeOK
  BY DEF IInv
<1> QED BY <1>1, Invariant, PTL

\* The second factor is on only with an authenticator that is verified and proven, once
\* every request has ended and while none was overtaken or stopped half-way.
THEOREM FactorAlwaysProven == Spec => []EnabledHasProvenAuthenticator
<1>1. IInv => EnabledHasProvenAuthenticator
  <2> SUFFICES ASSUME IInv, clean, Quiet PROVE Settled
    BY DEF EnabledHasProvenAuthenticator, Settled
  <2>1. \A p \in Process : req[p].at = "idle"
    BY DEF Quiet, Idle
  <2>2. stale \subseteq Process
    BY DEF IInv, TypeOK
  <2> QED BY <2>1, <2>2 DEF IInv, UnderWay, Enabling, Removing, Doomed, Mid, RemovalStages
<1> QED BY <1>1, Invariant, PTL

\* A recovery code signs in once, under the same condition, however many are drawn.
THEOREM CodesAlwaysAdmitOnce == Spec => []CodesAdmitOnce
<1>1. IInv => CodesAdmitOnce
  BY DEF IInv, CodesAdmitOnce
<1> QED BY <1>1, Invariant, PTL

\* The row a request writes back: as it was loaded, switched, or deleted.
LEMMA WritesOfTheRow ==
  ASSUME IInv, Next
  PROVE  \/ user' = user
         \/ \E p \in Process :
              /\ req[p].at # "idle" /\ Written(p)
              /\ \/ user' = req[p].row
                 \/ \E e \in BOOLEAN : /\ e => req[p].at = "enable"
                                    /\ user' = [req[p].row EXCEPT !.enabled = e]
                 \/ user' = [req[p].row EXCEPT !.deleted = TRUE]
<1>1. ASSUME NEW b \in Browser, FailLogin(b) \/ PasswordSignIn(b) \/ OtpSignIn(b)
                                  \/ CodeSignIn(b) \/ SaveAfterKey(b)
      PROVE  user' = user \/ (req[b].at # "idle" /\ Written(b) /\ user' = req[b].row)
  BY <1>1 DEF FailLogin, PasswordSignIn, OtpSignIn, CodeSignIn, SaveAfterKey, SaveUser,
              Finish, At
<1>2. ASSUME NEW b \in Browser, SaveAfterCodes(b) \/ RemoveAgain(b) \/ SaveAfterRemoval(b)
      PROVE  user' = user \/ (req[b].at # "idle" /\ Written(b) /\ user' = req[b].row)
  BY <1>2 DEF SaveAfterCodes, RemoveAgain, SaveAfterRemoval, SaveUser, Finish, GoOn, At
<1>3. ASSUME NEW b \in Browser, EnableTwoFactor(b) \/ ClearTwoFactor(b)
      PROVE  \/ user' = user
             \/ /\ req[b].at # "idle" /\ Written(b)
                /\ \E e \in BOOLEAN : /\ e => req[b].at = "enable"
                                   /\ user' = [req[b].row EXCEPT !.enabled = e]
  BY <1>3 DEF EnableTwoFactor, ClearTwoFactor, Finish, GoOn, At
<1>4. ASSUME RemoveTwoFactor \/ UpdateUser \/ DeleteUser
      PROVE  /\ req[Api].at # "idle" /\ Written(Api)
             /\ \/ user' = req[Api].row
                \/ \E e \in BOOLEAN : /\ e => req[Api].at = "enable"
                                   /\ user' = [req[Api].row EXCEPT !.enabled = e]
                \/ user' = [req[Api].row EXCEPT !.deleted = TRUE]
  BY <1>4 DEF RemoveTwoFactor, UpdateUser, DeleteUser, SaveUser, Finish, At
<1>5. ASSUME NEW b \in Browser,
             \/ StartLogin(b) \/ RequireTwoFactor(b) \/ StartVerify(b) \/ RedeemCode(b)
             \/ Logout(b) \/ ShowKey(b) \/ StartRegistration(b) \/ BlankKey(b)
             \/ EncryptKey(b) \/ AcceptOtp(b) \/ StartCompletion(b) \/ StartCodeReset(b)
             \/ ReplaceCodes(b) \/ MarkVerified(b) \/ StartDeregistration(b)
      PROVE  user' = user
  BY <1>5 DEF StartLogin, RequireTwoFactor, StartVerify, RedeemCode, Logout, ShowKey,
              StartRegistration, BlankKey, EncryptKey, AcceptOtp, StartCompletion,
              StartCodeReset, ReplaceCodes, MarkVerified, StartDeregistration, Begin, account
<1>6. ASSUME StartApi \/ Issue \/ \E p \in Process : Abort(p)
      PROVE  user' = user
  BY <1>6 DEF StartApi, Issue, Abort, Begin, account
<1> QED BY <1>1, <1>2, <1>3, <1>4, <1>5, <1>6 DEF Next, Change, Process

\* A deleted user stays deleted: whoever writes the row back had loaded it deleted, or
\* was overtaken.
THEOREM DeletedAlwaysStaysDeleted == Spec => DeletedStaysDeleted
<1>1. IInv /\ [Next]_vars => [clean' /\ user.deleted => user'.deleted]_vars
  <2> SUFFICES ASSUME IInv, Next, clean', user.deleted PROVE user'.deleted
    OBVIOUS
  <2>1. CASE user' = user
    BY <2>1
  <2>2. ASSUME NEW p \in Process, req[p].at # "idle", Written(p),
               \/ user' = req[p].row
               \/ \E e \in BOOLEAN : user' = [req[p].row EXCEPT !.enabled = e]
               \/ user' = [req[p].row EXCEPT !.deleted = TRUE]
        PROVE  user'.deleted
    <3>1. req[p].row.deleted = user.deleted /\ user.deleted = TRUE
      BY <2>2, WriterKnows DEF Current, IInv, TypeOK, Row
    <3>2. req[p].row \in Row
      BY <2>2, RowsAreRows DEF IInv
    <3>3. user'.deleted = TRUE
      BY <2>2, <3>1, <3>2 DEF Row
    <3> QED BY <3>3
  <2> QED BY <2>1, <2>2, WritesOfTheRow
<1> QED BY <1>1, Invariant, PTL DEF Spec, DeletedStaysDeleted

-----------------------------------------------------------------------------
\* Without any condition: before the first proof the factor is off, in the row and in every
\* copy of it, and no request is about to switch it on.
NoFactorYet ==
    proven = {} =>
      /\ ~user.enabled
      /\ \A p \in Process : req[p] # Idle => ~req[p].row.enabled /\ req[p].at # "enable"

\* A request that begins has loaded the row as it is.
LEMMA BeginningsLoadTheRow ==
  ASSUME TypeOK, NEW p \in Process,
         \/ p \in Browser /\ (StartLogin(p) \/ StartVerify(p) \/ StartRegistration(p)
                                \/ StartCompletion(p) \/ StartCodeReset(p)
                                \/ StartDeregistration(p))
         \/ p = Api /\ StartApi
  PROVE  \E r \in Request : /\ req' = [req EXCEPT ![p] = r]
                            /\ r.row = user /\ r.at # "enable"
<1>1. \A stage \in Stage :
        Loaded(stage) \in Request /\ Loaded(stage).row = user /\ Loaded(stage).at = stage
  BY LoadedRequest
<1>2. ASSUME NEW stage \in Stage
      PROVE  LET r == [Loaded(stage) EXCEPT !.completes = TRUE]
             IN  r \in Request /\ r.row = user /\ r.at = stage
  <2>1. Loaded(stage) \in Request /\ Loaded(stage).row = user /\ Loaded(stage).at = stage
    BY <1>1
  <2> QED BY <2>1 DEF Request
<1>3. \/ \E stage \in Stage \ {"enable"} : req' = [req EXCEPT ![p] = Loaded(stage)]
      \/ \E stage \in Stage \ {"enable"} :
            req' = [req EXCEPT ![p] = [Loaded(stage) EXCEPT !.completes = TRUE]]
  <2>1. CASE StartCompletion(p)
    <3> DEFINE stage == IF codes = {} THEN "replace" ELSE "verify"
    <3>1. stage \in Stage \ {"enable"}
      BY DEF Stage
    <3>2. req' = [req EXCEPT ![p] = [Loaded(stage) EXCEPT !.completes = TRUE]]
      BY <2>1 DEF StartCompletion, Begin
    <3> HIDE DEF stage
    <3> QED BY ONLY <3>1, <3>2
  <2>2. CASE ~StartCompletion(p) /\ p \in Browser
    BY <2>2, NamesAssumption DEF StartLogin, StartVerify, StartRegistration, StartCodeReset,
                     StartDeregistration, Begin, Stage
  <2>3. CASE p = Api /\ StartApi
    BY <2>3 DEF StartApi, Begin, Stage
  <2> QED BY ONLY <2>1, <2>2, <2>3,
        \/ p \in Browser /\ (StartLogin(p) \/ StartVerify(p) \/ StartRegistration(p)
                                \/ StartCompletion(p) \/ StartCodeReset(p)
                                \/ StartDeregistration(p))
        \/ p = Api /\ StartApi
<1> QED BY <1>1, <1>2, <1>3

\* One that goes on keeps its copy.
LEMMA StagesKeepTheRow ==
  ASSUME TypeOK, NEW b \in Browser,
         \/ RedeemCode(b) \/ BlankKey(b) \/ EncryptKey(b) \/ EnableTwoFactor(b)
         \/ ReplaceCodes(b) \/ RemoveAgain(b) \/ SaveAfterRemoval(b)
         \/ (SaveAfterCodes(b) /\ req[b].completes)
  PROVE  /\ req[b] # Idle
         /\ \E r \in Request : /\ req' = [req EXCEPT ![b] = r]
                               /\ r.row = req[b].row /\ r.at # "enable"
<1>1. b \in Process
  BY DEF Process
<1>2. req[b].at # "idle"
  BY DEF RedeemCode, BlankKey, EncryptKey, EnableTwoFactor, ReplaceCodes, SaveAfterCodes,
         RemoveAgain, SaveAfterRemoval, At
<1>3. req[b] \in Request /\ req[b] # Idle
  BY <1>1, <1>2, Requests
<1>4. CASE RedeemCode(b)
  <2>1. PICK c \in Code :
          req' = [req EXCEPT ![b].at = "redeemed", ![b].code = c, ![b].codes = {}]
    BY <1>4 DEF RedeemCode
  <2> DEFINE r == [req[b] EXCEPT !.at = "redeemed", !.code = c, !.codes = {}]
  <2>2. r \in Request /\ r.row = req[b].row /\ r.at # "enable"
    BY <1>3 DEF Request, Stage
  <2> QED BY <1>1, <1>3, <2>1, <2>2 DEF TypeOK
<1>5. CASE BlankKey(b)
  <2>1. PICK k \in Key : req' = [req EXCEPT ![b].at = "blank", ![b].key = k]
    BY <1>5 DEF BlankKey
  <2> DEFINE r == [req[b] EXCEPT !.at = "blank", !.key = k]
  <2>2. r \in Request /\ r.row = req[b].row /\ r.at # "enable"
    BY <1>3 DEF Request, Stage
  <2> QED BY <1>1, <1>3, <2>1, <2>2 DEF TypeOK
<1>6. CASE EncryptKey(b)
  <2>1. req' = [req EXCEPT ![b].at = "stored", ![b].key = None]
    BY <1>6 DEF EncryptKey
  <2> DEFINE r == [req[b] EXCEPT !.at = "stored", !.key = None]
  <2>2. r \in Request /\ r.row = req[b].row /\ r.at # "enable"
    BY <1>3 DEF Request, Stage
  <2> QED BY <1>1, <1>3, <2>1, <2>2 DEF TypeOK
<1>7. CASE \E stage \in Stage \ {"enable"} : req' = [req EXCEPT ![b].at = stage]
  <2>1. PICK stage \in Stage \ {"enable"} : req' = [req EXCEPT ![b].at = stage]
    BY <1>7
  <2> DEFINE r == [req[b] EXCEPT !.at = stage]
  <2>2. r \in Request /\ r.row = req[b].row /\ r.at # "enable"
    BY <1>3 DEF Request
  <2> QED BY <1>1, <1>3, <2>1, <2>2 DEF TypeOK
<1>8. ASSUME \/ EnableTwoFactor(b) \/ ReplaceCodes(b) \/ RemoveAgain(b) \/ SaveAfterRemoval(b)
             \/ (SaveAfterCodes(b) /\ req[b].completes)
      PROVE  \E stage \in Stage \ {"enable"} : req' = [req EXCEPT ![b].at = stage]
  BY <1>8 DEF EnableTwoFactor, ReplaceCodes, SaveAfterCodes, RemoveAgain, SaveAfterRemoval,
              GoOn, Stage
<1> QED BY <1>3, <1>4, <1>5, <1>6, <1>7, <1>8

\* Every other step that changes the requests ends one.
LEMMA StepsOfRequests ==
  ASSUME TypeOK, Next
  PROVE  \/ req' = req
         \/ \E p \in Process : req' = [req EXCEPT ![p] = Idle]
         \/ \E p \in Process, r \in Request :
              /\ req' = [req EXCEPT ![p] = r] /\ r.at # "enable"
              /\ r.row = user \/ (req[p] # Idle /\ r.row = req[p].row)
         \/ \E b \in Browser : AcceptOtp(b)
<1>1. ASSUME NEW b \in Browser,
             \/ FailLogin(b) \/ PasswordSignIn(b) \/ RequireTwoFactor(b) \/ OtpSignIn(b)
             \/ CodeSignIn(b) \/ SaveAfterKey(b) \/ MarkVerified(b) \/ ClearTwoFactor(b)
             \/ (SaveAfterCodes(b) /\ ~req[b].completes)
      PROVE  req' = [req EXCEPT ![b] = Idle]
  BY <1>1 DEF FailLogin, PasswordSignIn, RequireTwoFactor, OtpSignIn, CodeSignIn, SaveAfterKey,
              MarkVerified, ClearTwoFactor, SaveAfterCodes, Finish
<1>2. ASSUME RemoveTwoFactor \/ UpdateUser \/ DeleteUser
      PROVE  req' = [req EXCEPT ![Api] = Idle]
  BY <1>2 DEF RemoveTwoFactor, UpdateUser, DeleteUser, Finish
<1>3. ASSUME NEW p \in Process, Abort(p) PROVE req' = [req EXCEPT ![p] = Idle]
  BY <1>3 DEF Abort
<1>4. ASSUME NEW b \in Browser, ShowKey(b) \/ Logout(b) PROVE req' = req
  BY <1>4 DEF ShowKey, Logout
<1>5. Issue => req' = req
  BY DEF Issue
<1>6. Browser \subseteq Process /\ Api \in Process
  BY DEF Process
<1>7. ASSUME NEW b \in Browser,
             \/ StartLogin(b) \/ StartVerify(b) \/ StartRegistration(b)
             \/ StartCompletion(b) \/ StartCodeReset(b) \/ StartDeregistration(b)
      PROVE  \E r \in Request : /\ req' = [req EXCEPT ![b] = r]
                                /\ r.row = user /\ r.at # "enable"
  BY <1>6, <1>7, BeginningsLoadTheRow
<1>8. ASSUME StartApi
      PROVE  \E r \in Request : /\ req' = [req EXCEPT ![Api] = r]
                                /\ r.row = user /\ r.at # "enable"
  BY <1>6, <1>8, BeginningsLoadTheRow
<1>9. ASSUME NEW b \in Browser,
             \/ RedeemCode(b) \/ BlankKey(b) \/ EncryptKey(b) \/ EnableTwoFactor(b)
             \/ ReplaceCodes(b) \/ RemoveAgain(b) \/ SaveAfterRemoval(b)
             \/ (SaveAfterCodes(b) /\ req[b].completes)
      PROVE  /\ req[b] # Idle
             /\ \E r \in Request : /\ req' = [req EXCEPT ![b] = r]
                                   /\ r.row = req[b].row /\ r.at # "enable"
  BY <1>9, StagesKeepTheRow
<1> QED
  BY <1>1, <1>2, <1>3, <1>4, <1>5, <1>6, <1>7, <1>8, <1>9 DEF Next, Change

\* Proofs are not forgotten.
LEMMA ProofsStay ==
  ASSUME Next
  PROVE  proven \subseteq proven'
<1>1. ASSUME NEW b \in Browser,
             \/ FailLogin(b) \/ PasswordSignIn(b) \/ RequireTwoFactor(b) \/ OtpSignIn(b)
             \/ CodeSignIn(b) \/ SaveAfterKey(b) \/ MarkVerified(b) \/ ClearTwoFactor(b)
             \/ SaveAfterCodes(b) \/ RedeemCode(b) \/ BlankKey(b) \/ EncryptKey(b)
             \/ EnableTwoFactor(b) \/ ReplaceCodes(b) \/ RemoveAgain(b) \/ SaveAfterRemoval(b)
             \/ ShowKey(b) \/ Logout(b) \/ AcceptOtp(b) \/ StartDeregistration(b)
      PROVE  proven \subseteq proven'
  BY <1>1 DEF FailLogin, PasswordSignIn, RequireTwoFactor, OtpSignIn, CodeSignIn, SaveAfterKey,
              MarkVerified, ClearTwoFactor, SaveAfterCodes, RedeemCode, BlankKey, EncryptKey,
              EnableTwoFactor, ReplaceCodes, RemoveAgain, SaveAfterRemoval, ShowKey, Logout,
              AcceptOtp, StartDeregistration, observed
<1>2. ASSUME NEW b \in Browser,
             \/ StartLogin(b) \/ StartVerify(b) \/ StartRegistration(b)
             \/ StartCompletion(b) \/ StartCodeReset(b)
      PROVE  proven' = proven
  BY <1>2 DEF StartLogin, StartVerify, StartRegistration, StartCompletion, StartCodeReset,
              Begin, observed
<1>3. ASSUME StartApi \/ RemoveTwoFactor \/ UpdateUser \/ DeleteUser \/ Issue
             \/ \E p \in Process : Abort(p)
      PROVE  proven' = proven
  BY <1>3 DEF StartApi, RemoveTwoFactor, UpdateUser, DeleteUser, Issue, Abort, Begin, observed
<1> QED BY <1>1, <1>2, <1>3 DEF Next, Change

\* The factor is only ever switched on, or written back as on, after a proof.
LEMMA NextKeepsNoFactorYet ==
  ASSUME IInv, IInv', NoFactorYet, [Next]_vars
  PROVE  NoFactorYet'
<1>1. CASE UNCHANGED vars
  BY <1>1 DEF NoFactorYet, vars, account, observed
<1>2. CASE Next
  <2> SUFFICES ASSUME proven' = {}
               PROVE  /\ ~user'.enabled
                      /\ \A p \in Process : req'[p] # Idle =>
                            ~req'[p].row.enabled /\ req'[p].at # "enable"
    BY DEF NoFactorYet
  <2>1. /\ TypeOK /\ ~user.enabled
        /\ \A p \in Process : req[p] # Idle => ~req[p].row.enabled /\ req[p].at # "enable"
    BY <1>2, ProofsStay DEF NoFactorYet, IInv
  <2>2. ~user'.enabled
    <3>1. ASSUME NEW p \in Process, req[p].at # "idle",
                 \/ user' = req[p].row
                 \/ \E e \in BOOLEAN : /\ e => req[p].at = "enable"
                                      /\ user' = [req[p].row EXCEPT !.enabled = e]
                 \/ user' = [req[p].row EXCEPT !.deleted = TRUE]
          PROVE  ~user'.enabled
      <4>1. req[p] # Idle /\ req[p].row \in Row
        BY <2>1, <3>1, RowsAreRows DEF Idle
      <4>2. ~req[p].row.enabled /\ req[p].at # "enable"
        BY <2>1, <4>1
      <4> QED BY <3>1, <4>1, <4>2 DEF Row
    <3> QED BY <1>2, <2>1, <3>1, WritesOfTheRow
  <2>3. ~\E b \in Browser : AcceptOtp(b)
    BY DEF AcceptOtp
  <2>4. CASE req' = req
    BY <2>1, <2>2, <2>4
  <2>5. ASSUME NEW p \in Process, req' = [req EXCEPT ![p] = Idle]
        PROVE  \A q \in Process : req'[q] # Idle =>
                   ~req'[q].row.enabled /\ req'[q].at # "enable"
    BY <2>1, <2>5 DEF TypeOK
  <2>6. ASSUME NEW p \in Process, NEW r \in Request,
               req' = [req EXCEPT ![p] = r], r.at # "enable",
               r.row = user \/ (req[p] # Idle /\ r.row = req[p].row)
        PROVE  \A q \in Process : req'[q] # Idle =>
                   ~req'[q].row.enabled /\ req'[q].at # "enable"
    BY <2>1, <2>6 DEF TypeOK
  <2>7. \A q \in Process : req'[q] # Idle =>
           ~req'[q].row.enabled /\ req'[q].at # "enable"
    <3>1. \/ req' = req
          \/ \E p \in Process : req' = [req EXCEPT ![p] = Idle]
          \/ \E p \in Process, r \in Request :
               /\ req' = [req EXCEPT ![p] = r] /\ r.at # "enable"
               /\ r.row = user \/ (req[p] # Idle /\ r.row = req[p].row)
      BY <1>2, <2>1, <2>3, StepsOfRequests
    <3> QED BY <2>4, <2>5, <2>6, <3>1
  <2> QED BY <2>2, <2>7
<1> QED BY <1>1, <1>2

\* The factor is on only for a user who has given a one-time password, whatever overlaps or
\* stops half-way.
THEOREM FactorAlwaysTakesAProof == Spec => []FactorTakesAProof
<1>1. Init => NoFactorYet
  BY DEF Init, NoFactorYet
<1>2. IInv /\ IInv' /\ NoFactorYet /\ [Next]_vars => NoFactorYet'
  BY NextKeepsNoFactorYet
<1>3. NoFactorYet => FactorTakesAProof
  BY DEF NoFactorYet, FactorTakesAProof
<1> QED BY <1>1, <1>2, <1>3, Invariant, PTL DEF Spec

=============================================================================
