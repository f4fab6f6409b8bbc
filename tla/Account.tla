------------------------------- MODULE Account -------------------------------
(***************************************************************************)
(* One user's account as the identity server and the REST API share it: the *)
(* row of _a3s.application_user and its two token rows, the authenticator   *)
(* key and the recovery codes (AccountController, CustomUserStore,          *)
(* CustomSignInManager; TwoFactorAuthService, UserService).                 *)
(*                                                                          *)
(* A request of the identity server is a sequence of statements, each its   *)
(* own transaction; a request of the API is one transaction.  Both write    *)
(* the user's row back whole, every column as it was loaded, and nothing    *)
(* compares its concurrency stamp: A3SContext does not declare the token.   *)
(* Consecutive reads of a request, and a query with the write it feeds, are *)
(* one step.                                                                *)
(*                                                                          *)
(* Passwords, LDAP, lockout, the remember-me cookies and a contract that    *)
(* declares the user are left out.                                          *)
(***************************************************************************)
CONSTANTS Browser,   \* the user's browsers
          Api,       \* the one request the REST API is serving for the user
          Key, Code, \* authenticator keys and recovery codes, drawn at random
          Batch,     \* the sets of codes one draw can give
          None

Process == Browser \cup {Api}

ASSUME BatchAssumption == Batch \subseteq SUBSET Code
ASSUME NamesAssumption == None \notin Key /\ Api \notin Browser

VARIABLES user,      \* the row of application_user
          token,     \* the authenticator key's row, or NoRow
          codes,     \* the recovery codes in their row; an absent row is empty
          sess,      \* each browser's cookies: nobody's, password given, signed in
          req,       \* the request of each process
          drawn,     \* keys and codes drawn so far
          shown,     \* keys some browser was shown, and the user's app knows
          proven,    \* keys for which a one-time password was accepted
          admitted,  \* codes that signed a browser in
          again,     \* a code signed a browser in that had done so before
          stale,     \* processes whose reads another one's write overtook
          clean,     \* no stale process wrote, no request stopped half-way
          issued     \* a client was given tokens for the user

account == <<user, token, codes>>
observed == <<proven, admitted, again>>
vars == <<account, sess, req, drawn, shown, observed, stale, clean, issued>>

\* The variables of observed, stale and clean record the run; no guard reads them.

Row == [enabled: BOOLEAN, deleted: BOOLEAN]

\* The key is stored in two statements, the first of which leaves it blank.
NoRow == [key |-> None, verified |-> FALSE, there |-> FALSE]
Token == [key: Key \cup {None}, verified: BOOLEAN, there: BOOLEAN]

Idle == [at |-> "idle"]

Stage == {"login", "otp", "redeem", "redeemed", "reset", "blank", "stored", "enable",
          "verify", "replace", "replaced", "removed", "touched", "gone", "clear",
          "remove2FA", "update", "delete"}

\* A request: what it has loaded, and what it still has to write.
Request == [at: Stage, row: Row, hadToken: BOOLEAN, codes: SUBSET Code,
            key: Key \cup {None}, code: Code \cup {None}, completes: BOOLEAN]

TypeOK ==
    /\ user \in Row /\ token \in Token /\ codes \in SUBSET Code
    /\ sess \in [Browser -> {"out", "half", "in"}]
    /\ req \in [Process -> {Idle} \cup Request]
    /\ drawn \in SUBSET (Key \cup Code)
    /\ shown \in SUBSET Key /\ proven \in SUBSET Key /\ admitted \in SUBSET Code
    /\ stale \in SUBSET Process
    /\ {again, clean, issued} \subseteq BOOLEAN

Init ==
    /\ user = [enabled |-> FALSE, deleted |-> FALSE]
    /\ token = NoRow /\ codes = {}
    /\ sess = [b \in Browser |-> "out"]
    /\ req = [p \in Process |-> Idle]
    /\ drawn = {} /\ shown = {} /\ proven = {} /\ admitted = {}
    /\ again = FALSE /\ stale = {} /\ clean = TRUE /\ issued = FALSE

At(p, stage) == req[p].at = stage

\* The key can be decrypted: neither absent nor still blank.
Usable == token.key # None

\* A request that has loaded the user, and the token rows its stage needs.
Loaded(stage) ==
    [at |-> stage, row |-> user,
     hadToken |-> stage \in {"reset", "remove2FA"} /\ token.there,
     codes |-> IF stage \in {"redeem", "remove2FA"} THEN codes ELSE {},
     key |-> None, code |-> None, completes |-> FALSE]

\* p begins a request, which only reads.
Begin(p, r) ==
    /\ At(p, "idle")
    /\ req' = [req EXCEPT ![p] = r]
    /\ UNCHANGED <<account, sess, drawn, shown, observed, stale, clean>>

\* A step that writes: whoever has read what it changes is stale.
Written(p) ==
    /\ stale' = (IF UNCHANGED account THEN stale
                 ELSE stale \cup {q \in Process \ {p} : req[q] # Idle})
                \ (IF req'[p] = Idle THEN {p} ELSE {})
    /\ clean' = (clean /\ p \notin stale)

GoOn(p, stage) == req' = [req EXCEPT ![p].at = stage] /\ Written(p)
Finish(p) == req' = [req EXCEPT ![p] = Idle] /\ Written(p)

\* UserManager.UpdateAsync writes the row as it was loaded.
SaveUser(p) == user' = req[p].row

\* An exception or a crash; it leaves a request half-way if it has written.
Abort(p) ==
    /\ req[p] # Idle
    /\ req' = [req EXCEPT ![p] = Idle]
    /\ stale' = stale \ {p}
    /\ clean' = (clean /\ req[p].at \in {"login", "otp", "redeem", "reset", "enable",
                                        "replace", "remove2FA", "update", "delete"})
    /\ UNCHANGED <<account, sess, drawn, shown, observed>>

-----------------------------------------------------------------------------
\* Signing in.

\* Login: the user is found by name, which a deleted user has lost.
StartLogin(b) ==
    /\ sess[b] # "in" /\ ~user.deleted
    /\ Begin(b, Loaded("login"))

\* A wrong password or one-time password is counted, in the user's row.
FailLogin(b) ==
    /\ At(b, "login") \/ At(b, "otp")
    /\ SaveUser(b)
    /\ UNCHANGED <<token, codes, sess, drawn, shown, observed>>
    /\ Finish(b)

\* Without two-factor authentication the password signs in; the count of failures
\* is reset if there were any.
PasswordSignIn(b) ==
    /\ At(b, "login") /\ ~req[b].row.enabled
    /\ SaveUser(b) \/ UNCHANGED user
    /\ sess' = [sess EXCEPT ![b] = "in"]
    /\ UNCHANGED <<token, codes, drawn, shown, observed>>
    /\ Finish(b)

\* RedirectTo2FA: the password alone signs no one in; without a key it throws, and
\* the answer with the cookie is lost (Abort).
RequireTwoFactor(b) ==
    /\ At(b, "login") /\ req[b].row.enabled /\ Usable
    /\ sess' = [sess EXCEPT ![b] = "half"]
    /\ UNCHANGED <<account, drawn, shown, observed>>
    /\ Finish(b)

StartVerify(b) == \E stage \in {"otp", "redeem"} : sess[b] = "half" /\ Begin(b, Loaded(stage))

\* TwoFactorAuthenticatorSignInAsync: a one-time password of the stored key.
OtpSignIn(b) ==
    /\ At(b, "otp") /\ token.key \in shown
    /\ SaveUser(b) \/ UNCHANGED user
    /\ sess' = [sess EXCEPT ![b] = "in"]
    /\ UNCHANGED <<token, codes, drawn, shown, observed>>
    /\ Finish(b)

\* Mutant of RedeemCode: the code stays.
RedeemKeeping(b) ==
    \E c \in Code :
        /\ At(b, "redeem") /\ c \in req[b].codes
        /\ codes' = req[b].codes
        /\ req' = [req EXCEPT ![b].at = "redeemed", ![b].code = c, ![b].codes = {}]
        /\ UNCHANGED <<user, token, sess, drawn, shown, observed>>
        /\ Written(b)

\* CustomUserStore.RedeemCodeAsync: the codes that were read, without this one.
RedeemCode(b) ==
    \E c \in Code :
        /\ At(b, "redeem") /\ c \in req[b].codes
        /\ codes' = req[b].codes \ {c}
        /\ req' = [req EXCEPT ![b].at = "redeemed", ![b].code = c, ![b].codes = {}]
        /\ UNCHANGED <<user, token, sess, drawn, shown, observed>>
        /\ Written(b)

CodeSignIn(b) ==
    /\ At(b, "redeemed")
    /\ SaveUser(b)
    /\ sess' = [sess EXCEPT ![b] = "in"]
    /\ admitted' = admitted \cup {req[b].code}
    /\ again' = (again \/ req[b].code \in admitted)
    /\ UNCHANGED <<token, codes, drawn, shown, proven>>
    /\ Finish(b)

Logout(b) ==
    /\ sess[b] = "in" /\ At(b, "idle")
    /\ sess' = [sess EXCEPT ![b] = "out"]
    /\ UNCHANGED <<account, req, drawn, shown, observed, stale, clean>>

-----------------------------------------------------------------------------
\* Registering an authenticator.

\* Register2FAAuthenticator, when the key is verified, the form was posted with a wrong
\* one-time password, or at last when a new key was stored: the key is shown.
ShowKey(b) ==
    /\ sess[b] = "in" /\ At(b, "idle") /\ Usable
    /\ shown' = shown \cup {token.key}
    /\ UNCHANGED <<account, sess, req, drawn, observed, stale, clean>>

\* Otherwise a new key is drawn.
StartRegistration(b) ==
    /\ sess[b] = "in" /\ ~token.verified
    /\ Begin(b, Loaded("reset"))

\* ResetAuthenticatorKeyAsync, CustomUserStore.SetTokenAsync: a row that was loaded
\* is not verified, for it was not when it was loaded; where there was none, one is
\* added or, if another request has added one, that one is used.
BlankKey(b) ==
    \E k \in Key \ drawn :
        /\ At(b, "reset")
        /\ req[b].hadToken => token.there
        /\ token' = [key |-> None, there |-> TRUE,
                     verified |-> ~req[b].hadToken /\ token.verified]
        /\ drawn' = drawn \cup {k}
        /\ req' = [req EXCEPT ![b].at = "blank", ![b].key = k]
        /\ UNCHANGED <<user, codes, sess, shown, observed>>
        /\ Written(b)

\* StoreEncryptedValue.
EncryptKey(b) ==
    /\ At(b, "blank")
    /\ token' = IF token.there THEN [token EXCEPT !.key = req[b].key] ELSE token
    /\ UNCHANGED <<user, codes, sess, drawn, shown, observed>>
    /\ req' = [req EXCEPT ![b].at = "stored", ![b].key = None]
    /\ Written(b)

\* The security stamp is saved; the query that reads the key back for the page is ShowKey.
SaveAfterKey(b) ==
    /\ At(b, "stored")
    /\ SaveUser(b)
    /\ UNCHANGED <<token, codes, sess, drawn, shown, observed>>
    /\ Finish(b)

\* The form is posted with a one-time password of the stored key.
AcceptOtp(b) ==
    /\ sess[b] = "in" /\ At(b, "idle") /\ token.key \in shown
    /\ req' = [req EXCEPT ![b] = Loaded("enable")]
    /\ proven' = proven \cup {token.key}
    /\ UNCHANGED <<account, sess, drawn, shown, admitted, again, stale, clean>>

EnableTwoFactor(b) ==
    /\ At(b, "enable")
    /\ user' = [req[b].row EXCEPT !.enabled = TRUE]
    /\ UNCHANGED <<token, codes, sess, drawn, shown, observed>>
    /\ GoOn(b, "verify")

\* Register2FAAuthenticatorComplete, of any browser that is signed in: codes are
\* drawn if there are none.
StartCompletion(b) ==
    /\ sess[b] = "in"
    /\ Begin(b, [Loaded(IF codes = {} THEN "replace" ELSE "verify") EXCEPT !.completes = TRUE])

\* ResetRecoveryCodes, and DisplayResetRecoveryCodes without codes to display.
StartCodeReset(b) ==
    /\ sess[b] = "in" /\ token.verified
    /\ Begin(b, Loaded("replace"))

\* Mutant of ReplaceCodes: the whole list is stored as one code.
ReplaceCodesUnsplit(b) ==
    \E new \in Batch :
        /\ At(b, "replace") /\ new \cap drawn = {}
        /\ codes' = {new}
        /\ drawn' = drawn \cup new
        /\ UNCHANGED <<user, token, sess, shown, observed>>
        /\ GoOn(b, "replaced")

ReplaceCodes(b) ==
    \E new \in Batch :
        /\ At(b, "replace") /\ new \cap drawn = {}
        /\ codes' = new
        /\ drawn' = drawn \cup new
        /\ UNCHANGED <<user, token, sess, shown, observed>>
        /\ GoOn(b, "replaced")

SaveAfterCodes(b) ==
    /\ At(b, "replaced")
    /\ SaveUser(b)
    /\ UNCHANGED <<token, codes, sess, drawn, shown, observed>>
    /\ IF req[b].completes THEN GoOn(b, "verify") ELSE Finish(b)

\* Mutant of MarkVerified: another token's row is marked.
MarkNothing(b) ==
    /\ At(b, "verify")
    /\ UNCHANGED <<account, sess, drawn, shown, observed>>
    /\ Finish(b)

\* Mutant of MarkVerified: it switches the factor on as well.
MarkAndEnable(b) ==
    /\ At(b, "verify")
    /\ token' = [token EXCEPT !.verified = token.there]
    /\ user' = [user EXCEPT !.enabled = TRUE]
    /\ UNCHANGED <<codes, sess, drawn, shown, observed>>
    /\ Finish(b)

\* SetAuthenticatorTokenVerifiedAsync, if there is a row.
MarkVerified(b) ==
    /\ At(b, "verify")
    /\ token' = [token EXCEPT !.verified = token.there]
    /\ UNCHANGED <<user, codes, sess, drawn, shown, observed>>
    /\ Finish(b)

-----------------------------------------------------------------------------
\* Deregistering it.

\* Deregister2FAAuthenticator removes the recovery codes, then the key; whatever
\* the name, RemoveTokenAsync removes the key.
StartDeregistration(b) ==
    /\ sess[b] = "in" /\ At(b, "idle")
    /\ token' = NoRow
    /\ req' = [req EXCEPT ![b] = Loaded("removed")]
    /\ UNCHANGED <<user, codes, sess, drawn, shown, observed>>
    /\ Written(b)

RemoveAgain(b) ==
    /\ At(b, "touched")
    /\ token' = NoRow
    /\ UNCHANGED <<user, codes, sess, drawn, shown, observed>>
    /\ GoOn(b, "gone")

\* Each removal is followed by UpdateAsync.
SaveAfterRemoval(b) ==
    /\ At(b, "removed") \/ At(b, "gone")
    /\ SaveUser(b)
    /\ UNCHANGED <<token, codes, sess, drawn, shown, observed>>
    /\ GoOn(b, IF At(b, "removed") THEN "touched" ELSE "clear")

\* UpdateUser2faStatus: only if another request has verified a new key meanwhile does the
\* factor stay on.
ClearTwoFactor(b) ==
    /\ At(b, "clear")
    /\ user' = IF token.verified THEN user ELSE [req[b].row EXCEPT !.enabled = FALSE]
    /\ UNCHANGED <<token, codes, sess, drawn, shown, observed>>
    /\ Finish(b)

-----------------------------------------------------------------------------
\* The REST API, one transaction a request.

StartApi == \E stage \in {"remove2FA", "update", "delete"} : Begin(Api, Loaded(stage))

\* TwoFactorAuthService.RemoveTwoFactorAuthenticationAsync: a token that was loaded
\* must still be there.  Recovery codes that were loaded as empty are an absent row, which is
\* left, or one whose codes were all used, which is removed with what it holds by now.
RemoveTwoFactor ==
    /\ At(Api, "remove2FA")
    /\ req[Api].hadToken => token.there
    /\ user' = [req[Api].row EXCEPT !.enabled = FALSE]
    /\ token' = IF req[Api].hadToken THEN NoRow ELSE token
    /\ codes' = {} \/ (req[Api].codes = {} /\ UNCHANGED codes)
    /\ UNCHANGED <<sess, drawn, shown, observed>>
    /\ Finish(Api)

\* Mutant of UpdateUser: the mark of deletion is taken from the request.
UpdateReviving ==
    /\ At(Api, "update")
    /\ user' = [req[Api].row EXCEPT !.deleted = FALSE]
    /\ UNCHANGED <<token, codes, sess, drawn, shown, observed>>
    /\ Finish(Api)

\* UserService.UpdateAsync: no column of the model changes.
UpdateUser ==
    /\ At(Api, "update")
    /\ SaveUser(Api)
    /\ UNCHANGED <<token, codes, sess, drawn, shown, observed>>
    /\ Finish(Api)

DeleteUser ==
    /\ At(Api, "delete")
    /\ user' = [req[Api].row EXCEPT !.deleted = TRUE]
    /\ UNCHANGED <<token, codes, sess, drawn, shown, observed>>
    /\ Finish(Api)

\* A client is given tokens for whoever is signed in: GetProfileDataAsync, after
\* IsActiveAsync has found the user by its identifier.  Refreshing them asks the same.
\* Only the first time is followed, a bound.
Issue ==
    /\ "in" \in {sess[b] : b \in Browser}
    /\ ~issued
    /\ issued' = TRUE
    /\ UNCHANGED <<account, sess, req, drawn, shown, observed, stale, clean>>

Change ==
    \/ \E b \in Browser :
        \/ StartLogin(b) \/ FailLogin(b) \/ PasswordSignIn(b) \/ RequireTwoFactor(b)
        \/ StartVerify(b) \/ OtpSignIn(b) \/ RedeemCode(b) \/ CodeSignIn(b) \/ Logout(b)
        \/ ShowKey(b) \/ StartRegistration(b) \/ BlankKey(b) \/ EncryptKey(b) \/ SaveAfterKey(b)
        \/ AcceptOtp(b) \/ EnableTwoFactor(b)
        \/ StartCompletion(b) \/ StartCodeReset(b) \/ ReplaceCodes(b) \/ SaveAfterCodes(b)
        \/ MarkVerified(b)
        \/ StartDeregistration(b) \/ RemoveAgain(b) \/ SaveAfterRemoval(b) \/ ClearTwoFactor(b)
    \/ StartApi \/ RemoveTwoFactor \/ UpdateUser \/ DeleteUser
    \/ \E p \in Process : Abort(p)

Next == (Change /\ UNCHANGED issued) \/ Issue

Spec == Init /\ [][Next]_vars

=============================================================================
