----------------------------- MODULE SignInPages -----------------------------
(***************************************************************************)
(* The pages of the identity server in one browser window: what their       *)
(* scripts (wwwroot/js) do at a click, at a timer and while a page is being *)
(* left, and what AccountController answers.                                *)
(*                                                                          *)
(* Assigning window.location.href begins a request; the page and its        *)
(* scripts stay alive until another page arrives, and a later assignment    *)
(* replaces an earlier one.  A redirect of the server is a request of its   *)
(* own.  Other windows of the browser share the cookies and the account.    *)
(*                                                                          *)
(* A form that is refused shows its page again, which changes nothing here. *)
(* External sign-in is left out; the account itself is in Account.          *)
(***************************************************************************)
VARIABLES config,   \* OrganizationEnforced, AuthenticatorEnabled, a PKCE client
          page,     \* the page in the window
          offers,   \* it was rendered for a user with an authenticator
          timer,    \* the timeout of signin-redirect.js is armed
          going,    \* the request under way, or "none"
          asked,    \* where the last click wanted to go, or "none"
          ret,      \* the return address all pages pass on
          denied,   \* the server will tell the client that access was denied
          session,  \* the cookies: none, password given, signed in
          factor,   \* the user has a verified authenticator
          twoFactor, \* TwoFactorEnabled: the login asks for a code
          changed   \* it was removed since the registration page was last rendered

account == <<factor, twoFactor>>
server == <<denied, session, account>>
vars == <<config, page, offers, timer, going, asked, ret, server, changed>>

\* asked and changed observe the run; no action's guard reads them.

Page == {"client", "login", "verify", "successful", "redirect", "register",
         "authenticator", "complete", "codes", "home", "loggedOut", "error"}

\* Actions of the controller that need a session.
Local == {"successful", "register", "authenticator", "complete", "deregister", "codes", "cancel"}
Target == Local \cup {"return", "home"}

TypeOK ==
    /\ config \in [compulsory: BOOLEAN, enabled: BOOLEAN, pkce: BOOLEAN]
    /\ page \in Page
    /\ going \in Target \cup {"none"} /\ asked \in Target \cup {"none"}
    /\ ret \in Local \cup {"client"}
    /\ session \in {"out", "half", "in"}
    /\ {offers, timer, denied, factor, twoFactor, changed} \subseteq BOOLEAN

Init ==
    /\ config \in [compulsory: BOOLEAN, enabled: BOOLEAN, pkce: BOOLEAN]
    /\ page = "client" /\ offers = FALSE /\ timer = FALSE
    /\ going = "none" /\ asked = "none"
    /\ ret = "client" /\ denied = FALSE
    /\ session = "out" /\ factor = FALSE /\ twoFactor = FALSE /\ changed = FALSE

\* A page arrives; signin-redirect.js arms its timer.
Show(p) ==
    /\ page' = p
    /\ offers' = factor'
    /\ timer' = (p \in {"successful", "redirect"})
    /\ going' = "none" /\ asked' = "none"
    /\ changed' = (changed /\ p # "register")

\* The server answers with a redirect.
RedirectTo(target) ==
    /\ going' = target
    /\ UNCHANGED <<page, offers, timer, asked, changed>>

\* The client sends the user to the authorize endpoint, with a request of its own.
Authorize ==
    /\ page \in {"client", "home", "loggedOut", "error"} /\ session # "in"
    /\ ret' = "client" /\ denied' = FALSE
    /\ UNCHANGED <<config, session, account>>
    /\ Show("login")

-----------------------------------------------------------------------------
\* Forms.

\* Where a login leads: to the registration that the organisation enforces, the page
\* that offers it, or back to the client.
AfterPassword ==
    IF config.compulsory THEN "register"
    ELSE IF config.enabled THEN "successful" ELSE "return"

\* Login: a user with a second factor is asked for it; Redirect.cshtml is for PKCE clients.
LoginPost ==
    /\ page = "login"
    /\ session' = IF twoFactor THEN "half" ELSE "in"
    /\ denied' = (denied \/ (~twoFactor /\ config.compulsory /\ ret = "client"))
    /\ UNCHANGED <<config, ret, account>>
    /\ \/ twoFactor /\ Show("verify")
       \/ /\ ~twoFactor /\ AfterPassword = "return" /\ ret = "client" /\ config.pkce
          /\ Show("redirect")
       \/ /\ ~twoFactor
          /\ ~(AfterPassword = "return" /\ ret = "client" /\ config.pkce)
          /\ RedirectTo(AfterPassword)

VerifyPost ==
    /\ page = "verify" /\ session = "half" /\ factor
    /\ session' = "in"
    /\ RedirectTo("successful")
    /\ UNCHANGED <<config, ret, denied, account>>

\* CancelTokenRequest, from the login and the verification.
CancelPost ==
    /\ page \in {"login", "verify"}
    /\ session' = IF session = "in" THEN "out" ELSE session
    /\ denied' = (denied \/ ret = "client")
    /\ UNCHANGED <<config, ret, account>>
    /\ \/ ret = "client" /\ config.pkce /\ Show("redirect")
       \/ ret = "client" /\ ~config.pkce /\ RedirectTo("return")
       \/ ret # "client" /\ RedirectTo("home")

\* The one-time password of the new authenticator.
OtpPost ==
    /\ page = "authenticator" /\ session = "in"
    /\ factor' = TRUE /\ twoFactor' = TRUE
    /\ RedirectTo("complete")
    /\ UNCHANGED <<config, ret, denied, session>>

\* The same form, posted after another window signed out: the challenge is for the
\* authenticator's page.
OtpChallenged ==
    /\ page = "authenticator" /\ session # "in"
    /\ ret' = "authenticator"
    /\ UNCHANGED <<config, server>>
    /\ Show("login")

LogOut ==
    /\ page \in {"client", "home"} /\ session = "in"
    /\ session' = "out"
    /\ UNCHANGED <<config, ret, denied, account>>
    /\ Show("loggedOut")

-----------------------------------------------------------------------------
\* Scripts.

\* window.location.href = ..., at a click.
Press(target) ==
    /\ going' = target /\ asked' = target
    /\ UNCHANGED <<config, page, offers, ret, server, changed>>

\* Mutant of PressOnSuccessful: the timer goes on.
PressKeepingTimer ==
    /\ page = "successful"
    /\ \E target \in {"register", "return"} : Press(target)
    /\ UNCHANGED timer

\* signin-redirect.js, btnTwoFA and btnContinueWithRedirect.
PressOnSuccessful ==
    /\ page = "successful"
    /\ \E target \in {"register", "return"} : Press(target)
    /\ timer' = FALSE

\* Mutant of OfferedOnRegister: what needs an authenticator is always offered.
OfferedToAll ==
    {IF config.compulsory THEN "cancel" ELSE "return"}
    \cup (IF config.enabled THEN {"authenticator", "codes", "deregister"} ELSE {})

\* The buttons of Register2FA.cshtml.
OfferedOnRegister ==
    {IF config.compulsory THEN "cancel" ELSE "return"}
    \cup (IF config.enabled THEN {"authenticator"} ELSE {})
    \cup (IF config.enabled /\ offers THEN {"codes", "deregister"} ELSE {})

\* register-2fa.js.
PressOnRegister ==
    /\ page = "register"
    /\ \E target \in OfferedOnRegister : Press(target)
    /\ UNCHANGED timer

\* Mutant of PressOnAuthenticator: an element without the address, not a missing one.
PressUndefined ==
    /\ page = "authenticator"
    /\ going' = "undefined" /\ asked' = "undefined"
    /\ UNCHANGED <<config, page, offers, timer, ret, server, changed>>

\* register-2fa-authenticator.js: the handler of Cancel reads an element that
\* Register2FAAuthenticator.cshtml does not have, and throws.
PressOnAuthenticator ==
    /\ page = "authenticator"
    /\ \/ ~config.compulsory /\ Press("return")
       \/ /\ config.compulsory
          /\ asked' = "cancel"
          /\ UNCHANGED <<config, page, offers, going, ret, server, changed>>
    /\ UNCHANGED timer

\* Mutant of PressToGoOn: the pages lack the element their script reads.
PressInVain ==
    /\ \/ page = "complete" /\ asked' = "return"
       \/ page = "codes" /\ asked' = "register"
    /\ UNCHANGED <<config, page, offers, timer, going, ret, server, changed>>

\* register-2fa-authenticator-complete.js and reset-recovery-codes.js.
PressToGoOn ==
    /\ \/ page = "complete" /\ Press("return")
       \/ page = "codes" /\ Press("register")
    /\ UNCHANGED timer

\* Mutant of TimerFires: as on Redirect.cshtml, the address is not found.
TimerThrows ==
    /\ timer
    /\ timer' = FALSE
    /\ UNCHANGED <<config, page, offers, going, asked, ret, server, changed>>

\* The timeout of signin-redirect.js.  Redirect.cshtml loads the script too, but has no
\* RedirectUrl: there the handler throws.
TimerFires ==
    /\ timer
    /\ timer' = FALSE
    /\ going' = IF page = "successful" THEN "return" ELSE going
    /\ UNCHANGED <<config, page, offers, asked, ret, server, changed>>

\* The meta element of Redirect.cshtml.
Refresh ==
    /\ page = "redirect" /\ going = "none"
    /\ going' = "return"
    /\ UNCHANGED <<config, page, offers, timer, asked, ret, server, changed>>

-----------------------------------------------------------------------------
\* Requests without a form.

\* Whoever is not signed in is sent to the login, with this address to return to.
Challenge ==
    /\ going \in Local /\ session # "in"
    /\ ret' = going
    /\ UNCHANGED <<config, server>>
    /\ Show("login")

\* The page that completes a registration marks the authenticator as verified, and does not
\* enable the second factor.
ShowPage ==
    /\ going \in {"successful", "register", "authenticator", "complete"} /\ session = "in"
    /\ factor' = (factor \/ going = "complete")
    /\ UNCHANGED <<config, ret, denied, session, twoFactor>>
    /\ Show(going)

Deregister ==
    /\ going = "deregister" /\ session = "in"
    /\ factor' = FALSE /\ twoFactor' = FALSE
    /\ going' = "register"
    /\ changed' = (changed \/ factor)
    /\ UNCHANGED <<config, page, offers, timer, asked, ret, denied, session>>

\* ResetRecoveryCodes needs a verified authenticator.
ResetCodes ==
    /\ going = "codes" /\ session = "in"
    /\ UNCHANGED <<config, ret, server>>
    /\ Show(IF factor THEN "codes" ELSE "error")

\* Mutant of CancelRegistration: the user stays signed in.
CancelStaying ==
    /\ going = "cancel" /\ session = "in"
    /\ RedirectTo("home")
    /\ UNCHANGED <<config, ret, server>>

\* Cancel2FARegistration: the page passes redirectUrl, the action takes returnUrl, so
\* that there is no address to return to.
CancelRegistration ==
    /\ going = "cancel" /\ session = "in"
    /\ session' = "out"
    /\ RedirectTo("home")
    /\ UNCHANGED <<config, ret, denied, account>>

\* The return address: one of these actions after a challenge, or the authorize endpoint,
\* which answers the client unless the user has to log in first.
Return ==
    /\ going = "return"
    /\ \/ /\ ret # "client"
          /\ ret' = "client"
          /\ RedirectTo(ret)
          /\ UNCHANGED <<config, server>>
       \/ /\ ret = "client"
          /\ denied' = (denied /\ session = "in")
          /\ UNCHANGED <<config, ret, session, account>>
          /\ Show(IF session = "in" \/ denied THEN "client" ELSE "login")

ShowHome ==
    /\ going = "home"
    /\ UNCHANGED <<config, ret, server>>
    /\ Show("home")

Arrive == Challenge \/ ShowPage \/ Deregister \/ ResetCodes \/ CancelRegistration
          \/ Return \/ ShowHome

\* Another window signs out (only while the return address is the client's, a bound:
\* an address within an address is not followed up), registers or removes an authenticator.
Elsewhere ==
    /\ session = "in"
    /\ \/ ret = "client" /\ session' = "out" /\ UNCHANGED <<account, changed>>
       \/ ~twoFactor /\ factor' = TRUE /\ twoFactor' = TRUE /\ UNCHANGED <<session, changed>>
       \/ factor /\ factor' = FALSE /\ twoFactor' = FALSE /\ changed' = TRUE /\ UNCHANGED session
    /\ UNCHANGED <<config, page, offers, timer, going, asked, ret, denied>>

Next ==
    \/ Authorize \/ LoginPost \/ VerifyPost \/ CancelPost \/ OtpPost \/ OtpChallenged \/ LogOut
    \/ PressOnSuccessful \/ PressOnRegister \/ PressOnAuthenticator \/ PressToGoOn
    \/ TimerFires \/ Refresh
    \/ Arrive
    \/ Elsewhere

\* The browser runs its timers and meta elements, and a request is answered.  Users
\* and other windows may stop at any time.
Fairness == WF_vars(TimerFires) /\ WF_vars(Refresh) /\ WF_vars(Arrive)

Spec == Init /\ [][Next]_vars /\ Fairness

=============================================================================
