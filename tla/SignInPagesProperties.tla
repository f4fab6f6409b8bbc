------------------------ MODULE SignInPagesProperties ------------------------
(***************************************************************************)
(* What a user may expect of the sign-in pages.                             *)
(***************************************************************************)
EXTENDS SignInPages

\* A click on the offer to reset the recovery codes is no error, unless the authenticator was
\* removed since the page was rendered, by another window or by an earlier click on the
\* same page (Register2FA.cshtml:32-41, AccountController.cs:296).
OffersAreAccepted == [][asked = "codes" /\ page' = "error" => changed]_vars

\* Whoever chooses to register or maintain the second factor gets there, or to the login if
\* the session has ended: the timer that was to return to the client does not interfere,
\* even while the page is still being left (signin-redirect.js:3-14).
ChosenRegistrationIsReached ==
    [][asked = "register" /\ page' # page => page' \in {"register", "login"}]_vars

\* The pages that say "You are now being returned to the application" are left, whatever
\* the user does on them (LoginSuccessful.cshtml:3, Redirect.cshtml:3).
WaitingPagesAreLeft ==
    /\ page = "successful" ~> page # "successful"
    /\ page = "redirect" ~> page # "redirect"

\* Whoever stops clicking gets a page in answer, but for Cancel on the authenticator's page,
\* which does nothing (CancelLeavesRegistration below).
\* (Who presses Deregister on the same page again and again may wait forever.)
Click == PressOnSuccessful \/ PressOnRegister \/ PressOnAuthenticator \/ PressToGoOn
ClicksAreAnswered ==
    <>[][~Click]_vars =>
    ((asked # "none" /\ ~(page = "authenticator" /\ asked = "cancel")) ~> asked = "none")

\* Whoever cancels an enforced registration on its first page, and does not change their
\* mind, is signed out by the time the next page arrives (AccountController.cs:224-227).
CancelEndsTheSession ==
    [][page = "register" /\ asked = "cancel" /\ page' # page => session' # "in"]_vars

-----------------------------------------------------------------------------
\* What the code promises and does not hold.

\* The authenticator's page has a Cancel button as well, and its model the address for the
\* "Entry point into cancel registration of 2FA workflow" (AccountController.cs:222,666):
\* whoever presses it leaves the page.
CancelLeavesRegistration == (asked = "cancel" /\ page = "authenticator") ~> page # "authenticator"

=============================================================================
