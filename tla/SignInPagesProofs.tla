--------------------------- MODULE SignInPagesProofs ---------------------------
(***************************************************************************)
(* What the scripts of the sign-in pages never do, in every configuration   *)
(* and whatever other windows do.                                           *)
(***************************************************************************)
EXTENDS SignInPagesProperties, TLAPS

\* Where a click leads while its page is still shown.
ClicksLead ==
    /\ asked = "register" =>
         /\ page \in {"successful", "codes"} /\ going = "register"
         /\ page = "successful" => ~timer
    /\ page = "register" /\ asked = "cancel" =>
         going = "cancel" \/ (going = "home" /\ session # "in")
    /\ asked = "codes" => page = "register" /\ offers

\* What the registration page offers was true when it was rendered.
OffersWereTrue == page = "register" /\ offers => factor \/ changed

IInv == TypeOK /\ ClicksLead /\ OffersWereTrue

LEMMA InitInv == Init => IInv
BY DEF Init, IInv, TypeOK, ClicksLead, OffersWereTrue, Page, Target, Local

\* A page that arrives has no click to answer.
LEMMA ShowKeepsInv ==
  ASSUME IInv, NEW p \in Page, Show(p),
         config' = config, ret' \in Local \cup {"client"},
         session' \in {"out", "half", "in"}, denied' \in BOOLEAN, factor' \in BOOLEAN,
         twoFactor' \in BOOLEAN
  PROVE  IInv'
BY DEF Show, IInv, TypeOK, ClicksLead, OffersWereTrue, Page, Target, Local

LEMMA FormsKeepInv ==
  ASSUME IInv,
         \/ Authorize \/ LoginPost \/ VerifyPost \/ CancelPost \/ OtpPost \/ OtpChallenged
         \/ LogOut
  PROVE  IInv'
<1> USE DEF IInv, account, server
<1>1. CASE Authorize
  BY <1>1, ShowKeepsInv DEF Authorize, TypeOK, Page
<1>2. CASE LoginPost
  <2>1. CASE \E p \in {"verify", "redirect"} : Show(p)
    BY <1>2, <2>1, ShowKeepsInv DEF LoginPost, TypeOK, Page
  <2>2. CASE RedirectTo(AfterPassword)
    BY <1>2, <2>2 DEF LoginPost, RedirectTo, AfterPassword, TypeOK, ClicksLead, OffersWereTrue,
                      Page, Target, Local
  <2> QED BY <1>2, <2>1, <2>2 DEF LoginPost
<1>3. CASE VerifyPost
  BY <1>3 DEF VerifyPost, RedirectTo, TypeOK, ClicksLead, OffersWereTrue, Target, Local
<1>4. CASE CancelPost
  <2>1. CASE Show("redirect")
    BY <1>4, <2>1, ShowKeepsInv DEF CancelPost, TypeOK, Page
  <2>2. CASE RedirectTo("return") \/ RedirectTo("home")
    BY <1>4, <2>2 DEF CancelPost, RedirectTo, TypeOK, ClicksLead, OffersWereTrue, Target, Local
  <2> QED BY <1>4, <2>1, <2>2 DEF CancelPost
<1>5. CASE OtpPost
  BY <1>5 DEF OtpPost, RedirectTo, TypeOK, ClicksLead, OffersWereTrue, Target, Local
<1>6. CASE LogOut
  BY <1>6, ShowKeepsInv DEF LogOut, TypeOK, Page
<1>7. CASE OtpChallenged
  BY <1>7, ShowKeepsInv DEF OtpChallenged, TypeOK, Page, Local
<1> QED BY <1>1, <1>2, <1>3, <1>4, <1>5, <1>6, <1>7

LEMMA ScriptsKeepInv ==
  ASSUME IInv,
         \/ PressOnSuccessful \/ PressOnRegister \/ PressOnAuthenticator \/ PressToGoOn
         \/ TimerFires \/ Refresh
  PROVE  IInv'
<1> USE DEF IInv, TypeOK, ClicksLead, OffersWereTrue, Target, Local, account, server
<1>1. CASE PressOnSuccessful
  BY <1>1 DEF PressOnSuccessful, Press
<1>2. CASE PressOnRegister
  BY <1>2 DEF PressOnRegister, Press, OfferedOnRegister
<1>3. CASE PressOnAuthenticator
  BY <1>3 DEF PressOnAuthenticator, Press
<1>4. CASE PressToGoOn
  BY <1>4 DEF PressToGoOn, Press
<1>5. CASE TimerFires
  <2>1. /\ UNCHANGED <<config, page, offers, asked, ret, denied, session, account, changed>>
        /\ timer /\ timer' = FALSE
        /\ going' = IF page = "successful" THEN "return" ELSE going
    BY <1>5 DEF TimerFires
  <2>2. TypeOK'
    BY <2>1
  <2>3. ClicksLead'
    <3>1. ~(asked = "register" /\ page = "successful")
      BY <2>1
    <3>2. CASE page = "successful"
      BY <2>1, <3>1, <3>2
    <3>3. CASE page # "successful"
      BY <2>1, <3>3
    <3> QED BY <3>2, <3>3
  <2> QED BY <2>1, <2>2, <2>3
<1>6. CASE Refresh
  BY <1>6 DEF Refresh
<1> QED BY <1>1, <1>2, <1>3, <1>4, <1>5, <1>6

LEMMA AnswersKeepInv ==
  ASSUME IInv, Arrive
  PROVE  IInv'
<1>1. CASE Challenge
  BY <1>1, ShowKeepsInv DEF Challenge, IInv, TypeOK, Page, account, server
<1>2. CASE ShowPage
  BY <1>2, ShowKeepsInv DEF ShowPage, IInv, TypeOK, Page, account
<1>3. CASE Deregister
  BY <1>3 DEF Deregister, IInv, TypeOK, ClicksLead, OffersWereTrue, Target, Local
<1>4. CASE ResetCodes
  BY <1>4, ShowKeepsInv DEF ResetCodes, IInv, TypeOK, Page, account, server
<1>5. CASE CancelRegistration
  BY <1>5 DEF CancelRegistration, RedirectTo, IInv, TypeOK, ClicksLead, OffersWereTrue, Target, Local,
               account
<1>6. CASE Return
  <2>1. CASE ret # "client"
    BY <1>6, <2>1 DEF Return, RedirectTo, IInv, TypeOK, ClicksLead, OffersWereTrue, Target, Local, account, server
  <2>2. CASE ret = "client"
    BY <1>6, <2>2, ShowKeepsInv DEF Return, IInv, TypeOK, Page, account
  <2> QED BY <2>1, <2>2
<1>7. CASE ShowHome
  BY <1>7, ShowKeepsInv DEF ShowHome, IInv, TypeOK, Page, account, server
<1> QED BY <1>1, <1>2, <1>3, <1>4, <1>5, <1>6, <1>7 DEF Arrive

LEMMA NextKeepsInv == IInv /\ [Next]_vars => IInv'
<1> SUFFICES ASSUME IInv, [Next]_vars PROVE IInv'
  OBVIOUS
<1>1. CASE Elsewhere
  BY <1>1 DEF Elsewhere, account, IInv, TypeOK, ClicksLead, OffersWereTrue
<1>2. CASE UNCHANGED vars
  BY <1>2 DEF vars, server, account, IInv, TypeOK, ClicksLead, OffersWereTrue
<1> QED BY <1>1, <1>2, FormsKeepInv, ScriptsKeepInv, AnswersKeepInv DEF Next

\* The invariant of the pages: types, where clicks lead, and offers that were true once.
THEOREM Invariant == Spec => []IInv
BY InitInv, NextKeepsInv, PTL DEF Spec

\* The pages' variables keep their types.
THEOREM TypeCorrect == Spec => []TypeOK
<1>1. IInv => TypeOK
  BY DEF IInv
<1> QED BY Invariant, <1>1, PTL

-----------------------------------------------------------------------------
\* Which steps show another page.
LEMMA PageChanges ==
  ASSUME [Next]_vars, page' # page
  PROVE  \/ Authorize \/ LoginPost \/ CancelPost \/ OtpChallenged \/ LogOut
         \/ Challenge \/ ShowPage \/ ResetCodes \/ Return \/ ShowHome
BY DEF Next, vars, Arrive, VerifyPost, OtpPost, PressOnSuccessful, PressOnRegister,
       PressOnAuthenticator, PressToGoOn, Press, TimerFires, Refresh, Deregister,
       CancelRegistration, RedirectTo, Elsewhere

\* The timer never replaces the choice to register (signin-redirect.js:3-14).
THEOREM ChoicesAreReached == Spec => ChosenRegistrationIsReached
<1>1. IInv /\ [Next]_vars =>
        [asked = "register" /\ page' # page => page' \in {"register", "login"}]_vars
  BY PageChanges DEF IInv, ClicksLead, Authorize, LoginPost, CancelPost, OtpChallenged, LogOut,
     Challenge, ShowPage, ResetCodes, Return, ShowHome, Show
<1> QED BY Invariant, <1>1, PTL DEF Spec, ChosenRegistrationIsReached

\* Cancelling an enforced registration signs the user out before the next page
\* (AccountController.cs:224-228), although its return address is lost.
THEOREM CancellingSignsOut == Spec => CancelEndsTheSession
<1>1. IInv /\ [Next]_vars =>
        [page = "register" /\ asked = "cancel" /\ page' # page => session' # "in"]_vars
  BY PageChanges DEF IInv, ClicksLead, Authorize, LoginPost, CancelPost, OtpChallenged, LogOut,
     Challenge, ShowPage, ResetCodes, Return, ShowHome, server
<1> QED BY Invariant, <1>1, PTL DEF Spec, CancelEndsTheSession

\* The offer to reset the recovery codes is refused only to whom the authenticator was
\* removed since the page was rendered (AccountController.cs:295).
THEOREM OffersHold == Spec => OffersAreAccepted
<1>1. IInv /\ [Next]_vars => [asked = "codes" /\ page' = "error" => changed]_vars
  <2> SUFFICES ASSUME IInv, [Next]_vars, asked = "codes", page' = "error" PROVE changed
    BY DEF vars
  <2>1. page = "register" /\ offers /\ page' # page
    BY DEF IInv, ClicksLead
  <2>2. Challenge \/ ShowPage \/ ResetCodes \/ Return \/ ShowHome
    BY <2>1, PageChanges DEF Authorize, LoginPost, CancelPost, OtpChallenged, LogOut
  <2>3. ~Challenge /\ ~ShowPage /\ ~Return /\ ~ShowHome
    <3>1. ~Challenge
      BY DEF Challenge, Show
    <3>2. ~ShowPage
      BY DEF ShowPage, Show
    <3>3. ~Return
      BY <2>1 DEF Return, RedirectTo, Show
    <3>4. ~ShowHome
      BY DEF ShowHome, Show
    <3> QED BY <3>1, <3>2, <3>3, <3>4
  <2>4. ResetCodes /\ ~factor
    BY <2>2, <2>3 DEF ResetCodes, Show
  <2> QED BY <2>1, <2>4 DEF IInv, OffersWereTrue
<1> QED BY Invariant, <1>1, PTL DEF Spec, OffersAreAccepted

=============================================================================
