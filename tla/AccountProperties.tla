-------------------------- MODULE AccountProperties --------------------------
(***************************************************************************)
(* What an account must satisfy, whoever changes it.                        *)
(***************************************************************************)
EXTENDS Account

Quiet == \A p \in Process : req[p] = Idle

\* While requests do not overtake one another or stop half-way, two-factor
\* authentication is on only with an authenticator that is verified and whose
\* one-time password was accepted: the login can be finished, and opening the
\* registration page again does not draw a new key (AccountController.cs:640-656).
EnabledHasProvenAuthenticator ==
    clean /\ Quiet /\ user.enabled => token.verified /\ token.key \in proven

\* Whatever overlaps and wherever a request stops: the factor is on only for a user who has
\* once given a one-time password, although the page after a registration verifies an
\* authenticator without one and every request writes back the factor it has loaded
\* (AccountController.cs:253,685, UserRepository.cs:190).
FactorTakesAProof == user.enabled => proven # {}

\* While requests do not overtake one another or stop half-way, a recovery code
\* signs one browser in, whatever was registered, removed and drawn in between
\* (CustomUserStore.cs:36-73).
CodesAdmitOnce == clean => ~again

\* Under the same condition nothing brings a deleted user back: every write of the
\* row is a write of all its columns (UserRepository.cs:113-121,186-193).
DeletedStaysDeleted == [][clean' /\ user.deleted => user'.deleted]_vars

-----------------------------------------------------------------------------
\* What the schema says and does not hold.

\* "The system will treat this as a deleted record" (V0__initial_migration.sql:197), and
\* IsActiveAsync is what tells whether tokens may be issued
\* (IdentityWithAdditionalClaimsProfileService.cs:196-201): none are for a deleted user.
DeletedUsersGetNoTokens == [][issued' # issued => ~user.deleted]_vars

=============================================================================
