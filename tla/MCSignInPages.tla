---------------------------- MODULE MCSignInPages ----------------------------
EXTENDS SignInPagesProperties, TLC

=============================================================================
