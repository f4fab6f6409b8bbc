------------------------------- MODULE MCTerms -------------------------------
EXTENDS TermsProperties, TLC

Symmetry == Permutations(Entry) \cup Permutations(Team) \cup Permutations(Worker)

\* Two workers have nothing to overtake after the first time one did.
UntilOvertaken == intact

=============================================================================
