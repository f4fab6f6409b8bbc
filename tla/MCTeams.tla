------------------------------- MODULE MCTeams -------------------------------
EXTENDS TeamsProperties, FiniteSets, TLC

\* Nothing is promised after a stale save, so the search stops there.
UntilFirstRace == intact

\* Every list but those of two teams: none, one (its own parent or another's
\* child) and all.
ShortLists == {S \in SUBSET Team : Cardinality(S) # 2}

AnyList == SUBSET Team

Symmetry == Permutations(Team) \cup Permutations(User) \cup Permutations(Worker)

=============================================================================
