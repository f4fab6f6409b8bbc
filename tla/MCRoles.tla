------------------------------- MODULE MCRoles -------------------------------
EXTENDS RolesProperties, TLC

AnyList == SUBSET Role

Symmetry == Permutations(Role) \cup Permutations(Fun) \cup Permutations(Worker)

=============================================================================
