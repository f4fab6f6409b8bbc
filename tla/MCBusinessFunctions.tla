------------------------- MODULE MCBusinessFunctions -------------------------
EXTENDS BusinessFunctionsProperties, TLC

CONSTANTS a1, a2, g1, g2, g3, p1, p2

\* The first application has two functions of its own to declare a permission in.
Owners == g1 :> a1 @@ g2 :> a1 @@ g3 :> a2
OwnPermissions == a1 :> {p1} @@ a2 :> {p2}

\* A worker that was overtaken can only give up or end what is promised.
UntilOvertaken == stale = {} /\ intact

Symmetry == Permutations(Fun) \cup Permutations(Worker)

=============================================================================
