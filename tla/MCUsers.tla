------------------------------- MODULE MCUsers -------------------------------
EXTENDS UsersProperties, TLC

CONSTANTS x, X, y

\* Two names that differ in case only, and another one.
UpperXY == [n \in {x, X, y} |-> IF n = x THEN X ELSE n]

\* The search stops at the first save of a mode that overlaps another and the first name
\* that loses its normalized form.
UntilFirstMismatch == paired /\ ~renamed

Symmetry == Permutations(User) \cup Permutations(Worker) \cup Permutations(Settings)

=============================================================================
