------------------------------ MODULE MCAccount ------------------------------
EXTENDS AccountProperties, TLC

CONSTANTS c1, c2

\* Recovery codes are drawn twice, one code each time, or once, two codes.
TwoDraws == {{c1}, {c2}}
OneDraw == {{c1, c2}}

\* The search stops at the first write of a stale request; and at the first tokens, for
\* no action of the account depends on them.
UntilOvertaken == clean /\ ~issued

Symmetry == Permutations(Browser) \cup Permutations(Key)

=============================================================================
