----------------------------- MODULE MCContracts -----------------------------
EXTENDS ContractsProperties, TLC

CONSTANTS a1, a2, p1

\* What the documentation asks of contracts: no two applications list the same
\* permission.
OwnPermissions == a1 :> {p1} @@ a2 :> {}

\* Once a contract without a function list was committed on outdated rows, only the
\* resources are still claimed; the loss of a commit is followed for one application.
UntilLittleIsClaimed == (intact \/ ~bared) /\ torn \subseteq {a2}

Symmetry == Permutations(AppFun) \cup Permutations(Worker)

=============================================================================
