------------------------- MODULE ContractsProperties -------------------------
(***************************************************************************)
(* What applying security contracts must satisfy.                           *)
(***************************************************************************)
EXTENDS Contracts

\* No two applications list the same permission, as security-contracts.md:27 asks.
\* The code does not check it, and SecurityContractApplicationService.cs:296 assigns
\* a permission another application created.
DeclaredByOne ==
    \A a, b \in App : a # b => Declarable[a] \cap Declarable[b] = {}

\* No permission outlives its last assignment: the removal of a permission's last
\* function and the sweep are in one transaction, and the update of the
\* application's row keeps a second contract of the application from dropping
\* the other assignment meanwhile (SecurityContractApplicationService.cs:157-164).
\* A contract without a function list takes that row only after its sweep, so one
\* that was overtaken may remove too little: nothing is promised once it commits.
NoPermissionOutlivesItsFunctions ==
    DeclaredByOne /\ (intact \/ ~bared) => Unassigned(grants, perms) = {}

\* The adds, removals and sweep of an update leave exactly what the contract
\* listed, functions and assignments, as long as no contract was committed on
\* rows another one had changed (SecurityContractApplicationService.cs:166-248).
DeclaredIsInForce ==
    intact /\ DeclaredByOne => \A a \in apps : Loaded(a) = inForce[a]

\* Contracts behave as if each were applied in one step, that puts in force what it
\* lists and touches no other application, until one is saved on outdated rows: the
\* transaction, the names' uniqueness and the sweep together give "a desired A3S state"
\* (security-contracts.md:3, SecurityContractApplicationService.cs:116-164).
Desired == INSTANCE DesiredState WITH
    Application <- App, Fun <- AppFun, Permission <- Perm,
    known <- apps, inForce <- [a \in App |-> Loaded(a)], existing <- perms,
    promised <- intact /\ DeclaredByOne

ImplementsDesiredState == Desired!Spec

\* Applying the contract in force again changes nothing, of this application or
\* of another, whose permissions the sweep reads too: "idempotent definition of a
\* desired A3S state" (security-contracts.md:3).
ReapplyingChangesNothing ==
    [][\A w \in Worker :
         CommitA3S(w) /\ intact' /\ DeclaredByOne
           /\ req[w].app \in apps /\ req[w].decl = inForce[req[w].app]
           => UNCHANGED <<apps, owner, grants, perms>>]_vars

\* An application has its API resource once its first contract is done, unless the
\* process stopped between the two commits of that contract: no later contract, of this
\* application or of another, takes it away (SecurityContractService.cs:83-88).
ResourcesFollowApplications ==
    \A a \in apps \ (api \cup torn) :
        \E w \in Worker : Busy(w) /\ req[w].stage = "halfway" /\ req[w].app = a

=============================================================================
