--------------------- MODULE BusinessFunctionsProperties ---------------------
(***************************************************************************)
(* What the functions of the business must satisfy.                         *)
(***************************************************************************)
EXTENDS BusinessFunctions

\* What the documentation asks of contracts and no code checks: a permission name is
\* one application's (security-contracts.md:27).
DeclaredByOne == \A a, b \in App : a # b => Declarable[a] \cap Declarable[b] = {}

\* "Functions can only contain permissions originating from a single application"
\* (glossary.md:43), its own, whatever contracts sweep and however a function is
\* moved to another application, as long as no request saved on outdated checks
\* (FunctionService.cs:143-170, and 132-174 of the default configuration).
FunctionsWithinOneApplication ==
    intact /\ DeclaredByOne =>
        \A f \in funs : app[f] # None => perms[f] \subseteq PermsOf(grants, app[f])

\* A default configuration that gives every function a permission leaves the
\* application with exactly the functions and permissions it lists, those of other
\* applications that have their names included.
DefaultsAreInForce ==
    [][\A w \in Worker \ stale :
         LET r == req[w] IN
         CommitDefaults(w) /\ r.reached = r.names =>
             /\ {f \in funs' : app'[f] = r.app} = r.names
             /\ \A f \in r.names : perms'[f] = r.asked[f]]_vars

-----------------------------------------------------------------------------
\* What the code asserts and does not hold.

\* A function "cannot" be created without its application (FunctionService.cs:137):
\* a default function without permissions ends the loop over the list
\* (SecurityContractDefaultConfigurationService.cs:99-100), and those after it stay,
\* with their permissions and in their roles, but belong to no application.
FunctionsHaveApplications == \A f \in funs : app[f] # None

=============================================================================
