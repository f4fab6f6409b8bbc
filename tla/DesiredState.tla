---------------------------- MODULE DesiredState ----------------------------
(***************************************************************************)
(* What A3S promises of security contracts, whatever is read and saved in   *)
(* between: applying a contract puts what it lists in force at once, for    *)
(* its application and no other, and a permission exists exactly as long    *)
(* as a function in force contains it.  Contracts implements this           *)
(* specification.                                                           *)
(***************************************************************************)
CONSTANTS Application, Fun, Permission,
          Declarable    \* the permissions each application may list

VARIABLES known,     \* applications a contract was applied for
          inForce,   \* what is in force for each application
          existing,  \* the permissions that exist
          promised   \* no contract so far was saved on outdated rows, and none may
                     \* list a permission of another application

vars == <<known, inForce, existing, promised>>

\* Function names, and the permissions of each.
Declaration == [names: SUBSET Fun, perms: [Fun -> SUBSET Permission]]

Init ==
    /\ known = {} /\ existing = {}
    /\ inForce = [a \in Application |-> [names |-> {}, perms |-> [f \in Fun |-> {}]]]
    /\ promised \in BOOLEAN

Contained(declarations) ==
    UNION {declarations[a].perms[f] : a \in Application, f \in Fun}

-----------------------------------------------------------------------------
\* The contract d of application a is applied; no other application has a function that
\* it lists.
Put(a, d) ==
    /\ \A f \in Fun : d.perms[f] \subseteq Declarable[a]
    /\ \A b \in Application \ {a} : inForce[b].names \cap d.names = {}
    /\ known' = known \cup {a}
    /\ inForce' = [inForce EXCEPT ![a] = d]
    /\ existing' = Contained(inForce')
    /\ UNCHANGED promised

\* A save on outdated rows: nothing is promised from here on.
Race ==
    /\ promised' = FALSE
    /\ known' \in SUBSET Application
    /\ inForce' \in [Application -> Declaration]
    /\ existing' \in SUBSET Permission

Next ==
    \/ \E a \in Application, d \in Declaration : Put(a, d)
    \/ Race

Spec == Init /\ [][Next]_vars

=============================================================================
