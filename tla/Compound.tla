------------------------------ MODULE Compound ------------------------------
(***************************************************************************)
(* What A3S promises of a compound hierarchy (teams of teams, roles of      *)
(* roles), whatever the handlers, their reads and their order: as long as   *)
(* no save was made on outdated checks ("intact"), a node only ever gains   *)
(* childless children, and a node with children has no direct members.      *)
(* Teams and Roles implement this specification.                            *)
(***************************************************************************)
CONSTANTS Node,     \* teams, or roles
          Member    \* users that can be direct members of a node

VARIABLES kids,     \* the children of each node: rows of team_team or role_role
          members,  \* the direct members of each node: rows of user_team
          intact    \* no save so far relied on a check that was outdated

vars == <<kids, members, intact>>

Leaf(n) == kids[n] = {}

TypeOK ==
    /\ kids \in [Node -> SUBSET Node]
    /\ members \in [Node -> SUBSET Member]
    /\ intact \in BOOLEAN

Init ==
    /\ kids = [n \in Node |-> {}]
    /\ members = [n \in Node |-> {}]
    /\ intact = TRUE

-----------------------------------------------------------------------------
\* The child list of p becomes S; its members must be gone if S is not empty.
Compose(p, S) ==
    /\ \A c \in S : Leaf(c)
    /\ S # {} => members[p] = {}
    /\ kids' = [kids EXCEPT ![p] = S]
    /\ UNCHANGED <<members, intact>>

\* p becomes a childless node whose members are M.
Populate(p, M) ==
    /\ kids' = [kids EXCEPT ![p] = {}]
    /\ members' = [members EXCEPT ![p] = M]
    /\ UNCHANGED intact

\* m becomes a member of exactly the nodes in S, all of them childless.
Join(m, S) ==
    /\ \A n \in S : Leaf(n)
    /\ members' = [n \in Node |-> IF n \in S THEN members[n] \cup {m}
                                             ELSE members[n] \ {m}]
    /\ UNCHANGED <<kids, intact>>

\* A save on outdated checks: nothing is promised from here on.
Race ==
    /\ intact' = FALSE
    /\ kids' \in [Node -> SUBSET Node]
    /\ members' \in [Node -> SUBSET Member]

Next ==
    \/ \E p \in Node, S \in SUBSET Node : Compose(p, S)
    \/ \E p \in Node, M \in SUBSET Member : Populate(p, M)
    \/ \E m \in Member, S \in SUBSET Node : Join(m, S)
    \/ Race

Spec == Init /\ [][Next]_vars

-----------------------------------------------------------------------------
\* Every set of nodes has one whose children outside itself are outside the
\* set: the only cycle a hierarchy can hold is a node that is its own child.
OnlySelfLoops ==
    \A S \in SUBSET Node : S # {} => \E n \in S : kids[n] \cap S \subseteq {n}

\* A compound node has no direct members.
NoMembersInCompound == \A n \in Node : Leaf(n) \/ members[n] = {}

\* What the hierarchy promises while no save relied on outdated checks.
Sound == intact => OnlySelfLoops /\ NoMembersInCompound

=============================================================================
